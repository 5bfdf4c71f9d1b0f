----------------------------- MODULE MCAccounts -----------------------------
(* Instances of Accounts and AccountPages for TLC, each of which runs while   *)
(* the other stays as it began: one account with two requests at a time; the  *)
(* two pages with three accounts and a user of two pages of captures.         *)
EXTENDS Accounts, AccountPages, TLC
CONSTANTS u1, s1, s2, i1, l1,
          self, ann, bob, c1, c2, k1, b1
OneUser == {u1}
TwoSlots == {s1, s2}
OneSession == {i1}
OneLink == {l1}
Symmetric == Permutations(TwoSlots)

Places == [c \in {c1, c2} |-> [user |-> ann, page |-> IF c = c1 THEN 1 ELSE 2]]

VARIABLE runs   \* which of the two
AccountsRest == ~registration /\ throttle = [u \in Users |-> NoEntry]

\* A page whose handlers are through waits for a click.
PagesWait == InFlight = {} /\ UNCHANGED pagesVars

BothInit ==
    /\ Init /\ PagesInit
    /\ runs = "accounts" \/ (runs = "pages" /\ AccountsRest)
BothNext ==
    \/ runs = "accounts" /\ Next /\ UNCHANGED <<runs, pagesVars>>
    \/ runs = "pages" /\ (PagesNext \/ PagesWait) /\ UNCHANGED <<runs, vars>>

BothSpec == BothInit /\ [][BothNext]_<<runs, vars, pagesVars>>
=============================================================================
