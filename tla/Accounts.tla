------------------------------ MODULE Accounts ------------------------------
(* Accounts and what authenticates them: passwords, sessions, one-time        *)
(* links, the login throttle, and the administrator's operations on them.     *)
(* A request runs from await to await; a transaction commits in one step.    *)
(* Audit rows are written in the transaction of their change and left out.   *)
EXTENDS Integers, FiniteSetsExt

CONSTANTS
    Users,          \* usernames
    Slots,          \* requests that can be in flight at once
    Sessions, Links,            \* rows the tables can hold (bounds)
    MaxPassword,    \* bound: passwords are 1..MaxPassword, 0 is a placeholder
    FreeAttempts, BaseSeconds, MaxSeconds,  \* the login throttle, in ticks
    SessionTtl, LinkTtl,        \* lifetimes, in ticks
    MaxFailures,    \* bound on the failures counted for a name
    MaxTime         \* bound: the clock stops here

ASSUME AccountsAssumption ==
    /\ {MaxPassword, BaseSeconds, MaxSeconds, SessionTtl, LinkTtl} \subseteq Nat \ {0}
    /\ {FreeAttempts, MaxFailures, MaxTime} \subseteq Nat

\* A fact of arithmetic the provers lack, evaluated by TLC.
ASSUME PowerAssumption == \A n \in 0..MaxFailures : 2^n \in Nat

VARIABLES
    now,
    registration,   \* settings.registration_enabled
    user,           \* users: "none", or [disabled, password]
    session,        \* sessions: "none", or [user, expires] and, as history, the
                    \* password it rests on and whether its request was overtaken
    link,           \* account_links: "none", or [user, consumed, expires, uses]
    throttle,       \* LoginThrottle.entries: failures 0 for no entry
    req             \* the request each slot carries

vars == <<now, registration, user, session, link, throttle, req>>

None == [row |-> FALSE]
Is(r) == r # None
NoEntry == [failures |-> 0, lockedUntil |-> 0, last |-> 0]
FailedOnceAt0 ==
    [failures |-> 1, last |-> 0,
     lockedUntil |-> IF FreeAttempts = 0 THEN Min({BaseSeconds, MaxSeconds}) ELSE 0]
Idle == [pc |-> "idle"]
Passwords == 1..MaxPassword

Init ==
    /\ now = 1 /\ registration \in BOOLEAN
    /\ user = [u \in Users |-> None]
    /\ session = [i \in Sessions |-> None]
    /\ link = [l \in Links |-> None]
    /\ throttle \in [Users -> {NoEntry, FailedOnceAt0}]
    /\ req = [s \in Slots |-> Idle]

Enabled(u) == Is(user[u]) /\ ~user[u].disabled
Go(s, r) == req[s] = Idle /\ req' = [req EXCEPT ![s] = r]
Done(s) == req' = [req EXCEPT ![s] = Idle]
\* A committed change of user u overtakes the requests that already rest on the row.
Overtaken(r, u) == IF r.pc \in {"verified", "session"} /\ r.user = u
                   THEN [r EXCEPT !.stale = TRUE] ELSE r
Overtake(s, r, u) == req' = [t \in Slots |-> IF t = s THEN r ELSE Overtaken(req[t], u)]

-----------------------------------------------------------------------------
(* What the hooks accept.                                                    *)

\* SessionService.resolve: known, unexpired, of an enabled user.
Resolves(i) == Is(session[i]) /\ session[i].expires > now /\ Enabled(session[i].user)

RevokedOfNobody(u) == session           \* Seeded bug: the delete is missing
RevokedOf(u) == [i \in Sessions |-> IF Is(session[i]) /\ session[i].user = u
                                    THEN None ELSE session[i]]

-----------------------------------------------------------------------------
(* The throttle.                                                             *)

\* live(): an entry without a lock whose last failure is old is forgotten.
Entry(u) == LET e == throttle[u]
            IN IF e.lockedUntil <= now /\ now - e.last > MaxSeconds THEN NoEntry ELSE e

LockedStrictly(u) == Entry(u).lockedUntil > now + 1     \* Seeded bug: off by one
Locked(u) == Entry(u).lockedUntil > now

Failed(u) ==
    LET n == Entry(u).failures + 1
        over == n - FreeAttempts
    IN [failures |-> n, last |-> now,
        lockedUntil |-> IF over > 0 THEN now + Min({BaseSeconds * 2^(over - 1), MaxSeconds})
                        ELSE Entry(u).lockedUntil]

-----------------------------------------------------------------------------
(* Sign-up, login, logout.                                                   *)

\* sessions.create, the last await of sign-up, login and set-password.
CreateSession(s) ==
    /\ req[s].pc = "session"
    /\ \E i \in Sessions :
         /\ ~Is(session[i])
         /\ session' = [session EXCEPT ![i] =
                [row |-> TRUE, user |-> req[s].user, expires |-> now + SessionTtl,
                 password |-> req[s].password, stale |-> req[s].stale]]
    /\ Done(s)
    /\ UNCHANGED <<now, registration, user, link, throttle>>

SessionFor(u, p, stale) == [pc |-> "session", user |-> u, password |-> p, stale |-> stale]

\* The setting is read, the password hashed ...
SignUp(s, u, p) ==
    /\ registration
    /\ Go(s, [pc |-> "insert", user |-> u, password |-> p])
    /\ UNCHANGED <<now, registration, user, session, link, throttle>>

\* ... and the row inserted unless the name is taken.
SignUpInsert(s) ==
    /\ req[s].pc = "insert"
    /\ LET u == req[s].user
       IN IF Is(user[u]) THEN Done(s) /\ UNCHANGED user
          ELSE /\ user' = [user EXCEPT ![u] = [row |-> TRUE, disabled |-> FALSE,
                                               password |-> req[s].password]]
               /\ req' = [req EXCEPT ![s] = SessionFor(u, @.password, FALSE)]
    /\ UNCHANGED <<now, registration, session, link, throttle>>

\* The throttle is asked before the row is read.
Login(s, u, p) ==
    /\ ~Locked(u)
    /\ Go(s, [pc |-> "read", user |-> u, password |-> p, at |-> now])
    /\ throttle' = [throttle EXCEPT ![u] = Entry(u)]
    /\ UNCHANGED <<now, registration, user, session, link>>

\* The row answers; the password is verified against it while others run.
LoginRead(s) ==
    /\ req[s].pc = "read"
    /\ LET u == req[s].user
       IN req' = [req EXCEPT ![s] = [pc |-> "verified", user |-> u, password |-> @.password,
                    at |-> @.at, stale |-> FALSE,
                    ok |-> Enabled(u) /\ user[u].password = @.password]]
    /\ UNCHANGED <<now, registration, user, session, link, throttle>>

LoginEnd(s) ==
    /\ req[s].pc = "verified"
    /\ LET r == req[s]
       IN IF r.ok THEN /\ throttle' = [throttle EXCEPT ![r.user] = NoEntry]
                       /\ req' = [req EXCEPT ![s] = SessionFor(r.user, r.password, r.stale)]
          ELSE /\ throttle[r.user].failures < MaxFailures
               /\ throttle' = [throttle EXCEPT ![r.user] = Failed(r.user)]
               /\ Done(s)
    /\ UNCHANGED <<now, registration, user, session, link>>

Logout(i) ==
    /\ Resolves(i)
    /\ session' = [session EXCEPT ![i] = None]
    /\ UNCHANGED <<now, registration, user, link, throttle, req>>

-----------------------------------------------------------------------------
(* One-time links.                                                           *)

NewLink(u) == [row |-> TRUE, user |-> u, consumed |-> FALSE, expires |-> now + LinkTtl, uses |-> 0]

\* POST set-password: the token parses, the password is hashed, the clock read.
SetPassword(s, l, p) ==
    /\ Is(link[l])
    /\ Go(s, [pc |-> "consume", link |-> l, password |-> p, at |-> now])
    /\ UNCHANGED <<now, registration, user, session, link, throttle>>

ConsumableUntilExpiry(l, at) == link[l].expires > at    \* Seeded bug: isNull(consumedAt) dropped
Consumable(l, at) == ~link[l].consumed /\ link[l].expires > at

\* The transaction: the conditional UPDATE decides who uses the link; a
\* disabled user's link is rolled back to unconsumed; every other failure is
\* the same 404.
Consume(s) ==
    /\ req[s].pc = "consume"
    /\ LET l == req[s].link
           u == link[l].user
       IN IF Consumable(l, req[s].at) /\ Enabled(u)
          THEN /\ link' = [link EXCEPT ![l].consumed = TRUE, ![l].uses = @ + 1]
               /\ user' = [user EXCEPT ![u].password = req[s].password]
               /\ session' = RevokedOf(u)
               /\ Overtake(s, SessionFor(u, req[s].password, FALSE), u)
          ELSE Done(s) /\ UNCHANGED <<user, session, link>>
    /\ UNCHANGED <<now, registration, throttle>>

-----------------------------------------------------------------------------
(* The administrator; each change commits with its audit row.                *)

SetRegistration ==
    /\ registration' = ~registration
    /\ UNCHANGED <<now, user, session, link, throttle, req>>

\* A row with a placeholder nobody knows, and its setup link.
AdminCreate(u) ==
    /\ ~Is(user[u])
    /\ user' = [user EXCEPT ![u] = [row |-> TRUE, disabled |-> FALSE, password |-> 0]]
    /\ \E l \in Links : ~Is(link[l]) /\ link' = [link EXCEPT ![l] = NewLink(u)]
    /\ UNCHANGED <<now, registration, session, throttle, req>>

IssueLink(u) ==
    /\ Is(user[u])
    /\ \E l \in Links : ~Is(link[l]) /\ link' = [link EXCEPT ![l] = NewLink(u)]
    /\ UNCHANGED <<now, registration, user, session, throttle, req>>

\* The read only words the error: the UPDATE repeats its condition.
Disable(u) ==
    /\ Enabled(u)
    /\ user' = [user EXCEPT ![u].disabled = TRUE]
    /\ session' = RevokedOf(u)
    /\ req' = [t \in Slots |-> Overtaken(req[t], u)]
    /\ UNCHANGED <<now, registration, link, throttle>>

\* Enabling reads the row, and then updates it without a condition.
Enable(s, u) ==
    /\ Is(user[u]) /\ user[u].disabled
    /\ Go(s, [pc |-> "enable", user |-> u])
    /\ UNCHANGED <<now, registration, user, session, link, throttle>>

EnableCommit(s) ==
    /\ req[s].pc = "enable"
    /\ user' = [user EXCEPT ![req[s].user].disabled = FALSE]
    /\ Done(s)
    /\ UNCHANGED <<now, registration, session, link, throttle>>

Tick ==
    /\ now < MaxTime /\ now' = now + 1
    /\ UNCHANGED <<registration, user, session, link, throttle, req>>

Next ==
    \/ \E s \in Slots, u \in Users, p \in Passwords : SignUp(s, u, p) \/ Login(s, u, p)
    \/ \E s \in Slots, l \in Links, p \in Passwords : SetPassword(s, l, p)
    \/ \E s \in Slots : \/ SignUpInsert(s) \/ LoginRead(s) \/ LoginEnd(s)
                        \/ CreateSession(s) \/ Consume(s) \/ EnableCommit(s)
    \/ \E s \in Slots, u \in Users : Enable(s, u)
    \/ \E u \in Users : AdminCreate(u) \/ IssueLink(u) \/ Disable(u)
    \/ \E i \in Sessions : Logout(i)
    \/ SetRegistration \/ Tick

Spec == Init /\ [][Next]_vars

-----------------------------------------------------------------------------
(* Properties.                                                               *)

\* A session rests on the password its account has now and outlives no
\* disabling, unless its own request had read the account before the change
\* and inserted the session after it.
SessionsAreEntitled ==
    \A i \in Sessions : Is(session[i]) /\ ~session[i].stale =>
        /\ session[i].password = user[session[i].user].password
        /\ ~user[session[i].user].disabled

\* A one-time link sets one password, whatever runs beside it, and a link of a
\* disabled account is kept for the day it is enabled.
LinksWorkOnce == \A l \in Links : Is(link[l]) => link[l].uses = (IF link[l].consumed THEN 1 ELSE 0)

\* While a name is locked, the logins still under way are those that were
\* admitted no later than the failure that locked it.
LockAdmitsNobody ==
    \A s \in Slots : req[s].pc \in {"read", "verified"} =>
        LET e == throttle[req[s].user] IN e.lockedUntil > now => req[s].at <= e.last
=============================================================================
