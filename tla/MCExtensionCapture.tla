------------------------- MODULE MCExtensionCapture -------------------------
(* Instances of ExtensionCapture and ExtensionPages for TLC, each of which    *)
(* runs while the other stays as it began.  Captures: two tabs, a viewport of *)
(* 5 rows at a scale of 1.25, documents below and above the height limit.     *)
(* Pages: two servers on one host and a token, which is typed and removed.    *)
EXTENDS ExtensionCapture, ExtensionPages
CONSTANTS t1, t2, o1, o2, host, k1
TwoTabs == {t1, t2}
SomeHeights == {4, 13}
SomeScrolls == {0, 2}
Symmetric == Permutations(TwoTabs)
OneHost == [o \in {o1, o2} |-> host]

VARIABLE runs   \* which of the two
CaptureRests == page[t1] = FreshPage(4, 0) /\ active = t1

\* Bound: three buttons of the options page, two and a capture, or one with a
\* capture and the popup.
Few == presses >= 2 => /\ popup.step = "closed"
                       /\ presses = 2 \/ \A c \in CaptureIds : capture[c] = NoCapture

BothInit ==
    /\ Init /\ ExtInit
    /\ \/ runs = "captures" /\ target = "chrome"
       \/ runs = "pages" /\ CaptureRests
BothNext ==
    \/ runs = "captures" /\ Next /\ UNCHANGED <<runs, extVars>>
    \/ runs = "pages" /\ ExtNext /\ Few' /\ UNCHANGED <<runs, vars>>

BothSpec == BothInit /\ [][BothNext]_<<runs, vars, extVars>>
=============================================================================
