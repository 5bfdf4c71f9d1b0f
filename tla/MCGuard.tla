------------------------------ MODULE MCGuard ------------------------------
(* An instance of Guard for TLC: one address in a crowd, two requests at once. *)
EXTENDS Guard, TLC
CONSTANTS k1, s1, s2
OneKey == {k1}
TwoSlots == {s1, s2}
WatchOpened == {"breaker_opened"}
Symmetric == Permutations(TwoSlots)
TwoRungs == <<1, 2>>
=============================================================================
