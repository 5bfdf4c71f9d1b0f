---------------------------- MODULE MCFlatCache ----------------------------
(* Instances of FlatCache for TLC.                                          *)
EXTENDS FlatCache, TLC
CONSTANTS v1, v2
ViewerSymmetry == Permutations({v1, v2})
=============================================================================
