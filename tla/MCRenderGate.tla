---------------------------- MODULE MCRenderGate ----------------------------
(* An instance of RenderGate for TLC: four captures and four viewers compete *)
(* for two slots.                                                            *)
EXTENDS RenderGate, TLC
CONSTANTS k1, k2, k3, k4, c1, c2, c3, c4
FourKeys == {k1, k2, k3, k4}
FourCallers == {c1, c2, c3, c4}
=============================================================================
