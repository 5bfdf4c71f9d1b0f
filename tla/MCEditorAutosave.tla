-------------------------- MODULE MCEditorAutosave --------------------------
(* An instance of EditorAutosave for TLC: two tabs on an image of 8 by 6.    *)
EXTENDS EditorAutosave, TLC
CONSTANTS t1, t2
TwoTabs == {t1, t2}
Gesture(kind, x, y, w, h) == [kind |-> kind] @@ Geom(x, y, w, h)
\* A shape and a block well inside, a shape too small to keep, one past the margin.
SomeGestures == {Gesture("rect", 6, 6, 12, 12), Gesture("redact", 6, 6, 12, 12),
                 Gesture("rect", 4, 4, 4, 4), Gesture("rect", 20, 8, 32, 12)}
\* A frame dragged to the corner, and one around everything.
SomeFrames == {Geom(28, 22, 2, 2), Geom(-6, -6, 80, 80)}
=============================================================================
