--------------------------- MODULE MCEditorCanvas ---------------------------
(* An instance of EditorCanvas for TLC, with the program's own constants.    *)
EXTENDS EditorCanvas
At(x, y) == [x |-> x, y |-> y]
\* Inside off the pixel grid, at the far corner, and past the margin.
SomePoints == {At(401, 303), At(2557, 1598), At(2963, 600)}
\* Another tab's document: a narrow crop, a block over a box, a text.
SomeDocs ==
    {[crop |-> Geom(400, 200, 800, 600),
      shapes |-> <<[id |-> 90, kind |-> "rect", text |-> Blank, font |-> 0] @@ Geom(402, 400, 202, 100),
                   [id |-> 91, kind |-> "redact", text |-> Blank, font |-> 0] @@ Geom(480, 400, 160, 80)>>]}
=============================================================================
