-------------------------- MODULE MCRegionOverlay --------------------------
(* An instance of RegionOverlay for TLC: a list of four alike, one with an   *)
(* image in it, one below the fold, rounded, and one a fixed banner.         *)
EXTENDS RegionOverlay
SevenElements == 1..7
Tree == [e \in SevenElements |->
            CASE e = 1 -> <<2>> [] e = 2 -> <<3, 5, 6, 7>> [] e = 3 -> <<4>> [] OTHER -> <<>>]
NoSide == [width |-> 0, drawn |-> FALSE, alpha |-> 0]
ThinSide == [width |-> 1, drawn |-> TRUE, alpha |-> 4]
Plain(lo, hi) == [tag |-> "div", role |-> "", named |-> FALSE, heading |-> FALSE,
                  shown |-> TRUE, layout |-> FALSE, visible |-> TRUE,
                  borders |-> <<NoSide, NoSide, NoSide, NoSide>>, shadow |-> {}, radius |-> 0,
                  colour |-> Colour(0, 0), image |-> FALSE, position |-> "static",
                  overflow |-> "visible", box |-> [lo |-> lo, hi |-> hi]]
List == [Plain(2, 24) EXCEPT !.layout = TRUE]
APage == <<Plain(0, 30), List, Plain(2, 8), [Plain(3, 7) EXCEPT !.tag = "img"],
           Plain(9, 15),
           [Plain(17, 23) EXCEPT !.radius = 1, !.shadow = {[alpha |-> 4, blur |-> 0, spread |-> 0]}],
           [Plain(12, 18) EXCEPT !.position = "fixed", !.borders = <<ThinSide, ThinSide, ThinSide, NoSide>>]>>
\* An item goes, another is recoloured and clips, the image shrinks.
SomeChanges == {<<5, [APage[5] EXCEPT !.shown = FALSE]>>,
                <<3, [APage[3] EXCEPT !.colour = Colour(4, 2), !.overflow = "hidden",
                              !.borders[1] = ThinSide, !.box = [lo |-> 2, hi |-> 7]]>>}
SomeScrolls == {0, 8}
SomePoints == {4, 13}
=============================================================================
