-------------------------- MODULE CaptureGeometry --------------------------
(* The pure half of the extension's captures: which tiles a full-page        *)
(* capture takes, which rows of a tile land on which rows of the composite,  *)
(* and how a drag or a selected element becomes a crop of the image.         *)
(* CSS lengths are integers; the scale is a number of quarters, so that the  *)
(* fractional scales whose rounding matters (1.25, 1.5) are among them.      *)
EXTENDS Integers, Sequences, FiniteSetsExt

CONSTANTS
    Scale,          \* physical pixels per CSS pixel, in quarters
    ViewportHeight, \* CSS rows a snapshot shows
    MaxHeightPx,    \* MAX_IMAGE_HEIGHT_PX
    MinRegion       \* MIN_REGION_CSS_PX

\* A viewport is a device pixel high, however far the user zooms out.
ASSUME GeometryAssumption ==
    /\ {Scale, ViewportHeight, MaxHeightPx, MinRegion} \subseteq Nat \ {0}
    /\ ViewportHeight * Scale >= 4

Px(css) == (2 * css * Scale + 4) \div 8     \* Math.round(css * scale)
Clamped(v, high) == Min({high, Max({0, v})})

CssHeightCap == Max({1, (4 * MaxHeightPx) \div Scale})

MaxScroll(documentHeight) == Max({0, documentHeight - ViewportHeight})

\* planTiles: tiles a viewport apart; the last scrolls as far as the page does.
PlanTiles(documentHeight) ==
    LET height == Max({1, Min({documentHeight, CssHeightCap})})
        n == (height + ViewportHeight - 1) \div ViewportHeight
        TileAt(i) == LET y == (i - 1) * ViewportHeight
                     IN [scrollY |-> Min({y, MaxScroll(documentHeight)}), destY |-> y,
                         height |-> Min({ViewportHeight, height - y})]
    IN [canvasHeight |-> Px(height), tiles |-> [i \in 1..n |-> TileAt(i)]]

\* Rows of a snapshot: whole device pixels, either side of the scaled viewport.
SnapshotHeights == {(ViewportHeight * Scale) \div 4, (ViewportHeight * Scale + 3) \div 4}

NoRect == [dy |-> 0, sy |-> 0, dh |-> 0]

\* Seeded bug: the tile is drawn where the plan wanted it, wherever the page is.
DrawRectAsPlanned(tile, actual, canvasHeight, imageHeight) ==
    LET dy == Px(tile.destY)
    IN [dy |-> dy, sy |-> Px(tile.destY - tile.scrollY),
        dh |-> Min({Px(tile.destY + tile.height), canvasHeight}) - dy]

\* drawRectFor: the rows the plan wants of those the tile shows, by edges.
DrawRectFor(tile, actual, canvasHeight, imageHeight) ==
    LET top == Max({tile.destY, actual})
        bottom == Min({tile.destY + tile.height, actual + ViewportHeight})
        dy == Px(top)
        sy == Px(top - actual)
        dh == Min({Min({Px(bottom), canvasHeight}) - dy, imageHeight - sy})
    IN IF bottom <= top \/ dh <= 0 THEN NoRect ELSE [dy |-> dy, sy |-> sy, dh |-> dh]

\* normalizeDrag, one side: two corners to a clamped interval.
DragSide(a, b, size) ==
    LET p == Clamped(a, size)   q == Clamped(b, size)
    IN [at |-> Min({p, q}), len |-> Max({p, q}) - Min({p, q})]

\* A drag too small in either direction is a click.
IsDrag(h, v) == h.len >= MinRegion /\ v.len >= MinRegion

\* regionToPhysical, one side: edges rounded independently, inside the image.
PhysicalSide(side, imagePx) ==
    LET left == Clamped(Px(side.at), imagePx)
        right == Clamped(Px(side.at + side.len), imagePx)
    IN [at |-> left, len |-> right - left]
=============================================================================
