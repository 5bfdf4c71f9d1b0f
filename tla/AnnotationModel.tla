-------------------------- MODULE AnnotationModel --------------------------
(* The pure half of annotations, shared by the editor and the server: shapes *)
(* and their bounds, validation, crop geometry, drawing order, and the curve *)
(* of drawing sizes.  Lengths are in quarter pixels: Fabric reports          *)
(* fractions, and where they are rounded is what matters.                    *)
EXTENDS Integers, Sequences, FiniteSetsExt, SequenceFilter

CONSTANTS
    Width, Height,      \* the image
    MinCrop,            \* MIN_CROP_PX
    MinRedact,          \* MIN_REDACT_PX
    MinShape,           \* the side below which a drawn shape is dropped
    Margin,             \* ANNOTATION_BOUNDS_MARGIN_PX
    MaxShapes,          \* ANNOTATION_LIMITS.maxShapes
    MinFont, MaxFont,   \* its font sizes
    RefWidth,           \* ANNOTATION_SIZE_CURVE.referenceWidth
    LowWidth, HighWidth \* the widths below and above which sizes stay as they are

Px == 4         \* units in a pixel

ASSUME AnnotationAssumption ==
    /\ {Width, Height, MinCrop, MinRedact, RefWidth, MinFont} \subseteq Nat \ {0}
    /\ {Margin, MinShape, MaxShapes} \subseteq Nat
    /\ LowWidth \in Nat \ {0} /\ HighWidth \in Nat /\ HighWidth >= LowWidth
    /\ MaxFont \in Nat /\ MaxFont >= MinFont
    /\ \A size \in {Width, Height, MinCrop, MinFont, MaxFont} : size % Px = 0

Fine == 2       \* units in the step that round2 leaves of a coordinate

NoCrop == [x |-> 0, y |-> 0, w |-> 0, h |-> 0]
Blank == ""

Clamp(v, low, high) == Min({high, Max({low, v})})
RoundTo(v, step) == step * ((2 * v + step) \div (2 * step))
Floor(v) == Px * (v \div Px)
Ceil(v) == -Floor(-v)
Round2(v) == RoundTo(v, Fine)

-----------------------------------------------------------------------------
(* Crops.                                                                    *)

ClampInt(v, max) == Clamp(RoundTo(v, Px), 0, max)

SideUnpulled(from, size, max) ==        \* Seeded bug: not pulled back from the edge
    LET a == Min({ClampInt(from, max), ClampInt(from + size, max)})
        b == Max({ClampInt(from, max), ClampInt(from + size, max)})
    IN [at |-> a, len |-> Max({b - a, MinCrop})]

\* One side of normalizeCrop: inside the image, at least the minimum.
Side(from, size, max) ==
    LET a == Min({ClampInt(from, max), ClampInt(from + size, max)})
        b == Max({ClampInt(from, max), ClampInt(from + size, max)})
    IN IF b - a < MinCrop THEN [at |-> Min({a, max - MinCrop}), len |-> MinCrop]
       ELSE [at |-> a, len |-> b - a]

NormalizeCrop(g) ==
    IF Width < MinCrop \/ Height < MinCrop THEN NoCrop
    ELSE LET h == Side(g.x, g.w, Width)
             v == Side(g.y, g.h, Height)
         IN [x |-> h.at, w |-> h.len, y |-> v.at, h |-> v.len]

IsWholeImage(c) == c = [x |-> 0, y |-> 0, w |-> Width, h |-> Height]

\* The crop a frame stands for: none when it covers everything.
CropOf(g) == IF IsWholeImage(NormalizeCrop(g)) THEN NoCrop ELSE NormalizeCrop(g)

-----------------------------------------------------------------------------
(* Shapes.  An arrow is its tail and the vector to its head.                 *)

Geom(x, y, w, h) == [x |-> x, y |-> y, w |-> w, h |-> h]

\* redactionPixelRect: outward to whole pixels.
RedactionPixelRect(g) ==
    LET x0 == Floor(g.x)     y0 == Floor(g.y)
    IN Geom(x0, y0, Ceil(g.x + g.w) - x0, Ceil(g.y + g.h) - y0)

RectToShape(g) == Geom(Round2(g.x), Round2(g.y), Round2(g.w), Round2(g.h))

\* Both ends are rounded, not the vector.
ArrowToShape(g) ==
    Geom(Round2(g.x), Round2(g.y), Round2(g.x + g.w) - Round2(g.x), Round2(g.y + g.h) - Round2(g.y))

TextToShape(g) == Geom(Round2(g.x), Round2(g.y), 0, 0)

ToShape(kind, g) ==
    CASE kind = "redact" -> RedactionPixelRect(g)
      [] kind = "rect" -> RectToShape(g)
      [] kind = "arrow" -> ArrowToShape(g)
      [] kind = "text" -> TextToShape(g)

\* Too small to keep when the gesture ends.
TooSmall(s) ==
    CASE s.kind = "redact" -> s.w < MinRedact \/ s.h < MinRedact
      [] s.kind = "arrow" -> s.w * s.w + s.h * s.h < MinShape * MinShape
      [] OTHER -> s.w < MinShape /\ s.h < MinShape

Members(seq) == {seq[i] : i \in DOMAIN seq}

Blocks(shapes) == {s \in Members(shapes) : s.kind = "redact"}

\* renderOrder: every redaction, then everything else, each in document order.
RenderOrder(shapes) ==
    Only(shapes, Blocks(shapes)) \o Only(shapes, Members(shapes) \ Blocks(shapes))

AddOnTop(shapes, s) == Append(shapes, s)    \* Seeded bug: insertAt(layer) dropped

\* A block goes above the other blocks and below every other shape.
AddShape(shapes, s) ==
    IF s.kind # "redact" THEN Append(shapes, s)
    ELSE LET layer == Len(Only(shapes, Blocks(shapes)))
         IN SubSeq(shapes, 1, layer) \o <<s>> \o SubSeq(shapes, layer + 1, Len(shapes))

-----------------------------------------------------------------------------
(* Drawing sizes.                                                            *)

\* The width they follow: the crop's when there is one.
EffectiveWidth(crop) == IF crop = NoCrop THEN Width ELSE crop.w

\* A base size on the curve, rounded as a coordinate is.
Scaled(base, width) ==
    LET n == base * Clamp(width, LowWidth, HighWidth)
    IN Fine * ((2 * n + Fine * RefWidth) \div (2 * Fine * RefWidth))

AnnotationSizes(width) ==
    LET stroke == Scaled(4 * Px, width)   outline == Scaled(2 * Px, width)
    IN [stroke |-> stroke, outline |-> outline, outer |-> Round2(stroke + 2 * outline),
        headLength |-> Scaled(22 * Px, width), headWidth |-> Scaled(18 * Px, width),
        textStroke |-> Scaled(4 * Px, width), font |-> Scaled(28 * Px, width)]

-----------------------------------------------------------------------------
(* Validation.                                                               *)

Within(v, size) == v >= -Margin /\ v <= size + Margin

InBounds(s) ==                          \* annotationBoundsError = null
    /\ Within(s.x, Width) /\ Within(s.y, Height)
    /\ Within(s.x + s.w, Width) /\ Within(s.y + s.h, Height)

CropInBounds(c) == c.x + c.w <= Width /\ c.y + c.h <= Height

Whole(g) == \A v \in {g.x, g.y, g.w, g.h} : v % Px = 0

\* The schema: integers, minimum sizes, font sizes, the number of shapes.
ShapeOk(s) ==
    CASE s.kind = "redact" -> Whole(s) /\ s.w >= MinRedact /\ s.h >= MinRedact
      [] s.kind = "rect" -> s.w >= 0 /\ s.h >= 0
      [] s.kind = "arrow" -> TRUE
      [] s.kind = "text" -> s.font \in MinFont..MaxFont

SchemaOk(doc) ==
    /\ doc.crop # NoCrop => /\ Whole(doc.crop) /\ doc.crop.x >= 0 /\ doc.crop.y >= 0
                            /\ doc.crop.w >= MinCrop /\ doc.crop.h >= MinCrop
    /\ Len(doc.shapes) <= MaxShapes
    /\ \A i \in DOMAIN doc.shapes : ShapeOk(doc.shapes[i])

\* validateAnnotationDocument.
Valid(doc) ==
    /\ SchemaOk(doc)
    /\ \A i \in DOMAIN doc.shapes : InBounds(doc.shapes[i])
    /\ doc.crop # NoCrop => CropInBounds(doc.crop)

EmptyDoc == [shapes |-> <<>>, crop |-> NoCrop]
=============================================================================
