----------------------------- MODULE SvgOverlay -----------------------------
(* The server's renderer (images/svg-overlay.ts): what buildOverlaySvg       *)
(* paints for a document, as a list of marks.  A mark says what is painted   *)
(* (tag) and where (at); escaping and the wording of SVG are left out.       *)
EXTENDS AnnotationModel, SequencesExt

Num(v) == Round2(v)
Mark(tag, at) == [tag |-> tag, at |-> [i \in DOMAIN at |-> Num(at[i])]]

\* A box: the white pass at the outer width, red on top.  Fabric's boxes
\* include their stroke, so the path is half a stroke in.
RectMarks(s, z) ==
    LET path == <<s.x + z.outer \div 2, s.y + z.outer \div 2, s.w, s.h>>
    IN <<Mark(<<"box", "white", z.outer>>, path), Mark(<<"box", "red", z.stroke>>, path)>>

\* White shaft, white head, red shaft over its base, red head.  A head is cut
\* to six tenths of a short arrow: its line and full length settle that.
ArrowMarks(s, z) ==
    LET line == <<s.x, s.y, s.x + s.w, s.y + s.h, z.headLength, z.headWidth>>
    IN <<Mark(<<"shaft", "white", z.outer>>, line), Mark(<<"head", "white", 2 * z.outline>>, line),
         Mark(<<"shaft", "red", z.stroke>>, line), Mark(<<"head", "red", 0>>, line)>>

\* The baseline starts half a stroke in; the font size is the shape's own.
TextMarks(s, z) ==
    IF s.text = Blank THEN <<>>
    ELSE <<Mark(<<"text", s.text, z.textStroke>>, <<s.x + z.textStroke \div 2, s.y + z.textStroke \div 2, s.font>>)>>

\* A block has no stroke; its pixels are its rectangle, rounded outward.
RedactMarks(s) == <<Mark(<<"block", RedactionPixelRect(s)>>, <<>>)>>

ShapeMarks(s, z) ==
    CASE s.kind = "redact" -> RedactMarks(s)
      [] s.kind = "rect" -> RectMarks(s, z)
      [] s.kind = "arrow" -> ArrowMarks(s, z)
      [] s.kind = "text" -> TextMarks(s, z)

WholeImage == [x |-> 0, y |-> 0, w |-> Width, h |-> Height]

\* buildOverlaySvg: the crop, or the image, as the view; the shapes in drawing
\* order at the sizes of the effective width.
Svg(doc) ==
    LET drawn == RenderOrder(doc.shapes)
        sizes == AnnotationSizes(EffectiveWidth(doc.crop))
    IN [view |-> IF doc.crop = NoCrop THEN WholeImage ELSE doc.crop,
        marks |-> FlattenSeq([i \in DOMAIN drawn |-> ShapeMarks(drawn[i], sizes)])]
=============================================================================
