---------------------------- MODULE EditorCanvas ----------------------------
(* The drawing half of CaptureEditor on one page: the Fabric objects on the  *)
(* canvas, tools, gestures, texts being typed, crop mode, undo and redo, and *)
(* the reload of a conflict in the middle of any of it.  Saving is in        *)
(* EditorAutosave.  A handler runs in one step; a gesture is a press, moves  *)
(* and a release, with the keyboard and the network in between.  Fabric is   *)
(* modelled from how the editor uses it; cursors, focus and the shade are    *)
(* left out.                                                                 *)
EXTENDS SvgOverlay

CONSTANTS
    Points,         \* where the pointer may be, in image space
    Texts,          \* what may be typed
    ForeignDocs,    \* documents a reload may bring
    MaxActions      \* bound on the user's actions and reloads

Kinds == {"rect", "arrow", "redact", "text"}
Boxes == [x : Int, y : Int, w : Int, h : Int]

ASSUME CanvasAssumption ==
    /\ MaxActions \in Nat /\ Blank \notin Texts
    /\ Points \subseteq [x : Int, y : Int]
    /\ {AnnotationSizes(LowWidth).font, AnnotationSizes(HighWidth).font} \subseteq MinFont..MaxFont

\* A reload brings what the server accepted, under ids no shape drawn here gets.
ASSUME ForeignAssumption ==
    \A doc \in ForeignDocs :
        /\ doc \in [shapes : Seq(Members(doc.shapes)), crop : Boxes] /\ Valid(doc)
        /\ \A s \in Members(doc.shapes) :
             /\ s \in [id : {s.id}, kind : Kinds, text : {s.text}, font : Int,
                       x : Int, y : Int, w : Int, h : Int]
             /\ s.id \notin 0..MaxActions

VARIABLES ed, actions
canvasVars == <<ed, actions>>

NoFrame == NoCrop
NoGesture == [kind |-> "none"]
ShapeTools == {"rect", "arrow", "redact"}
Tools == ShapeTools \cup {"select", "text", "crop"}

-----------------------------------------------------------------------------
(* Canvas objects and what they paint.                                       *)

ClampFont(v) == Clamp(v, MinFont, MaxFont)

\* shapeOf: the schema shape of an object.
ShapeOf(o) ==
    LET at == ToShape(o.kind, o)
    IN [id |-> o.id, kind |-> o.kind, x |-> at.x, y |-> at.y, w |-> at.w, h |-> at.h, text |-> o.text,
        font |-> IF o.kind = "text" THEN Round2(ClampFont(o.font)) ELSE 0]

\* objectFromShape: an object keeps the width its sizes were made for.
ObjectFrom(s, wide) ==
    [id |-> s.id, kind |-> s.kind, x |-> s.x, y |-> s.y, w |-> s.w, h |-> s.h, text |-> s.text,
     font |-> s.font, wide |-> wide, opaque |-> TRUE]

Placed(o, g) == [o EXCEPT !.x = g.x, !.y = g.y, !.w = g.w, !.h = g.h]

Paint(tag, at) == [tag |-> tag, at |-> at]

AnnoRect(o, z) ==
    LET path == <<o.x + z.outer \div 2, o.y + z.outer \div 2, o.w, o.h>>
    IN <<Paint(<<"box", "white", z.outer>>, path), Paint(<<"box", "red", z.stroke>>, path)>>

AnnoRedact(o) == <<Paint(<<IF o.opaque THEN "block" ELSE "glass", Geom(o.x, o.y, o.w, o.h)>>, <<>>)>>

DrawArrow(o, z, colour, shaft, head) ==
    LET line == <<o.x, o.y, o.x + o.w, o.y + o.h, z.headLength, z.headWidth>>
    IN <<Paint(<<"shaft", colour, shaft>>, line), Paint(<<"head", colour, head>>, line)>>

AnnoArrow(o, z) ==
    DrawArrow(o, z, "white", z.outer, 2 * z.outline) \o DrawArrow(o, z, "red", z.stroke, 0)

\* makeText: the font size is the text's own, its white underlay follows the width.
AnnoText(o, z) ==
    IF o.text = Blank THEN <<>>
    ELSE <<Paint(<<"text", o.text, z.textStroke>>,
                 <<o.x + z.textStroke \div 2, o.y + z.textStroke \div 2, o.font>>)>>

Painted(o) ==
    LET z == AnnotationSizes(o.wide)
    IN CASE o.kind = "redact" -> AnnoRedact(o)
         [] o.kind = "rect" -> AnnoRect(o, z)
         [] o.kind = "arrow" -> AnnoArrow(o, z)
         [] o.kind = "text" -> AnnoText(o, z)

\* The objects in their order, and above them whatever crop frame there is.
Canvas(r) ==
    FlattenSeq([i \in DOMAIN r.objects |-> Painted(r.objects[i])]) \o
        (IF r.frame # NoFrame \/ r.stray THEN <<Paint(<<"frame">>, <<>>)>> ELSE <<>>)

\* AnnoRedact.settle.
Settle(o) == [Placed(o, RedactionPixelRect(o)) EXCEPT !.opaque = TRUE]

\* normalizeScaling: the scale of a finished gesture becomes geometry.
NormalizeScaling(o) ==
    CASE o.kind = "redact" -> Settle(o)
      [] o.kind = "rect" -> [o EXCEPT !.w = Max({Px, @}), !.h = Max({Px, @})]
      [] o.kind = "text" -> [o EXCEPT !.font = ClampFont(@)]
      [] o.kind = "arrow" -> o

-----------------------------------------------------------------------------
(* Document, history and tools, as functions of the editor's state.          *)

Shapes(r) == [i \in DOMAIN r.objects |-> ShapeOf(r.objects[i])]
Document(r) == [shapes |-> Shapes(r), crop |-> r.crop]

CommitShapes(r) ==      \* Seeded bug: a crop change alone is no change
    IF Shapes(r) = Last(r.undo).shapes THEN r
    ELSE [r EXCEPT !.undo = Append(@, Document(r)), !.redo = <<>>]

Commit(r) ==
    IF Document(r) = Last(r.undo) THEN r
    ELSE [r EXCEPT !.undo = Append(@, Document(r)), !.redo = <<>>]

Without(objects, id) == Only(objects, {o \in Members(objects) : o.id # id})
Update(r, id, F(_)) ==
    [r EXCEPT !.objects = [i \in DOMAIN @ |-> IF @[i].id = id THEN F(@[i]) ELSE @[i]]]
The(r, id) == r.objects[CHOOSE i \in DOMAIN r.objects : r.objects[i].id = id]

\* editing:exited: a text left blank is removed.
Exits(r) ==
    IF r.typing = 0 THEN r
    ELSE Commit([r EXCEPT !.typing = 0,
                          !.objects = IF The(r, r.typing).text = Blank THEN Without(@, r.typing) ELSE @])

\* The canvas shows the crop, or the whole image in crop mode and without one.
Fit(r) == [r EXCEPT !.view = IF r.tool = "crop" \/ r.crop = NoCrop THEN WholeImage ELSE r.crop]

\* Entering crop mode places the frame of the crop there is: pressed again, it
\* leaves the frame it had on the canvas.
EnterCropMode(r) ==
    IF r.crop = NoCrop THEN r
    ELSE [r EXCEPT !.frame = r.crop, !.stray = @ \/ r.frame # NoFrame]

\* Leaving crop mode takes the frame away; a drawing tool drops the selection,
\* which ends the typing.
SetTool(r, tool) ==
    LET left == IF tool = "crop" THEN r ELSE [r EXCEPT !.frame = NoFrame]
        put == [IF tool = "select" THEN left ELSE Exits(left) EXCEPT !.tool = tool]
    IN Fit(IF tool = "crop" THEN EnterCropMode(put) ELSE put)

\* loadDoc: everything is removed and rebuilt.  Removing a text that is being
\* typed ends its editing: what is above it is committed on the way.
Removed(r) ==
    IF r.typing = 0 THEN r
    ELSE LET at == CHOOSE i \in DOMAIN r.objects : r.objects[i].id = r.typing
         IN Commit([r EXCEPT !.typing = 0, !.objects = SubSeq(@, at + 1, Len(@))])

LoadDoc(r, doc) ==
    LET drawn == RenderOrder(doc.shapes)
        wide == EffectiveWidth(doc.crop)
    IN Fit([Removed(r) EXCEPT
              !.crop = doc.crop, !.wide = wide, !.frame = NoFrame, !.stray = FALSE,
              !.objects = [i \in DOMAIN drawn |-> ObjectFrom(drawn[i], wide)],
              !.gesture = IF "id" \in DOMAIN @ THEN [@ EXCEPT !.id = 0] ELSE @])

CanvasInit ==
    /\ \E doc \in ForeignDocs \cup {EmptyDoc} :
         LET blank == [objects |-> <<>>, crop |-> NoCrop, wide |-> Width, view |-> WholeImage,
                       tool |-> "select", frame |-> NoFrame, gesture |-> NoGesture, typing |-> 0,
                       undo |-> <<>>, redo |-> <<>>,
                       stray |-> FALSE,     \* a second frame is left on the canvas
                       torn |-> FALSE]      \* history: undone or redone while typing
             r == LoadDoc(blank, doc)
         IN ed = [r EXCEPT !.undo = <<Document(r)>>]
    /\ actions = 0

-----------------------------------------------------------------------------
(* Handlers.                                                                 *)

Counted == actions < MaxActions /\ actions' = actions + 1
Uncounted == UNCHANGED actions
Idle == ed.gesture.kind = "none"
Pick(tool) == Idle /\ ed.tool # tool /\ ed' = SetTool(ed, tool) /\ Uncounted

\* The Crop button while in crop mode.
PickCropAgain == Idle /\ ed.tool = "crop" /\ ed' = SetTool(ed, "crop") /\ Uncounted

\* Escape, in the middle of a gesture too.
CancelCrop == ed.tool = "crop" /\ ed' = SetTool(ed, "select") /\ Uncounted

SetCrop(r, crop) ==
    LET s == SetTool(r, "select")
    IN Commit(LoadDoc(s, [Document(s) EXCEPT !.crop = crop]))

\* The button, or Enter in the middle of a gesture.
ApplyCrop ==
    /\ ed.tool = "crop" /\ Counted
    /\ ed' = SetCrop(ed, IF ed.frame # NoFrame THEN CropOf(ed.frame)
                         ELSE IF IsWholeImage(ed.crop) THEN NoCrop ELSE ed.crop)

ClearCrop == ed.tool = "crop" /\ Idle /\ Counted /\ ed' = SetCrop(ed, NoCrop)

NewObject(kind, p) ==
    [id |-> actions + 1, kind |-> kind, x |-> p.x, y |-> p.y, w |-> Px, h |-> Px, text |-> Blank,
     font |-> AnnotationSizes(ed.wide).font, wide |-> ed.wide, opaque |-> kind # "redact"]

DrawFrame(p) ==
    /\ ed.tool = "crop" /\ ed.frame = NoFrame
    /\ ed' = [ed EXCEPT !.frame = Geom(p.x, p.y, Px, Px), !.gesture = [kind |-> "frame", origin |-> p]]

DrawShape(p) ==
    /\ ed.tool \in ShapeTools
    /\ LET o == NewObject(ed.tool, p)
       IN ed' = [ed EXCEPT !.objects = AddShape(@, o),
                           !.gesture = [kind |-> "draw", id |-> o.id, origin |-> p]]

\* A new text is typed at once, with the select tool.
PlaceText(p) ==
    /\ ed.tool = "text"
    /\ LET o == NewObject("text", p)
       IN ed' = [SetTool([ed EXCEPT !.objects = Append(@, o)], "select") EXCEPT !.typing = o.id]

MouseDown(p) == Idle /\ Counted /\ (DrawFrame(p) \/ DrawShape(p) \/ PlaceText(p))

\* Fabric's own drags, which the editor follows by object:moving and
\* object:scaling: a block is translucent meanwhile, an arrow goes by its ends.
Handles(o, p) ==
    IF o.kind = "arrow"
    THEN {[o EXCEPT !.x = p.x, !.y = p.y, !.w = @ + o.x - p.x, !.h = @ + o.y - p.y],
          [o EXCEPT !.w = p.x - o.x, !.h = p.y - o.y]}
    ELSE {[o EXCEPT !.x = p.x, !.y = p.y]} \cup
         (IF p.x <= o.x \/ p.y <= o.y THEN {}
          ELSE {IF o.kind = "text" THEN [o EXCEPT !.font = p.y - o.y]
                ELSE [o EXCEPT !.w = p.x - o.x, !.h = p.y - o.y]})

Drag(p) ==
    /\ Idle /\ ed.tool = "select" /\ ed.typing = 0 /\ Counted
    /\ \E i \in DOMAIN ed.objects : \E o \in Handles(ed.objects[i], p) :
         ed' = [ed EXCEPT !.objects[i] = [o EXCEPT !.opaque = o.kind # "redact"],
                          !.gesture = [kind |-> "drag", id |-> o.id]]

KeptInside(g) ==
    [g EXCEPT !.x = Min({Max({0, @}), Max({0, Width - g.w})}),
              !.y = Min({Max({0, @}), Max({0, Height - g.h})})]

\* The frame is moved, kept inside the image, or scaled by its handles.
AdjustFrame(p) ==
    /\ Idle /\ ed.tool = "crop" /\ ed.frame # NoFrame /\ Counted
    /\ \E g \in {KeptInside([ed.frame EXCEPT !.x = p.x, !.y = p.y])} \cup
                (IF p.x <= ed.frame.x \/ p.y <= ed.frame.y THEN {}
                 ELSE {[ed.frame EXCEPT !.w = p.x - ed.frame.x, !.h = p.y - ed.frame.y]}) :
         ed' = [ed EXCEPT !.frame = g, !.gesture = [kind |-> "adjust"]]

Abs(v) == Max({v, -v})

\* The box between the press and the pointer, at least a pixel.
BoxTo(origin, p) ==
    Geom(Min({origin.x, p.x}), Min({origin.y, p.y}),
         Max({Px, Abs(p.x - origin.x)}), Max({Px, Abs(p.y - origin.y)}))

DrawnTo(o, origin, p) ==
    IF o.kind = "arrow" THEN [o EXCEPT !.w = p.x - origin.x, !.h = p.y - origin.y]
    ELSE Placed(o, BoxTo(origin, p))

\* The press's object follows, unless a rebuild has taken it off the canvas.
MouseMove(p) ==
    /\ ed' = LET g == ed.gesture
             IN CASE g.kind = "draw" -> Update(ed, g.id, LAMBDA o : DrawnTo(o, g.origin, p))
                  [] g.kind = "frame" /\ ed.frame # NoFrame -> [ed EXCEPT !.frame = BoxTo(g.origin, p)]
                  [] OTHER -> ed
    /\ Uncounted

SettleRedactions(r) ==
    [r EXCEPT !.gesture = NoGesture,
              !.objects = [i \in DOMAIN @ |-> IF @[i].kind = "redact" THEN Settle(@[i]) ELSE @[i]]]

SettleFrame(g) == IF NormalizeCrop(g) = NoCrop THEN g ELSE NormalizeCrop(g)

\* A frame drawn smaller than the minimum goes; else its handles take over.
FrameEnds ==
    /\ ed.gesture.kind \in {"frame", "adjust"}
    /\ ed' = [ed EXCEPT !.gesture = NoGesture,
                        !.frame = IF @ = NoFrame THEN @
                                  ELSE IF ed.gesture.kind = "frame" /\ (@.w < MinCrop \/ @.h < MinCrop)
                                  THEN NoFrame ELSE SettleFrame(@)]

\* A drawn shape is dropped when too small, else committed.  The end of a
\* gesture whose object is gone commits what there is, or nothing.
DrawEnds ==
    /\ ed.gesture.kind = "draw"
    /\ LET id == ed.gesture.id
           r == SetTool(SettleRedactions(ed), "select")
       IN IF id = 0 THEN ed' \in {r, Commit(r)}
          ELSE IF TooSmall(The(r, id)) THEN ed' = [r EXCEPT !.objects = Without(@, id)]
          ELSE ed' = Commit(r)

\* object:modified, then mouse:up.
DragEnds ==
    /\ ed.gesture.kind = "drag"
    /\ ed' = Commit(Update(SettleRedactions(ed), ed.gesture.id, NormalizeScaling))

MouseUp == (FrameEnds \/ DrawEnds \/ DragEnds) /\ Uncounted

StartTyping ==
    /\ Idle /\ ed.tool = "select" /\ ed.typing = 0 /\ Counted
    /\ \E i \in DOMAIN ed.objects :
         ed.objects[i].kind = "text" /\ ed' = [ed EXCEPT !.typing = ed.objects[i].id]

TypeText(text) ==
    /\ ed.typing # 0
    /\ ed' = Update(ed, ed.typing, LAMBDA o : [o EXCEPT !.text = text])
    /\ Uncounted

StopTyping == ed.typing # 0 /\ ed' = Exits(ed) /\ Uncounted

\* The selected shape goes: the one being dragged, if one is.
DeleteSelection ==
    /\ ed.tool = "select" /\ ed.typing = 0 /\ Counted
    /\ \E i \in DOMAIN ed.objects :
         /\ Idle \/ (ed.gesture.kind = "drag" /\ ed.gesture.id = ed.objects[i].id)
         /\ ed' = Commit([ed EXCEPT !.objects = Without(@, ed.objects[i].id),
                                    !.gesture = IF Idle THEN @ ELSE [@ EXCEPT !.id = 0]])

LeavingCrop(r) == IF r.tool = "crop" THEN SetTool(r, "select") ELSE r
Tearing(r) == [r EXCEPT !.torn = @ \/ r.typing # 0]

\* By key, which typing keeps to itself, or by the button, which it does not.
Undo ==
    /\ Len(ed.undo) >= 2 /\ Counted
    /\ LET r == LeavingCrop(Tearing(ed))
       IN ed' = LoadDoc([r EXCEPT !.redo = Append(@, Last(r.undo)), !.undo = Front(@)],
                        r.undo[Len(r.undo) - 1])

Redo ==
    /\ ed.redo # <<>> /\ Counted
    /\ LET r == LeavingCrop(Tearing(ed))
       IN ed' = LoadDoc([r EXCEPT !.undo = Append(@, Last(r.redo)), !.redo = Front(@)], Last(r.redo))

\* reloadFromServer: the tool stays, the history starts again.
Reload(doc) ==
    /\ Counted
    /\ LET r == LoadDoc(ed, doc)
       IN ed' = [r EXCEPT !.undo = <<Document(r)>>, !.redo = <<>>, !.torn = FALSE]

CanvasNext ==
    \/ \E tool \in Tools : Pick(tool)
    \/ PickCropAgain \/ CancelCrop \/ ApplyCrop \/ ClearCrop
    \/ \E p \in Points : MouseDown(p) \/ Drag(p) \/ AdjustFrame(p) \/ MouseMove(p)
    \/ MouseUp
    \/ StartTyping \/ StopTyping \/ \E text \in Texts \cup {Blank} : TypeText(text)
    \/ DeleteSelection \/ Undo \/ Redo
    \/ \E doc \in ForeignDocs : Reload(doc)

CanvasSpec == CanvasInit /\ [][CanvasNext]_canvasVars

-----------------------------------------------------------------------------
(* Properties.                                                               *)

AtRest == Idle /\ ed.typing = 0

Alike(canvas, svg) ==
    /\ Len(canvas) = Len(svg)
    /\ \A i \in DOMAIN svg :
         /\ canvas[i].tag = svg[i].tag
         /\ \A j \in DOMAIN svg[i].at : Abs(canvas[i].at[j] - svg[i].at[j]) <= Fine

\* What the owner sees at rest is what every viewer gets: the canvas paints,
\* to the precision of the schema, the marks the server renders from the
\* document it would save: the same stacking, sizes, opaque blocks and view, and
\* nothing else, the frame that pressing Crop twice leaves behind aside.
CanvasShowsTheRender ==
    AtRest /\ ed.tool # "crop" /\ ~ed.stray =>
        LET svg == Svg(Document(ed))
        IN /\ ed.view = svg.view
           /\ Alike(Canvas(ed), svg.marks)

ResizedAway(s) == s.kind = "redact" /\ (s.w < MinRedact \/ s.h < MinRedact)

\* The server accepts the document of a canvas at rest, however it came about,
\* unless a shape is past the margin or a block was resized below the minimum.
DocumentIsAccepted ==
    AtRest => LET doc == Document(ed) IN
        \/ Valid(doc) \/ Len(doc.shapes) > MaxShapes
        \/ \E i \in DOMAIN doc.shapes : ~InBounds(doc.shapes[i]) \/ ResizedAway(doc.shapes[i])

\* At rest the top of the undo stack is what is on the canvas, so the next undo
\* takes back exactly the last change: through gestures cut off by an undo, a
\* crop or a reload, dropped shapes and blank texts.
HistoryTracksCanvas == AtRest /\ ~ed.torn => Last(ed.undo) = Document(ed)
=============================================================================
