--------------------------- MODULE StructureScan ---------------------------
(* Which elements the region overlay may suggest: what an element's style    *)
(* says about it, the sliced walk that fills the spatial index of            *)
(* candidates, and how a point resolves to one of them.  Geometry is kept on *)
(* one axis, the other being alike, and a colour on one channel, its alpha   *)
(* in quarters; text is left out.                                            *)
EXTENDS CaptureGeometry, SequencesExt, SequenceFilter

CONSTANTS
    Elements,       \* 1..N; the first is the root
    ChildrenOf,     \* the document's tree, in document order
    MinMedia,       \* SUGGEST_MIN_MEDIA_SIDE_CSS_PX
    MinBox,         \* SUGGEST_MIN_BOX_SIDE_CSS_PX
    EdgePromote,    \* SUGGEST_EDGE_PROMOTE_CSS_PX
    SnapDistance,   \* SNAP_DISTANCE_CSS_PX
    CellSide,       \* SPATIAL_CELL_CSS_PX
    MaxCells,       \* SPATIAL_MAX_CELLS, on the axis
    MinDelta,       \* SUGGEST_BG_MIN_CHANNEL_DELTA
    White,          \* the channel's greatest level
    Viewport        \* width of the viewport on the axis

ASSUME ScanAssumption ==
    /\ IsFiniteSet(Elements) /\ ChildrenOf \in [Elements -> Seq(Elements)]
    /\ {MinMedia, MinBox, CellSide, MinDelta, Viewport} \subseteq Nat \ {0}
    /\ {EdgePromote, SnapDistance, MaxCells, White} \subseteq Nat

Root == 1
NoElement == 0
MinSiblings == 3                \* SUGGEST_REPEAT_MIN_SIBLINGS
MinSides == 3                   \* SUGGEST_MIN_BORDER_SIDES

ParentOf == [e \in Elements |->
    IF e = Root THEN NoElement ELSE CHOOSE p \in Elements : e \in ToSet(ChildrenOf[p])]

OnPath[e \in Elements] == {e} \cup (IF e = Root THEN {} ELSE OnPath[ParentOf[e]])

\* A document is a tree: every element but the root has a parent, and above an
\* element are elements.
ASSUME TreeAssumption ==
    /\ Root \in Elements
    /\ \A e \in Elements : OnPath[e] \subseteq Elements
    /\ \A e \in Elements \ {Root} : \E p \in Elements : e \in ToSet(ChildrenOf[p])

DepthOf(e) == Cardinality(OnPath[e]) - 1
Nearest(es) == CHOOSE e \in es : \A d \in es : DepthOf(d) <= DepthOf(e)

-----------------------------------------------------------------------------
(* Style to traits.  A style has a tag, a role ("" for none), named, heading *)
(* (a section's own), shown (display), layout, visible (visibility and       *)
(* opacity), borders <<left, right, top, bottom>>, a set of shadow layers,   *)
(* radius, colour, image (a background image), position and overflow.        *)

MediaTags == {"img", "video", "canvas", "svg", "picture"}
OpaqueTags == {"svg", "canvas", "video", "audio", "iframe", "object", "embed", "img", "input",
               "textarea", "select"}
SkipTags == {"head", "script", "style", "template", "noscript", "link", "meta", "title", "base"}
SemanticTags == {"article", "figure", "table", "pre", "blockquote", "aside", "dialog"}
SemanticRoles ==
    {"article", "figure", "table", "grid", "treegrid", "complementary", "dialog", "alertdialog", "img"}

\* visibleBorderSides.
VisibleSides(style) ==
    Cardinality({i \in DOMAIN style.borders :
        LET side == style.borders[i] IN side.width > 0 /\ side.drawn /\ side.alpha > 0})

\* shadowDrawsBox: a layer with an offset only is a rule along one side.
ShadowDrawsBox(style) ==
    \E layer \in style.shadow : layer.alpha > 0 /\ (layer.blur > 0 \/ layer.spread > 0)
HasVisibleLayer(style) == \E layer \in style.shadow : layer.alpha > 0

\* qualify: nothing unseen is a target.
Qualify(style) ==
    IF ~style.visible THEN "none"
    ELSE IF style.tag \in MediaTags THEN "media"
    ELSE IF VisibleSides(style) >= MinSides THEN "border"
    ELSE IF ShadowDrawsBox(style) THEN "shadow" ELSE "none"

\* describeElement: how ancestors clip it, and whether it clips.
Traits(style) ==
    [flow |-> IF style.position \in {"fixed", "absolute"} THEN style.position ELSE "normal",
     positioned |-> style.position # "static",
     clips |-> style.tag \notin {"html", "body"} /\ style.overflow # "visible"]

\* isSemanticUnit: any role overrides what the tag means.
SemanticUnit(style) ==
    CASE style.role \in SemanticRoles -> TRUE
      [] style.role = "region" -> style.named
      [] style.role = "" -> \/ style.tag \in SemanticTags
                            \/ style.tag = "section" /\ (style.heading \/ style.named)
      [] OTHER -> FALSE

\* A colour in a form parseRgba does not read is unknown.
Unknown == [known |-> FALSE]
Colour(level, alpha) == [known |-> TRUE, level |-> level, alpha |-> alpha]
Canvas == Colour(White, 4)      \* CANVAS_BACKGROUND

\* compositeOver, to a whole level.
Composite(fg, bg) ==
    IF ~fg.known \/ ~bg.known THEN Unknown
    ELSE CASE fg.alpha = 0 -> bg
           [] fg.alpha = 4 -> fg
           [] OTHER -> Colour((fg.level * fg.alpha + bg.level * (4 - fg.alpha)) \div 4, 4)

\* The background descendants see: under an unreadable colour, unknown.
Behind(style, behind) ==
    IF style.colour.known /\ style.colour.alpha = 0 THEN behind ELSE Composite(style.colour, behind)

\* paintsDistinctBackground.
Distinct(style, behind) ==
    \/ style.image
    \/ /\ style.colour.known /\ behind.known
       /\ LET painted == Composite(style.colour, behind)
          IN style.colour.alpha > 0
             /\ Max({painted.level, behind.level}) - Min({painted.level, behind.level}) >= MinDelta

\* describeStructure: E7's qualifiers first, then the structure signals.
KindOf(style, behind) ==
    IF Qualify(style) # "none" \/ ~style.visible THEN Qualify(style)
    ELSE IF SemanticUnit(style) THEN "semantic"
    ELSE IF Distinct(style, behind) THEN "background"
    ELSE IF style.radius > 0 /\ HasVisibleLayer(style) THEN "rounded" ELSE "none"

-----------------------------------------------------------------------------
(* Geometry.                                                                 *)

Size(b) == b.hi - b.lo
Shifted(b, d) == [lo |-> b.lo + d, hi |-> b.hi + d]
Cut(a, b) == [lo |-> Max({a.lo, b.lo}), hi |-> Min({a.hi, b.hi})]
OffScreen(b) == Size(b) > 0 /\ (b.hi <= 0 \/ b.lo >= Viewport)
Floor(kind) == IF kind = "media" THEN MinMedia ELSE MinBox

\* The page as it is: boxes in document pixels, those of a fixed element and
\* its insides in viewport pixels; nothing where display is none.
Rendered(dom, e) == \A a \in OnPath[e] : dom[a].shown
InFixed(dom, e) == \E a \in OnPath[e] : dom[a].position = "fixed"
Bounds(dom, scroll, e) ==
    IF ~Rendered(dom, e) THEN [lo |-> 0, hi |-> 0]
    ELSE IF InFixed(dom, e) THEN dom[e].box ELSE Shifted(dom[e].box, -scroll)

\* paddingBox: what overflow clips to.
PaddingBox(dom, scroll, e) ==
    LET box == Bounds(dom, scroll, e)
    IN IF ~Rendered(dom, e) THEN box
       ELSE [lo |-> box.lo + dom[e].borders[1].width, hi |-> box.hi - dom[e].borders[2].width]

\* Who may clip e next: a fixed element nobody, an absolute one its containing
\* block, any other its parent.  part[a] is what is known of a.
ContainerOf(e, part) ==
    LET above == {a \in OnPath[e] \ {e} : part[e].flow # "absolute" \/ part[a].positioned}
    IN IF part[e].flow = "fixed" \/ above = {} THEN NoElement ELSE Nearest(above)

\* Those among them that were read and clip.
Clippers(e, part) ==
    LET Around[a \in Elements] ==
            LET c == ContainerOf(a, part) IN IF c = NoElement THEN {} ELSE {c} \cup Around[c]
    IN {d \in Elements \cap Around[e] : part[d].full /\ part[d].clips}

\* clippedBox and visibleRect.
Clipped(e, box, part) ==
    LET clips == {part[d].clip : d \in Clippers(e, part)}
    IN [lo |-> Max({box.lo} \cup {c.lo : c \in clips}),
        hi |-> Min({box.hi} \cup {c.hi : c \in clips})]

SameSize(a, b) == 10 * (Max({a, b}) - Min({a, b})) <= Max({a, b})

\* repeatingChildren: the boxes with enough siblings of their size.
Repeating(boxes) ==
    {i \in DOMAIN boxes :
        /\ Size(boxes[i]) > 0
        /\ Cardinality({j \in DOMAIN boxes : Size(boxes[j]) > 0
                            /\ SameSize(Size(boxes[i]), Size(boxes[j]))}) >= MinSiblings}

-----------------------------------------------------------------------------
(* The walk.                                                                 *)

NoPart == [known |-> FALSE, full |-> FALSE]
NoPending == [left |-> 0, kids |-> <<>>]

NewScan(cache, live, version) ==
    [status |-> "running", index |-> {}, cache |-> cache, live |-> live,
     stack |-> <<[node |-> Root, behind |-> Canvas, anchored |-> FALSE]>>,
     part |-> [e \in Elements |-> NoPart],
     pending |-> [e \in Elements |-> NoPending],
     version |-> version]       \* history: the page it started on

\* Into the index, unless what is seen of it is under the floor.
Admitted(s, es) ==
    [s EXCEPT !.index = @ \cup
        {c \in {[node |-> e, kind |-> s.part[e].kind, anchored |-> s.part[e].anchored,
                 depth |-> DepthOf(e), box |-> s.part[e].box,
                 rect |-> Clipped(e, s.part[e].box, s.part)] : e \in es} :
            Size(c.rect) >= Floor(c.kind)}]

Named(s, es, kind) == [s EXCEPT !.part = [e \in Elements |->
                          IF e \in es THEN [s.part[e] EXCEPT !.kind = kind] ELSE s.part[e]]]

\* Every child of the parent has been visited: its items, and the set they make.
Judged(s, parent) ==
    LET kids == s.pending[parent].kids
        repeating == {kids[i] : i \in Repeating([i \in DOMAIN kids |-> s.part[kids[i]].box])}
        items == {k \in repeating : s.part[k].full /\ s.part[k].kind = "none"}
        s1 == Admitted(Named(s, items, "item"), items)
        set == IF Cardinality(repeating) >= MinSiblings /\ s.part[parent].full
                  /\ s.part[parent].kind = "none"
               THEN {parent} ELSE {}
    IN Admitted(Named(s1, set, "set"), set)

\* childDone: NoElement where the child is not rendered.
ChildDone(s, parent, child) ==
    IF parent = NoElement \/ (parent # NoElement /\ s.pending[parent].left = 0) THEN s
    ELSE LET kids == IF child = NoElement THEN <<>> ELSE <<child>>
             s1 == [s EXCEPT !.pending[parent] = [left |-> @.left - 1, kids |-> @.kids \o kids]]
         IN IF s1.pending[parent].left > 0 THEN s1 ELSE Judged(s1, parent)

\* A light record has bounds only.
Recorded(s, frame, dom, scroll, style) ==
    LET anchored == frame.anchored \/ style.position = "fixed"
        shift == IF anchored THEN 0 ELSE scroll
        traits == Traits(style)
    IN [s EXCEPT !.part[frame.node] =
            [known |-> TRUE, full |-> TRUE, kind |-> KindOf(style, frame.behind),
             flow |-> traits.flow, positioned |-> traits.positioned, clips |-> traits.clips,
             anchored |-> anchored, box |-> Shifted(Bounds(dom, scroll, frame.node), shift),
             clip |-> Shifted(PaddingBox(dom, scroll, frame.node), shift)]]

Peeked(s, frame, dom, scroll) ==
    [s EXCEPT !.part[frame.node] =
        [known |-> TRUE, full |-> FALSE, anchored |-> frame.anchored,
         box |-> Shifted(Bounds(dom, scroll, frame.node), IF frame.anchored THEN 0 ELSE scroll)]]

\* Seeded bug: a child that is not rendered is not counted as done.
SkippedUncounted(s, e) == s

\* An element that is not rendered: its insides are not walked.
Skipped(s, e) == ChildDone(s, ParentOf[e], NoElement)

\* staticPart: a style is read once, until its element is dirtied.
StaticPart(cache, dom, e) == IF cache[e] = NoPart THEN dom[e] ELSE cache[e]

\* source.children: elements with a box of their own, and none inside a picture.
Kids(dom, e) ==
    IF dom[e].tag \in OpaqueTags THEN <<>>
    ELSE Only(ChildrenOf[e], {k \in Elements : dom[k].tag \notin SkipTags})

\* visit, of an element read: its children to visit, and to compare.
Descended(s, frame, style, kids) ==
    LET frames == [i \in DOMAIN kids |->
                     [node |-> kids[i], behind |-> Behind(style, frame.behind),
                      anchored |-> frame.anchored \/ style.position = "fixed"]]
    IN [s EXCEPT !.cache[frame.node] = style, !.stack = @ \o Reverse(frames),
                 !.pending[frame.node] = IF style.layout /\ Len(kids) >= MinSiblings
                                         THEN [left |-> Len(kids), kids |-> <<>>] ELSE NoPending]

\* visit: the element on top of the stack.
Visit(s, dom, scroll) ==
    LET frame == Last(s.stack)
        e == frame.node
        s1 == [s EXCEPT !.stack = Front(@)]
        style == StaticPart(s.cache, dom, e)
        read == Recorded(Descended(s1, frame, style, Kids(dom, e)), frame, dom, scroll, style)
    IN IF OffScreen(Bounds(dom, scroll, e))
       THEN ChildDone(Peeked(s1, frame, dom, scroll), ParentOf[e], e)
       ELSE IF ~style.shown THEN Skipped([s1 EXCEPT !.cache[e] = style], e)
       ELSE ChildDone(IF read.part[e].kind = "none" THEN read ELSE Admitted(read, {e}), ParentOf[e], e)

\* step(), one element at a time: a slice is any number of these in a row.
Step(s, dom, scroll) ==
    LET v == Visit(s, dom, scroll)
    IN IF v.stack = <<>> THEN [v EXCEPT !.status = "done"] ELSE v

-----------------------------------------------------------------------------
(* Lookup.                                                                   *)

CellsOf(rect) == (rect.lo \div CellSide)..((rect.hi - 1) \div CellSide)

\* near: the candidates of an anchor in the cells a rect touches, and the
\* large ones, which are in no cell.
Near(index, anchored, rect) ==
    {c \in index : c.anchored = anchored /\
        (Cardinality(CellsOf(c.rect)) > MaxCells \/ CellsOf(c.rect) \cap CellsOf(rect) # {})}

Within(rect, x) == rect.lo <= x /\ x <= rect.hi

\* containing: each anchor is probed with the point in its own space.
Containing(index, x, scroll) ==
    LET Probe(anchored, p) == {c \in Near(index, anchored, [lo |-> p, hi |-> p + 1]) : Within(c.rect, p)}
    IN Probe(FALSE, x + scroll) \cup Probe(TRUE, x)

\* viewportRect: what a capture would take.
InViewport(c, scroll) ==
    LET d == IF c.anchored THEN 0 ELSE -scroll
    IN [c EXCEPT !.rect = Cut(Shifted(@, d), [lo |-> 0, hi |-> Viewport]), !.box = Shifted(@, d)]

\* Nine tenths of the viewport is the most a suggestion covers.
PassesGuards(rect, kind) == Size(rect) >= Floor(kind) /\ 10 * Size(rect) <= 9 * Viewport

\* ownEdgeDistance <= EdgePromote: an edge cut off is not the element's own.
NearOwnEdge(c, x) ==
    \/ c.rect.lo = c.box.lo /\ x - c.rect.lo <= EdgePromote
    \/ c.rect.hi = c.box.hi /\ c.rect.hi - x <= EdgePromote

SmallerThan(a, b) ==
    Size(a.rect) < Size(b.rect) \/ (Size(a.rect) = Size(b.rect) /\ a.depth > b.depth)

\* resolveHover: guards, then edge promotion, then the smallest.
ResolveHover(cands, x) ==
    LET eligible == {c \in cands : PassesGuards(c.rect, c.kind) /\ Within(c.rect, x)}
        Smallest(cs) == CHOOSE c \in cs : \A d \in cs : ~SmallerThan(d, c)
        promoted == {c \in eligible : c # Smallest(eligible) /\ NearOwnEdge(c, x)}
    IN IF eligible = {} THEN {}
       ELSE IF promoted # {} THEN {Smallest(promoted)} ELSE {Smallest(eligible)}

\* edgesNear: candidate boundaries around a point, in viewport pixels.
EdgesNear(index, x, scroll) ==
    LET Around(p) == [lo |-> p - SnapDistance, hi |-> p + SnapDistance + 1]
        rects == {Shifted(c.rect, -scroll) : c \in Near(index, FALSE, Around(x + scroll))}
                 \cup {c.rect : c \in Near(index, TRUE, Around(x))}
    IN {b \in UNION {{r.lo, r.hi} : r \in rects} : b - x \in -SnapDistance..SnapDistance}

\* snapToEdges: the nearest of them.
SnapTo(index, x, scroll) ==
    LET edges == EdgesNear(index, x, scroll)
        Far(b) == Max({b - x, x - b})
    IN IF edges = {} THEN x ELSE CHOOSE b \in edges : \A d \in edges : Far(b) <= Far(d)

-----------------------------------------------------------------------------
(* What a scan of a page that holds still should find, without the walk.     *)

Walked(dom, e) ==
    /\ \A a \in OnPath[e] : dom[a].tag \notin SkipTags
    /\ \A a \in OnPath[e] \ {e} : dom[a].tag \notin OpaqueTags
Read(dom, scroll, e) ==
    Walked(dom, e) /\ \A a \in OnPath[e] : dom[a].shown /\ ~OffScreen(Bounds(dom, scroll, a))

OwnKind(dom, e) ==
    LET BehindOf[a \in Elements] ==
            IF a = Root THEN Canvas ELSE Behind(dom[ParentOf[a]], BehindOf[ParentOf[a]])
    IN KindOf(dom[e], BehindOf[e])

RepeatingKids(dom, scroll, p) ==
    LET kids == Only(Kids(dom, p), {k \in Elements : dom[k].shown})
    IN IF ~dom[p].layout \/ Len(Kids(dom, p)) < MinSiblings THEN {}
       ELSE {kids[i] : i \in Repeating([i \in DOMAIN kids |-> Bounds(dom, scroll, kids[i])])}

Targets(dom, scroll) ==
    {e \in Elements : Read(dom, scroll, e) /\
        \/ OwnKind(dom, e) # "none"
        \/ e # Root /\ e \in RepeatingKids(dom, scroll, ParentOf[e])
        \/ Cardinality(RepeatingKids(dom, scroll, e)) >= MinSiblings}

\* What is seen of an element, in viewport pixels.
LivePart(dom, scroll) ==
    [a \in Elements |-> [flow |-> Traits(dom[a]).flow, positioned |-> Traits(dom[a]).positioned,
                         clips |-> Traits(dom[a]).clips, full |-> TRUE,
                         clip |-> PaddingBox(dom, scroll, a)]]
SeenOf(dom, scroll, e) == Clipped(e, Bounds(dom, scroll, e), LivePart(dom, scroll))

Findable(dom, scroll) ==
    {<<e, SeenOf(dom, scroll, e)>> :
        e \in {t \in Targets(dom, scroll) : Size(SeenOf(dom, scroll, t)) >= Floor(OwnKind(dom, t))}}

Found(index, scroll) ==
    {<<c.node, Shifted(c.rect, IF c.anchored THEN 0 ELSE -scroll)>> : c \in index}
=============================================================================
