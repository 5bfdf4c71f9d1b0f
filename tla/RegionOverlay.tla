--------------------------- MODULE RegionOverlay ---------------------------
(* The region overlay over a live page: a scan in frame slices, rescans      *)
(* after scrolls and mutations, a hover evaluated on the next frame, presses *)
(* that capture a highlight or drag a snapped rectangle, Escape.  Painting   *)
(* and timings are left out; the assist is on.                               *)
EXTENDS StructureScan

CONSTANTS
    Page0,          \* the document when the overlay is mounted
    Changes,        \* <<element, its new descriptor>>: what scripts do to it
    Scrolls,        \* scroll positions
    Page0Scroll,    \* and where it stands then
    Points,         \* where the pointer goes, in viewport pixels
    MaxEvents       \* bound on changes of the page and pointer events together

Measured(style) ==
    {style.box.lo, style.box.hi, style.borders[1].width, style.borders[2].width} \subseteq Int

\* The least that may be selected is a device pixel wide at any zoom.
ASSUME OverlayAssumption ==
    /\ Page0 = [e \in Elements |-> Page0[e]] /\ \A e \in Elements : Measured(Page0[e])
    /\ \A c \in Changes : c[1] \in Elements /\ Measured(c[2])
    /\ Scrolls \cup {Page0Scroll} \cup Points \subseteq Int
    /\ \A least \in {MinRegion, MinMedia, MinBox} : least * Scale >= 4
    /\ MaxEvents \in Nat

VARIABLES
    dom, scroll,    \* the page
    scan,           \* the scan under way
    served,         \* the index hover and snapping read
    records,        \* what the served scan recorded of each element
    cache,          \* styles read, until their element is dirtied
    dirty,          \* elements whose subtree's styles may have changed
    rescan,         \* the rescan timer, and rescanWanted
    scanned,        \* how the last completed scan ended
    version,        \* history: the page it started on
    press,          \* start, anchor and armed of the button held down
    pointer,        \* the hover position, its frame, the highlight painted
    result,         \* what the overlay resolved with
    changes, gestures

overlayVars == <<dom, scroll, scan, served, records, cache, dirty, rescan, scanned, version,
          press, pointer, result, changes, gestures>>
page == <<dom, scroll, changes>>
index == <<scan, served, records, cache, dirty, rescan, scanned, version>>
input == <<press, pointer, result, gestures>>

NoScan == [status |-> "none"]
NoPress == [down |-> FALSE]
Mounted == result.kind = "none"
Scanning == scan.status = "running"
Nowhere == -1
Change == changes + gestures < MaxEvents /\ changes' = changes + 1
NoStyles == [e \in Elements |-> NoPart]

OverlayInit ==
    /\ dom = Page0 /\ scroll = Page0Scroll
    /\ scan = NewScan(NoStyles, TRUE, 0)
    /\ served = {} /\ records = [e \in Elements |-> NoPart]
    /\ cache = NoStyles /\ dirty = {}
    /\ rescan = [timer |-> FALSE, wanted |-> FALSE] /\ scanned = "never" /\ version = 0
    /\ press = NoPress
    /\ pointer = [at |-> Nowhere, frame |-> FALSE, highlight |-> {}]
    /\ result = [kind |-> "none"]
    /\ changes = 0 /\ gestures = 0

HoverSoon == [pointer EXCEPT !.frame = TRUE]
Painted(p, highlight) == [p EXCEPT !.highlight = highlight]

-----------------------------------------------------------------------------
(* Scanning.                                                                 *)

\* Seeded bug: a rescan asked for while a scan runs is forgotten.
RescanUnlessRunning(r, running) == [r EXCEPT !.timer = @ \/ ~running]

\* requestRescan: after the running scan, or when the throttle allows.
Rescan(r, running) == IF running THEN [r EXCEPT !.wanted = TRUE] ELSE [r EXCEPT !.timer = TRUE]

\* completeScan: serve the index, and run what waited on it.
Completes(s, how) ==
    /\ scan' = NoScan
    /\ served' = s.index /\ records' = s.part /\ cache' = s.cache
    /\ scanned' = how /\ version' = s.version
    /\ rescan' = [wanted |-> FALSE, timer |-> rescan.timer \/ rescan.wanted]

\* An element of a slice, in a frame or while a press waits for the first scan;
\* an index served while still empty is the scan's own, as it fills.
ScanFrame ==
    /\ Mounted /\ Scanning
    /\ \E s \in {Step(scan, dom, scroll)} :
         IF s.status = "done" THEN Completes(s, "done") /\ pointer' = HoverSoon
         ELSE /\ scan' = s /\ cache' = s.cache
              /\ served' = IF s.live THEN s.index ELSE served
              /\ records' = IF s.live THEN s.part ELSE records
              /\ UNCHANGED <<rescan, scanned, version, pointer>>
    /\ UNCHANGED <<page, dirty, press, result, gestures>>

\* The node cap or the time budget ends the scan with what it has.
ScanGivesUp ==
    /\ Mounted /\ Scanning
    /\ Change
    /\ Completes(scan, "early")
    /\ pointer' = HoverSoon
    /\ UNCHANGED <<dom, scroll, dirty, press, result, gestures>>

Subtree(e) == {d \in Elements : e \in OnPath[d]}

\* The timer: the styles of what was dirtied will be read again.
RescanStarts ==
    /\ Mounted /\ rescan.timer /\ ~Scanning
    /\ LET fresh == [e \in Elements |-> IF \E d \in dirty : e \in Subtree(d) THEN NoPart ELSE cache[e]]
       IN scan' = NewScan(fresh, served = {}, changes) /\ cache' = fresh
    /\ dirty' = {} /\ rescan' = [rescan EXCEPT !.timer = FALSE]
    /\ UNCHANGED <<page, served, records, scanned, version, input>>

-----------------------------------------------------------------------------
(* The page under the overlay.                                               *)

\* A script changes an element; the observer hears of it before the next frame.
Mutates(c) ==
    /\ Mounted /\ dom[c[1]] # c[2]
    /\ Change
    /\ dom' = [dom EXCEPT ![c[1]] = c[2]]
    /\ dirty' = dirty \cup {c[1]}
    /\ rescan' = Rescan(rescan, Scanning)
    /\ UNCHANGED <<scroll, scan, served, records, cache, scanned, version, input>>

\* onScroll.
PageScrolls(y) ==
    /\ Mounted /\ y # scroll
    /\ Change
    /\ scroll' = y
    /\ rescan' = Rescan(rescan, Scanning) /\ pointer' = HoverSoon
    /\ UNCHANGED <<dom, scan, served, records, cache, dirty, scanned, version, press, result, gestures>>

\* onResize: media queries restyle an element nobody touched.
PageRestyles(c) ==
    /\ Mounted /\ dom[c[1]] # c[2]
    /\ Change
    /\ dom' = [dom EXCEPT ![c[1]] = c[2]]
    /\ dirty' = Elements            \* invalidateAll
    /\ rescan' = Rescan(rescan, Scanning) /\ pointer' = HoverSoon
    /\ UNCHANGED <<scroll, scan, served, records, cache, scanned, version, press, result, gestures>>

-----------------------------------------------------------------------------
(* Suggesting.                                                               *)

\* elementsFromPoint below the overlay: the last painted.
Seen(e) == Cut(SeenOf(dom, scroll, e), [lo |-> 0, hi |-> Viewport])
Under(x) == {e \in Elements : Rendered(dom, e) /\ Seen(e).lo <= x /\ x < Seen(e).hi}

\* suggestAt, against an index: what it resolves to on the live hit path.
SuggestAt(idx, x) ==
    IF Under(x) = {} THEN {}
    ELSE LET live == {c \in Containing(idx, x, scroll) : c.node \in OnPath[Max(Under(x))]}
         IN ResolveHover({InViewport(c, scroll) : c \in live}, x)

HoverFrame ==
    /\ Mounted /\ pointer.frame
    /\ LET p == [pointer EXCEPT !.frame = FALSE]
       IN pointer' = IF press.down THEN p
                     ELSE Painted(p, IF p.at = Nowhere THEN {} ELSE SuggestAt(served, p.at))
    /\ UNCHANGED <<page, index, press, result, gestures>>

\* The scan's traits where it read them, else the element's own; boxes now.
LiveParts ==
    [a \in Elements |->
        LET traits == IF records[a].full THEN records[a] ELSE Traits(dom[a])
        IN [flow |-> traits.flow, positioned |-> traits.positioned, clips |-> traits.clips,
            full |-> TRUE, clip |-> PaddingBox(dom, scroll, a)]]

LiveRect(e) == Cut(Clipped(e, Bounds(dom, scroll, e), LiveParts), [lo |-> 0, hi |-> Viewport])

CaptureRectLive(c, x) == LiveRect(c.node)   \* Seeded bug: no fallback to what was shown

\* captureRect: the element where it is now, while that still fits the press.
CaptureRect(c, x) ==
    IF PassesGuards(LiveRect(c.node), c.kind) /\ Within(LiveRect(c.node), x)
    THEN LiveRect(c.node) ELSE c.rect

-----------------------------------------------------------------------------
(* The pointer and the keys.                                                 *)

Gesture == Mounted /\ changes + gestures < MaxEvents /\ gestures' = gestures + 1
InSlop(a, b) == a - b \in -(MinRegion - 1)..(MinRegion - 1)
Snapped(idx, x, alt) == IF alt THEN x ELSE SnapTo(idx, x, scroll)

\* A press decides on the spot, against the index as it is.
PointerDown(x, alt) ==
    /\ Gesture /\ ~press.down
    /\ \E armed \in {SuggestAt(served, x)} :
         /\ press' = [down |-> TRUE, start |-> x, anchor |-> Snapped(served, x, alt), armed |-> armed]
         /\ pointer' = Painted([pointer EXCEPT !.at = x], armed)
    /\ UNCHANGED <<page, index, result>>

\* Past the slop a press is a drag: the highlight goes.
PointerMove(x) ==
    /\ Gesture
    /\ IF ~press.down THEN pointer' = [HoverSoon EXCEPT !.at = x] /\ UNCHANGED press
       ELSE IF press.armed # {} /\ ~InSlop(press.start, x)
       THEN press' = [press EXCEPT !.armed = {}] /\ pointer' = Painted([pointer EXCEPT !.at = x], {})
       ELSE pointer' = [pointer EXCEPT !.at = x] /\ UNCHANGED press
    /\ UNCHANGED <<page, index, result>>

\* finish: timers, frames and the scan go with the overlay.
Finishes(r) ==
    /\ result' = r
    /\ scan' = NoScan /\ rescan' = [timer |-> FALSE, wanted |-> FALSE]
    /\ press' = NoPress /\ pointer' = [pointer EXCEPT !.frame = FALSE]
    /\ UNCHANGED <<page, served, records, cache, dirty, scanned, version>>

\* A click on the highlight, a rectangle, or a click that selects nothing.
PointerUp(x, alt) ==
    /\ Gesture /\ press.down
    /\ LET drag == DragSide(press.anchor, Snapped(served, x, alt), Viewport)
       IN CASE press.armed # {} /\ InSlop(press.start, x) ->
                 LET c == CHOOSE c \in press.armed : TRUE
                 IN Finishes([kind |-> "click", of |-> c.kind, at |-> press.start,
                            rect |-> CaptureRect(c, press.start)])
            [] (press.armed = {} \/ ~InSlop(press.start, x)) /\ IsDrag(drag, drag) ->
                 Finishes([kind |-> "drag", rect |-> [lo |-> drag.at, hi |-> drag.at + drag.len]])
            [] OTHER -> /\ press' = NoPress /\ pointer' = [HoverSoon EXCEPT !.at = x]
                        /\ UNCHANGED <<page, index, result>>

PointerCancel ==
    /\ Gesture /\ press.down
    /\ press' = NoPress /\ pointer' = HoverSoon
    /\ UNCHANGED <<page, index, result>>

PointerLeave ==
    /\ Gesture /\ ~press.down
    /\ pointer' = [HoverSoon EXCEPT !.at = Nowhere]
    /\ UNCHANGED <<page, index, press, result>>

Escape ==
    /\ Mounted
    /\ Finishes([kind |-> "cancelled"])
    /\ UNCHANGED gestures

-----------------------------------------------------------------------------

OverlayNext ==
    \/ ScanFrame \/ ScanGivesUp \/ RescanStarts \/ HoverFrame
    \/ \E c \in Changes : Mutates(c) \/ PageRestyles(c)
    \/ \E y \in Scrolls : PageScrolls(y)
    \/ \E x \in Points :
         \/ PointerMove(x)
         \/ \E alt \in BOOLEAN : PointerDown(x, alt) \/ PointerUp(x, alt)
    \/ PointerCancel \/ PointerLeave \/ Escape

\* Frames and timers are delivered: WF of ScanFrame, said of the scan it moves.
FramesCome == []<>~(Mounted /\ Scanning) \/ []<><<scan' # scan>>_overlayVars

OverlaySpec == OverlayInit /\ [][OverlayNext]_overlayVars /\ FramesCome /\ WF_overlayVars(RescanStarts)

-----------------------------------------------------------------------------
(* Properties.                                                               *)

\* The index of a scan over a page that held still is what reading the whole
\* page at once would find: items, sets and backgrounds included, in any slicing.
ScanFindsWhatIsThere ==
    Mounted /\ scanned = "done" /\ version = changes =>
        Found(served, scroll) = Findable(dom, scroll)

\* A selection can be cut from the snapshot: inside the viewport, not empty in
\* device pixels, no smaller than promised, and a click is within what it takes.
SelectionIsCapturable ==
    result.kind \in {"click", "drag"} =>
        LET r == result.rect
        IN /\ 0 <= r.lo /\ r.hi <= Viewport
           /\ PhysicalSide([at |-> r.lo, len |-> Size(r)], Px(Viewport)).len > 0
           /\ result.kind = "drag" => Size(r) >= MinRegion
           /\ result.kind = "click" => PassesGuards(r, result.of) /\ Within(r, result.at)

\* Once the page holds still, what hovers and snaps read catches up with it,
\* however changes fall between scans, unless the last scan gave up.
IndexCatchesUp == <>[](Mounted /\ scanned = "done" => version = changes)
=============================================================================
