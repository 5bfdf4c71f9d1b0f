-------------------------- MODULE ExtensionCapture --------------------------
(* The browser extension's captures: the background's flows behind their     *)
(* lock, the content script each tab answers commands with, scroll-and-      *)
(* stitch, and region selections whose result comes back as a message.  The  *)
(* user scrolls, presses Esc, changes tabs, navigates and closes; the worker *)
(* is recycled; a command times out while the page still has it queued.      *)
(* Notifications, the badge and the answer to the upload are left out.       *)
EXTENDS CaptureGeometry, TLC

CONSTANTS
    Tabs,
    Heights,        \* document heights, in CSS rows
    Scrolls,        \* where a user may have scrolled to
    MaxFlows,       \* bound on captures
    MaxTroubles     \* bound on what disturbs them, all kinds together

ASSUME ExtensionAssumption ==
    /\ MaxFlows \in Nat \ {0} /\ MaxTroubles \in Nat
    /\ Heights \subseteq Nat \ {0} /\ Scrolls \subseteq Nat

Flows == 1..MaxFlows

VARIABLES
    page,           \* each tab: its document and its content script
    active,         \* the tab the window shows
    flow,           \* the background's captures
    holder,         \* the capture that holds the lock, 0 for none
    pendingRegions, \* the region selection of each tab, 0 for none
    results,        \* region results on their way to the background
    events,         \* tabs whose onUpdated or onRemoved is on its way
    troubles        \* counter for the bound

vars == <<page, active, flow, holder, pendingRegions, results, events, troubles>>
background == <<flow, holder, pendingRegions, results, events>>

NoDriver == [driving |-> FALSE]
NotYet == [pc |-> "idle"]
Over == [pc |-> "over"]
Waiting == [kind |-> "none"]
Rejected == [kind |-> "error"]

FreshPage(h, y) ==
    [open |-> TRUE, height |-> h, y |-> y, hidden |-> FALSE, driver |-> NoDriver,
     cancelled |-> FALSE, overlays |-> 0, inbox |-> <<>>,
     home |-> y]            \* history: where the user left it

Init ==
    /\ \E h \in Heights, y \in Scrolls :
         page = [t \in Tabs |-> FreshPage(h, Min({y, MaxScroll(h)}))]
    /\ active \in Tabs
    /\ flow = [f \in Flows |-> NotYet]
    /\ holder = 0 /\ pendingRegions = [t \in Tabs |-> 0]
    /\ results = {} /\ events = {} /\ troubles = 0

Trouble == troubles < MaxTroubles /\ troubles' = troubles + 1
Live(f) == flow[f].pc \notin {"idle", "over"}
Runs(f, mode) == Live(f) /\ flow[f].mode = mode

\* A fresh capture of a tab.
NewFlow(mode, t, pc) ==
    [pc |-> pc, mode |-> mode, tab |-> t, i |-> 0, n |-> 0, reply |-> Waiting,
     plan |-> [canvasHeight |-> 0, tiles |-> <<>>], imageHeight |-> 0, landed |-> 0,
     comp |-> <<>>,         \* the bands drawn on the composite
     ok |-> FALSE,
     disturbed |-> FALSE,   \* history: tab, scroll or watchdog changed under it
     resized |-> FALSE,     \* history: the document changed its height
     missed |-> FALSE]      \* history: its tab's event or result came too early

\* Captures are numbered in the order they start.
Unused(f) == flow[f].pc = "idle" /\ \A g \in Flows : g < f => flow[g].pc # "idle"

Marked(t, field) ==
    [f \in Flows |-> IF Live(f) /\ flow[f].tab = t
                     THEN [flow[f] EXCEPT ![field] = TRUE] ELSE flow[f]]

-----------------------------------------------------------------------------
(* sendToContent: one command, its expected reply, a timeout.                *)

\* The flow r asks its page; where no tab is left the message is rejected.
Ask(f, r, pc, cmd, y) ==
    LET asked == [r EXCEPT !.pc = pc, !.n = @ + 1,
                           !.reply = IF page[r.tab].open THEN Waiting ELSE Rejected]
    IN /\ flow' = [flow EXCEPT ![f] = asked]
       /\ page' = IF page[r.tab].open
                  THEN [page EXCEPT ![r.tab].inbox =
                            Append(@, [cmd |-> cmd, y |-> y, flow |-> f, n |-> asked.n])]
                  ELSE page

\* The command times out; the page may still carry it out later.
Timeout(f) ==
    /\ flow[f].pc \in {"select", "begin", "hide", "scroll", "restore"} /\ flow[f].reply = Waiting
    /\ Trouble
    /\ flow' = [flow EXCEPT ![f].reply = Rejected]
    /\ UNCHANGED <<page, active, holder, pendingRegions, results, events>>

-----------------------------------------------------------------------------
(* The content script of a tab.                                              *)

\* measurePage, as far as the document's height.
MeasurePage(p) == [kind |-> "metrics", height |-> p.height]

\* scrollToInstant: the page goes no further than it can.
ScrollTo(p, y) == [p EXCEPT !.y = Min({y, MaxScroll(p.height)})]

\* hideFixed: fixed and sticky elements, until they get their own value back.
HideFixed(p) == [p EXCEPT !.hidden = TRUE]

\* PageDriver.restore.
RestoreDriver(p) ==
    [ScrollTo(p, p.driver.original) EXCEPT !.hidden = FALSE, !.home = Min({@, MaxScroll(p.height)})]

\* teardown: drop the driver, if there is one, and forget Esc.
Teardown(p) ==
    IF p.driver.driving THEN [RestoreDriver(p) EXCEPT !.driver = NoDriver, !.cancelled = FALSE]
    ELSE [p EXCEPT !.cancelled = FALSE]

\* Seeded bug: a driver left by another run is not torn down first.
BegunOverTheOld(p) == [p EXCEPT !.driver = [driving |-> TRUE, original |-> p.y], !.y = 0]

Begun(p) ==
    LET q == Teardown(p)
    IN [ScrollTo(q, 0) EXCEPT !.driver = [driving |-> TRUE, original |-> q.y]]

\* The handler of one command: the page afterwards and the reply.
Handled(p, c) ==
    CASE c.cmd = "select" -> <<[p EXCEPT !.overlays = @ + 1], [kind |-> "started"]>>
      [] c.cmd = "begin" -> <<Begun(p), MeasurePage(p)>>
      [] c.cmd = "restore" -> <<Teardown(p), [kind |-> "restored"]>>
      [] c.cmd \in {"scroll", "hide"} /\ ~p.driver.driving -> <<p, Rejected>>
      [] c.cmd = "scroll" /\ p.driver.driving ->
            LET q == ScrollTo(p, c.y)
            IN <<q, [kind |-> "scrolled", y |-> q.y, cancelled |-> q.cancelled]>>
      [] c.cmd = "hide" /\ p.driver.driving -> <<HideFixed(p), [kind |-> "hidden"]>>

\* Commands are handled in order; a reply nobody waits for any more is dropped.
PageHandles(t) ==
    /\ page[t].inbox # <<>>
    /\ LET c == Head(page[t].inbox)
           h == Handled([page[t] EXCEPT !.inbox = Tail(@)], c)
           r == flow[c.flow]
       IN /\ page' = [page EXCEPT ![t] = h[1]]
          /\ flow' = IF Live(c.flow) /\ r.n = c.n /\ r.reply = Waiting
                     THEN [flow EXCEPT ![c.flow].reply = h[2]] ELSE flow
    /\ UNCHANGED <<active, holder, pendingRegions, results, events, troubles>>

\* The background has been silent too long.
Watchdog(t) ==
    /\ page[t].driver.driving
    /\ page' = [page EXCEPT ![t] = Teardown(@)]
    /\ flow' = Marked(t, "disturbed")
    /\ UNCHANGED <<active, holder, pendingRegions, results, events, troubles>>

Escape ==
    /\ page[active].driver.driving /\ ~page[active].cancelled
    /\ Trouble
    /\ page' = [page EXCEPT ![active].cancelled = TRUE]
    /\ UNCHANGED <<active, background>>

\* The selection ends: an overlay leaves and its result goes to the background.
RegionEnds(chosen) ==
    /\ page[active].overlays > 0
    /\ page' = [page EXCEPT ![active].overlays = @ - 1]
    /\ results' = results \cup {[tab |-> active, selected |-> chosen]}
    /\ UNCHANGED <<active, flow, holder, pendingRegions, events, troubles>>

-----------------------------------------------------------------------------
(* The lock.                                                                 *)

AcquireAnyway == TRUE           \* Seeded bug: acquire() does not look at the holder
Acquirable == holder = 0

\* A release frees only its own holding.
ReleasedBy(f) == IF holder = f THEN 0 ELSE holder

Ends(f) == flow' = [flow EXCEPT ![f] = Over] /\ holder' = ReleasedBy(f)

-----------------------------------------------------------------------------
(* startCapture.                                                             *)

StartVisible(f) ==
    /\ Unused(f) /\ page[active].open
    /\ flow' = [flow EXCEPT ![f] = NewFlow("visible", active, "shot")]
    /\ UNCHANGED <<page, active, holder, pendingRegions, results, events, troubles>>

StartRegion(f) ==
    /\ Unused(f) /\ page[active].open /\ Acquirable
    /\ holder' = f
    /\ Ask(f, NewFlow("region", active, "select"), "select", "select", 0)
    /\ UNCHANGED <<active, pendingRegions, results, events, troubles>>

StartFull(f) ==
    /\ Unused(f) /\ page[active].open /\ Acquirable
    /\ holder' = f
    /\ \E h \in SnapshotHeights :
         Ask(f, [NewFlow("full", active, "begin") EXCEPT !.imageHeight = h], "begin", "begin", 0)
    /\ UNCHANGED <<active, pendingRegions, results, events, troubles>>

-----------------------------------------------------------------------------
(* Region captures.                                                          *)

\* The overlay is up, or the start failed and gives the lock back.
RegionStarted(f) ==
    /\ flow[f].pc = "select" /\ flow[f].reply # Waiting
    /\ IF flow[f].reply = Rejected THEN Ends(f) /\ UNCHANGED pendingRegions
       ELSE /\ pendingRegions' = [pendingRegions EXCEPT ![flow[f].tab] = f]
            /\ flow' = [flow EXCEPT ![f].pc = "pending"]
            /\ UNCHANGED holder
    /\ UNCHANGED <<page, active, results, events, troubles>>

\* A selection still starting when its tab's event or result is handled.
Missed(t) == [f \in Flows |-> IF flow[f].pc = "select" /\ flow[f].tab = t
                              THEN [flow[f] EXCEPT !.missed = TRUE] ELSE flow[f]]

\* onRemoved and onUpdated: the selection will never report.
AbandonRegion(t) ==
    /\ t \in events /\ events' = events \ {t}
    /\ LET p == pendingRegions[t]
       IN IF p = 0 THEN flow' = Missed(t) /\ UNCHANGED <<holder, pendingRegions>>
          ELSE /\ Ends(p)
               /\ pendingRegions' = [pendingRegions EXCEPT ![t] = 0]
    /\ UNCHANGED <<page, active, results, troubles>>

\* The lock is released before the snapshot; a result whose selection the
\* worker forgot is captured all the same.
HandleRegionResult(m, f) ==
    /\ m \in results /\ results' = results \ {m}
    /\ LET p == pendingRegions[m.tab]
           shot == [NewFlow("region", m.tab, "shot") EXCEPT !.disturbed = m.tab # active]
       IN /\ f = p \/ (p = 0 /\ Unused(f))
          /\ flow' = IF m.selected
                     THEN [Missed(m.tab) EXCEPT ![f] = shot]
                     ELSE IF p = 0 THEN Missed(m.tab) ELSE [flow EXCEPT ![p] = Over]
          /\ holder' = IF p = 0 THEN holder ELSE ReleasedBy(p)
          /\ pendingRegions' = [pendingRegions EXCEPT ![m.tab] = 0]
    /\ UNCHANGED <<page, active, events, troubles>>

\* captureVisibleTab: what the window shows, wherever the request came from.
Band(rect) == [dy |-> rect.dy, sy |-> rect.sy, dh |-> rect.dh,
               y |-> page[active].y, of |-> active, fixed |-> ~page[active].hidden]

Shot(f) ==
    /\ flow[f].pc = "shot"
    /\ flow' = [flow EXCEPT ![f].pc = "upload", ![f].ok = TRUE, ![f].comp = <<Band(NoRect)>>]
    /\ UNCHANGED <<page, active, holder, pendingRegions, results, events, troubles>>

\* A capture without a lock is over when its upload is answered.
Upload(f) ==
    /\ flow[f].pc = "upload"
    /\ Ends(f)
    /\ UNCHANGED <<page, active, pendingRegions, results, events, troubles>>

-----------------------------------------------------------------------------
(* stitchFullPage.                                                           *)

\* Every way out goes through the page's restore.
Finally(f, r) == Ask(f, r, "restore", "restore", 0)

Measured(f) ==
    /\ flow[f].pc = "begin" /\ flow[f].reply # Waiting
    /\ IF flow[f].reply = Rejected THEN Ends(f)
       ELSE /\ flow' = [flow EXCEPT ![f].pc = "check", ![f].i = 1,
                                    ![f].plan = PlanTiles(flow[f].reply.height)]
            /\ UNCHANGED holder
    /\ UNCHANGED <<page, active, pendingRegions, results, events, troubles>>

\* ensureActive, after the pause between tiles.
EnsureActive(f) ==
    /\ flow[f].pc = "check"
    /\ IF active = flow[f].tab
       THEN flow' = [flow EXCEPT ![f].pc = "tile"] /\ UNCHANGED page
       ELSE Finally(f, flow[f])
    /\ UNCHANGED <<active, holder, pendingRegions, results, events, troubles>>

Drawn(r) ==
    LET rect == DrawRectFor(r.plan.tiles[r.i], r.landed, r.plan.canvasHeight, r.imageHeight)
    IN IF rect = NoRect THEN r ELSE [r EXCEPT !.comp = Append(@, Band(rect))]

\* The snapshot, drawn; then the next tile, or the end.
Tile(f) ==
    /\ flow[f].pc = "tile"
    /\ LET r == Drawn(flow[f])
           last == Len(r.plan.tiles)
       IN CASE r.i = last -> Finally(f, [r EXCEPT !.ok = TRUE])
            [] r.i = 1 /\ last > 1 -> Ask(f, r, "hide", "hide", 0)
            [] OTHER -> Ask(f, [r EXCEPT !.i = @ + 1], "scroll", "scroll", r.plan.tiles[r.i + 1].scrollY)
    /\ UNCHANGED <<active, holder, pendingRegions, results, events, troubles>>

\* captureVisibleTab throws.
TileFails(f) ==
    /\ flow[f].pc = "tile"
    /\ Trouble
    /\ Finally(f, flow[f])
    /\ UNCHANGED <<active, holder, pendingRegions, results, events>>

Hidden(f) ==
    /\ flow[f].pc = "hide" /\ flow[f].reply # Waiting
    /\ IF flow[f].reply = Rejected THEN Finally(f, flow[f])
       ELSE Ask(f, [flow[f] EXCEPT !.i = 2], "scroll", "scroll", flow[f].plan.tiles[2].scrollY)
    /\ UNCHANGED <<active, holder, pendingRegions, results, events, troubles>>

Scrolled(f) ==
    /\ flow[f].pc = "scroll" /\ flow[f].reply # Waiting
    /\ IF flow[f].reply = Rejected \/ (flow[f].reply # Rejected /\ flow[f].reply.cancelled)
       THEN Finally(f, flow[f])
       ELSE /\ flow' = [flow EXCEPT ![f].pc = "check", ![f].landed = flow[f].reply.y]
            /\ UNCHANGED page
    /\ UNCHANGED <<active, holder, pendingRegions, results, events, troubles>>

\* A failed restore is only logged.
Restored(f) ==
    /\ flow[f].pc = "restore" /\ flow[f].reply # Waiting
    /\ IF flow[f].ok THEN flow' = [flow EXCEPT ![f].pc = "upload"] /\ UNCHANGED holder
       ELSE Ends(f)
    /\ UNCHANGED <<page, active, pendingRegions, results, events, troubles>>

-----------------------------------------------------------------------------
(* What happens around the extension.                                        *)

Switch(t) ==
    /\ t # active /\ page[t].open
    /\ Trouble
    /\ active' = t /\ flow' = Marked(active, "disturbed")
    /\ UNCHANGED <<page, holder, pendingRegions, results, events>>

\* A scroll by the user: remembered, unless a driver will undo it.
UserScrolls(y) ==
    /\ page[active].open /\ y <= MaxScroll(page[active].height) /\ y # page[active].y
    /\ Trouble
    /\ page' = [page EXCEPT ![active].y = y,
                            ![active].home = IF page[active].driver.driving THEN @ ELSE y]
    /\ flow' = Marked(active, "disturbed")
    /\ UNCHANGED <<active, holder, pendingRegions, results, events>>

\* The document grows or shrinks under the capture, and may take the scroll along.
Resizes(t, h) ==
    /\ page[t].open /\ h # page[t].height
    /\ Trouble
    /\ LET y == Min({page[t].y, MaxScroll(h)})
       IN page' = [page EXCEPT ![t].height = h, ![t].y = y,
                               ![t].home = IF page[t].driver.driving THEN @ ELSE y]
    /\ flow' = [f \in Flows |-> IF Live(f) /\ flow[f].tab = t
                     THEN [flow[f] EXCEPT !.resized = TRUE,
                                          !.disturbed = @ \/ page[t].y > MaxScroll(h)]
                     ELSE flow[f]]
    /\ UNCHANGED <<active, holder, pendingRegions, results, events>>

\* The document goes, with its content script, by navigation or with its tab;
\* whoever waits for an answer gets a rejection.
Leaves(t, open) ==
    /\ page[t].open
    /\ Trouble
    /\ open \/ \E u \in Tabs \ {t} : page[u].open
    /\ active' \in IF open \/ active # t THEN {active} ELSE {u \in Tabs \ {t} : page[u].open}
    /\ page' = [page EXCEPT ![t] = [FreshPage(page[t].height, 0) EXCEPT !.open = open]]
    /\ flow' = [f \in Flows |->
                  IF ~Live(f) \/ (Live(f) /\ flow[f].tab # t) THEN flow[f]
                  ELSE [flow[f] EXCEPT !.disturbed = TRUE,
                                       !.reply = IF @ = Waiting THEN Rejected ELSE @]]
    /\ events' = events \cup {t}
    /\ UNCHANGED <<holder, pendingRegions, results>>

\* The worker is recycled: everything in its memory goes, the pages stay.
Recycle ==
    /\ Trouble
    /\ flow' = [f \in Flows |-> IF Live(f) THEN Over ELSE flow[f]]
    /\ holder' = 0 /\ pendingRegions' = [t \in Tabs |-> 0]
    /\ UNCHANGED <<page, active, results, events>>

-----------------------------------------------------------------------------

\* The continuation a capture is at.
Continues(f) ==
    \/ RegionStarted(f) \/ Shot(f) \/ Upload(f)
    \/ Measured(f) \/ EnsureActive(f) \/ Tile(f)
    \/ Hidden(f) \/ Scrolled(f) \/ Restored(f)

Next ==
    \/ \E f \in Flows :
         \/ StartVisible(f) \/ StartRegion(f) \/ StartFull(f)
         \/ Timeout(f) \/ TileFails(f) \/ Continues(f)
         \/ \E m \in results : HandleRegionResult(m, f)
    \/ \E t \in Tabs :
         \/ PageHandles(t) \/ Watchdog(t) \/ AbandonRegion(t) \/ Switch(t)
         \/ \E h \in Heights : Resizes(t, h)
         \/ \E open \in BOOLEAN : Leaves(t, open)
    \/ \E chosen \in BOOLEAN : RegionEnds(chosen)
    \/ \E y \in Scrolls : UserScrolls(y)
    \/ Escape \/ Recycle

Spec == Init /\ [][Next]_vars

-----------------------------------------------------------------------------
(* Properties.                                                               *)

\* A full-page capture always holds the lock, and a lock is always held by a
\* capture that is still going to give it back: one running, or a selection
\* with its overlay, its result or its tab's event still to come (unless these
\* were handled before the selection was on record).
LockFollowsItsCapture ==
    /\ \A f \in Flows : Runs(f, "full") => holder = f
    /\ holder # 0 => flow[holder].pc \in {"select", "pending"} \/ Runs(holder, "full")
    /\ \A f \in Flows : flow[f].pc = "pending" /\ ~flow[f].missed =>
         /\ holder = f /\ pendingRegions[flow[f].tab] = f
         /\ \/ page[flow[f].tab].overlays > 0
            \/ flow[f].tab \in events
            \/ \E m \in results : m.tab = flow[f].tab

Rows(b) == b.dy .. (b.dy + b.dh - 1)
Composed(r) == r.mode = "full" /\ r.ok

\* The image uploaded for a tab shows that tab; a full-page composite has every
\* row of the document where it belongs, to the pixel, no element repeated that
\* hideFixed hides, and no more missing than a pixel where tiles meet and two at
\* the bottom, which snapshots of whole device pixels may be short of: as long
\* as nobody switched, scrolled or reloaded the tab under the capture.
ImageShowsItsPage ==
    \A f \in Flows : Live(f) /\ flow[f].ok /\ ~flow[f].disturbed =>
        LET r == flow[f]   bands == {r.comp[j] : j \in DOMAIN r.comp}
        IN /\ \A b \in bands : b.of = r.tab
           /\ Composed(r) => \A b \in bands : b.y * Scale + 4 * b.sy - 4 * b.dy \in -4..4
           /\ \A j \in DOMAIN r.comp : Composed(r) /\ j > 1 => ~r.comp[j].fixed
           /\ Composed(r) /\ ~r.resized =>
                LET missing == (0 .. (r.plan.canvasHeight - 1)) \ UNION {Rows(b) : b \in bands}
                IN \A row \in missing : \/ \E b \in bands : b.dy = row + 1
                                        \/ row >= r.plan.canvasHeight - 2

\* A page nobody drives is as its user left it: scrolled back, nothing hidden,
\* after any mix of runs, failures, late commands and restarts of the worker.
PageIsAsTheUserLeftIt ==
    \A t \in Tabs : page[t].open /\ ~page[t].driver.driving =>
        ~page[t].hidden /\ page[t].y = page[t].home
=============================================================================
