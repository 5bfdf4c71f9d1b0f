----------------------- MODULE ExtensionCaptureProofs -----------------------
(***************************************************************************)
(* Proofs about the extension's captures, for any tabs, documents and      *)
(* numbers of captures and troubles.                                       *)
(*                                                                         *)
(* The lock.  Whoever selects, waits for a selection or stitches holds it, *)
(* so there is one such capture, and the selection on record is that one.  *)
(* What makes a selection report is counted from the moment the page       *)
(* answered its command: an overlay that is up, then a result or the tab's *)
(* event on its way.  An answer is never another command's: of the         *)
(* commands a page still has queued, only the last one a capture sent can  *)
(* bear its number.                                                        *)
(*                                                                         *)
(* The page.  A driver remembers the scroll its user left, and until it is *)
(* torn down nothing moves that mark.                                      *)
(*                                                                         *)
(* The images.  A capture that nobody disturbs finds the page where its    *)
(* last answer left it and nothing else queued, so that each tile is drawn *)
(* where the plan has it; the plan's tiles leave no gap, for any scale and *)
(* any rounding of the snapshots.                                          *)
(*                                                                         *)
(* Between them, about the pages and the settings: server and token travel *)
(* as the pair that was saved, and the options page's writes take turns.   *)
(***************************************************************************)
EXTENDS ExtensionCapture, ExtensionPages, FiniteSetTheorems, SequenceTheorems, TLAPS

Asking == {"select", "begin", "hide", "scroll", "restore"}
Pcs == Asking \cup {"pending", "shot", "upload", "check", "tile"}

Drivers == {NoDriver} \cup [driving : {TRUE}, original : Int]
Commands == [cmd : Asking, y : Int, flow : Flows, n : Nat \ {0}]
Pages == [open : BOOLEAN, height : Nat \ {0}, y : Int, hidden : BOOLEAN, driver : Drivers,
          cancelled : BOOLEAN, overlays : Nat, inbox : Seq(Commands), home : Int]

Replies == {Waiting, Rejected} \cup [kind : {"started", "restored", "hidden"}]
           \cup [kind : {"metrics"}, height : Nat \ {0}]
           \cup [kind : {"scrolled"}, y : Int, cancelled : BOOLEAN]
Plans == [canvasHeight : Int, tiles : Seq([scrollY : Int, destY : Int, height : Int])]

(* A capture under way: its fields, of which the image is left untyped. *)
IsRun(r) ==
    /\ r = [pc |-> r.pc, mode |-> r.mode, tab |-> r.tab, i |-> r.i, n |-> r.n,
            reply |-> r.reply, plan |-> r.plan, imageHeight |-> r.imageHeight,
            landed |-> r.landed, comp |-> r.comp, ok |-> r.ok, disturbed |-> r.disturbed,
            resized |-> r.resized, missed |-> r.missed]
    /\ r.pc \in Pcs /\ r.mode \in {"visible", "region", "full"} /\ r.tab \in Tabs
    /\ r.i \in Nat /\ r.n \in Nat /\ r.reply \in Replies /\ r.plan \in Plans
    /\ r.ok \in BOOLEAN /\ r.disturbed \in BOOLEAN
    /\ r.resized \in BOOLEAN /\ r.missed \in BOOLEAN

Results == [tab : Tabs, selected : BOOLEAN]

TypeOK ==
    /\ page \in [Tabs -> Pages] /\ active \in Tabs
    /\ flow = [f \in Flows |-> flow[f]]
    /\ \A f \in Flows : flow[f] \in {NotYet, Over} \/ IsRun(flow[f])
    /\ holder \in {0} \cup Flows /\ pendingRegions \in [Tabs -> {0} \cup Flows]
    /\ results \in SUBSET Results /\ events \in SUBSET Tabs

(* What a capture waits for and has had as an answer fits the step it is at,   *)
(* and the tile it is at is one of its plan.                                   *)
StepFits(r) ==
    /\ r.pc \in {"select", "pending"} => r.mode = "region"
    /\ r.pc = "shot" => r.mode # "full"
    /\ r.pc \in {"begin", "check", "tile", "hide", "scroll", "restore"} => r.mode = "full"
    /\ r.reply = Waiting => r.pc \in Asking \/ r.n = 0
    /\ r.pc = "select" => r.reply.kind \in {"none", "error", "started"}
    /\ r.pc = "begin" => r.reply.kind \in {"none", "error", "metrics"}
    /\ r.pc = "scroll" => r.reply.kind \in {"none", "error", "scrolled"}
    /\ r.pc \in {"check", "tile", "scroll"} => r.i \in 1..Len(r.plan.tiles)
    /\ r.pc = "hide" => r.i = 1 /\ Len(r.plan.tiles) > 1

StepsFit == \A f \in Flows : Live(f) => StepFits(flow[f])

(* Selections and full-page captures hold the lock; the lock is one of theirs, *)
(* and the selection on record is the one that waits.                          *)
Locking(r) == r.pc \in {"select", "pending"} \/ r.mode = "full"

LockHeld ==
    /\ \A f \in Flows : Live(f) /\ Locking(flow[f]) => holder = f
    /\ holder # 0 => Live(holder) /\ Locking(flow[holder])
    /\ \A t \in Tabs : pendingRegions[t] # 0 =>
         flow[pendingRegions[t]].pc = "pending" /\ flow[pendingRegions[t]].tab = t
    /\ \A f \in Flows : flow[f].pc = "pending" => pendingRegions[flow[f].tab] = f

(* What will make a selection report. *)
Coming(t) == page[t].overlays > 0 \/ t \in events \/ \E m \in results : m.tab = t

OverlayUp(r) == r.pc = "pending" \/ (r.pc = "select" /\ r.reply.kind = "started")

SelectionsReport ==
    \A f \in Flows : Live(f) /\ OverlayUp(flow[f]) /\ ~flow[f].missed => Coming(flow[f].tab)

(* A queued command is of a capture that started, and bears the number of its  *)
(* latest one only where that one is waited for.                               *)
CommandFits(t, c) ==
    /\ flow[c.flow].pc # "idle"
    /\ Live(c.flow) /\ flow[c.flow].pc \notin {"shot", "upload"} => c.n <= flow[c.flow].n
    /\ Live(c.flow) /\ flow[c.flow].n = c.n /\ flow[c.flow].reply = Waiting =>
         flow[c.flow].tab = t /\ flow[c.flow].pc = c.cmd

CommandsFit == \A t \in Tabs : \A k \in 1..Len(page[t].inbox) : CommandFits(t, page[t].inbox[k])

(* A driver knows where its user left the page. *)
PageKept(p) ==
    IF p.driver.driving THEN p.driver.original = p.home ELSE ~p.hidden /\ p.y = p.home

PagesKept == \A t \in Tabs : PageKept(page[t])

CaptureInv == TypeOK /\ StepsFit /\ LockHeld /\ SelectionsReport /\ CommandsFit /\ PagesKept

-----------------------------------------------------------------------------
(* Geometry, as far as types go.                                             *)

LEMMA MinOfTwo ==
    ASSUME NEW a \in Int, NEW b \in Int
    PROVE  Min({a, b}) \in {a, b} /\ Min({a, b}) <= a /\ Min({a, b}) <= b
<1>1. \E x \in {a, b} : \A y \in {a, b} : x <= y
    BY a <= b \/ b <= a
<1> QED
    BY <1>1 DEF Min

LEMMA MaxOfTwo ==
    ASSUME NEW a \in Int, NEW b \in Int
    PROVE  Max({a, b}) \in {a, b} /\ Max({a, b}) >= a /\ Max({a, b}) >= b
<1>1. \E x \in {a, b} : \A y \in {a, b} : x >= y
    BY a <= b \/ b <= a
<1> QED
    BY <1>1 DEF Max

LEMMA MaxScrollNat == ASSUME NEW h \in Nat PROVE MaxScroll(h) \in Nat
<1> DEFINE d == h - ViewportHeight
<1>1. 0 \in Int /\ d \in Int
    BY GeometryAssumption
<1>2. MaxScroll(h) = Max({0, d})
    BY Zenon DEF MaxScroll
<1> HIDE DEF d
<1>3. Max({0, d}) \in {0, d} /\ Max({0, d}) >= 0
    BY <1>1, MaxOfTwo
<1> QED
    BY <1>1, <1>2, <1>3

LEMMA AtLeastOnce ==
    ASSUME NEW a \in Nat, NEW b \in Nat \ {0}, a >= b
    PROVE  a \div b \in Nat /\ a \div b >= 1
OBVIOUS

(* A plan has at least one tile. *)
LEMMA PlanTyped ==
    ASSUME NEW h \in Nat \ {0}
    PROVE  PlanTiles(h) \in Plans /\ Len(PlanTiles(h).tiles) >= 1
<1> DEFINE height == Max({1, Min({h, CssHeightCap})})
           n == (height + ViewportHeight - 1) \div ViewportHeight
           TileAt(i) == LET y == (i - 1) * ViewportHeight
                        IN [scrollY |-> Min({y, MaxScroll(h)}), destY |-> y,
                            height |-> Min({ViewportHeight, height - y})]
           Tiles == [scrollY : Int, destY : Int, height : Int]
<1>1. /\ Scale \in Nat \ {0} /\ ViewportHeight \in Nat \ {0} /\ MaxHeightPx \in Nat \ {0}
      /\ MaxScroll(h) \in Nat
    BY GeometryAssumption, MaxScrollNat
<1>2. CssHeightCap \in Int
    <2> DEFINE d == (4 * MaxHeightPx) \div Scale
    <2>1. 1 \in Int /\ d \in Int
        BY <1>1
    <2>2. CssHeightCap = Max({1, d})
        BY Zenon DEF CssHeightCap
    <2> HIDE DEF d
    <2>3. Max({1, d}) \in {1, d}
        BY <2>1, MaxOfTwo
    <2> QED
        BY <2>1, <2>2, <2>3
<1>3. Min({h, CssHeightCap}) \in Int
    <2>1. Min({h, CssHeightCap}) \in {h, CssHeightCap}
        BY <1>2, MinOfTwo
    <2> QED
        BY <1>2, <2>1
<1>4. height \in Nat /\ height >= 1
    <2> DEFINE m == Min({h, CssHeightCap})
    <2>1. 1 \in Int /\ m \in Int
        BY <1>3
    <2> HIDE DEF m
    <2>2. Max({1, m}) \in {1, m} /\ Max({1, m}) >= 1
        BY <2>1, MaxOfTwo
    <2> QED
        BY <2>1, <2>2 DEF m
<1> HIDE DEF height
<1>5. n \in Nat /\ n >= 1
    <2>1. height + ViewportHeight - 1 \in Nat /\ height + ViewportHeight - 1 >= ViewportHeight
        BY <1>1, <1>4
    <2> QED
        BY <1>1, <2>1, AtLeastOnce
<1> HIDE DEF n
<1>6. ASSUME NEW i \in 1..n PROVE TileAt(i) \in Tiles
    <2> DEFINE y == (i - 1) * ViewportHeight
    <2>1. y \in Int /\ height - y \in Int
        BY <1>1, <1>4, <1>5
    <2> HIDE DEF y
    <2> DEFINE z == height - y
    <2>3. z \in Int
        BY <2>1
    <2> HIDE DEF z
    <2>2. Min({y, MaxScroll(h)}) \in {y, MaxScroll(h)}
        <3>1. MaxScroll(h) \in Int /\ y \in Int
            BY <1>1, <2>1
        <3> HIDE DEF y
        <3> QED
            BY <3>1, MinOfTwo
    <2>4. Min({ViewportHeight, z}) \in {ViewportHeight, z}
        <3>1. ViewportHeight \in Int
            BY <1>1
        <3> QED
            BY <2>3, <3>1, MinOfTwo
    <2> QED
        BY <1>1, <2>1, <2>2, <2>4 DEF y, z
<1>7. [i \in 1..n |-> TileAt(i)] \in Seq(Tiles) /\ Len([i \in 1..n |-> TileAt(i)]) = n
    <2> HIDE DEF TileAt, Tiles
    <2> QED
        BY <1>5, <1>6
<1>8. Px(height) \in Int
    BY <1>1, <1>4 DEF Px
<1>9. PlanTiles(h) = [canvasHeight |-> Px(height), tiles |-> [i \in 1..n |-> TileAt(i)]]
    BY Zenon DEF PlanTiles, height, n
<1> HIDE DEF TileAt, Tiles
<1> QED
    BY <1>5, <1>7, <1>8, <1>9 DEF Plans, Tiles
-----------------------------------------------------------------------------
(* The content script's operations on its page.                              *)

(* p is still kept as q, with the same document, overlays and commands. *)
SamePage(p, q) ==
    /\ q \in Pages /\ PageKept(q)
    /\ q.height = p.height /\ q.open = p.open /\ q.overlays = p.overlays /\ q.inbox = p.inbox

LEMMA ScrollIsTyped ==
    ASSUME NEW p \in Pages, NEW y \in Int
    PROVE  /\ Min({y, MaxScroll(p.height)}) \in Int
           /\ ScrollTo(p, y) = [p EXCEPT !.y = Min({y, MaxScroll(p.height)})]
<1>1. MaxScroll(p.height) \in Int
    BY MaxScrollNat DEF Pages
<1> QED
    BY <1>1, MinOfTwo DEF ScrollTo

LEMMA ScrollKeeps ==
    ASSUME NEW p \in Pages, NEW y \in Int
    PROVE  /\ ScrollTo(p, y) \in Pages
           /\ PageKept(p) /\ p.driver.driving => SamePage(p, ScrollTo(p, y))
<1> DEFINE y1 == Min({y, MaxScroll(p.height)})
<1>1. y1 \in Int /\ ScrollTo(p, y) = [p EXCEPT !.y = y1]
    BY ScrollIsTyped
<1> HIDE DEF y1
<1> QED
    BY <1>1 DEF Pages, SamePage, PageKept

LEMMA HideKeeps ==
    ASSUME NEW p \in Pages, PageKept(p), p.driver.driving
    PROVE  SamePage(p, HideFixed(p))
BY DEF Pages, HideFixed, SamePage, PageKept

LEMMA NoDriverDrives == NoDriver \in Drivers /\ NoDriver.driving = FALSE
BY DEF NoDriver, Drivers

(* Torn down, the page is where its user left it. *)
LEMMA TeardownKeeps ==
    ASSUME NEW p \in Pages, PageKept(p)
    PROVE  SamePage(p, Teardown(p)) /\ Teardown(p).driver.driving = FALSE
<1>1. CASE p.driver.driving
    <2> DEFINE y1 == Min({p.driver.original, MaxScroll(p.height)})
    <2>1. p.driver.original = p.home /\ p.driver.original \in Int /\ p.home \in Int
        BY <1>1 DEF Pages, PageKept, Drivers, NoDriver
    <2>2. y1 \in Int /\ ScrollTo(p, p.driver.original) = [p EXCEPT !.y = y1]
        BY <2>1, ScrollIsTyped
    <2>3. Min({p.home, MaxScroll(p.height)}) = y1
        BY <2>1
    <2> HIDE DEF y1
    <2>4. RestoreDriver(p) = [p EXCEPT !.y = y1, !.hidden = FALSE, !.home = y1]
        BY <2>2, <2>3 DEF RestoreDriver, Pages
    <2>5. Teardown(p) = [p EXCEPT !.y = y1, !.hidden = FALSE, !.home = y1, !.driver = NoDriver,
                                  !.cancelled = FALSE]
        BY <1>1, <2>4 DEF Teardown, Pages
    <2> QED
        BY <2>2, <2>5, NoDriverDrives DEF Pages, SamePage, PageKept
<1>2. CASE ~p.driver.driving
    <2>1. Teardown(p) = [p EXCEPT !.cancelled = FALSE]
        BY <1>2 DEF Teardown
    <2>2. p.driver.driving = FALSE
        BY <1>2 DEF Pages, Drivers, NoDriver
    <2> QED
        BY <2>1, <2>2 DEF Pages, SamePage, PageKept
<1> QED
    BY <1>1, <1>2

(* A driver begins on a page nobody drives, wherever an older one left it. *)
LEMMA BegunKeeps ==
    ASSUME NEW p \in Pages, PageKept(p)
    PROVE  SamePage(p, Begun(p))
<1> DEFINE q == Teardown(p)
           y1 == Min({0, MaxScroll(q.height)})
           d == [driving |-> TRUE, original |-> q.y]
<1>1. SamePage(p, q) /\ q.driver.driving = FALSE
    BY TeardownKeeps
<1>2. q \in Pages /\ q.y = q.home
    BY <1>1 DEF SamePage, PageKept
<1>3. y1 \in Int /\ ScrollTo(q, 0) = [q EXCEPT !.y = y1]
    BY <1>2, ScrollIsTyped
<1>4. Begun(p) = [q EXCEPT !.y = y1, !.driver = d]
    BY <1>2, <1>3 DEF Begun, Pages
<1>5. d \in Drivers /\ d.driving /\ d.original = q.home
    BY <1>2 DEF Drivers, Pages
<1> HIDE DEF q, y1, d
<1> QED
    BY <1>1, <1>2, <1>3, <1>4, <1>5 DEF Pages, SamePage, PageKept

(* What the handler of a command leaves and answers. *)
Answers(c, reply) ==
    /\ reply \in Replies \ {Waiting}
    /\ c.cmd = "select" => reply.kind = "started"
    /\ c.cmd = "begin" => reply.kind = "metrics"
    /\ c.cmd = "scroll" => reply.kind \in {"error", "scrolled"}

HandledWell(p, c, q) ==
    /\ q \in Pages /\ PageKept(q)
    /\ q.inbox = p.inbox
    /\ q.overlays >= p.overlays
    /\ c.cmd = "select" => q.overlays > 0

LEMMA HandledKeeps ==
    ASSUME NEW p \in Pages, PageKept(p), NEW c \in Commands
    PROVE  HandledWell(p, c, Handled(p, c)[1]) /\ Answers(c, Handled(p, c)[2])
<1> DEFINE h == Handled(p, c)
<1>1. c.cmd \in Asking /\ c.y \in Int /\ p.overlays \in Nat
    BY DEF Commands, Pages
<1>2. ASSUME NEW q, SamePage(p, q), c.cmd # "select"
      PROVE  HandledWell(p, c, q)
    BY <1>1, <1>2 DEF SamePage, HandledWell
<1>3. CASE c.cmd = "select"
    <2>1. h = <<[p EXCEPT !.overlays = p.overlays + 1], [kind |-> "started"]>>
        BY <1>3 DEF Handled
    <2>2. HandledWell(p, c, [p EXCEPT !.overlays = p.overlays + 1])
        BY <1>1 DEF HandledWell, Pages, PageKept
    <2>3. Answers(c, [kind |-> "started"])
        BY <1>3 DEF Answers, Replies, Waiting
    <2> QED
        BY <2>1, <2>2, <2>3
<1>4. CASE c.cmd = "begin"
    <2>1. h = <<Begun(p), MeasurePage(p)>>
        BY <1>4 DEF Handled
    <2>2. HandledWell(p, c, Begun(p))
        BY <1>2, <1>4, BegunKeeps
    <2>3. Answers(c, MeasurePage(p))
        BY <1>4 DEF Answers, Replies, Waiting, MeasurePage, Pages
    <2> QED
        BY <2>1, <2>2, <2>3
<1>5. CASE c.cmd = "restore"
    <2>1. h = <<Teardown(p), [kind |-> "restored"]>>
        BY <1>5 DEF Handled
    <2>2. HandledWell(p, c, Teardown(p))
        BY <1>2, <1>5, TeardownKeeps
    <2>3. Answers(c, [kind |-> "restored"])
        BY <1>5 DEF Answers, Replies, Waiting
    <2> QED
        BY <2>1, <2>2, <2>3
<1>6. CASE c.cmd \in {"scroll", "hide"} /\ ~p.driver.driving
    <2>1. h = <<p, Rejected>>
        BY <1>6 DEF Handled
    <2>2. HandledWell(p, c, p)
        BY <1>1, <1>6 DEF HandledWell
    <2>3. Answers(c, Rejected)
        BY <1>6 DEF Answers, Replies, Waiting, Rejected
    <2> QED
        BY <2>1, <2>2, <2>3
<1>7. CASE c.cmd = "scroll" /\ p.driver.driving
    <2> DEFINE q == ScrollTo(p, c.y)
               a == [kind |-> "scrolled", y |-> q.y, cancelled |-> q.cancelled]
    <2>1. h = <<q, a>>
        BY <1>7 DEF Handled
    <2>2. SamePage(p, q) /\ q \in Pages
        BY <1>1, <1>7, ScrollKeeps
    <2>3. HandledWell(p, c, q)
        BY <1>2, <1>7, <2>2
    <2> HIDE DEF q
    <2>4. Answers(c, a)
        BY <1>7, <2>2 DEF Answers, Replies, Waiting, Pages
    <2> QED
        BY <2>1, <2>3, <2>4
<1>8. CASE c.cmd = "hide" /\ p.driver.driving
    <2>1. h = <<HideFixed(p), [kind |-> "hidden"]>>
        BY <1>8 DEF Handled
    <2>2. HandledWell(p, c, HideFixed(p))
        BY <1>2, <1>8, HideKeeps
    <2>3. Answers(c, [kind |-> "hidden"])
        BY <1>8 DEF Answers, Replies, Waiting
    <2> QED
        BY <2>1, <2>2, <2>3
<1> QED
    BY <1>1, <1>3, <1>4, <1>5, <1>6, <1>7, <1>8 DEF Asking

-----------------------------------------------------------------------------
(* Captures.                                                                 *)

Dead == {NotYet, Over}

LEMMA DeadOrRun ==
    ASSUME NEW r
    PROVE  /\ IsRun(r) => r.pc \in Pcs /\ r \notin Dead /\ r.pc \notin {"idle", "over"}
           /\ r \in Dead => r.pc \in {"idle", "over"}
           /\ NotYet.pc = "idle" /\ Over.pc = "over"
BY DEF IsRun, Dead, NotYet, Over, Pcs, Asking

LEMMA LiveIsRun ==
    ASSUME TypeOK, NEW f \in Flows
    PROVE  /\ Live(f) <=> IsRun(flow[f])
           /\ ~Live(f) => flow[f] \in Dead
BY DeadOrRun DEF TypeOK, Live, Dead

(* q is r further on in its history, or with its request turned down. *)
Touched(r, q) ==
    /\ IF r \in Dead THEN q = r ELSE IsRun(q)
    /\ q.pc = r.pc /\ q.mode = r.mode /\ q.tab = r.tab
    /\ q.i = r.i /\ q.n = r.n /\ q.plan = r.plan /\ (r.missed => q.missed)
    /\ q.reply = r.reply \/ (r.reply = Waiting /\ q.reply = Rejected)

LEMMA Untouched == ASSUME NEW r, r \in Dead \/ IsRun(r) PROVE Touched(r, r)
BY DEF Touched

LEMMA TouchedFits ==
    ASSUME NEW r, NEW q, r \notin Dead, StepFits(r), Touched(r, q)
    PROVE  StepFits(q)
BY DEF StepFits, Touched, Waiting, Rejected

(* What history adds to a capture, one entry or answer at a time. *)
LEMMA MarksTouch ==
    ASSUME NEW r, IsRun(r), NEW b \in BOOLEAN
    PROVE  /\ Touched(r, [r EXCEPT !.disturbed = b]) /\ Touched(r, [r EXCEPT !.missed = TRUE])
           /\ Touched(r, [r EXCEPT !.resized = b])
           /\ r.reply = Waiting => Touched(r, [r EXCEPT !.reply = Rejected])
           /\ \A c \in BOOLEAN : Touched(r, [r EXCEPT !.resized = b, !.disturbed = c])
           /\ \A a : a = r.reply \/ (r.reply = Waiting /\ a = Rejected) =>
                Touched(r, [r EXCEPT !.disturbed = b, !.reply = a])
<1> USE DeadOrRun DEF Touched
<1>1. Touched(r, [r EXCEPT !.disturbed = b])
    BY DEF IsRun
<1>2. Touched(r, [r EXCEPT !.missed = TRUE])
    <2>1. ASSUME NEW m \in BOOLEAN, m = TRUE PROVE Touched(r, [r EXCEPT !.missed = m])
        <3> DEFINE q == [r EXCEPT !.missed = m]
        <3>1. IsRun(q)
            BY DEF IsRun
        <3>2. /\ q.pc = r.pc /\ q.mode = r.mode /\ q.tab = r.tab /\ q.i = r.i /\ q.n = r.n
              /\ q.plan = r.plan /\ q.reply = r.reply
            BY DEF IsRun
        <3>3. q.missed = m
            BY DEF IsRun
        <3> HIDE DEF q
        <3>4. r.missed => q.missed
            BY <2>1, <3>3, Zenon
        <3>5. r \notin Dead
            OBVIOUS
        <3>6. Touched(r, q)
            BY <3>1, <3>2, <3>4, <3>5, Zenon
        <3> QED
            BY <3>6, Zenon DEF q
    <2> QED
        BY <2>1, Zenon
<1>3. Touched(r, [r EXCEPT !.resized = b])
    BY DEF IsRun
<1>4. r.reply = Waiting => Touched(r, [r EXCEPT !.reply = Rejected])
    BY DEF IsRun, Replies
<1>5. ASSUME NEW c \in BOOLEAN PROVE Touched(r, [r EXCEPT !.resized = b, !.disturbed = c])
    <2> DEFINE s == [r EXCEPT !.resized = b]
               q == [r EXCEPT !.resized = b, !.disturbed = c]
    <2>1. IsRun(q)
        <3>1. q = [s EXCEPT !.disturbed = c]
            BY DEF IsRun
        <3>2. IsRun(s)
            BY DEF IsRun
        <3> HIDE DEF s, q
        <3> QED
            BY <3>1, <3>2 DEF IsRun
    <2>2. /\ q.pc = r.pc /\ q.mode = r.mode /\ q.tab = r.tab /\ q.i = r.i /\ q.n = r.n
          /\ q.plan = r.plan /\ q.reply = r.reply /\ q.missed = r.missed
        BY DEF IsRun
    <2> HIDE DEF q
    <2>3. Touched(r, q)
        BY <2>1, <2>2
    <2> QED
        BY <2>3, Zenon DEF q
<1>6. ASSUME NEW a, a = r.reply \/ (r.reply = Waiting /\ a = Rejected)
      PROVE  Touched(r, [r EXCEPT !.disturbed = b, !.reply = a])
    <2> DEFINE q == [r EXCEPT !.disturbed = b, !.reply = a]
    <2>1. a \in Replies
        BY <1>6 DEF IsRun, Replies
    <2>2. IsRun(q)
        <3> DEFINE s == [r EXCEPT !.disturbed = b]
        <3>1. q = [s EXCEPT !.reply = a]
            BY DEF IsRun
        <3>2. IsRun(s)
            BY DEF IsRun
        <3> HIDE DEF s, q
        <3> QED
            BY <2>1, <3>1, <3>2 DEF IsRun
    <2>3. /\ q.pc = r.pc /\ q.mode = r.mode /\ q.tab = r.tab /\ q.i = r.i /\ q.n = r.n
          /\ q.plan = r.plan /\ q.reply = a /\ q.missed = r.missed
        BY DEF IsRun
    <2> HIDE DEF q
    <2>4. Touched(r, q)
        BY <1>6, <2>2, <2>3
    <2> QED
        BY <2>4, Zenon DEF q
<1> QED
    BY <1>1, <1>2, <1>3, <1>4, <1>5, <1>6

-----------------------------------------------------------------------------
(* The parts of the invariant, where all captures but one are only touched.  *)

Queued(t, c) == \E k \in 1..Len(page[t].inbox) : page[t].inbox[k] = c

LEMMA QueuedFits ==
    ASSUME CommandsFit, NEW t \in Tabs, NEW c, Queued(t, c)
    PROVE  CommandFits(t, c)
BY DEF CommandsFit, Queued

LEMMA TouchedKeepsCommand ==
    ASSUME NEW t \in Tabs, NEW c \in Commands, CommandFits(t, c),
           Touched(flow[c.flow], flow'[c.flow])
    PROVE  CommandFits(t, c)'
BY DEF CommandFits, Touched, Live, Waiting, Rejected

LEMMA QueuesKeep ==
    ASSUME page' \in [Tabs -> Pages], CommandsFit, NEW f \in Flows,
           \A g \in Flows \ {f} : Touched(flow[g], flow'[g]),
           \A t \in Tabs, c \in Commands :
               Queued(t, c)' => Queued(t, c) \/ (c.flow = f /\ CommandFits(t, c)'),
           \A t \in Tabs, c \in Commands : Queued(t, c) /\ c.flow = f => CommandFits(t, c)'
    PROVE  CommandsFit'
<1> SUFFICES ASSUME NEW t \in Tabs, NEW k \in 1..Len(page'[t].inbox)
             PROVE  CommandFits(t, page[t].inbox[k])'
    BY DEF CommandsFit
<1>1. PICK c \in Commands : c = page'[t].inbox[k]
    BY DEF Pages
<1>2. Queued(t, c)'
    BY <1>1 DEF Queued
<1>3. c.flow \in Flows
    BY DEF Commands
<1>4. CASE Queued(t, c) /\ c.flow # f
    BY <1>1, <1>3, <1>4, QueuedFits, TouchedKeepsCommand
<1> QED
    BY <1>1, <1>2, <1>4

LEMMA ReportsKeep ==
    ASSUME StepsFit, SelectionsReport, \A g \in Flows : Touched(flow[g], flow'[g]),
           \A t \in Tabs : Coming(t) => Coming(t)',
           \A g \in Flows : Live(g) => flow[g].tab \in Tabs
    PROVE  SelectionsReport'
<1> SUFFICES ASSUME NEW g \in Flows, Live(g)', OverlayUp(flow'[g]), ~flow'[g].missed
             PROVE  Coming(flow[g].tab)'
    BY DEF SelectionsReport
<1>1. Touched(flow[g], flow'[g])
    OBVIOUS
<1>2. Live(g) /\ OverlayUp(flow[g]) /\ ~flow[g].missed /\ flow'[g].tab = flow[g].tab
    BY <1>1 DEF Touched, Live, OverlayUp, Rejected
<1> QED
    BY <1>2 DEF SelectionsReport

SameStanding(g) ==
    flow'[g].pc = flow[g].pc /\ flow'[g].mode = flow[g].mode /\ flow'[g].tab = flow[g].tab

LEMMA LockKeeps ==
    ASSUME LockHeld, holder' = holder, pendingRegions' = pendingRegions,
           holder \in {0} \cup Flows, pendingRegions \in [Tabs -> {0} \cup Flows],
           \A g \in Flows : SameStanding(g)
    PROVE  LockHeld'
BY DEF LockHeld, SameStanding, Live, Locking

LEMMA StepsKeep ==
    ASSUME TypeOK, StepsFit, NEW f \in Flows, Live(f)' => StepFits(flow'[f]),
           \A g \in Flows \ {f} : Touched(flow[g], flow'[g])
    PROVE  StepsFit'
<1> SUFFICES ASSUME NEW g \in Flows, Live(g)' PROVE StepFits(flow'[g])
    BY DEF StepsFit
<1>1. CASE g # f
    <2>1. Touched(flow[g], flow'[g])
        BY <1>1
    <2>2. Live(g)
        BY <2>1 DEF Touched, Live
    <2>3. StepFits(flow[g]) /\ flow[g] \notin Dead
        BY <2>2, LiveIsRun, DeadOrRun DEF StepsFit
    <2> QED
        BY <2>1, <2>3, TouchedFits
<1> QED
    BY <1>1

LEMMA FlowsKeep ==
    ASSUME TypeOK, NEW f \in Flows, flow'[f] \in Dead \/ IsRun(flow'[f]),
           \A g \in Flows \ {f} : Touched(flow[g], flow'[g])
    PROVE  \A g \in Flows : flow'[g] \in {NotYet, Over} \/ IsRun(flow'[g])
BY DEF TypeOK, Touched, Dead

(* A step around the captures. *)
LEMMA AroundKeeps ==
    ASSUME CaptureInv, \A g \in Flows : Touched(flow[g], flow'[g]),
           flow' = [g \in Flows |-> flow'[g]], holder' = holder, pendingRegions' = pendingRegions,
           page' \in [Tabs -> Pages], active' \in Tabs,
           results' \in SUBSET Results, events' \in SUBSET Tabs,
           \A t \in Tabs : PageKept(page'[t]),
           \A t \in Tabs, c \in Commands : Queued(t, c)' => Queued(t, c),
           SelectionsReport'
    PROVE  CaptureInv'
<1> USE DEF CaptureInv
<1> PICK f \in Flows : TRUE
    BY ExtensionAssumption DEF Flows
<1>1. TypeOK'
    <2>1. \A g \in Flows : flow'[g] \in {NotYet, Over} \/ IsRun(flow'[g])
        BY DEF TypeOK, Touched, Dead
    <2> QED
        BY <2>1 DEF TypeOK
<1>2. StepsFit'
    <2>1. Live(f)' => StepFits(flow'[f])
        BY LiveIsRun, DeadOrRun, TouchedFits DEF StepsFit, Touched, Live
    <2> QED
        BY <2>1, StepsKeep
<1>3. LockHeld'
    <2>1. \A g \in Flows : SameStanding(g)
        BY DEF SameStanding, Touched
    <2> QED
        BY <2>1, LockKeeps DEF TypeOK
<1>4. CommandsFit'
    <2>1. \A t \in Tabs, c \in Commands : Queued(t, c) /\ c.flow = f => CommandFits(t, c)'
        BY QueuedFits, TouchedKeepsCommand
    <2> QED
        BY <2>1, QueuesKeep
<1>5. PagesKept'
    BY DEF PagesKept
<1> QED
    BY <1>1, <1>2, <1>3, <1>4, <1>5

-----------------------------------------------------------------------------
(* Steps around the captures: pages, their users, results and timeouts.      *)

LEMMA PageMoves ==
    ASSUME TypeOK, PagesKept, NEW t \in Tabs, NEW q \in Pages, PageKept(q),
           page' = [page EXCEPT ![t] = q],
           \A c \in Commands : (\E k \in 1..Len(q.inbox) : q.inbox[k] = c) => Queued(t, c)
    PROVE  /\ page' \in [Tabs -> Pages] /\ page'[t] = q
           /\ \A u \in Tabs : u # t => page'[u] = page[u]
           /\ \A u \in Tabs : PageKept(page'[u])
           /\ \A u \in Tabs, c \in Commands : Queued(u, c)' => Queued(u, c)
<1>1. /\ page' \in [Tabs -> Pages] /\ page'[t] = q
      /\ \A u \in Tabs : u # t => page'[u] = page[u]
    BY DEF TypeOK
<1>2. \A u \in Tabs : PageKept(page'[u])
    BY <1>1 DEF PagesKept
<1>3. \A u \in Tabs, c \in Commands : Queued(u, c)' => Queued(u, c)
    BY <1>1 DEF Queued
<1> QED
    BY <1>1, <1>2, <1>3

(* As above, where the commands stay as they are. *)
LEMMA PageMovesOn ==
    ASSUME TypeOK, PagesKept, NEW t \in Tabs, NEW q \in Pages, PageKept(q),
           page' = [page EXCEPT ![t] = q], q.inbox = page[t].inbox
    PROVE  /\ page' \in [Tabs -> Pages] /\ page'[t] = q
           /\ \A u \in Tabs : u # t => page'[u] = page[u]
           /\ \A u \in Tabs : PageKept(page'[u])
           /\ \A u \in Tabs, c \in Commands : Queued(u, c)' => Queued(u, c)
<1>1. \A c \in Commands : (\E k \in 1..Len(q.inbox) : q.inbox[k] = c) => Queued(t, c)
    BY DEF Queued
<1> QED
    BY <1>1, PageMoves

LEMMA ComingStays ==
    ASSUME results \subseteq results', events \subseteq events',
           \A u \in Tabs : \/ page'[u].overlays = page[u].overlays
                           \/ page'[u].overlays > 0 \/ u \in events'
    PROVE  \A u \in Tabs : Coming(u) => Coming(u)'
BY DEF Coming

LEMMA StaysTouched ==
    ASSUME TypeOK, UNCHANGED flow
    PROVE  /\ \A g \in Flows : Touched(flow[g], flow'[g])
           /\ flow' = [g \in Flows |-> flow'[g]]
BY Untouched DEF TypeOK, Dead

LEMMA DisturbedTouches ==
    ASSUME TypeOK, NEW t, flow' = Marked(t, "disturbed")
    PROVE  /\ \A g \in Flows : Touched(flow[g], flow'[g])
           /\ flow' = [g \in Flows |-> flow'[g]]
<1>1. flow' = [g \in Flows |-> flow'[g]]
    BY Zenon DEF Marked
<1>2. ASSUME NEW g \in Flows PROVE Touched(flow[g], flow'[g])
    <2>1. flow'[g] = IF Live(g) /\ flow[g].tab = t THEN [flow[g] EXCEPT !.disturbed = TRUE]
                     ELSE flow[g]
        BY DEF Marked
    <2>2. flow[g] \in Dead \/ IsRun(flow[g])
        BY DEF TypeOK, Dead
    <2>3. CASE Live(g) /\ flow[g].tab = t
        <3>1. IsRun(flow[g]) /\ TRUE \in BOOLEAN
            BY <2>3, LiveIsRun
        <3>2. Touched(flow[g], [flow[g] EXCEPT !.disturbed = TRUE])
            BY <3>1, MarksTouch, Zenon
        <3> QED
            BY <2>1, <2>3, <3>2, Zenon
    <2> QED
        BY <2>1, <2>2, <2>3, Untouched, Zenon
<1> QED
    BY <1>1, <1>2

LEMMA TabsOfRuns == ASSUME TypeOK PROVE \A g \in Flows : Live(g) => flow[g].tab \in Tabs
BY LiveIsRun DEF IsRun

LEMMA TimeoutPreserves ==
    ASSUME CaptureInv, NEW f \in Flows, Timeout(f)
    PROVE  CaptureInv'
<1> USE DEF CaptureInv
<1>1. IsRun(flow[f]) /\ flow[f].reply = Waiting
    BY LiveIsRun, DeadOrRun DEF Timeout, Live
<1>2. /\ flow'[f] = [flow[f] EXCEPT !.reply = Rejected]
      /\ \A g \in Flows : g # f => flow'[g] = flow[g]
      /\ flow' = [g \in Flows |-> flow'[g]]
    BY DEF Timeout, TypeOK
<1>3. Touched(flow[f], flow'[f])
    BY <1>1, <1>2, MarksTouch
<1>4. \A g \in Flows : Touched(flow[g], flow'[g])
    BY <1>2, <1>3, Untouched DEF TypeOK, Dead
<1>5. SelectionsReport'
    <2>1. \A t \in Tabs : Coming(t) => Coming(t)'
        BY DEF Timeout, Coming
    <2> QED
        BY <1>4, <2>1, ReportsKeep, TabsOfRuns
<1>6. \A t \in Tabs, c \in Commands : Queued(t, c)' => Queued(t, c)
    BY DEF Timeout, Queued
<1> QED
    BY <1>2, <1>4, <1>5, <1>6, AroundKeeps DEF Timeout, TypeOK, PagesKept

LEMMA WatchdogPreserves ==
    ASSUME CaptureInv, NEW t \in Tabs, Watchdog(t)
    PROVE  CaptureInv'
<1> USE DEF CaptureInv
<1> DEFINE q == Teardown(page[t])
<1>1. SamePage(page[t], q)
    BY TeardownKeeps DEF TypeOK, PagesKept
<1>2. page' = [page EXCEPT ![t] = q] /\ flow' = Marked(t, "disturbed")
    BY DEF Watchdog
<1> HIDE DEF q
<1>3. /\ page' \in [Tabs -> Pages] /\ page'[t] = q
      /\ \A u \in Tabs : u # t => page'[u] = page[u]
      /\ \A u \in Tabs : PageKept(page'[u])
      /\ \A u \in Tabs, c \in Commands : Queued(u, c)' => Queued(u, c)
    BY <1>1, <1>2, PageMovesOn DEF SamePage
<1>4. \A g \in Flows : Touched(flow[g], flow'[g]) /\ flow' = [h \in Flows |-> flow'[h]]
    BY <1>2, DisturbedTouches
<1>5. SelectionsReport'
    <2>1. \A u \in Tabs : Coming(u) => Coming(u)'
        BY <1>1, <1>3, ComingStays DEF Watchdog, SamePage
    <2> QED
        BY <1>4, <2>1, ReportsKeep, TabsOfRuns
<1>6. flow' = [h \in Flows |-> flow'[h]]
    BY <1>2, DisturbedTouches
<1> QED
    BY <1>3, <1>4, <1>5, <1>6, AroundKeeps DEF Watchdog, TypeOK

LEMMA EscapePreserves ==
    ASSUME CaptureInv, Escape
    PROVE  CaptureInv'
<1> USE DEF CaptureInv
<1> DEFINE q == [page[active] EXCEPT !.cancelled = TRUE]
<1>1. page[active] \in Pages /\ PageKept(page[active]) /\ active \in Tabs
    BY DEF TypeOK, PagesKept
<1>2. /\ q \in Pages /\ q.inbox = page[active].inbox /\ q.overlays = page[active].overlays
      /\ q.driver = page[active].driver /\ q.home = page[active].home
      /\ q.hidden = page[active].hidden /\ q.y = page[active].y
    BY <1>1 DEF Pages
<1>3. page' = [page EXCEPT ![active] = q]
    BY DEF Escape
<1> HIDE DEF q
<1>4. PageKept(q)
    BY <1>1, <1>2 DEF PageKept
<1>5. /\ page' \in [Tabs -> Pages] /\ page'[active] = q
      /\ \A u \in Tabs : u # active => page'[u] = page[u]
      /\ \A u \in Tabs : PageKept(page'[u])
      /\ \A u \in Tabs, c \in Commands : Queued(u, c)' => Queued(u, c)
    BY <1>1, <1>2, <1>3, <1>4, PageMovesOn
<1>6. \A g \in Flows : Touched(flow[g], flow'[g])
    BY StaysTouched DEF Escape, background
<1>7. SelectionsReport'
    <2>1. \A u \in Tabs : Coming(u) => Coming(u)'
        BY <1>2, <1>5, ComingStays DEF Escape, background
    <2> QED
        BY <1>6, <2>1, ReportsKeep, TabsOfRuns
<1> QED
    BY <1>5, <1>6, <1>7, AroundKeeps, StaysTouched DEF Escape, background, TypeOK

(* The overlay that leaves is made up for by its result. *)
LEMMA RegionEndsPreserves ==
    ASSUME CaptureInv, NEW chosen \in BOOLEAN, RegionEnds(chosen)
    PROVE  CaptureInv'
<1> USE DEF CaptureInv
<1> DEFINE n == page[active].overlays - 1
           q == [page[active] EXCEPT !.overlays = n]
           m == [tab |-> active, selected |-> chosen]
<1>1. page[active] \in Pages /\ PageKept(page[active]) /\ active \in Tabs
    BY DEF TypeOK, PagesKept
<1>2. n \in Nat
    BY <1>1 DEF RegionEnds, Pages
<1>3. page' = [page EXCEPT ![active] = q]
    BY <1>1 DEF RegionEnds, TypeOK
<1> HIDE DEF n
<1>4. /\ q \in Pages /\ q.inbox = page[active].inbox
      /\ q.driver = page[active].driver /\ q.home = page[active].home
      /\ q.hidden = page[active].hidden /\ q.y = page[active].y
    BY <1>1, <1>2 DEF Pages
<1> HIDE DEF q
<1>5. PageKept(q)
    BY <1>1, <1>4 DEF PageKept
<1>6. /\ page' \in [Tabs -> Pages] /\ page'[active] = q
      /\ \A u \in Tabs : u # active => page'[u] = page[u]
      /\ \A u \in Tabs : PageKept(page'[u])
      /\ \A u \in Tabs, c \in Commands : Queued(u, c)' => Queued(u, c)
    BY <1>1, <1>3, <1>4, <1>5, PageMovesOn
<1>7. \A g \in Flows : Touched(flow[g], flow'[g])
    BY StaysTouched DEF RegionEnds
<1>8. results' = results \cup {m} /\ m \in Results /\ m.tab = active
    BY <1>1 DEF RegionEnds, Results
<1> HIDE DEF m
<1>9. SelectionsReport'
    <2>1. \A u \in Tabs : Coming(u) => Coming(u)'
        BY <1>6, <1>8 DEF RegionEnds, Coming
    <2> QED
        BY <1>7, <2>1, ReportsKeep, TabsOfRuns
<1>10. results' \in SUBSET Results
    BY <1>8 DEF TypeOK
<1> QED
    BY <1>6, <1>7, <1>9, <1>10, AroundKeeps, StaysTouched DEF RegionEnds, TypeOK

LEMMA SwitchPreserves ==
    ASSUME CaptureInv, NEW t \in Tabs, Switch(t)
    PROVE  CaptureInv'
<1> USE DEF CaptureInv
<1>1. /\ \A g \in Flows : Touched(flow[g], flow'[g])
      /\ flow' = [g \in Flows |-> flow'[g]]
    BY DisturbedTouches DEF Switch
<1>2. SelectionsReport'
    <2>1. \A u \in Tabs : Coming(u) => Coming(u)'
        BY DEF Switch, Coming
    <2> QED
        BY <1>1, <2>1, ReportsKeep, TabsOfRuns
<1>3. \A u \in Tabs, c \in Commands : Queued(u, c)' => Queued(u, c)
    BY DEF Switch, Queued
<1> QED
    BY <1>1, <1>2, <1>3, AroundKeeps DEF Switch, TypeOK, PagesKept

(* A scroll that is not the driver's moves the mark along. *)
Moved(p, h, y) ==
    [p EXCEPT !.height = h, !.y = y, !.home = IF p.driver.driving THEN p.home ELSE y]

LEMMA MovedKeeps ==
    ASSUME NEW p \in Pages, PageKept(p), NEW h \in Nat \ {0}, NEW y \in Int
    PROVE  /\ Moved(p, h, y) \in Pages /\ PageKept(Moved(p, h, y))
           /\ Moved(p, h, y).inbox = p.inbox /\ Moved(p, h, y).overlays = p.overlays
<1> DEFINE home == IF p.driver.driving THEN p.home ELSE y
           q == [p EXCEPT !.height = h, !.y = y, !.home = home]
<1>1. home \in Int
    BY DEF Pages
<1>2. Moved(p, h, y) = q
    BY Zenon DEF Moved
<1>3. PageKept(p) /\ home = IF p.driver.driving THEN p.home ELSE y
    OBVIOUS
<1> HIDE DEF home
<1>4. /\ q \in Pages /\ q.inbox = p.inbox /\ q.overlays = p.overlays
      /\ q.driver = p.driver /\ q.home = home /\ q.hidden = p.hidden /\ q.y = y
    BY <1>1 DEF Pages
<1> HIDE DEF q
<1>5. PageKept(q)
    BY <1>3, <1>4 DEF PageKept
<1> QED
    BY <1>2, <1>4, <1>5

LEMMA UserScrollsPreserves ==
    ASSUME CaptureInv, NEW y \in Scrolls, UserScrolls(y)
    PROVE  CaptureInv'
<1> USE DEF CaptureInv
<1> DEFINE p == page[active]
           home == IF p.driver.driving THEN p.home ELSE y
           q == Moved(p, p.height, y)
<1>1. p \in Pages /\ PageKept(p) /\ active \in Tabs /\ y \in Int
    BY ExtensionAssumption DEF TypeOK, PagesKept
<1>2. page' = [page EXCEPT ![active] = q]
    <2>1. page' = [page EXCEPT ![active] = [p EXCEPT !.y = y, !.home = home]]
        BY <1>1 DEF UserScrolls, TypeOK
    <2>2. q = [p EXCEPT !.height = p.height, !.y = y, !.home = home]
        BY Zenon DEF Moved
    <2> HIDE DEF home
    <2>3. [p EXCEPT !.height = p.height, !.y = y, !.home = home] = [p EXCEPT !.y = y, !.home = home]
        BY <1>1 DEF Pages
    <2> HIDE DEF q
    <2> QED
        BY <2>1, <2>2, <2>3
<1>3. p.height \in Nat \ {0}
    BY <1>1 DEF Pages
<1>4. q \in Pages /\ PageKept(q) /\ q.inbox = p.inbox /\ q.overlays = p.overlays
    BY <1>1, <1>3, MovedKeeps
<1> HIDE DEF q
<1>5. /\ page' \in [Tabs -> Pages] /\ page'[active] = q
      /\ \A u \in Tabs : u # active => page'[u] = page[u]
      /\ \A u \in Tabs : PageKept(page'[u])
      /\ \A u \in Tabs, c \in Commands : Queued(u, c)' => Queued(u, c)
    BY <1>1, <1>2, <1>4, PageMovesOn
<1>6. /\ \A g \in Flows : Touched(flow[g], flow'[g])
      /\ flow' = [g \in Flows |-> flow'[g]]
    BY DisturbedTouches DEF UserScrolls
<1>7. SelectionsReport'
    <2>1. \A u \in Tabs : Coming(u) => Coming(u)'
        BY <1>4, <1>5, ComingStays DEF UserScrolls
    <2> QED
        BY <1>6, <2>1, ReportsKeep, TabsOfRuns
<1> QED
    BY <1>5, <1>6, <1>7, AroundKeeps DEF UserScrolls, TypeOK

LEMMA ResizesPreserves ==
    ASSUME CaptureInv, NEW t \in Tabs, NEW h \in Heights, Resizes(t, h)
    PROVE  CaptureInv'
<1> USE DEF CaptureInv
<1> DEFINE p == page[t]
           y == Min({p.y, MaxScroll(h)})
           home == IF p.driver.driving THEN p.home ELSE y
           q == Moved(p, h, y)
           moved(g) == flow[g].disturbed \/ p.y > MaxScroll(h)
<1>1. p \in Pages /\ PageKept(p) /\ h \in Nat \ {0}
    BY ExtensionAssumption DEF TypeOK, PagesKept
<1>2. y \in Int
    <2>1. MaxScroll(h) \in Int /\ p.y \in Int
        BY <1>1, MaxScrollNat DEF Pages
    <2> HIDE DEF p
    <2> QED
        BY <2>1, MinOfTwo
<1>3. /\ page' = [page EXCEPT ![t].height = h, ![t].y = y, ![t].home = home]
      /\ flow' = [g \in Flows |-> IF Live(g) /\ flow[g].tab = t
                     THEN [flow[g] EXCEPT !.resized = TRUE, !.disturbed = moved(g)]
                     ELSE flow[g]]
      /\ UNCHANGED <<active, holder, pendingRegions, results, events>>
    BY Zenon DEF Resizes
<1> HIDE DEF y, moved
<1>4. page' = [page EXCEPT ![t] = q]
    <2>1. q = [p EXCEPT !.height = h, !.y = y, !.home = home]
        BY Zenon DEF Moved
    <2> HIDE DEF home, q
    <2> QED
        BY <1>1, <1>3, <2>1 DEF TypeOK
<1>5. q \in Pages /\ PageKept(q) /\ q.inbox = p.inbox /\ q.overlays = p.overlays
    BY <1>1, <1>2, MovedKeeps
<1> HIDE DEF q
<1>6. /\ page' \in [Tabs -> Pages] /\ page'[t] = q
      /\ \A u \in Tabs : u # t => page'[u] = page[u]
      /\ \A u \in Tabs : PageKept(page'[u])
      /\ \A u \in Tabs, c \in Commands : Queued(u, c)' => Queued(u, c)
    BY <1>1, <1>4, <1>5, PageMovesOn
<1>7. ASSUME NEW g \in Flows PROVE Touched(flow[g], flow'[g])
    <2>1. flow'[g] = IF Live(g) /\ flow[g].tab = t
                     THEN [flow[g] EXCEPT !.resized = TRUE, !.disturbed = moved(g)] ELSE flow[g]
        BY <1>3
    <2>2. flow[g] \in Dead \/ IsRun(flow[g])
        BY DEF TypeOK, Dead
    <2>3. CASE Live(g) /\ flow[g].tab = t
        <3>1. IsRun(flow[g]) /\ moved(g) \in BOOLEAN /\ TRUE \in BOOLEAN
            BY <2>3, LiveIsRun DEF moved
        <3>2. Touched(flow[g], [flow[g] EXCEPT !.resized = TRUE, !.disturbed = moved(g)])
            BY <3>1, MarksTouch, Zenon
        <3> QED
            BY <2>1, <2>3, <3>2, Zenon
    <2> QED
        BY <2>1, <2>2, <2>3, Untouched, Zenon
<1>8. flow' = [g \in Flows |-> flow'[g]]
    BY <1>3, Zenon
<1>9. SelectionsReport'
    <2>1. \A u \in Tabs : Coming(u) => Coming(u)'
        BY <1>3, <1>5, <1>6, ComingStays
    <2> QED
        BY <1>7, <2>1, ReportsKeep, TabsOfRuns
<1> QED
    BY <1>3, <1>6, <1>7, <1>8, <1>9, AroundKeeps DEF TypeOK

LEMMA FreshIsKept ==
    ASSUME NEW h \in Nat \ {0}, NEW open \in BOOLEAN,
           NEW q, q = [FreshPage(h, 0) EXCEPT !.open = open]
    PROVE  q \in Pages /\ PageKept(q) /\ q.inbox = <<>>
<1>1. q = [open |-> open, height |-> h, y |-> 0, hidden |-> FALSE, driver |-> NoDriver,
           cancelled |-> FALSE, overlays |-> 0, inbox |-> <<>>, home |-> 0]
    BY DEF FreshPage
<1>2. q \in Pages /\ q.inbox = <<>>
    <2>1. <<>> \in Seq(Commands) /\ NoDriver \in Drivers
        BY EmptySeq, NoDriverDrives
    <2> DEFINE none == <<>>
    <2> HIDE DEF none
    <2>2. none \in Seq(Commands) /\ q = [open |-> open, height |-> h, y |-> 0, hidden |-> FALSE,
             driver |-> NoDriver, cancelled |-> FALSE, overlays |-> 0, inbox |-> none, home |-> 0]
        BY <1>1, <2>1 DEF none
    <2>4. q.open = open /\ q.height = h /\ q.y = 0 /\ q.hidden = FALSE /\ q.driver = NoDriver
        BY <2>2
    <2>5. q.cancelled = FALSE /\ q.overlays = 0 /\ q.inbox = none /\ q.home = 0
        BY <2>2
    <2>6. q = [open |-> q.open, height |-> q.height, y |-> q.y, hidden |-> q.hidden,
               driver |-> q.driver, cancelled |-> q.cancelled, overlays |-> q.overlays,
               inbox |-> q.inbox, home |-> q.home]
        BY <2>2
    <2>3. q \in Pages /\ q.inbox = none
        <3>1. q.open \in BOOLEAN /\ q.hidden \in BOOLEAN /\ q.cancelled \in BOOLEAN
            BY <2>4, <2>5
        <3>2. q.height \in Nat \ {0} /\ q.y \in Int /\ q.overlays \in Nat /\ q.home \in Int
            BY <2>4, <2>5
        <3>3. q.driver \in Drivers /\ q.inbox \in Seq(Commands)
            BY <2>1, <2>2, <2>4, <2>5
        <3> QED
            BY <2>5, <2>6, <3>1, <3>2, <3>3 DEF Pages
    <2> QED
        BY <2>3 DEF none
<1>3. PageKept(q)
    <2>1. q.driver = NoDriver /\ q.hidden = FALSE /\ q.y = q.home
        BY <1>1
    <2> QED
        BY <2>1, NoDriverDrives DEF PageKept
<1> QED
    BY <1>2, <1>3

(* A new document has no driver and nobody's commands; its event is on its way. *)
LEMMA LeavesPreserves ==
    ASSUME CaptureInv, NEW t \in Tabs, NEW open \in BOOLEAN, Leaves(t, open)
    PROVE  CaptureInv'
<1> USE DEF CaptureInv
<1> DEFINE p == page[t]
           q == [FreshPage(p.height, 0) EXCEPT !.open = open]
           x(g) == IF flow[g].reply = Waiting THEN Rejected ELSE flow[g].reply
<1>1. /\ page' = [page EXCEPT ![t] = q]
      /\ flow' = [g \in Flows |->
                  IF ~Live(g) \/ (Live(g) /\ flow[g].tab # t) THEN flow[g]
                  ELSE [flow[g] EXCEPT !.disturbed = TRUE, !.reply = x(g)]]
      /\ events' = events \cup {t}
      /\ UNCHANGED <<holder, pendingRegions, results>>
      /\ active' \in Tabs
    <2>1. active' \in Tabs
        BY DEF Leaves, TypeOK
    <2>2. flow' = [g \in Flows |->
                  IF ~Live(g) \/ (Live(g) /\ flow[g].tab # t) THEN flow[g]
                  ELSE [flow[g] EXCEPT !.disturbed = TRUE, !.reply = x(g)]]
        BY Zenon DEF Leaves
    <2> QED
        BY <2>1, <2>2 DEF Leaves
<1>2. p.height \in Nat \ {0}
    BY DEF TypeOK, Pages
<1>4. q \in Pages /\ PageKept(q) /\ q.inbox = <<>>
    <2> DEFINE q1 == q
    <2>1. q1 = [FreshPage(p.height, 0) EXCEPT !.open = open]
        OBVIOUS
    <2> HIDE DEF p, q1
    <2>2. q1 \in Pages /\ PageKept(q1) /\ q1.inbox = <<>>
        BY <1>2, <2>1, FreshIsKept
    <2> QED
        BY <2>2 DEF q1
<1> HIDE DEF q, x
<1>5. /\ page' \in [Tabs -> Pages] /\ page'[t] = q
      /\ \A u \in Tabs : u # t => page'[u] = page[u]
      /\ \A u \in Tabs : PageKept(page'[u])
      /\ \A u \in Tabs, c \in Commands : Queued(u, c)' => Queued(u, c)
    <2>1. \A c \in Commands : (\E k \in 1..Len(q.inbox) : q.inbox[k] = c) => Queued(t, c)
        BY <1>4
    <2> QED
        BY <1>1, <1>4, <2>1, PageMoves
<1>6. ASSUME NEW g \in Flows PROVE Touched(flow[g], flow'[g])
    <2>1. flow'[g] = IF ~Live(g) \/ (Live(g) /\ flow[g].tab # t) THEN flow[g]
                     ELSE [flow[g] EXCEPT !.disturbed = TRUE, !.reply = x(g)]
        BY <1>1
    <2>2. flow[g] \in Dead \/ IsRun(flow[g])
        BY DEF TypeOK, Dead
    <2>3. CASE Live(g) /\ flow[g].tab = t
        <3>1. IsRun(flow[g]) /\ TRUE \in BOOLEAN
            BY <2>3, LiveIsRun
        <3>2. x(g) = flow[g].reply \/ (flow[g].reply = Waiting /\ x(g) = Rejected)
            BY DEF x
        <3>3. Touched(flow[g], [flow[g] EXCEPT !.disturbed = TRUE, !.reply = x(g)])
            BY <3>1, <3>2, MarksTouch, Zenon
        <3> QED
            BY <2>1, <2>3, <3>3, Zenon
    <2> QED
        BY <2>1, <2>2, <2>3, Untouched, Zenon
<1>7. flow' = [g \in Flows |-> flow'[g]]
    BY <1>1, Zenon
<1>8. SelectionsReport'
    <2>1. \A u \in Tabs : Coming(u) => Coming(u)'
        BY <1>1, <1>5, ComingStays
    <2> QED
        BY <1>6, <2>1, ReportsKeep, TabsOfRuns
<1>9. events' \in SUBSET Tabs
    BY <1>1 DEF TypeOK
<1> QED
    BY <1>1, <1>5, <1>6, <1>7, <1>8, <1>9, AroundKeeps DEF TypeOK

-----------------------------------------------------------------------------
(* The steps of a capture of its own.                                        *)

LEMMA FlowSet ==
    ASSUME TypeOK, NEW f \in Flows, NEW x, flow' = [flow EXCEPT ![f] = x]
    PROVE  /\ flow'[f] = x
           /\ \A g \in Flows \ {f} : flow'[g] = flow[g] /\ Touched(flow[g], flow'[g])
           /\ flow' = [g \in Flows |-> flow'[g]]
<1>1. /\ flow'[f] = x /\ \A g \in Flows \ {f} : flow'[g] = flow[g]
      /\ flow' = [g \in Flows |-> flow'[g]]
    BY DEF TypeOK
<1> QED
    BY <1>1, Untouched DEF TypeOK, Dead

LEMMA OwnKeeps ==
    ASSUME CaptureInv, NEW f \in Flows, flow' = [g \in Flows |-> flow'[g]],
           \A g \in Flows \ {f} : Touched(flow[g], flow'[g]),
           flow'[f] \in Dead \/ (IsRun(flow'[f]) /\ StepFits(flow'[f])),
           page' \in [Tabs -> Pages], active' \in Tabs,
           holder' \in {0} \cup Flows, pendingRegions' \in [Tabs -> {0} \cup Flows],
           results' \in SUBSET Results, events' \in SUBSET Tabs,
           \A t \in Tabs : PageKept(page'[t]),
           \A t \in Tabs, c \in Commands :
               Queued(t, c)' => Queued(t, c) \/ (c.flow = f /\ CommandFits(t, c)'),
           \A t \in Tabs, c \in Commands : Queued(t, c) /\ c.flow = f => CommandFits(t, c)',
           LockHeld', SelectionsReport'
    PROVE  CaptureInv'
<1> USE DEF CaptureInv
<1>1. TypeOK'
    <2>1. \A g \in Flows : flow'[g] \in {NotYet, Over} \/ IsRun(flow'[g])
        BY FlowsKeep
    <2> QED
        BY <2>1 DEF TypeOK
<1>2. StepsFit'
    <2>1. Live(f)' => StepFits(flow'[f])
        BY DeadOrRun DEF Live
    <2> QED
        BY <2>1, StepsKeep
<1>3. CommandsFit'
    BY QueuesKeep
<1>4. PagesKept'
    BY DEF PagesKept
<1> QED
    BY <1>1, <1>2, <1>3, <1>4

(* A capture's queued commands, after a step of its own that asks nothing. *)
LEMMA QuietQueue ==
    ASSUME CaptureInv, NEW f \in Flows, UNCHANGED page, flow'[f].pc # "idle",
           flow'[f].pc \in {"over", "shot", "upload"} \/
               (Live(f) /\ flow[f].pc \notin {"shot", "upload"} /\ flow'[f].n = flow[f].n),
           flow'[f].pc = "over" \/ flow'[f].reply # Waiting \/ flow'[f].n = 0
    PROVE  /\ \A t \in Tabs, c \in Commands : Queued(t, c)' => Queued(t, c)
           /\ \A t \in Tabs, c \in Commands : Queued(t, c) /\ c.flow = f => CommandFits(t, c)'
<1>1. \A t \in Tabs, c \in Commands : Queued(t, c)' => Queued(t, c)
    BY DEF Queued
<1>2. ASSUME NEW t \in Tabs, NEW c \in Commands, Queued(t, c), c.flow = f
      PROVE  CommandFits(t, c)'
    <2>1. CommandFits(t, c) /\ c.n # 0
        BY <1>2, QueuedFits DEF CaptureInv, Commands
    <2> QED
        BY <1>2, <2>1 DEF CommandFits, Live
<1> QED
    BY <1>1, <1>2

(* Selections on record stay as they are, where none of the captures they name *)
(* moves.                                                                      *)
LEMMA RecordsKeep ==
    ASSUME TypeOK, LockHeld, NEW f \in Flows, UNCHANGED pendingRegions,
           flow[f].pc # "pending", \A g \in Flows \ {f} : flow'[g] = flow[g]
    PROVE  \A t \in Tabs : pendingRegions'[t] # 0 =>
             flow'[pendingRegions'[t]].pc = "pending" /\ flow'[pendingRegions'[t]].tab = t
<1> SUFFICES ASSUME NEW t \in Tabs, pendingRegions[t] # 0
             PROVE  flow'[pendingRegions[t]].pc = "pending" /\ flow'[pendingRegions[t]].tab = t
    OBVIOUS
<1>1. PICK g \in Flows : g = pendingRegions[t]
    BY DEF TypeOK
<1>2. flow[g].pc = "pending" /\ flow[g].tab = t
    BY <1>1 DEF LockHeld
<1>3. flow'[g] = flow[g]
    BY <1>2
<1> QED
    BY <1>1, <1>2, <1>3

LEMMA OverIsDead == Over \in Dead /\ Over.pc = "over"
BY DEF Over, Dead

(* A capture that no selection on record waits for is over, and frees what it  *)
(* held.                                                                       *)
LEMMA EndsPreserves ==
    ASSUME CaptureInv, NEW f \in Flows, Live(f), flow[f].pc # "pending", Ends(f),
           UNCHANGED <<page, active, pendingRegions, results, events>>
    PROVE  CaptureInv'
<1> USE DEF CaptureInv
<1>1. /\ flow'[f] = Over /\ flow' = [g \in Flows |-> flow'[g]]
      /\ \A g \in Flows \ {f} : flow'[g] = flow[g] /\ Touched(flow[g], flow'[g])
    BY FlowSet DEF Ends
<1>2. holder' = IF holder = f THEN 0 ELSE holder
    BY DEF Ends, ReleasedBy
<1>3. LockHeld'
    <2>1. ~Live(f)' /\ flow'[f].pc # "pending"
        BY <1>1, OverIsDead DEF Live
    <2>2. \A g \in Flows : Live(g)' /\ Locking(flow'[g]) => holder' = g
        BY <1>1, <1>2, <2>1 DEF LockHeld, Live
    <2>3. holder' # 0 => Live(holder)' /\ Locking(flow[holder])'
        BY <1>1, <1>2 DEF LockHeld, TypeOK, Live
    <2>4. \A t \in Tabs : pendingRegions'[t] # 0 =>
             flow'[pendingRegions'[t]].pc = "pending" /\ flow'[pendingRegions'[t]].tab = t
        BY <1>1, RecordsKeep
    <2>5. \A g \in Flows : flow'[g].pc = "pending" => pendingRegions'[flow'[g].tab] = g
        BY <1>1, <2>1 DEF LockHeld
    <2> QED
        BY <2>2, <2>3, <2>4, <2>5 DEF LockHeld
<1>4. SelectionsReport'
    BY <1>1, OverIsDead DEF SelectionsReport, Live, Coming
<1>5. /\ \A t \in Tabs, c \in Commands : Queued(t, c)' => Queued(t, c)
      /\ \A t \in Tabs, c \in Commands : Queued(t, c) /\ c.flow = f => CommandFits(t, c)'
    BY <1>1, OverIsDead, QuietQueue
<1>6. holder' \in {0} \cup Flows
    BY <1>2 DEF TypeOK
<1> QED
    BY <1>1, <1>3, <1>4, <1>5, <1>6, OverIsDead, OwnKeeps DEF TypeOK, PagesKept

(* A capture goes on by itself, selections aside. *)
LEMMA ProceedsPreserves ==
    ASSUME CaptureInv, NEW f \in Flows, Live(f), NEW x, flow' = [flow EXCEPT ![f] = x],
           IsRun(x), StepFits(x),
           x.mode = flow[f].mode, x.tab = flow[f].tab, x.n = flow[f].n,
           flow[f].pc \notin {"select", "pending"}, x.pc \notin {"select", "pending"},
           flow[f].pc \in {"shot", "upload"} => x.pc \in {"shot", "upload"},
           x.reply # Waiting \/ x.n = 0,
           UNCHANGED <<page, active, holder, pendingRegions, results, events>>
    PROVE  CaptureInv'
<1> USE DEF CaptureInv
<1>1. /\ flow'[f] = x /\ flow' = [g \in Flows |-> flow'[g]]
      /\ \A g \in Flows \ {f} : flow'[g] = flow[g] /\ Touched(flow[g], flow'[g])
    BY FlowSet
<1>2. Live(f)' /\ (Locking(x) <=> Locking(flow[f])) /\ x.pc # "idle" /\ x.pc # "over"
    BY <1>1, DeadOrRun DEF Live, Locking
<1>3. LockHeld'
    <2>1. \A g \in Flows : Live(g)' /\ Locking(flow'[g]) => holder' = g
        BY <1>1, <1>2 DEF LockHeld, Live
    <2>2. holder' # 0 => Live(holder)' /\ Locking(flow[holder])'
        BY <1>1, <1>2 DEF LockHeld, TypeOK, Live
    <2>3. \A t \in Tabs : pendingRegions'[t] # 0 =>
             flow'[pendingRegions'[t]].pc = "pending" /\ flow'[pendingRegions'[t]].tab = t
        BY <1>1, RecordsKeep
    <2>4. \A g \in Flows : flow'[g].pc = "pending" => pendingRegions'[flow'[g].tab] = g
        BY <1>1 DEF LockHeld
    <2> QED
        BY <2>1, <2>2, <2>3, <2>4 DEF LockHeld
<1>4. SelectionsReport'
    BY <1>1 DEF SelectionsReport, Live, Coming, OverlayUp
<1>5. /\ \A t \in Tabs, c \in Commands : Queued(t, c)' => Queued(t, c)
      /\ \A t \in Tabs, c \in Commands : Queued(t, c) /\ c.flow = f => CommandFits(t, c)'
    BY <1>1, <1>2, QuietQueue
<1> QED
    BY <1>1, <1>3, <1>4, <1>5, OwnKeeps DEF TypeOK, PagesKept

LEMMA RunSet ==
    ASSUME NEW r, IsRun(r)
    PROVE  /\ \A pc \in Pcs : IsRun([r EXCEPT !.pc = pc])
           /\ \A n \in Nat : IsRun([r EXCEPT !.n = n])
           /\ \A i \in Nat : IsRun([r EXCEPT !.i = i])
           /\ \A a \in Replies : IsRun([r EXCEPT !.reply = a])
           /\ \A plan \in Plans : IsRun([r EXCEPT !.plan = plan])
<1>1. ASSUME NEW pc \in Pcs PROVE IsRun([r EXCEPT !.pc = pc])
    BY DEF IsRun
<1>2. ASSUME NEW n \in Nat PROVE IsRun([r EXCEPT !.n = n])
    BY DEF IsRun
<1>3. ASSUME NEW i \in Nat PROVE IsRun([r EXCEPT !.i = i])
    BY DEF IsRun
<1>4. ASSUME NEW a \in Replies PROVE IsRun([r EXCEPT !.reply = a])
    BY DEF IsRun
<1>5. ASSUME NEW plan \in Plans PROVE IsRun([r EXCEPT !.plan = plan])
    BY DEF IsRun
<1> QED
    BY <1>1, <1>2, <1>3, <1>4, <1>5

(* The rest of a capture's record, which a step leaves alone. *)
Carries(q, r) ==
    q.mode = r.mode /\ q.tab = r.tab /\ q.i = r.i /\ q.plan = r.plan /\ q.missed = r.missed

Asked(r, pc, n, a) == [r EXCEPT !.pc = pc, !.n = n, !.reply = a]

LEMMA AskedRun ==
    ASSUME NEW r, IsRun(r), NEW pc \in Asking, NEW n \in Nat, NEW a \in {Waiting, Rejected}
    PROVE  /\ IsRun(Asked(r, pc, n, a)) /\ Carries(Asked(r, pc, n, a), r)
           /\ Asked(r, pc, n, a).pc = pc /\ Asked(r, pc, n, a).n = n
           /\ Asked(r, pc, n, a).reply = a
<1> DEFINE q == Asked(r, pc, n, a)
           r1 == [r EXCEPT !.pc = pc]
           r2 == [r1 EXCEPT !.n = n]
<1>1. pc \in Pcs /\ a \in Replies
    BY DEF Pcs, Replies
<1>2. IsRun(r1)
    BY <1>1, RunSet
<1>3. q = [r2 EXCEPT !.reply = a]
    BY DEF Asked
<1>4. IsRun(r2)
    <2> HIDE DEF r1
    <2> QED
        BY <1>2, RunSet
<1>5. q.pc = pc /\ q.n = n /\ q.reply = a /\ Carries(q, r)
    BY DEF IsRun, Carries, Asked
<1> HIDE DEF r2, q
<1>6. IsRun([r2 EXCEPT !.reply = a])
    BY <1>1, <1>4, RunSet
<1> QED
    BY <1>3, <1>5, <1>6, Zenon DEF q

LEMMA AppendedPage ==
    ASSUME NEW p \in Pages, PageKept(p), NEW c \in Commands, NEW q,
           q = [p EXCEPT !.inbox = Append(p.inbox, c)]
    PROVE  /\ q \in Pages /\ PageKept(q) /\ q.overlays = p.overlays
           /\ \A k \in 1..Len(q.inbox) :
                q.inbox[k] = c \/ \E j \in 1..Len(p.inbox) : q.inbox[k] = p.inbox[j]
<1> DEFINE s == Append(p.inbox, c)
<1>1. p.inbox \in Seq(Commands)
    BY DEF Pages
<1>2. s \in Seq(Commands) /\ Len(s) = Len(p.inbox) + 1
    BY <1>1
<1>3. \A k \in 1..Len(s) : s[k] = c \/ \E j \in 1..Len(p.inbox) : s[k] = p.inbox[j]
    BY <1>1
<1>4. q = [p EXCEPT !.inbox = s]
    OBVIOUS
<1> HIDE DEF s
<1>5. /\ q \in Pages /\ q.overlays = p.overlays /\ q.inbox = s /\ q.driver = p.driver
      /\ q.home = p.home /\ q.hidden = p.hidden /\ q.y = p.y
    BY <1>2, <1>4 DEF Pages
<1>6. PageKept(q)
    BY <1>5 DEF PageKept
<1> QED
    BY <1>3, <1>5, <1>6

(* A command that fits the step it is sent at, of a capture that has the lock  *)
(* or takes it while it is free.                                               *)
AskFits(r, pc) ==
    /\ pc \in Asking
    /\ IF pc = "select" THEN r.mode = "region" ELSE r.mode = "full"
    /\ pc = "scroll" => r.i \in 1..Len(r.plan.tiles)
    /\ pc = "hide" => r.i = 1 /\ Len(r.plan.tiles) > 1

LEMMA AskPreserves ==
    ASSUME CaptureInv, NEW f \in Flows, NEW r, NEW pc, NEW y \in Int, Ask(f, r, pc, pc, y),
           IsRun(r), AskFits(r, pc), holder \in {0, f}, holder' = f,
           flow[f].pc \notin {"over", "select", "pending", "shot", "upload"},
           Live(f) => r.n = flow[f].n,
           UNCHANGED <<active, pendingRegions, results, events>>
    PROVE  CaptureInv'
<1> USE DEF CaptureInv
<1> DEFINE a == IF page[r.tab].open THEN Waiting ELSE Rejected
           n == r.n + 1
           x == Asked(r, pc, n, a)
           c == [cmd |-> pc, y |-> y, flow |-> f, n |-> n]
           q == [page[r.tab] EXCEPT !.inbox = Append(page[r.tab].inbox, c)]
           t0 == r.tab
<1>1. t0 \in Tabs /\ r.n \in Nat /\ n \in Nat /\ n # 0 /\ pc \in Asking /\ a \in {Waiting, Rejected}
    BY DEF IsRun, AskFits
<1>2. IsRun(x) /\ x.pc = pc /\ x.n = n /\ x.reply = a /\ Carries(x, r)
    <2> HIDE DEF a, n
    <2>1. n \in Nat
        BY <1>1
    <2>2. pc \in Asking
        BY <1>1
    <2>3. a \in {Waiting, Rejected}
        BY <1>1
    <2>4. IsRun(r)
        OBVIOUS
    <2>5. IsRun(Asked(r, pc, n, a))
        BY <2>1, <2>2, <2>3, <2>4, AskedRun
    <2>6. Carries(Asked(r, pc, n, a), r)
        BY <2>1, <2>2, <2>3, <2>4, AskedRun
    <2>7. Asked(r, pc, n, a).pc = pc /\ Asked(r, pc, n, a).n = n /\ Asked(r, pc, n, a).reply = a
        BY <2>1, <2>2, <2>3, <2>4, AskedRun
    <2> QED
        BY <2>5, <2>6, <2>7
<1>3. c \in Commands /\ c.flow = f /\ c.cmd = pc /\ c.n = n
    BY <1>1 DEF Commands
<1>4. flow' = [flow EXCEPT ![f] = x]
    BY Zenon DEF Ask, Asked
<1>5. page' = IF page[t0].open THEN [page EXCEPT ![t0] = q] ELSE page
    <2>3. page' = IF page[t0].open
                  THEN [page EXCEPT ![t0].inbox =
                            Append(@, [cmd |-> pc, y |-> y, flow |-> f, n |-> x.n])]
                  ELSE page
        BY Zenon DEF Ask, Asked
    <2>4. x.n = n
        BY <1>2
    <2> HIDE DEF x, n
    <2> QED
        BY <2>3, <2>4, <1>1 DEF TypeOK
<1> HIDE DEF x, n, a, c, t0
<1>6. page[t0] \in Pages /\ PageKept(page[t0])
    BY <1>1 DEF TypeOK, PagesKept
<1>7. /\ q \in Pages /\ PageKept(q) /\ q.overlays = page[t0].overlays
      /\ \A k \in 1..Len(q.inbox) :
            q.inbox[k] = c \/ \E j \in 1..Len(page[t0].inbox) : q.inbox[k] = page[t0].inbox[j]
    BY <1>3, <1>6, AppendedPage DEF t0
<1> HIDE DEF q
<1>8. /\ page' \in [Tabs -> Pages] /\ \A t \in Tabs : PageKept(page'[t])
      /\ \A t \in Tabs : page'[t].overlays = page[t].overlays
    BY <1>1, <1>5, <1>7 DEF TypeOK, PagesKept
<1>9. \A t \in Tabs, d \in Commands : Queued(t, d)' => Queued(t, d) \/ (d = c /\ t = t0)
    <2> SUFFICES ASSUME NEW t \in Tabs, NEW d \in Commands, Queued(t, d)'
                 PROVE  Queued(t, d) \/ (d = c /\ t = t0)
        OBVIOUS
    <2>1. CASE page'[t] = page[t]
        BY <2>1 DEF Queued
    <2>2. CASE t = t0 /\ page'[t] = q
        BY <1>7, <2>2 DEF Queued
    <2>3. page'[t] = page[t] \/ (t = t0 /\ page'[t] = q)
        BY <1>1, <1>5 DEF TypeOK
    <2> QED
        BY <2>1, <2>2, <2>3
<1>10. /\ flow'[f] = x /\ flow' = [g \in Flows |-> flow'[g]]
       /\ \A g \in Flows \ {f} : flow'[g] = flow[g] /\ Touched(flow[g], flow'[g])
    BY <1>4, FlowSet
<1>11. Live(f)' /\ x.pc \in Asking /\ x.pc # "pending" /\ Locking(x)
    BY <1>1, <1>2, <1>10, DeadOrRun DEF Live, Locking, AskFits, Carries, Asking
<1>12. LockHeld'
    <2>1. \A g \in Flows : Live(g)' /\ Locking(flow'[g]) => holder' = g
        <3> SUFFICES ASSUME NEW g \in Flows, g # f, Live(g)', Locking(flow'[g]) PROVE FALSE
            OBVIOUS
        <3>1. Live(g) /\ Locking(flow[g])
            BY <1>10 DEF Live
        <3>2. holder = g /\ g # 0
            BY <3>1 DEF LockHeld, Flows
        <3> QED
            BY <3>2
    <2>2. holder' # 0 => Live(holder)' /\ Locking(flow[holder])'
        BY <1>10, <1>11
    <2>3. \A t \in Tabs : pendingRegions'[t] # 0 =>
             flow'[pendingRegions'[t]].pc = "pending" /\ flow'[pendingRegions'[t]].tab = t
        BY <1>10, RecordsKeep
    <2>4. \A g \in Flows : flow'[g].pc = "pending" => pendingRegions'[flow'[g].tab] = g
        BY <1>10, <1>11 DEF LockHeld
    <2> QED
        BY <2>1, <2>2, <2>3, <2>4 DEF LockHeld
<1>13. SelectionsReport'
    <2>1. ~OverlayUp(x)
        BY <1>1, <1>2, <1>11 DEF OverlayUp, Waiting, Rejected
    <2>2. \A t \in Tabs : Coming(t) => Coming(t)'
        BY <1>8 DEF Coming
    <2> QED
        BY <1>10, <2>1, <2>2, TabsOfRuns DEF SelectionsReport, Live
<1>14. \A t \in Tabs, d \in Commands : Queued(t, d) /\ d.flow = f => CommandFits(t, d)'
    <2> SUFFICES ASSUME NEW t \in Tabs, NEW d \in Commands, Queued(t, d), d.flow = f
                 PROVE  CommandFits(t, d)'
        OBVIOUS
    <2>1. CommandFits(t, d)
        BY QueuedFits
    <2>2. Live(f) /\ d.n <= flow[f].n
        BY <2>1 DEF CommandFits, Live
    <2>3. d.n < n /\ d.n \in Nat
        BY <1>1, <2>2 DEF n, Commands
    <2> QED
        BY <1>1, <1>2, <1>10, <1>11, <2>3 DEF CommandFits, Live
<1>15. CommandFits(t0, c)'
    BY <1>1, <1>2, <1>3, <1>10, <1>11 DEF CommandFits, Carries, t0, Live
<1>16. StepFits(x)
    BY <1>1, <1>2, <1>11 DEF StepFits, AskFits, Carries, Waiting, Rejected, Asking
<1> QED
    BY <1>2, <1>3, <1>8, <1>9, <1>10, <1>12, <1>13, <1>14, <1>15, <1>16, OwnKeeps
    DEF TypeOK

-----------------------------------------------------------------------------
(* Captures that start.                                                      *)

LEMMA NewRun ==
    ASSUME NEW mode \in {"visible", "region", "full"}, NEW t \in Tabs, NEW pc \in Pcs
    PROVE  LET r == NewFlow(mode, t, pc) IN
           /\ IsRun(r) /\ r.pc = pc /\ r.mode = mode /\ r.tab = t /\ r.n = 0
           /\ r.i = 0 /\ r.reply = Waiting /\ ~r.missed
<1> DEFINE none == <<>>
           plan == [canvasHeight |-> 0, tiles |-> none]
           r == [pc |-> pc, mode |-> mode, tab |-> t, i |-> 0, n |-> 0, reply |-> Waiting,
                 plan |-> plan, imageHeight |-> 0, landed |-> 0, comp |-> none, ok |-> FALSE,
                 disturbed |-> FALSE, resized |-> FALSE, missed |-> FALSE]
<1>1. NewFlow(mode, t, pc) = r
    BY DEF NewFlow
<1>2. none \in Seq([scrollY : Int, destY : Int, height : Int])
    BY EmptySeq
<1>3. plan \in Plans /\ Waiting \in Replies
    <2> HIDE DEF none
    <2> QED
        BY <1>2 DEF Plans, Replies
<1> HIDE DEF plan, none
<1>4. /\ r = [pc |-> r.pc, mode |-> r.mode, tab |-> r.tab, i |-> r.i, n |-> r.n,
              reply |-> r.reply, plan |-> r.plan, imageHeight |-> r.imageHeight,
              landed |-> r.landed, comp |-> r.comp, ok |-> r.ok, disturbed |-> r.disturbed,
              resized |-> r.resized, missed |-> r.missed]
      /\ r.pc = pc /\ r.mode = mode /\ r.tab = t /\ r.n = 0 /\ r.i = 0
      /\ r.reply = Waiting /\ r.plan = plan
      /\ r.ok = FALSE /\ r.disturbed = FALSE /\ r.resized = FALSE /\ r.missed = FALSE
    OBVIOUS
<1> HIDE DEF r
<1>5. IsRun(r)
    <2>1. r.ok \in BOOLEAN /\ r.disturbed \in BOOLEAN /\ r.resized \in BOOLEAN /\ r.missed \in BOOLEAN
        BY <1>4
    <2>2. /\ r.pc \in Pcs /\ r.mode \in {"visible", "region", "full"} /\ r.tab \in Tabs
          /\ r.i \in Nat /\ r.n \in Nat /\ r.reply \in Replies /\ r.plan \in Plans
        BY <1>3, <1>4
    <2> QED
        BY <1>4, <2>1, <2>2, Zenon DEF IsRun
<1> QED
    BY <1>1, <1>4, <1>5

(* What the image and the history hold does not matter here. *)
Alike(q, r) ==
    /\ q.pc = r.pc /\ q.mode = r.mode /\ q.tab = r.tab /\ q.i = r.i /\ q.n = r.n
    /\ q.reply = r.reply /\ q.plan = r.plan

LEMMA ImageSet ==
    ASSUME NEW r, IsRun(r)
    PROVE  /\ \A h : IsRun([r EXCEPT !.imageHeight = h]) /\ Alike([r EXCEPT !.imageHeight = h], r)
           /\ \A h : IsRun([r EXCEPT !.comp = h]) /\ Alike([r EXCEPT !.comp = h], r)
           /\ \A h : IsRun([r EXCEPT !.landed = h]) /\ Alike([r EXCEPT !.landed = h], r)
           /\ \A b \in BOOLEAN : IsRun([r EXCEPT !.ok = b]) /\ Alike([r EXCEPT !.ok = b], r)
           /\ \A b \in BOOLEAN :
                IsRun([r EXCEPT !.disturbed = b]) /\ Alike([r EXCEPT !.disturbed = b], r)
<1> USE DEF Alike
<1>1. ASSUME NEW h PROVE IsRun([r EXCEPT !.imageHeight = h]) /\ Alike([r EXCEPT !.imageHeight = h], r)
    BY DEF IsRun
<1>2. ASSUME NEW h PROVE IsRun([r EXCEPT !.comp = h]) /\ Alike([r EXCEPT !.comp = h], r)
    BY DEF IsRun
<1>3. ASSUME NEW h PROVE IsRun([r EXCEPT !.landed = h]) /\ Alike([r EXCEPT !.landed = h], r)
    BY DEF IsRun
<1>4. ASSUME NEW b \in BOOLEAN PROVE IsRun([r EXCEPT !.ok = b]) /\ Alike([r EXCEPT !.ok = b], r)
    BY DEF IsRun
<1>5. ASSUME NEW b \in BOOLEAN
      PROVE  IsRun([r EXCEPT !.disturbed = b]) /\ Alike([r EXCEPT !.disturbed = b], r)
    BY DEF IsRun
<1> QED
    BY <1>1, <1>2, <1>3, <1>4, <1>5, Zenon

LEMMA UnusedIdles ==
    ASSUME CaptureInv, NEW f \in Flows, Unused(f)
    PROVE  flow[f].pc = "idle" /\ ~Live(f)
BY DEF Unused, Live

LEMMA StartVisiblePreserves ==
    ASSUME CaptureInv, NEW f \in Flows, StartVisible(f)
    PROVE  CaptureInv'
<1> USE DEF CaptureInv
<1> DEFINE x == NewFlow("visible", active, "shot")
<1>1. /\ IsRun(x) /\ x.pc = "shot" /\ x.mode = "visible" /\ x.tab = active /\ x.n = 0
      /\ x.reply = Waiting
    <2>1. active \in Tabs /\ "shot" \in Pcs
        BY DEF TypeOK, Pcs
    <2> QED
        BY <2>1, NewRun
<1>2. flow' = [flow EXCEPT ![f] = x] /\ flow[f].pc = "idle" /\ ~Live(f)
    BY UnusedIdles DEF StartVisible
<1> HIDE DEF x
<1>3. /\ flow'[f] = x /\ flow' = [g \in Flows |-> flow'[g]]
      /\ \A g \in Flows \ {f} : flow'[g] = flow[g] /\ Touched(flow[g], flow'[g])
    BY <1>2, FlowSet
<1>4. UNCHANGED <<page, active, holder, pendingRegions, results, events>>
    BY DEF StartVisible
<1>5. LockHeld'
    <2>1. ~Locking(x)
        BY <1>1 DEF Locking
    <2>2. \A g \in Flows : Live(g)' /\ Locking(flow'[g]) => holder' = g
        BY <1>3, <1>4, <2>1 DEF LockHeld, Live
    <2>3. holder' # 0 => Live(holder)' /\ Locking(flow[holder])'
        BY <1>2, <1>3, <1>4 DEF LockHeld, TypeOK, Live
    <2>4. \A t \in Tabs : pendingRegions'[t] # 0 =>
             flow'[pendingRegions'[t]].pc = "pending" /\ flow'[pendingRegions'[t]].tab = t
        BY <1>2, <1>3, <1>4, RecordsKeep
    <2>5. \A g \in Flows : flow'[g].pc = "pending" => pendingRegions'[flow'[g].tab] = g
        BY <1>1, <1>3, <1>4 DEF LockHeld
    <2> QED
        BY <2>2, <2>3, <2>4, <2>5 DEF LockHeld
<1>6. SelectionsReport'
    <2>1. ~OverlayUp(x)
        BY <1>1 DEF OverlayUp
    <2> QED
        BY <1>3, <1>4, <2>1 DEF SelectionsReport, Live, Coming
<1>7. /\ \A t \in Tabs, c \in Commands : Queued(t, c)' => Queued(t, c)
      /\ \A t \in Tabs, c \in Commands : Queued(t, c) /\ c.flow = f => CommandFits(t, c)'
    BY <1>1, <1>3, <1>4, QuietQueue
<1>8. StepFits(x)
    BY <1>1 DEF StepFits, Asking
<1> QED
    BY <1>1, <1>3, <1>4, <1>5, <1>6, <1>7, <1>8, OwnKeeps DEF TypeOK, PagesKept

LEMMA StartRegionPreserves ==
    ASSUME CaptureInv, NEW f \in Flows, StartRegion(f)
    PROVE  CaptureInv'
<1> DEFINE r == NewFlow("region", active, "select")
<1>1. IsRun(r) /\ r.mode = "region"
    <2>1. active \in Tabs /\ "select" \in Pcs
        BY DEF CaptureInv, TypeOK, Pcs, Asking
    <2> QED
        BY <2>1, NewRun
<1>2. flow[f].pc = "idle" /\ ~Live(f)
    BY UnusedIdles DEF StartRegion
<1>3. /\ Ask(f, r, "select", "select", 0) /\ holder \in {0, f} /\ holder' = f
      /\ UNCHANGED <<active, pendingRegions, results, events>>
    BY DEF StartRegion, Acquirable
<1> HIDE DEF r
<1>4. AskFits(r, "select")
    BY <1>1 DEF AskFits, Asking
<1> QED
    BY <1>1, <1>2, <1>3, <1>4, AskPreserves

LEMMA StartFullPreserves ==
    ASSUME CaptureInv, NEW f \in Flows, StartFull(f)
    PROVE  CaptureInv'
<1> DEFINE r0 == NewFlow("full", active, "begin")
<1>1. IsRun(r0) /\ r0.mode = "full"
    <2>1. active \in Tabs /\ "begin" \in Pcs
        BY DEF CaptureInv, TypeOK, Pcs, Asking
    <2> QED
        BY <2>1, NewRun
<1>2. flow[f].pc = "idle" /\ ~Live(f)
    BY UnusedIdles DEF StartFull
<1>3. /\ holder \in {0, f} /\ holder' = f
      /\ UNCHANGED <<active, pendingRegions, results, events>>
    BY DEF StartFull, Acquirable
<1>4. PICK h \in SnapshotHeights :
          Ask(f, [r0 EXCEPT !.imageHeight = h], "begin", "begin", 0)
    BY DEF StartFull
<1> HIDE DEF r0
<1> DEFINE r == [r0 EXCEPT !.imageHeight = h]
<1>5. IsRun(r) /\ r.mode = "full"
    BY <1>1, ImageSet DEF Alike
<1> HIDE DEF r
<1>6. AskFits(r, "begin")
    BY <1>5 DEF AskFits, Asking
<1>7. Ask(f, r, "begin", "begin", 0)
    BY <1>4 DEF r
<1> QED
    BY <1>2, <1>3, <1>5, <1>6, <1>7, AskPreserves

-----------------------------------------------------------------------------
(* Captures under way.                                                       *)

LEMMA ReplyKinds ==
    ASSUME NEW a \in Replies
    PROVE  /\ a.kind = "none" => a = Waiting
           /\ a.kind = "error" => a = Rejected
           /\ a.kind = "metrics" => a.height \in Nat \ {0}
           /\ Waiting.kind = "none" /\ Rejected.kind = "error"
BY DEF Replies, Waiting, Rejected

LEMMA RunFacts ==
    ASSUME CaptureInv, NEW f \in Flows, flow[f].pc \in Pcs
    PROVE  /\ Live(f) /\ IsRun(flow[f]) /\ StepFits(flow[f]) /\ flow[f].reply \in Replies
           /\ Locking(flow[f]) => holder = f
<1>1. Live(f)
    BY DEF Live, Pcs, Asking
<1> QED
    BY <1>1, LiveIsRun DEF CaptureInv, StepsFit, LockHeld, IsRun

(* The overlay is up: the selection is on record with its lock. *)
LEMMA SelectionPends ==
    ASSUME CaptureInv, NEW f \in Flows, flow[f].pc = "select", flow[f].reply.kind = "started",
           flow' = [flow EXCEPT ![f].pc = "pending"],
           pendingRegions' = [pendingRegions EXCEPT ![flow[f].tab] = f],
           UNCHANGED <<page, active, holder, results, events>>
    PROVE  CaptureInv'
<1> USE DEF CaptureInv
<1> DEFINE r == flow[f]
           x == [r EXCEPT !.pc = "pending"]
<1>1. IsRun(r) /\ StepFits(r) /\ Live(f) /\ holder = f /\ r.tab \in Tabs
    <2>1. Locking(flow[f]) /\ flow[f].pc \in Pcs
        BY DEF Locking, Pcs, Asking
    <2> QED
        BY <2>1, RunFacts DEF IsRun
<1>2. flow' = [flow EXCEPT ![f] = x]
    BY DEF TypeOK
<1>3. IsRun(x) /\ x.pc = "pending" /\ x.mode = r.mode /\ x.tab = r.tab /\ x.n = r.n
      /\ x.reply = r.reply /\ x.missed = r.missed
    <2> HIDE DEF r
    <2> QED
        BY <1>1 DEF IsRun, Pcs
<1> HIDE DEF x
<1>4. /\ flow'[f] = x /\ flow' = [g \in Flows |-> flow'[g]]
      /\ \A g \in Flows \ {f} : flow'[g] = flow[g] /\ Touched(flow[g], flow'[g])
    BY <1>2, FlowSet
<1>5. r.mode = "region" /\ r.reply # Waiting
    <2>1. r.mode = "region"
        BY <1>1 DEF StepFits
    <2>2. r.reply # Waiting
        BY DEF Waiting
    <2> QED
        BY <2>1, <2>2
<1>6. Live(f)' /\ Locking(x)
    BY <1>3, <1>4 DEF Live, Locking
<1>7. \A g \in Flows \ {f} : flow[g].pc # "pending"
    <2> SUFFICES ASSUME NEW g \in Flows \ {f}, flow[g].pc = "pending" PROVE FALSE
        OBVIOUS
    <2>1. Live(g) /\ Locking(flow[g])
        BY DEF Live, Locking
    <2> QED
        BY <1>1, <2>1 DEF LockHeld
<1>8. LockHeld'
    <2>1. \A g \in Flows : Live(g)' /\ Locking(flow'[g]) => holder' = g
        BY <1>1, <1>4 DEF LockHeld, Live
    <2>2. holder' # 0 => Live(holder)' /\ Locking(flow[holder])'
        BY <1>1, <1>4, <1>6
    <2>3. \A t \in Tabs : pendingRegions'[t] # 0 => pendingRegions'[t] = f /\ t = r.tab
        <3> SUFFICES ASSUME NEW t \in Tabs, t # r.tab, pendingRegions[t] # 0 PROVE FALSE
            BY DEF TypeOK
        <3>1. flow[pendingRegions[t]].pc = "pending" /\ pendingRegions[t] \in Flows
            BY DEF LockHeld, TypeOK
        <3>2. pendingRegions[t] = f
            BY <1>7, <3>1
        <3> QED
            BY <3>1, <3>2
    <2>4. \A t \in Tabs : pendingRegions'[t] # 0 =>
             flow'[pendingRegions'[t]].pc = "pending" /\ flow'[pendingRegions'[t]].tab = t
        BY <1>3, <1>4, <2>3
    <2>5. \A g \in Flows : flow'[g].pc = "pending" => pendingRegions'[flow'[g].tab] = g
        BY <1>1, <1>3, <1>4, <1>7 DEF TypeOK
    <2> QED
        BY <2>1, <2>2, <2>4, <2>5 DEF LockHeld
<1>9. SelectionsReport'
    <2>1. OverlayUp(flow[f])
        BY DEF OverlayUp
    <2>2. ~x.missed => Coming(x.tab)
        BY <1>1, <1>3, <2>1 DEF SelectionsReport
    <2>3. \A t \in Tabs : Coming(t) <=> Coming(t)'
        BY DEF Coming
    <2> QED
        BY <1>1, <1>3, <1>4, <2>2, <2>3, TabsOfRuns DEF SelectionsReport, Live
<1>10. /\ \A t \in Tabs, c \in Commands : Queued(t, c)' => Queued(t, c)
       /\ \A t \in Tabs, c \in Commands : Queued(t, c) /\ c.flow = f => CommandFits(t, c)'
    <2>1. flow'[f].pc = "pending" /\ flow'[f].n = flow[f].n /\ flow'[f].reply # Waiting
        BY <1>3, <1>4, <1>5
    <2> QED
        BY <1>1, <2>1, QuietQueue
<1>11. StepFits(x)
    BY <1>3, <1>5 DEF StepFits
<1>12. pendingRegions' \in [Tabs -> {0} \cup Flows]
    BY <1>1 DEF TypeOK
<1> QED
    BY <1>3, <1>4, <1>8, <1>9, <1>10, <1>11, <1>12, OwnKeeps DEF TypeOK, PagesKept

LEMMA RegionStartedPreserves ==
    ASSUME CaptureInv, NEW f \in Flows, RegionStarted(f)
    PROVE  CaptureInv'
<1>1. flow[f].pc = "select" /\ flow[f].reply # Waiting
    BY DEF RegionStarted
<1>2. Live(f) /\ StepFits(flow[f]) /\ flow[f].reply \in Replies
    BY <1>1, RunFacts DEF Pcs, Asking
<1>3. CASE flow[f].reply = Rejected
    <2>1. Ends(f) /\ UNCHANGED <<page, active, pendingRegions, results, events>>
        BY <1>3 DEF RegionStarted
    <2> QED
        BY <1>1, <1>2, <2>1, EndsPreserves
<1>4. CASE flow[f].reply # Rejected
    <2>1. flow[f].reply.kind = "started"
        BY <1>1, <1>2, <1>4, ReplyKinds DEF StepFits
    <2> QED
        BY <1>1, <1>4, <2>1, SelectionPends DEF RegionStarted
<1> QED
    BY <1>3, <1>4

LEMMA ShotPreserves ==
    ASSUME CaptureInv, NEW f \in Flows, Shot(f)
    PROVE  CaptureInv'
<1> DEFINE r == flow[f]
           comp == <<Band(NoRect)>>
           r1 == [r EXCEPT !.comp = comp]
           r2 == [r1 EXCEPT !.ok = TRUE]
           x == [r2 EXCEPT !.pc = "upload"]
<1>1. /\ r.pc = "shot" /\ UNCHANGED <<page, active, holder, pendingRegions, results, events>>
      /\ flow' = [flow EXCEPT ![f].pc = "upload", ![f].ok = TRUE, ![f].comp = comp]
    BY DEF Shot
<1>2. Live(f) /\ IsRun(r) /\ StepFits(r)
    BY <1>1, RunFacts DEF Pcs
<1> HIDE DEF comp
<1>3. flow' = [flow EXCEPT ![f] = x]
    <2>1. flow' = [flow EXCEPT ![f] = [r EXCEPT !.pc = "upload", !.ok = TRUE, !.comp = comp]]
        BY <1>1 DEF CaptureInv, TypeOK
    <2>2. x = [r EXCEPT !.pc = "upload", !.ok = TRUE, !.comp = comp]
        <3> HIDE DEF r
        <3> QED
            BY <1>2 DEF IsRun
    <2> HIDE DEF x
    <2> QED
        BY <2>1, <2>2
<1>4. IsRun(r1) /\ Alike(r1, r)
    BY <1>2, ImageSet
<1> HIDE DEF r1, r
<1>5. IsRun(r2) /\ Alike(r2, r)
    <2>1. TRUE \in BOOLEAN
        OBVIOUS
    <2>2. IsRun(r2) /\ Alike(r2, r1)
        BY <1>4, <2>1, ImageSet, Zenon
    <2> HIDE DEF r2
    <2> QED
        BY <1>4, <2>2 DEF Alike
<1> HIDE DEF r2
<1>6. IsRun(x)
    BY <1>5, RunSet DEF Pcs
<1>7. x.pc = "upload" /\ x.mode = r.mode /\ x.tab = r.tab /\ x.n = r.n /\ x.reply = r.reply
    BY <1>5 DEF IsRun, Alike
<1> HIDE DEF x
<1>8. StepFits(x) /\ (x.reply # Waiting \/ x.n = 0)
    BY <1>1, <1>2, <1>7 DEF StepFits, Asking
<1>9. /\ x.mode = flow[f].mode /\ x.tab = flow[f].tab /\ x.n = flow[f].n
      /\ flow[f].pc = "shot"
    BY <1>1, <1>7 DEF r
<1> QED
    BY <1>1, <1>2, <1>3, <1>6, <1>7, <1>8, <1>9, ProceedsPreserves

LEMMA UploadPreserves ==
    ASSUME CaptureInv, NEW f \in Flows, Upload(f)
    PROVE  CaptureInv'
<1>1. flow[f].pc = "upload"
    BY DEF Upload
<1>2. Live(f)
    BY <1>1, RunFacts DEF Pcs
<1> QED
    BY <1>1, <1>2, EndsPreserves DEF Upload

(* A stitching capture asks its page for something more. *)
LEMMA StitchAsks ==
    ASSUME CaptureInv, NEW f \in Flows, flow[f].pc \in {"check", "tile", "hide", "scroll"},
           NEW r, IsRun(r), r.mode = flow[f].mode, r.n = flow[f].n,
           NEW pc, NEW y \in Int, Ask(f, r, pc, pc, y),
           pc \in {"hide", "scroll", "restore"}, r.mode = "full" => AskFits(r, pc),
           UNCHANGED <<active, holder, pendingRegions, results, events>>
    PROVE  CaptureInv'
<1>1. StepFits(flow[f]) /\ (Locking(flow[f]) => holder = f)
    BY RunFacts DEF Pcs, Asking
<1>2. flow[f].mode = "full" /\ Locking(flow[f])
    BY <1>1 DEF StepFits, Locking
<1> QED
    BY <1>1, <1>2, AskPreserves

LEMMA FinallyPreserves ==
    ASSUME CaptureInv, NEW f \in Flows, flow[f].pc \in {"check", "tile", "hide", "scroll"},
           NEW r, IsRun(r), r.mode = flow[f].mode, r.n = flow[f].n, Finally(f, r),
           UNCHANGED <<active, holder, pendingRegions, results, events>>
    PROVE  CaptureInv'
<1>1. r.mode = "full" => AskFits(r, "restore")
    BY DEF AskFits, Asking
<1>2. Ask(f, r, "restore", "restore", 0)
    BY DEF Finally
<1> QED
    BY <1>1, <1>2, StitchAsks

LEMMA MeasuredPreserves ==
    ASSUME CaptureInv, NEW f \in Flows, Measured(f)
    PROVE  CaptureInv'
<1> DEFINE r == flow[f]
           plan == PlanTiles(r.reply.height)
           r1 == [r EXCEPT !.i = 1]
           r2 == [r1 EXCEPT !.plan = plan]
           x == [r2 EXCEPT !.pc = "check"]
<1>1. r.pc = "begin" /\ r.reply # Waiting /\ UNCHANGED <<page, active, pendingRegions, results, events>>
    BY DEF Measured
<1>2. Live(f) /\ IsRun(r) /\ StepFits(r) /\ r.reply \in Replies
    BY <1>1, RunFacts DEF Pcs, Asking
<1>3. CASE r.reply = Rejected
    <2>1. Ends(f)
        BY <1>3 DEF Measured
    <2> QED
        BY <1>1, <1>2, <2>1, EndsPreserves
<1>4. CASE r.reply # Rejected
    <2>1. r.reply.kind = "metrics" /\ r.mode = "full"
        BY <1>1, <1>2, <1>4, ReplyKinds DEF StepFits
    <2>2. plan \in Plans /\ Len(plan.tiles) >= 1 /\ Len(plan.tiles) \in Nat
        <3>1. r.reply.height \in Nat \ {0}
            BY <1>2, <2>1, ReplyKinds
        <3>2. plan \in Plans /\ Len(plan.tiles) >= 1
            BY <3>1, PlanTyped
        <3> HIDE DEF plan
        <3> QED
            BY <3>2 DEF Plans
    <2>3. /\ flow' = [flow EXCEPT ![f].pc = "check", ![f].i = 1, ![f].plan = plan]
          /\ UNCHANGED holder
        BY <1>4 DEF Measured
    <2> HIDE DEF plan
    <2>4. flow' = [flow EXCEPT ![f] = x]
        <3>1. flow' = [flow EXCEPT ![f] = [r EXCEPT !.pc = "check", !.i = 1, !.plan = plan]]
            BY <2>3 DEF CaptureInv, TypeOK
        <3>2. x = [r EXCEPT !.pc = "check", !.i = 1, !.plan = plan]
            <4> HIDE DEF r
            <4> QED
                BY <1>2 DEF IsRun
        <3> HIDE DEF x
        <3> QED
            BY <3>1, <3>2
    <2>5. x.pc = "check" /\ x.i = 1 /\ x.plan = plan /\ x.mode = r.mode /\ x.tab = r.tab
          /\ x.n = r.n /\ x.reply = r.reply
        <3> HIDE DEF r
        <3> QED
            BY <1>2 DEF IsRun
    <2>6. IsRun(r1)
        BY <1>2, RunSet
    <2> HIDE DEF r1
    <2>7. IsRun(r2)
        BY <2>2, <2>6, RunSet
    <2> HIDE DEF r2
    <2>8. IsRun(x)
        BY <2>7, RunSet DEF Pcs
    <2> HIDE DEF x
    <2>9. StepFits(x)
        BY <1>1, <2>1, <2>2, <2>5 DEF StepFits
    <2> QED
        BY <1>1, <1>2, <2>3, <2>4, <2>5, <2>8, <2>9, ProceedsPreserves
<1> QED
    BY <1>3, <1>4

(* A capture whose answer has come moves to another step that asks nothing. *)
LEMMA StepsOn ==
    ASSUME CaptureInv, NEW f \in Flows, NEW r, IsRun(r), Alike(r, flow[f]),
           NEW pc, flow' = [flow EXCEPT ![f] = [r EXCEPT !.pc = pc]],
           \/ r.pc = "check" /\ pc = "tile"
           \/ r.pc = "scroll" /\ pc = "check" /\ r.reply # Waiting
           \/ r.pc = "restore" /\ pc = "upload" /\ r.reply # Waiting,
           UNCHANGED <<page, active, holder, pendingRegions, results, events>>
    PROVE  CaptureInv'
<1> DEFINE x == [r EXCEPT !.pc = pc]
<1>1. pc \in Pcs /\ flow[f].pc \in Pcs /\ flow[f].pc = r.pc
    BY DEF Pcs, Asking, Alike
<1>2. Live(f) /\ StepFits(flow[f])
    BY <1>1, RunFacts
<1>3. IsRun(x) /\ x.pc = pc
    BY <1>1, RunSet DEF IsRun
<1>4. x.mode = r.mode /\ x.tab = r.tab /\ x.n = r.n /\ x.reply = r.reply /\ x.i = r.i /\ x.plan = r.plan
    BY DEF IsRun
<1> HIDE DEF x
<1>5. StepFits(x) /\ (x.reply # Waiting \/ x.n = 0)
    BY <1>1, <1>2, <1>3, <1>4 DEF StepFits, Asking, Alike
<1>6. flow' = [flow EXCEPT ![f] = x]
    BY DEF x
<1> QED
    BY <1>1, <1>2, <1>3, <1>4, <1>5, <1>6, ProceedsPreserves DEF Alike

LEMMA EnsureActivePreserves ==
    ASSUME CaptureInv, NEW f \in Flows, EnsureActive(f)
    PROVE  CaptureInv'
<1>1. /\ flow[f].pc = "check"
      /\ UNCHANGED <<active, holder, pendingRegions, results, events>>
    BY DEF EnsureActive
<1>2. IsRun(flow[f])
    BY <1>1, RunFacts DEF Pcs
<1>3. CASE active = flow[f].tab
    <2>1. flow' = [flow EXCEPT ![f] = [flow[f] EXCEPT !.pc = "tile"]] /\ UNCHANGED page
        BY <1>3 DEF EnsureActive, CaptureInv, TypeOK
    <2> QED
        BY <1>1, <1>2, <2>1, StepsOn DEF Alike
<1>4. CASE active # flow[f].tab
    <2>1. Finally(f, flow[f])
        BY <1>4 DEF EnsureActive
    <2> QED
        BY <1>1, <1>2, <2>1, FinallyPreserves
<1> QED
    BY <1>3, <1>4

LEMMA ScrolledPreserves ==
    ASSUME CaptureInv, NEW f \in Flows, Scrolled(f)
    PROVE  CaptureInv'
<1> DEFINE back == flow[f].reply = Rejected \/ (flow[f].reply # Rejected /\ flow[f].reply.cancelled)
<1>1. /\ flow[f].pc = "scroll" /\ flow[f].reply # Waiting
      /\ UNCHANGED <<active, holder, pendingRegions, results, events>>
    BY DEF Scrolled
<1>2. IsRun(flow[f])
    BY <1>1, RunFacts DEF Pcs, Asking
<1>3. CASE back
    <2>1. Finally(f, flow[f])
        BY <1>3 DEF Scrolled
    <2> QED
        BY <1>1, <1>2, <2>1, FinallyPreserves
<1>4. CASE ~back
    <2> DEFINE y == flow[f].reply.y
    <2>1. flow' = [flow EXCEPT ![f].pc = "check", ![f].landed = y] /\ UNCHANGED page
        BY <1>4, Zenon DEF Scrolled
    <2> HIDE DEF y
    <2>5. PICK r : r = [flow[f] EXCEPT !.landed = y]
        OBVIOUS
    <2>2. IsRun(r) /\ Alike(r, flow[f])
        BY <1>2, <2>5, ImageSet
    <2>3. flow' = [flow EXCEPT ![f] = [r EXCEPT !.pc = "check"]]
        <3>1. flow' = [flow EXCEPT ![f] = [flow[f] EXCEPT !.pc = "check", !.landed = y]]
            BY <2>1 DEF CaptureInv, TypeOK
        <3>2. PICK q : q = flow[f]
            OBVIOUS
        <3>3. [[q EXCEPT !.landed = y] EXCEPT !.pc = "check"] = [q EXCEPT !.pc = "check", !.landed = y]
            BY <1>2, <3>2 DEF IsRun
        <3> QED
            BY <2>5, <3>1, <3>2, <3>3, Zenon
    <2>4. r.pc = "scroll" /\ r.reply # Waiting
        BY <1>1, <2>2 DEF Alike
    <2> QED
        <3>1. UNCHANGED <<page, active, holder, pendingRegions, results, events>>
            BY <1>1, <2>1
        <3>2. r.pc = "scroll" /\ "check" = "check" /\ r.reply # Waiting
            BY <2>4
        <3> QED
            BY <2>2, <2>3, <3>1, <3>2, StepsOn, Zenon
<1> QED
    BY <1>3, <1>4

LEMMA RestoredPreserves ==
    ASSUME CaptureInv, NEW f \in Flows, Restored(f)
    PROVE  CaptureInv'
<1>1. /\ flow[f].pc = "restore" /\ flow[f].reply # Waiting
      /\ UNCHANGED <<page, active, pendingRegions, results, events>>
    BY DEF Restored
<1>2. IsRun(flow[f]) /\ Live(f)
    BY <1>1, RunFacts DEF Pcs, Asking
<1>3. CASE flow[f].ok
    <2>1. flow' = [flow EXCEPT ![f] = [flow[f] EXCEPT !.pc = "upload"]] /\ UNCHANGED holder
        BY <1>3 DEF Restored, CaptureInv, TypeOK
    <2> QED
        BY <1>1, <1>2, <2>1, StepsOn DEF Alike
<1>4. CASE ~flow[f].ok
    <2>1. Ends(f)
        BY <1>4 DEF Restored
    <2> QED
        BY <1>1, <1>2, <2>1, EndsPreserves
<1> QED
    BY <1>3, <1>4

LEMMA TileTyped ==
    ASSUME NEW r, IsRun(r)
    PROVE  /\ Len(r.plan.tiles) \in Nat
           /\ \A i \in 1..Len(r.plan.tiles) : r.plan.tiles[i].scrollY \in Int
<1>1. r.plan.tiles \in Seq([scrollY : Int, destY : Int, height : Int])
    BY DEF IsRun, Plans
<1> DEFINE T == [scrollY : Int, destY : Int, height : Int]
           s == r.plan.tiles
<1> HIDE DEF T, s
<1>2. s \in Seq(T)
    BY <1>1 DEF s, T
<1>3. Len(s) \in Nat /\ \A i \in 1..Len(s) : s[i] \in T
    BY <1>2
<1> QED
    BY <1>3 DEF s, T

LEMMA HiddenPreserves ==
    ASSUME CaptureInv, NEW f \in Flows, Hidden(f)
    PROVE  CaptureInv'
<1>1. /\ flow[f].pc = "hide" /\ UNCHANGED <<active, holder, pendingRegions, results, events>>
    BY DEF Hidden
<1>2. IsRun(flow[f]) /\ StepFits(flow[f])
    BY <1>1, RunFacts DEF Pcs, Asking
<1>3. CASE flow[f].reply = Rejected
    <2>1. Finally(f, flow[f])
        BY <1>3 DEF Hidden
    <2> QED
        BY <1>1, <1>2, <2>1, FinallyPreserves
<1>4. CASE flow[f].reply # Rejected
    <2>1. PICK q : q = flow[f]
        OBVIOUS
    <2> DEFINE r == [q EXCEPT !.i = 2]
               y == q.plan.tiles[2].scrollY
    <2>2. Ask(f, r, "scroll", "scroll", y)
        BY <1>4, <2>1 DEF Hidden
    <2>3. y \in Int /\ Len(q.plan.tiles) > 1 /\ Len(q.plan.tiles) \in Nat
        <3>1. 2 \in 1..Len(q.plan.tiles) /\ Len(q.plan.tiles) > 1
            BY <1>1, <1>2, <2>1, TileTyped DEF StepFits
        <3> QED
            BY <1>2, <2>1, <3>1, TileTyped
    <2>4. IsRun(r)
        BY <1>2, <2>1, RunSet
    <2>5. r.mode = q.mode /\ r.n = q.n /\ r.i = 2 /\ r.plan = q.plan
        BY <1>2, <2>1 DEF IsRun
    <2> HIDE DEF r, y
    <2>6. r.mode = "full" => AskFits(r, "scroll")
        BY <2>3, <2>5 DEF AskFits, Asking
    <2> QED
        BY <1>1, <2>1, <2>2, <2>3, <2>4, <2>5, <2>6, StitchAsks
<1> QED
    BY <1>3, <1>4

LEMMA DrawnIsAlike ==
    ASSUME NEW r, IsRun(r)
    PROVE  IsRun(Drawn(r)) /\ Alike(Drawn(r), r)
<1> DEFINE rect == DrawRectFor(r.plan.tiles[r.i], r.landed, r.plan.canvasHeight, r.imageHeight)
           comp == Append(r.comp, Band(rect))
<1>1. Drawn(r) = IF rect = NoRect THEN r ELSE [r EXCEPT !.comp = comp]
    BY Zenon DEF Drawn
<1> HIDE DEF rect, comp
<1>2. IsRun([r EXCEPT !.comp = comp]) /\ Alike([r EXCEPT !.comp = comp], r)
    BY ImageSet
<1>3. Alike(r, r)
    BY DEF Alike
<1> QED
    BY <1>1, <1>2, <1>3

LEMMA TilePreserves ==
    ASSUME CaptureInv, NEW f \in Flows, Tile(f)
    PROVE  CaptureInv'
<1>1. /\ flow[f].pc = "tile" /\ UNCHANGED <<active, holder, pendingRegions, results, events>>
    BY DEF Tile
<1>2. IsRun(flow[f]) /\ StepFits(flow[f])
    BY <1>1, RunFacts DEF Pcs
<1>3. PICK r : r = Drawn(flow[f])
    OBVIOUS
<1>4. IsRun(r) /\ Alike(r, flow[f])
    BY <1>2, <1>3, DrawnIsAlike
<1> DEFINE last == Len(r.plan.tiles)
<1>5. r.mode = flow[f].mode /\ r.n = flow[f].n /\ r.i \in 1..last /\ last \in Nat
    <2>1. r.i \in 1..last
        BY <1>1, <1>2, <1>4 DEF StepFits, Alike
    <2>2. last \in Nat
        BY <1>4 DEF IsRun, Plans
    <2> QED
        BY <1>4, <2>1, <2>2 DEF Alike
<1>6. CASE r.i = last
    <2>1. Finally(f, [r EXCEPT !.ok = TRUE])
        <3>1. ~(r.i = 1 /\ last > 1)
            <4> HIDE DEF last
            <4> QED
                BY <1>5, <1>6
        <3> DEFINE d == Drawn(flow[f])
        <3>2. d.i = Len(d.plan.tiles) /\ ~(d.i = 1 /\ Len(d.plan.tiles) > 1)
            BY <1>3, <1>6, <3>1
        <3>3. Finally(f, [d EXCEPT !.ok = TRUE])
            BY <3>2, Zenon DEF Tile
        <3> QED
            BY <1>3, <3>3, Zenon
    <2> DEFINE x == [r EXCEPT !.ok = TRUE]
    <2>2. IsRun(x) /\ Alike(x, r)
        <3>1. TRUE \in BOOLEAN
            OBVIOUS
        <3> QED
            BY <1>4, <3>1, ImageSet, Zenon
    <2>3. x.mode = flow[f].mode /\ x.n = flow[f].n
        BY <1>5, <2>2 DEF Alike
    <2>4. Finally(f, x)
        BY <2>1
    <2> HIDE DEF x
    <2> QED
        BY <1>1, <2>2, <2>3, <2>4, FinallyPreserves
<1>7. CASE r.i # last /\ r.i = 1 /\ last > 1
    <2>1. Ask(f, r, "hide", "hide", 0)
        BY <1>3, <1>7 DEF Tile
    <2>2. AskFits(r, "hide") \/ r.mode # "full"
        BY <1>7 DEF AskFits, Asking
    <2> QED
        BY <1>1, <1>4, <1>5, <2>1, <2>2, StitchAsks
<1>8. CASE r.i # last /\ ~(r.i = 1 /\ last > 1)
    <2> DEFINE i == r.i + 1
               x == [r EXCEPT !.i = i]
               y == r.plan.tiles[i].scrollY
    <2>1. Ask(f, x, "scroll", "scroll", y)
        BY <1>3, <1>8 DEF Tile
    <2>2. i \in 1..last /\ i \in Nat
        BY <1>5, <1>8
    <2>3. y \in Int
        BY <1>4, <2>2, TileTyped
    <2> HIDE DEF i
    <2>4. IsRun(x)
        BY <1>4, <2>2, RunSet
    <2>5. x.mode = r.mode /\ x.n = r.n /\ x.i = i /\ x.plan = r.plan
        BY <1>4 DEF IsRun
    <2> HIDE DEF x, y
    <2>6. x.mode = "full" => AskFits(x, "scroll")
        BY <2>2, <2>5 DEF AskFits, Asking
    <2> QED
        BY <1>1, <1>5, <2>1, <2>3, <2>4, <2>5, <2>6, StitchAsks
<1> QED
    BY <1>6, <1>7, <1>8

LEMMA TileFailsPreserves ==
    ASSUME CaptureInv, NEW f \in Flows, TileFails(f)
    PROVE  CaptureInv'
<1>1. IsRun(flow[f])
    BY RunFacts DEF TileFails, Pcs
<1> QED
    BY <1>1, FinallyPreserves DEF TileFails

-----------------------------------------------------------------------------
(* Selections that end, and the worker.                                      *)

LEMMA RecycledPreserves ==
    ASSUME CaptureInv, Recycle
    PROVE  CaptureInv'
<1> USE DEF CaptureInv
<1>1. /\ flow' = [f \in Flows |-> IF Live(f) THEN Over ELSE flow[f]]
      /\ holder' = 0 /\ pendingRegions' = [t \in Tabs |-> 0]
      /\ UNCHANGED <<page, active, results, events>>
    BY DEF Recycle
<1>2. \A f \in Flows : flow'[f] \in Dead /\ ~Live(f)' /\ (flow[f].pc # "idle" => flow'[f].pc # "idle")
    BY <1>1, LiveIsRun, DeadOrRun, OverIsDead DEF Live
<1>3. TypeOK'
    <2>1. flow' = [f \in Flows |-> flow'[f]]
        BY <1>1, Zenon
    <2> QED
        BY <1>1, <1>2, <2>1 DEF TypeOK, Dead
<1>4. StepsFit' /\ SelectionsReport'
    BY <1>2 DEF StepsFit, SelectionsReport
<1>5. LockHeld'
    <2>1. \A f \in Flows : flow'[f].pc # "pending"
        BY <1>2, DeadOrRun
    <2> QED
        BY <1>1, <1>2, <2>1 DEF LockHeld
<1>6. CommandsFit'
    <2> SUFFICES ASSUME NEW t \in Tabs, NEW k \in 1..Len(page[t].inbox)
                 PROVE  CommandFits(t, page[t].inbox[k])'
        BY <1>1 DEF CommandsFit
    <2>1. PICK c \in Commands : c = page[t].inbox[k]
        BY DEF TypeOK, Pages
    <2>2. CommandFits(t, c) /\ c.flow \in Flows
        BY <2>1 DEF CommandsFit, Commands
    <2>3. CommandFits(t, c)'
        BY <1>2, <2>2 DEF CommandFits
    <2> QED
        BY <1>1, <2>1, <2>3
<1>7. PagesKept'
    BY <1>1 DEF PagesKept
<1> QED
    BY <1>3, <1>4, <1>5, <1>6, <1>7

(* A capture that neither has nor takes the lock comes or goes beside it. *)
LEMMA LockStands ==
    ASSUME CaptureInv, NEW f \in Flows, ~Live(f), Live(f)' => ~Locking(flow'[f]),
           flow'[f].pc # "pending", \A g \in Flows \ {f} : SameStanding(g),
           UNCHANGED <<holder, pendingRegions>>
    PROVE  LockHeld'
<1> USE DEF CaptureInv
<1>1. flow[f].pc # "pending"
    BY DEF Live
<1>2. \A g \in Flows : Live(g)' /\ Locking(flow'[g]) => holder' = g
    BY DEF LockHeld, Live, SameStanding, Locking
<1>3. holder' # 0 => Live(holder)' /\ Locking(flow[holder])'
    BY DEF LockHeld, TypeOK, Live, SameStanding, Locking
<1>4. \A t \in Tabs : pendingRegions'[t] # 0 =>
         flow'[pendingRegions'[t]].pc = "pending" /\ flow'[pendingRegions'[t]].tab = t
    <2> SUFFICES ASSUME NEW t \in Tabs, pendingRegions[t] # 0
                 PROVE  flow'[pendingRegions[t]].pc = "pending" /\ flow'[pendingRegions[t]].tab = t
        OBVIOUS
    <2>1. PICK g \in Flows : g = pendingRegions[t]
        BY DEF TypeOK
    <2>2. flow[g].pc = "pending" /\ flow[g].tab = t
        BY <2>1 DEF LockHeld
    <2> QED
        BY <1>1, <2>1, <2>2 DEF SameStanding
<1>5. \A g \in Flows : flow'[g].pc = "pending" => pendingRegions'[flow'[g].tab] = g
    BY DEF LockHeld, SameStanding
<1> QED
    BY <1>2, <1>3, <1>4, <1>5 DEF LockHeld

(* The selection on record of a tab, which has the lock, ends: no other can be *)
(* up meanwhile.                                                               *)
LEMMA SelectionEnds ==
    ASSUME CaptureInv, NEW t \in Tabs, NEW p \in Flows, p = pendingRegions[t],
           \A g \in Flows \ {p} : Touched(flow[g], flow'[g]),
           Live(p)' => ~Locking(flow'[p]) /\ ~OverlayUp(flow'[p]), flow'[p].pc # "pending",
           holder' = ReleasedBy(p), pendingRegions' = [pendingRegions EXCEPT ![t] = 0]
    PROVE  LockHeld' /\ SelectionsReport' /\ holder' = 0 /\ Live(p) /\ flow[p].pc = "pending"
<1> USE DEF CaptureInv
<1>1. p # 0 /\ flow[p].pc = "pending" /\ flow[p].tab = t
    BY DEF LockHeld, Flows
<1>2. Live(p) /\ Locking(flow[p]) /\ holder = p
    BY <1>1 DEF LockHeld, Live, Locking
<1>3. holder' = 0
    BY <1>2 DEF ReleasedBy
<1>4. \A g \in Flows \ {p} : ~(Live(g) /\ Locking(flow[g])) /\ flow[g].pc # "pending"
    BY <1>2 DEF LockHeld, Locking, Live
<1>5. \A g \in Flows : ~(Live(g)' /\ Locking(flow'[g])) /\ flow'[g].pc # "pending"
    BY <1>4 DEF Touched, Live, Locking
<1>6. \A u \in Tabs : pendingRegions'[u] = 0
    <2> SUFFICES ASSUME NEW u \in Tabs, u # t, pendingRegions[u] # 0 PROVE FALSE
        BY DEF TypeOK
    <2>1. PICK g \in Flows : g = pendingRegions[u]
        BY DEF TypeOK
    <2>2. flow[g].pc = "pending" /\ flow[g].tab = u
        BY <2>1 DEF LockHeld
    <2> QED
        BY <1>1, <1>4, <2>2
<1>7. LockHeld'
    BY <1>3, <1>5, <1>6 DEF LockHeld
<1>8. SelectionsReport'
    <2> SUFFICES ASSUME NEW g \in Flows, Live(g)', OverlayUp(flow'[g]) PROVE FALSE
        BY DEF SelectionsReport
    <2>1. Locking(flow'[g])
        BY DEF OverlayUp, Locking
    <2> QED
        BY <1>5, <2>1
<1> QED
    BY <1>1, <1>2, <1>3, <1>7, <1>8

LEMMA MissedTouches ==
    ASSUME TypeOK, NEW t, NEW g \in Flows
    PROVE  Touched(flow[g], Missed(t)[g])
<1>1. Missed(t)[g] = IF flow[g].pc = "select" /\ flow[g].tab = t
                     THEN [flow[g] EXCEPT !.missed = TRUE] ELSE flow[g]
    BY DEF Missed
<1>2. CASE flow[g].pc = "select" /\ flow[g].tab = t
    <2>1. IsRun(flow[g]) /\ TRUE \in BOOLEAN
        BY <1>2, DeadOrRun DEF TypeOK, Dead
    <2>2. Touched(flow[g], [flow[g] EXCEPT !.missed = TRUE])
        BY <2>1, MarksTouch, Zenon
    <2> QED
        BY <1>1, <1>2, <2>2, Zenon
<1>3. flow[g] \in Dead \/ IsRun(flow[g])
    BY DEF TypeOK, Dead
<1> QED
    BY <1>1, <1>2, <1>3, Untouched, Zenon

(* An event or result of a tab is used up before its selection is on record. *)
LEMMA MissedReports ==
    ASSUME CaptureInv, NEW t \in Tabs, pendingRegions[t] = 0,
           \A g \in Flows : flow'[g] = Missed(t)[g] \/ ~OverlayUp(flow'[g]),
           \A u \in Tabs \ {t} : Coming(u) => Coming(u)'
    PROVE  SelectionsReport'
<1> USE DEF CaptureInv
<1> SUFFICES ASSUME NEW g \in Flows, Live(g)', OverlayUp(flow'[g]), ~flow'[g].missed
             PROVE  Coming(flow[g].tab)' /\ flow'[g].tab = flow[g].tab
    BY DEF SelectionsReport
<1>1. flow'[g] = Missed(t)[g]
    OBVIOUS
<1>2. Touched(flow[g], flow'[g])
    BY <1>1, MissedTouches
<1>3. /\ Live(g) /\ OverlayUp(flow[g]) /\ ~flow[g].missed
      /\ flow'[g].tab = flow[g].tab /\ flow[g].tab \in Tabs
    BY <1>2, TabsOfRuns DEF Touched, Live, OverlayUp, Rejected
<1>4. Coming(flow[g].tab)
    BY <1>3 DEF SelectionsReport
<1>5. flow[g].tab # t
    <2> SUFFICES ASSUME flow[g].tab = t PROVE FALSE
        OBVIOUS
    <2>1. flow[g].pc # "pending"
        BY DEF LockHeld, Flows
    <2>2. flow[g].pc = "select"
        BY <1>3, <2>1 DEF OverlayUp
    <2>3. flow'[g] = [flow[g] EXCEPT !.missed = TRUE]
        BY <1>1, <2>2 DEF Missed
    <2>4. IsRun(flow[g])
        BY <1>3, LiveIsRun
    <2>5. PICK r : r = flow[g]
        OBVIOUS
    <2>6. [r EXCEPT !.missed = TRUE].missed = TRUE
        BY <2>4, <2>5 DEF IsRun
    <2> QED
        BY <2>3, <2>5, <2>6
<1> QED
    BY <1>3, <1>4, <1>5

LEMMA AbandonRegionPreserves ==
    ASSUME CaptureInv, NEW t \in Tabs, AbandonRegion(t)
    PROVE  CaptureInv'
<1> USE DEF CaptureInv
<1>1. /\ events' = events \ {t} /\ UNCHANGED <<page, active, results>>
    BY DEF AbandonRegion
<1>2. pendingRegions[t] \in {0} \cup Flows
    BY DEF TypeOK
<1>3. /\ page' \in [Tabs -> Pages] /\ active' \in Tabs
      /\ results' \in SUBSET Results /\ events' \in SUBSET Tabs
      /\ \A u \in Tabs : PageKept(page'[u])
      /\ \A u \in Tabs, c \in Commands : Queued(u, c)' => Queued(u, c)
    BY <1>1 DEF TypeOK, PagesKept, Queued
<1>4. CASE pendingRegions[t] = 0
    <2>1. flow' = Missed(t) /\ UNCHANGED <<holder, pendingRegions>>
        BY <1>4 DEF AbandonRegion
    <2>2. flow' = [g \in Flows |-> flow'[g]]
        BY <2>1, Zenon DEF Missed
    <2>3. \A g \in Flows : Touched(flow[g], flow'[g])
        BY <2>1, MissedTouches
    <2>4. \A u \in Tabs \ {t} : Coming(u) => Coming(u)'
        BY <1>1 DEF Coming
    <2>5. \A g \in Flows : flow'[g] = Missed(t)[g]
        BY <2>1
    <2>6. SelectionsReport'
        BY <1>4, <2>4, <2>5, MissedReports
    <2> QED
        BY <1>3, <2>1, <2>2, <2>3, <2>6, AroundKeeps
<1>5. CASE pendingRegions[t] # 0
    <2>1. PICK p \in Flows : p = pendingRegions[t]
        BY <1>2, <1>5
    <2>2. /\ flow' = [flow EXCEPT ![p] = Over] /\ holder' = ReleasedBy(p)
          /\ pendingRegions' = [pendingRegions EXCEPT ![t] = 0]
        BY <1>5, <2>1 DEF AbandonRegion, Ends
    <2>3. /\ flow'[p] = Over /\ flow' = [g \in Flows |-> flow'[g]]
          /\ \A g \in Flows \ {p} : Touched(flow[g], flow'[g])
        BY <2>2, FlowSet
    <2>4. flow'[p].pc = "over" /\ ~Live(p)' /\ flow'[p] \in Dead
        BY <2>3, OverIsDead DEF Live
    <2>5. LockHeld' /\ SelectionsReport' /\ holder' = 0
        BY <2>1, <2>2, <2>3, <2>4, SelectionEnds
    <2>6. \A u \in Tabs, c \in Commands : Queued(u, c) /\ c.flow = p => CommandFits(u, c)'
        BY <1>1, <2>4, QuietQueue
    <2>7. holder' \in {0} \cup Flows /\ pendingRegions' \in [Tabs -> {0} \cup Flows]
        BY <2>2, <2>5 DEF TypeOK
    <2> QED
        BY <1>3, <2>3, <2>4, <2>5, <2>6, <2>7, OwnKeeps
<1> QED
    BY <1>4, <1>5

(* The snapshot of a region, wherever its lock has gone. *)
LEMMA RegionShot ==
    ASSUME TypeOK, NEW t \in Tabs, NEW x,
           x = [NewFlow("region", t, "shot") EXCEPT !.disturbed = t # active]
    PROVE  /\ IsRun(x) /\ StepFits(x) /\ x.pc = "shot" /\ x.n = 0
           /\ ~Locking(x) /\ ~OverlayUp(x)
<1>1. PICK r : r = NewFlow("region", t, "shot")
    OBVIOUS
<1>2. IsRun(r) /\ r.pc = "shot" /\ r.mode = "region" /\ r.n = 0
    BY <1>1, NewRun DEF Pcs
<1>3. PICK b \in BOOLEAN : b <=> t # active
    OBVIOUS
<1>4. x = [r EXCEPT !.disturbed = b]
    <2>1. b = (t # active)
        BY <1>3
    <2> QED
        BY <1>1, <2>1, Zenon
<1>5. IsRun(x) /\ Alike(x, r)
    BY <1>2, <1>4, ImageSet
<1> QED
    BY <1>2, <1>5 DEF Alike, StepFits, Locking, OverlayUp, Asking

LEMMA HandleRegionResultPreserves ==
    ASSUME CaptureInv, NEW m \in results, NEW f \in Flows, HandleRegionResult(m, f)
    PROVE  CaptureInv'
<1> USE DEF CaptureInv
<1>1. PICK t \in Tabs : t = m.tab
    BY DEF TypeOK, Results
<1>2. PICK x : x = [NewFlow("region", t, "shot") EXCEPT !.disturbed = t # active]
    OBVIOUS
<1>3. IsRun(x) /\ StepFits(x) /\ x.pc = "shot" /\ x.n = 0 /\ ~Locking(x) /\ ~OverlayUp(x)
    BY <1>2, RegionShot
<1>4. /\ results' = results \ {m} /\ UNCHANGED <<page, active, events>>
      /\ f = pendingRegions[t] \/ (pendingRegions[t] = 0 /\ Unused(f))
      /\ holder' = IF pendingRegions[t] = 0 THEN holder ELSE ReleasedBy(pendingRegions[t])
      /\ pendingRegions' = [pendingRegions EXCEPT ![t] = 0]
    BY <1>1 DEF HandleRegionResult
<1>5. flow' = IF m.selected THEN [Missed(t) EXCEPT ![f] = x]
              ELSE IF pendingRegions[t] = 0 THEN Missed(t)
              ELSE [flow EXCEPT ![pendingRegions[t]] = Over]
    BY <1>1, <1>2, Zenon DEF HandleRegionResult
<1>6. /\ page' \in [Tabs -> Pages] /\ active' \in Tabs
      /\ results' \in SUBSET Results /\ events' \in SUBSET Tabs
      /\ \A u \in Tabs : PageKept(page'[u])
      /\ \A u \in Tabs, c \in Commands : Queued(u, c)' => Queued(u, c)
    BY <1>4 DEF TypeOK, PagesKept, Queued
<1>7. \A u \in Tabs \ {t} : Coming(u) => Coming(u)'
    BY <1>1, <1>4 DEF Coming
<1>8. ASSUME m.selected
      PROVE  /\ flow'[f] = x /\ flow' = [g \in Flows |-> flow'[g]]
             /\ \A g \in Flows \ {f} : flow'[g] = Missed(t)[g] /\ Touched(flow[g], flow'[g])
    <2>1. flow' = [Missed(t) EXCEPT ![f] = x]
        BY <1>5, <1>8
    <2>2. Missed(t) = [g \in Flows |-> Missed(t)[g]]
        BY Zenon DEF Missed
    <2>3. flow'[f] = x /\ flow' = [g \in Flows |-> flow'[g]]
        BY <2>1, <2>2
    <2>4. \A g \in Flows \ {f} : flow'[g] = Missed(t)[g]
        BY <2>1, <2>2
    <2> QED
        BY <2>3, <2>4, MissedTouches
(* The selection is the one on record: its lock is released. *)
<1>9. CASE pendingRegions[t] # 0
    <2>1. f = pendingRegions[t] /\ holder' = ReleasedBy(f)
        BY <1>4, <1>9
    <2>2. ~m.selected => flow' = [flow EXCEPT ![f] = Over]
        BY <1>5, <1>9, <2>1
    <2>3. /\ flow' = [g \in Flows |-> flow'[g]]
          /\ \A g \in Flows \ {f} : Touched(flow[g], flow'[g])
          /\ flow'[f] = x \/ flow'[f] = Over
        BY <1>8, <2>2, FlowSet
    <2>4. /\ flow'[f].pc \in {"over", "shot"} /\ (flow'[f].pc = "over" \/ flow'[f].n = 0)
          /\ Live(f)' => ~Locking(flow'[f]) /\ ~OverlayUp(flow'[f])
          /\ flow'[f] \in Dead \/ (IsRun(flow'[f]) /\ StepFits(flow'[f]))
        BY <1>3, <2>3, OverIsDead DEF Live
    <2>5. LockHeld' /\ SelectionsReport' /\ holder' = 0
        BY <1>4, <2>1, <2>3, <2>4, SelectionEnds
    <2>6. \A u \in Tabs, c \in Commands : Queued(u, c) /\ c.flow = f => CommandFits(u, c)'
        BY <1>4, <2>4, QuietQueue
    <2>7. holder' \in {0} \cup Flows /\ pendingRegions' \in [Tabs -> {0} \cup Flows]
        BY <1>4, <2>5 DEF TypeOK
    <2> QED
        BY <1>6, <2>3, <2>4, <2>5, <2>6, <2>7, OwnKeeps
(* Its record is gone, or not made yet. *)
<1>10. CASE pendingRegions[t] = 0
    <2>1. UNCHANGED <<holder, pendingRegions>>
        BY <1>4, <1>10 DEF TypeOK
    <2>2. flow[f].pc = "idle" /\ ~Live(f)
        BY <1>4, <1>10, UnusedIdles DEF Flows
    <2>3. CASE ~m.selected
        <3>1. flow' = Missed(t)
            BY <1>5, <1>10, <2>3
        <3>2. flow' = [g \in Flows |-> flow'[g]]
            BY <3>1, Zenon DEF Missed
        <3>3. \A g \in Flows : Touched(flow[g], flow'[g])
            BY <3>1, MissedTouches
        <3>4. \A g \in Flows : flow'[g] = Missed(t)[g]
            BY <3>1
        <3>5. SelectionsReport'
            BY <1>7, <1>10, <3>4, MissedReports
        <3> QED
            BY <1>6, <2>1, <3>2, <3>3, <3>5, AroundKeeps
    <2>4. CASE m.selected
        <3>1. /\ flow'[f] = x /\ flow' = [g \in Flows |-> flow'[g]]
              /\ \A g \in Flows \ {f} : flow'[g] = Missed(t)[g] /\ Touched(flow[g], flow'[g])
            BY <1>8, <2>4
        <3>2. \A g \in Flows : flow'[g] = Missed(t)[g] \/ ~OverlayUp(flow'[g])
            BY <1>3, <3>1
        <3>3. SelectionsReport'
            BY <1>7, <1>10, <3>2, MissedReports
        <3>4. \A g \in Flows \ {f} : SameStanding(g)
            BY <3>1 DEF Touched, SameStanding
        <3>5. LockHeld'
            BY <1>3, <2>1, <2>2, <3>1, <3>4, LockStands
        <3>6. \A u \in Tabs, c \in Commands : Queued(u, c) /\ c.flow = f => CommandFits(u, c)'
            BY <1>3, <1>4, <3>1, QuietQueue
        <3>7. holder' \in {0} \cup Flows /\ pendingRegions' \in [Tabs -> {0} \cup Flows]
            BY <2>1 DEF TypeOK
        <3> QED
            BY <1>3, <1>6, <3>1, <3>3, <3>5, <3>6, <3>7, OwnKeeps
    <2> QED
        BY <2>3, <2>4
<1> QED
    BY <1>9, <1>10

-----------------------------------------------------------------------------
(* A page handles its next command.                                          *)

Taken(p) == [p EXCEPT !.inbox = Tail(p.inbox)]

(* q is p without its next command, one of those p has. *)
Takes(p, q) ==
    /\ q \in Pages /\ PageKept(q) /\ q.overlays = p.overlays
    /\ Head(p.inbox) \in Commands
    /\ \E j \in 1..Len(p.inbox) : p.inbox[j] = Head(p.inbox)
    /\ \A k \in 1..Len(q.inbox) : \E j \in 1..Len(p.inbox) : q.inbox[k] = p.inbox[j]

LEMMA TakenPage ==
    ASSUME NEW p \in Pages, PageKept(p), p.inbox # <<>>, NEW q, q = Taken(p)
    PROVE  Takes(p, q)
<1> USE DEF Taken
<1> DEFINE s == p.inbox
<1>1. s \in Seq(Commands) /\ s # <<>>
    BY DEF Pages
<1>2. q.inbox = Tail(s)
    BY DEF Pages
<1>3. q \in Pages /\ PageKept(q) /\ q.overlays = p.overlays
    <2>1. Tail(s) \in Seq(Commands)
        <3> HIDE DEF s
        <3> QED
            BY <1>1
    <2> QED
        BY <2>1 DEF Pages, PageKept
<1> HIDE DEF s
<1>4. Len(s) \in Nat /\ Len(s) >= 1 /\ Head(s) = s[1] /\ s[1] \in Commands
    BY <1>1
<1>5. \A k \in 1..Len(Tail(s)) : k + 1 \in 1..Len(s) /\ Tail(s)[k] = s[k + 1]
    BY <1>1, <1>4
<1>6. \E j \in 1..Len(s) : s[j] = Head(s)
    BY <1>4
<1>7. \A k \in 1..Len(Tail(s)) : \E j \in 1..Len(s) : Tail(s)[k] = s[j]
    BY <1>5
<1> QED
    BY <1>2, <1>3, <1>4, <1>6, <1>7 DEF s, Takes

(* The answer reaches the capture that waits for it. *)
LEMMA AnswerPreserves ==
    ASSUME CaptureInv, NEW f \in Flows, Live(f), flow[f].pc \in Asking, flow[f].reply = Waiting,
           NEW a \in Replies \ {Waiting}, flow' = [flow EXCEPT ![f].reply = a],
           NEW u \in Tabs, u = flow[f].tab,
           flow[f].pc = "select" => a.kind \in {"error", "started"} /\ Coming(u)',
           flow[f].pc = "begin" => a.kind \in {"error", "metrics"},
           flow[f].pc = "scroll" => a.kind \in {"error", "scrolled"},
           page' \in [Tabs -> Pages], \A t \in Tabs : PageKept(page'[t]),
           \A t \in Tabs, c \in Commands : Queued(t, c)' => Queued(t, c),
           \A t \in Tabs : Coming(t) => Coming(t)',
           UNCHANGED <<active, holder, pendingRegions, results, events>>
    PROVE  CaptureInv'
<1> USE DEF CaptureInv
<1>1. PICK r : r = flow[f]
    OBVIOUS
<1>2. IsRun(r) /\ StepFits(r)
    BY <1>1, LiveIsRun DEF StepsFit
<1>3. PICK x : x = [r EXCEPT !.reply = a]
    OBVIOUS
<1>4. flow' = [flow EXCEPT ![f] = x]
    BY <1>1, <1>3 DEF TypeOK
<1>5. IsRun(x)
    BY <1>2, <1>3, RunSet
<1>6. /\ x.pc = r.pc /\ x.mode = r.mode /\ x.tab = r.tab /\ x.n = r.n /\ x.i = r.i
      /\ x.plan = r.plan /\ x.missed = r.missed /\ x.reply = a
    BY <1>2, <1>3 DEF IsRun
<1>7. StepFits(x)
    BY <1>1, <1>2, <1>6 DEF StepFits, Asking
<1>8. /\ flow'[f] = x /\ flow' = [g \in Flows |-> flow'[g]]
      /\ \A g \in Flows \ {f} : flow'[g] = flow[g] /\ Touched(flow[g], flow'[g])
    BY <1>4, FlowSet
<1>9. LockHeld'
    <2>1. \A g \in Flows : SameStanding(g)
        BY <1>1, <1>6, <1>8 DEF SameStanding
    <2> QED
        BY <2>1, LockKeeps DEF TypeOK
<1>10. SelectionsReport'
    <2> SUFFICES ASSUME NEW g \in Flows, Live(g)', OverlayUp(flow'[g]), ~flow'[g].missed
                 PROVE  Coming(flow[g].tab)'
        BY DEF SelectionsReport
    <2>1. CASE g = f
        <3>1. flow'[g] = x /\ x.tab = u
            BY <1>1, <1>6, <1>8, <2>1
        <3>2. r.pc = "select"
            BY <1>1, <1>6, <3>1 DEF OverlayUp, Asking
        <3>3. Coming(u)'
            BY <1>1, <3>2
        <3> QED
            BY <3>1, <3>3
    <2>2. CASE g # f
        <3>1. flow'[g] = flow[g]
            BY <1>8, <2>2
        <3>2. Live(g)
            BY <3>1 DEF Live
        <3>3. PICK v \in Tabs : v = flow[g].tab
            BY <3>2, TabsOfRuns
        <3>4. Coming(v)
            BY <3>1, <3>2, <3>3 DEF SelectionsReport
        <3>5. Coming(v)'
            BY <3>4
        <3> QED
            BY <3>1, <3>3, <3>5
    <2> QED
        BY <2>1, <2>2
<1>11. \A t \in Tabs, c \in Commands : Queued(t, c) /\ c.flow = f => CommandFits(t, c)'
    <2> SUFFICES ASSUME NEW t \in Tabs, NEW c \in Commands, Queued(t, c), c.flow = f
                 PROVE  CommandFits(t, c)'
        OBVIOUS
    <2>1. CommandFits(t, c)
        BY QueuedFits
    <2> QED
        BY <1>1, <1>6, <1>8, <2>1 DEF CommandFits, Live
<1>12. /\ active' \in Tabs /\ holder' \in {0} \cup Flows
       /\ pendingRegions' \in [Tabs -> {0} \cup Flows]
       /\ results' \in SUBSET Results /\ events' \in SUBSET Tabs
    BY DEF TypeOK
<1>13. IsRun(flow'[f]) /\ StepFits(flow'[f])
    BY <1>5, <1>7, <1>8
<1> QED
    BY <1>8, <1>9, <1>10, <1>11, <1>12, <1>13, OwnKeeps

LEMMA PageHandlesPreserves ==
    ASSUME CaptureInv, NEW t \in Tabs, PageHandles(t)
    PROVE  CaptureInv'
<1> USE DEF CaptureInv
<1>1. PICK p : p = [page[t] EXCEPT !.inbox = Tail(page[t].inbox)]
    OBVIOUS
<1>2. PICK c : c = Head(page[t].inbox)
    OBVIOUS
<1>3. /\ page[t] \in Pages /\ PageKept(page[t]) /\ page[t].inbox # <<>>
      /\ UNCHANGED <<active, holder, pendingRegions, results, events>>
    BY DEF PageHandles, TypeOK, PagesKept
<1>4. /\ p \in Pages /\ PageKept(p) /\ p.overlays = page[t].overlays
      /\ c \in Commands /\ Queued(t, c)
      /\ \A k \in 1..Len(p.inbox) : \E j \in 1..Len(page[t].inbox) : p.inbox[k] = page[t].inbox[j]
    <2>1. PICK o \in Pages : o = page[t]
        BY <1>3
    <2>2. PageKept(o) /\ o.inbox # <<>> /\ p = Taken(o)
        BY <1>1, <1>3, <2>1 DEF Taken
    <2>3. Takes(o, p)
        BY <2>2, TakenPage
    <2>4. Queued(t, c)
        BY <1>2, <2>1, <2>3, Zenon DEF Queued, Takes
    <2> QED
        BY <1>2, <2>1, <2>3, <2>4, Zenon DEF Takes
<1>5. PICK q : q = Handled(p, c)[1]
    OBVIOUS
<1>6. PICK a : a = Handled(p, c)[2]
    OBVIOUS
<1>7. HandledWell(p, c, q) /\ Answers(c, a)
    BY <1>4, <1>5, <1>6, HandledKeeps
<1>8. /\ page' = [page EXCEPT ![t] = q]
      /\ flow' = IF Live(c.flow) /\ flow[c.flow].n = c.n /\ flow[c.flow].reply = Waiting
                 THEN [flow EXCEPT ![c.flow].reply = a] ELSE flow
    BY <1>1, <1>2, <1>5, <1>6, Zenon DEF PageHandles
<1>9. /\ page' \in [Tabs -> Pages] /\ page'[t] = q
      /\ \A u \in Tabs : u # t => page'[u] = page[u]
      /\ \A u \in Tabs : PageKept(page'[u])
      /\ \A u \in Tabs, d \in Commands : Queued(u, d)' => Queued(u, d)
    <2>1. \A d \in Commands : (\E k \in 1..Len(q.inbox) : q.inbox[k] = d) => Queued(t, d)
        BY <1>4, <1>7 DEF HandledWell, Queued
    <2> QED
        BY <1>7, <1>8, <2>1, PageMoves DEF HandledWell
<1>10. \A u \in Tabs : Coming(u) => Coming(u)'
    <2>1. q.overlays \in Nat /\ p.overlays \in Nat /\ q.overlays >= p.overlays
        BY <1>4, <1>7 DEF HandledWell, Pages
    <2>2. \A u \in Tabs : page'[u].overlays = page[u].overlays \/ page'[u].overlays > 0
        BY <1>4, <1>9, <2>1
    <2> QED
        BY <1>3, <2>2, ComingStays
<1>11. CASE Live(c.flow) /\ flow[c.flow].n = c.n /\ flow[c.flow].reply = Waiting
    <2>1. PICK f \in Flows : f = c.flow
        BY <1>4 DEF Commands
    <2>2. Live(f) /\ flow[f].reply = Waiting /\ flow' = [flow EXCEPT ![f].reply = a]
        BY <1>8, <1>11, <2>1
    <2>3. flow[f].tab = t /\ flow[f].pc = c.cmd /\ flow[f].pc \in Asking
        BY <1>4, <1>11, <2>1, QueuedFits DEF CommandFits, Commands
    <2>4. a \in Replies \ {Waiting}
        BY <1>7 DEF Answers
    <2>5. flow[f].pc = "select" => a.kind \in {"error", "started"} /\ Coming(t)'
        <3>1. flow[f].pc = "select" => page'[t].overlays > 0
            BY <1>7, <1>9, <2>3 DEF HandledWell
        <3> QED
            BY <1>7, <2>3, <3>1 DEF Answers, Coming
    <2>6. flow[f].pc = "begin" => a.kind \in {"error", "metrics"}
        BY <1>7, <2>3 DEF Answers
    <2>7. flow[f].pc = "scroll" => a.kind \in {"error", "scrolled"}
        BY <1>7, <2>3 DEF Answers
    <2> QED
        BY <1>3, <1>9, <1>10, <2>2, <2>3, <2>4, <2>5, <2>6, <2>7, AnswerPreserves
<1>12. CASE ~(Live(c.flow) /\ flow[c.flow].n = c.n /\ flow[c.flow].reply = Waiting)
    <2>1. UNCHANGED flow
        BY <1>8, <1>12
    <2>2. \A g \in Flows : Touched(flow[g], flow'[g])
        BY <2>1, StaysTouched
    <2>3. flow' = [g \in Flows |-> flow'[g]]
        BY <2>1, StaysTouched
    <2>4. SelectionsReport'
        BY <1>10, <2>2, TabsOfRuns, ReportsKeep
    <2>5. active' \in Tabs /\ results' \in SUBSET Results /\ events' \in SUBSET Tabs
        BY <1>3 DEF TypeOK
    <2> QED
        BY <1>3, <1>9, <2>2, <2>3, <2>4, <2>5, AroundKeeps
<1> QED
    BY <1>11, <1>12

-----------------------------------------------------------------------------
(* The captures stay consistent.                                             *)

LEMMA InitEstablishes == ASSUME Init PROVE CaptureInv
<1>1. PICK h \in Heights, y \in Scrolls :
        page = [t \in Tabs |-> FreshPage(h, Min({y, MaxScroll(h)}))]
    BY Zenon DEF Init
<1>2. h \in Nat \ {0} /\ y \in Int
    BY ExtensionAssumption
<1>3. PICK z : z = Min({y, MaxScroll(h)})
    OBVIOUS
<1>4. z \in Int
    <2>1. MaxScroll(h) \in Int
        BY <1>2, MaxScrollNat
    <2> QED
        BY <1>2, <1>3, <2>1, MinOfTwo
<1>5. FreshPage(h, z) \in Pages /\ PageKept(FreshPage(h, z)) /\ FreshPage(h, z).inbox = <<>>
    BY <1>2, <1>4, NoDriverDrives DEF FreshPage, Pages, PageKept
<1>6. \A t \in Tabs : page[t] = FreshPage(h, z)
    BY <1>1, <1>3
<1>7. page \in [Tabs -> Pages]
    BY <1>1, <1>3, <1>5
<1>8. /\ flow = [f \in Flows |-> NotYet] /\ active \in Tabs /\ holder = 0
      /\ pendingRegions = [t \in Tabs |-> 0] /\ results = {} /\ events = {}
    BY DEF Init
<1>9. \A f \in Flows : flow[f] = NotYet /\ flow[f].pc = "idle" /\ ~Live(f)
    BY <1>8, DeadOrRun DEF Live
<1>10. TypeOK
    <2>1. flow = [f \in Flows |-> flow[f]]
        BY <1>8
    <2> QED
        BY <1>7, <1>8, <1>9, <2>1 DEF TypeOK
<1>11. StepsFit /\ SelectionsReport
    BY <1>9 DEF StepsFit, SelectionsReport
<1>12. LockHeld
    BY <1>8, <1>9 DEF LockHeld
<1>13. CommandsFit
    <2>1. \A t \in Tabs : Len(page[t].inbox) = 0
        BY <1>5, <1>6
    <2> QED
        BY <2>1 DEF CommandsFit
<1>14. PagesKept
    BY <1>5, <1>6 DEF PagesKept
<1> QED
    BY <1>10, <1>11, <1>12, <1>13, <1>14 DEF CaptureInv

LEMMA StutterPreserves == ASSUME CaptureInv, UNCHANGED vars PROVE CaptureInv'
<1>1. UNCHANGED <<page, active, flow, holder, pendingRegions, results, events>>
    BY DEF vars
<1> USE DEF CaptureInv
<1>2. \A g \in Flows : Touched(flow[g], flow'[g])
    BY <1>1, StaysTouched
<1>3. flow' = [g \in Flows |-> flow'[g]]
    BY <1>1, StaysTouched
<1>4. SelectionsReport'
    BY <1>1, <1>2, TabsOfRuns, ReportsKeep DEF Coming
<1>5. /\ page' \in [Tabs -> Pages] /\ active' \in Tabs
      /\ results' \in SUBSET Results /\ events' \in SUBSET Tabs
      /\ \A t \in Tabs : PageKept(page'[t])
      /\ \A t \in Tabs, c \in Commands : Queued(t, c)' => Queued(t, c)
    BY <1>1 DEF TypeOK, PagesKept, Queued
<1> QED
    BY <1>1, <1>2, <1>3, <1>4, <1>5, AroundKeeps

LEMMA ContinuesPreserves ==
    ASSUME CaptureInv, NEW f \in Flows, Continues(f)
    PROVE  CaptureInv'
BY RegionStartedPreserves, ShotPreserves, UploadPreserves, MeasuredPreserves,
   EnsureActivePreserves, TilePreserves, HiddenPreserves, ScrolledPreserves, RestoredPreserves
   DEF Continues

LEMMA NextPreserves == ASSUME CaptureInv, [Next]_vars PROVE CaptureInv'
<1>1. ASSUME NEW f \in Flows,
             \/ StartVisible(f) \/ StartRegion(f) \/ StartFull(f)
             \/ Timeout(f) \/ TileFails(f) \/ Continues(f)
             \/ \E m \in results : HandleRegionResult(m, f)
      PROVE  CaptureInv'
    BY <1>1, StartVisiblePreserves, StartRegionPreserves, StartFullPreserves, TimeoutPreserves,
       TileFailsPreserves, ContinuesPreserves, HandleRegionResultPreserves
<1>2. ASSUME NEW t \in Tabs,
             \/ PageHandles(t) \/ Watchdog(t) \/ AbandonRegion(t) \/ Switch(t)
             \/ \E h \in Heights : Resizes(t, h)
             \/ \E open \in BOOLEAN : Leaves(t, open)
      PROVE  CaptureInv'
    BY <1>2, PageHandlesPreserves, WatchdogPreserves, AbandonRegionPreserves, SwitchPreserves,
       ResizesPreserves, LeavesPreserves
<1>3. ASSUME \/ \E chosen \in BOOLEAN : RegionEnds(chosen)
             \/ \E y \in Scrolls : UserScrolls(y)
             \/ Escape \/ Recycle
      PROVE  CaptureInv'
    BY <1>3, RegionEndsPreserves, UserScrollsPreserves, EscapePreserves, RecycledPreserves
<1> QED
    BY <1>1, <1>2, <1>3, StutterPreserves, Zenon DEF Next

(* Whatever the user, the pages and the worker do, the captures, the lock, the *)
(* queued commands and the pages fit together as said above.                   *)
THEOREM CapturesAreConsistent == Spec => []CaptureInv
<1>1. Init => CaptureInv
    BY InitEstablishes
<1>2. CaptureInv /\ [Next]_vars => CaptureInv'
    BY NextPreserves
<1> QED
    BY <1>1, <1>2, PTL DEF Spec

(* CaptureLock (background.ts): a full-page capture always holds the lock, and *)
(* whoever holds it is still going to give it back; a selection that waits is  *)
(* on record for its tab, with its overlay up or its result or its tab's event *)
(* on the way.                                                                 *)
THEOREM LocksFollowTheirCapture == Spec => []LockFollowsItsCapture
<1>1. CaptureInv => LockFollowsItsCapture
    <2> SUFFICES ASSUME CaptureInv PROVE LockFollowsItsCapture
        OBVIOUS
    <2> USE DEF CaptureInv
    <2>1. \A f \in Flows : Runs(f, "full") => holder = f
        BY DEF LockHeld, Runs, Locking
    <2>2. holder # 0 => flow[holder].pc \in {"select", "pending"} \/ Runs(holder, "full")
        BY DEF LockHeld, Runs, Locking
    <2>3. ASSUME NEW f \in Flows, flow[f].pc = "pending", ~flow[f].missed
          PROVE  holder = f /\ pendingRegions[flow[f].tab] = f /\ Coming(flow[f].tab)
        <3>1. Live(f) /\ Locking(flow[f]) /\ OverlayUp(flow[f])
            BY <2>3 DEF Live, Locking, OverlayUp
        <3> QED
            BY <2>3, <3>1 DEF LockHeld, SelectionsReport
    <2> QED
        BY <2>1, <2>2, <2>3 DEF LockFollowsItsCapture, Coming
<1> QED
    BY <1>1, CapturesAreConsistent, PTL

(* PageDriver (page-driver.ts): a page nobody drives is scrolled to where its  *)
(* user left it and hides nothing, however the run on it ended.                *)
THEOREM PagesAreLeftAsFound == Spec => []PageIsAsTheUserLeftIt
<1>1. CaptureInv => PageIsAsTheUserLeftIt
    BY DEF CaptureInv, PagesKept, PageKept, PageIsAsTheUserLeftIt
<1> QED
    BY <1>1, CapturesAreConsistent, PTL

-----------------------------------------------------------------------------
(* The pages and the settings: what travels with a token.                    *)

(* A pair the user saved, of a server the extension may reach.               *)
Granted(o, t) == <<o, t>> \in confirmed /\ Covered(o)

IsStored(r) == r = [serverOrigin |-> r.serverOrigin, apiToken |-> r.apiToken,
                    lastMode |-> r.lastMode, regionSuggestions |-> r.regionSuggestions,
                    lastError |-> r.lastError]
IsTask(r) == r = [kind |-> r.kind, step |-> r.step, turn |-> r.turn, on |-> r.on,
                  origin |-> r.origin, token |-> r.token]
IsCapture(r) == r = [step |-> r.step, mode |-> r.mode, origin |-> r.origin, token |-> r.token]
Uses(r) == r.step \in {"runs", "uploads"}

(* The stored pair is granted, and so is a pair about to be stored: saved when *)
(* its handler started, reachable once the user has allowed it.                *)
StoreGranted == IsStored(stored) /\ (stored.apiToken # Nothing =>
                                        Granted(stored.serverOrigin, stored.apiToken))
TaskGranted(r) ==
    r # NoTask => /\ IsTask(r)
                  /\ (r.kind = "save" => /\ r.token # Nothing /\ <<r.origin, r.token>> \in confirmed
                                         /\ (r.step # "asks" => Covered(r.origin)))
(* A capture runs with such a pair, and never before there is one.             *)
CaptureGranted(r) ==
    r # NoCapture => /\ IsCapture(r)
                     /\ (Uses(r) => stored.apiToken # Nothing /\ Granted(r.origin, r.token))
TasksGranted == task = [h \in Handlers |-> task[h]] /\ \A h \in Handlers : TaskGranted(task[h])
CapturesGranted == /\ capture = [c \in CaptureIds |-> capture[c]]
                   /\ \A c \in CaptureIds : CaptureGranted(capture[c])
TokenInv == StoreGranted /\ TasksGranted /\ CapturesGranted

LEMMA TokenInit == ExtInit => TokenInv
<1> SUFFICES ASSUME ExtInit PROVE TokenInv
    OBVIOUS
<1>1. StoreGranted
    BY DEF ExtInit, StoreGranted, IsStored
<1>2. TasksGranted
    BY DEF ExtInit, TasksGranted, TaskGranted
<1>3. CapturesGranted
    BY DEF ExtInit, CapturesGranted, CaptureGranted
<1> QED
    BY <1>1, <1>2, <1>3 DEF TokenInv

(* Grants and saved pairs only grow.                                           *)
Grows == target' = target /\ granted \subseteq granted' /\ confirmed \subseteq confirmed'

LEMMA TaskLasts == ASSUME Grows, NEW r, TaskGranted(r) PROVE TaskGranted(r)'
BY DEF Grows, TaskGranted, Covered
LEMMA CaptureLasts ==
    ASSUME Grows, stored.apiToken # Nothing => stored'.apiToken # Nothing, NEW r, CaptureGranted(r)
    PROVE CaptureGranted(r)'
BY DEF Grows, CaptureGranted, Granted, Covered
LEMMA TasksLast ==
    ASSUME TasksGranted, Grows, task' = task PROVE TasksGranted'
BY TaskLasts DEF TasksGranted
LEMMA CapturesLast ==
    ASSUME CapturesGranted, Grows, stored.apiToken # Nothing => stored'.apiToken # Nothing,
           capture' = capture
    PROVE CapturesGranted'
BY CaptureLasts DEF CapturesGranted
LEMMA StoreLasts == ASSUME StoreGranted, Grows, stored' = stored PROVE StoreGranted'
BY DEF StoreGranted, IsStored, Granted, Covered, Grows

(* A step of one handler, and one of one capture.                              *)
LEMMA OneTask ==
    ASSUME TasksGranted, Grows, NEW h \in Handlers, NEW r,
           task' = [task EXCEPT ![h] = r], TaskGranted(r)'
    PROVE  TasksGranted'
<1>1. \A g \in Handlers : TaskGranted(task[g])'
    <2> SUFFICES ASSUME NEW g \in Handlers PROVE TaskGranted(task[g])'
        OBVIOUS
    <2>1. PICK q : q = task[g]
        OBVIOUS
    <2>2. TaskGranted(q)'
        BY <2>1, TaskLasts DEF TasksGranted
    <2> QED
        BY <2>1, <2>2 DEF TasksGranted
<1> QED
    BY <1>1 DEF TasksGranted

LEMMA OneCapture ==
    ASSUME CapturesGranted, Grows, stored.apiToken # Nothing => stored'.apiToken # Nothing,
           NEW c \in CaptureIds, NEW r, capture' = [capture EXCEPT ![c] = r], CaptureGranted(r)'
    PROVE  CapturesGranted'
<1>1. \A b \in CaptureIds : CaptureGranted(capture[b])'
    <2> SUFFICES ASSUME NEW b \in CaptureIds PROVE CaptureGranted(capture[b])'
        OBVIOUS
    <2>1. PICK q : q = capture[b]
        OBVIOUS
    <2>2. CaptureGranted(q)'
        BY <2>1, CaptureLasts DEF CapturesGranted
    <2> QED
        BY <2>1, <2>2 DEF CapturesGranted
<1> QED
    BY <1>1 DEF CapturesGranted

TaskStep == Grows /\ stored' = stored /\ capture' = capture
LEMMA TaskStepSuffices == ASSUME TokenInv, TaskStep, TasksGranted' PROVE TokenInv'
BY StoreLasts, CapturesLast DEF TokenInv, TaskStep

LEMMA AnyStep ==
    ASSUME TokenInv, UNCHANGED <<target, stored, granted, confirmed, task, capture>>
    PROVE  TokenInv'
BY DEF TokenInv, StoreGranted, TasksGranted, CapturesGranted, TaskGranted, CaptureGranted,
       Granted, Covered

(* The options page.                                                           *)
LEMMA PressesGranted ==
    ASSUME TokenInv, TaskStep, NEW r, Presses(r), TaskGranted(r)'
    PROVE  TokenInv'
<1>1. PICK h \in Handlers : task' = [task EXCEPT ![h] = r]
    BY DEF Presses
<1>2. TasksGranted'
    BY <1>1, OneTask DEF TokenInv, TaskStep
<1> QED
    BY <1>2, TaskStepSuffices

LEMMA SaveGranted == ASSUME TokenInv, Save PROVE TokenInv'
<1>1. TaskStep
    BY DEF Save, TaskStep, Grows, popupVars
<1>2. PICK r : /\ r = [kind |-> "save", step |-> "asks", turn |-> 0, on |-> FALSE,
                       origin |-> form.origin, token |-> form.token]
              /\ Presses(r) /\ form.token # Nothing /\ <<form.origin, form.token>> \in confirmed'
    BY DEF Save, AsksAccess, ReadForm
<1>3. TaskGranted(r)'
    BY <1>2 DEF TaskGranted, IsTask
<1> QED
    BY <1>1, <1>2, <1>3, PressesGranted

LEMMA TestGranted == ASSUME TokenInv, Test PROVE TokenInv'
<1>1. TaskStep
    BY DEF Test, TaskStep, Grows, popupVars
<1>2. PICK r : /\ r = [kind |-> "test", step |-> "asks", turn |-> 0, on |-> FALSE,
                       origin |-> form.origin, token |-> form.token]
              /\ Presses(r)
    BY DEF Test, AsksAccess
<1>3. TaskGranted(r)'
    BY <1>2 DEF TaskGranted, IsTask
<1> QED
    BY <1>1, <1>2, <1>3, PressesGranted

LEMMA SwitchGranted == ASSUME TokenInv, SwitchSuggestions PROVE TokenInv'
<1>1. TaskStep
    BY DEF SwitchSuggestions, TaskStep, Grows, popupVars
<1>2. PICK r : /\ r = [kind |-> "switch", step |-> "writes", turn |-> NextTurn,
                       on |-> ~form.suggest, origin |-> Nothing, token |-> Nothing]
              /\ Presses(r)
    BY DEF SwitchSuggestions
<1>3. TaskGranted(r)'
    BY <1>2 DEF TaskGranted, IsTask
<1> QED
    BY <1>1, <1>2, <1>3, PressesGranted

(* A handler that is not through is a task.                                    *)
LEMMA StepIsTask ==
    ASSUME TokenInv, NEW h \in Handlers, task[h].step # "none"
    PROVE  task[h] # NoTask /\ IsTask(task[h]) /\ TaskGranted(task[h])
BY DEF TokenInv, TasksGranted, TaskGranted, NoTask

(* A task that moves on, and one whose write gets its turn.                    *)
TaskMoved(r, step) == [r EXCEPT !.step = step]
TaskQueued(r, turn) == [[r EXCEPT !.step = "writes"] EXCEPT !.turn = turn]
LEMMA MovedIsTask ==
    ASSUME NEW r, IsTask(r), NEW step
    PROVE  /\ IsTask(TaskMoved(r, step)) /\ TaskMoved(r, step).kind = r.kind
           /\ TaskMoved(r, step).origin = r.origin /\ TaskMoved(r, step).token = r.token
<1>1. TaskMoved(r, step) = [kind |-> r.kind, step |-> step, turn |-> r.turn, on |-> r.on,
                        origin |-> r.origin, token |-> r.token]
    BY DEF IsTask, TaskMoved
<1> QED
    BY <1>1 DEF IsTask

LEMMA QueuedIsTask ==
    ASSUME NEW r, IsTask(r), NEW turn
    PROVE  /\ IsTask(TaskQueued(r, turn)) /\ TaskQueued(r, turn).kind = r.kind
           /\ TaskQueued(r, turn).origin = r.origin /\ TaskQueued(r, turn).token = r.token
<1>1. PICK q : q = TaskMoved(r, "writes")
    OBVIOUS
<1>2. q = [kind |-> q.kind, step |-> q.step, turn |-> q.turn, on |-> q.on,
           origin |-> q.origin, token |-> q.token]
    BY <1>1, MovedIsTask DEF IsTask
<1>3. [q EXCEPT !.turn = turn] = [kind |-> q.kind, step |-> q.step, turn |-> turn, on |-> q.on,
                                  origin |-> q.origin, token |-> q.token]
    BY <1>2
<1>4. TaskQueued(r, turn) = [q EXCEPT !.turn = turn]
    BY <1>1 DEF TaskQueued, TaskMoved
<1> QED
    BY <1>1, <1>3, <1>4, MovedIsTask DEF IsTask

LEMMA TwoFields ==
    ASSUME TasksGranted, NEW h \in Handlers, NEW turn
    PROVE  [task EXCEPT ![h].step = "writes", ![h].turn = turn]
             = [task EXCEPT ![h] = TaskQueued(task[h], turn)]
BY DEF TasksGranted, TaskQueued

LEMMA AllowedGranted == ASSUME TokenInv, NEW h \in Handlers, Allowed(h) PROVE TokenInv'
<1>1. TaskStep
    BY DEF Allowed, TaskStep, Grows, popupVars
<1>2. PICK q : q = task[h]
    OBVIOUS
<1>3. IsTask(q) /\ TaskGranted(q) /\ q # NoTask
    BY <1>2, StepIsTask DEF Allowed
<1>4. Covered(q.origin)'
    BY <1>2 DEF Allowed, Covered, HostPattern
<1>5. CASE q.kind = "save"
    <2>1. PICK r : r = TaskQueued(q, NextTurn)
        OBVIOUS
    <2>2. task' = [task EXCEPT ![h] = r]
        <3>1. task' = [task EXCEPT ![h].step = "writes", ![h].turn = NextTurn]
            BY <1>2, <1>5 DEF Allowed
        <3> QED
            BY <1>2, <2>1, <3>1, TwoFields DEF TokenInv
    <2>3. IsTask(r) /\ r.origin = q.origin /\ r.token = q.token
        BY <1>3, <2>1, QueuedIsTask
    <2>4. TaskGranted(r)'
        BY <1>1, <1>3, <1>4, <1>5, <2>3 DEF TaskGranted, TaskStep, Grows
    <2>5. TasksGranted'
        BY <1>1, <2>2, <2>4, OneTask DEF TokenInv, TaskStep
    <2> QED
        BY <1>1, <2>5, TaskStepSuffices
<1>6. CASE q.kind # "save"
    <2>1. PICK r : r = TaskMoved(q, "pings")
        OBVIOUS
    <2>2. task' = [task EXCEPT ![h] = r]
        BY <1>2, <1>6, <2>1 DEF Allowed, TaskMoved
    <2>3. IsTask(r) /\ r.kind = q.kind
        BY <1>3, <2>1, MovedIsTask
    <2>4. TaskGranted(r)'
        BY <1>6, <2>3 DEF TaskGranted
    <2>5. TasksGranted'
        BY <1>1, <2>2, <2>4, OneTask DEF TokenInv, TaskStep
    <2> QED
        BY <1>1, <2>5, TaskStepSuffices
<1> QED
    BY <1>5, <1>6

LEMMA HandlerEnds ==
    ASSUME TokenInv, TaskStep, NEW h \in Handlers, task' = [task EXCEPT ![h] = NoTask]
    PROVE  TokenInv'
<1>1. PICK r : r = NoTask
    OBVIOUS
<1>2. TaskGranted(r)'
    BY <1>1 DEF TaskGranted
<1>3. TasksGranted'
    BY <1>1, <1>2, OneTask DEF TokenInv, TaskStep
<1> QED
    BY <1>3, TaskStepSuffices

LEMMA Moves ==
    ASSUME TokenInv, TaskStep, NEW h \in Handlers, NEW step,
           task[h].step = "writes", task' = [task EXCEPT ![h].step = step]
    PROVE  TokenInv'
<1>1. PICK q : q = task[h]
    OBVIOUS
<1>2. IsTask(q) /\ TaskGranted(q) /\ q # NoTask /\ q.step = "writes"
    BY <1>1, StepIsTask
<1>3. PICK r : r = TaskMoved(q, step)
    OBVIOUS
<1>4. task' = [task EXCEPT ![h] = r]
    BY <1>1, <1>3 DEF TaskMoved
<1>5. IsTask(r) /\ r.kind = q.kind /\ r.origin = q.origin /\ r.token = q.token
    BY <1>2, <1>3, MovedIsTask
<1>6. TaskGranted(r)'
    <2>1. Covered(q.origin) => Covered(q.origin)'
        BY DEF Covered, TaskStep, Grows
    <2> QED
        BY <1>2, <1>5, <2>1 DEF TaskGranted, TaskStep, Grows
<1>7. TasksGranted'
    BY <1>4, <1>6, OneTask DEF TokenInv, TaskStep
<1> QED
    BY <1>7, TaskStepSuffices

LEMMA HandlersGranted ==
    ASSUME TokenInv, NEW h \in Handlers, Denied(h) \/ StoreFails(h) \/ Stored(h) \/ NotStored(h) \/ Pinged(h)
    PROVE  TokenInv'
<1>1. TaskStep
    BY DEF Denied, StoreFails, Stored, NotStored, Pinged, TaskStep, Grows, popupVars
<1>2. CASE StoreFails(h)
    BY <1>1, <1>2, Moves DEF StoreFails
<1>3. CASE Denied(h) \/ Stored(h) \/ NotStored(h) \/ Pinged(h)
    BY <1>1, <1>3, HandlerEnds DEF Denied, Stored, NotStored, Pinged
<1> QED
    BY <1>2, <1>3

(* The write: a pair that was saved replaces a pair that was saved.            *)
LEMMA StoreIsGranted == ASSUME TokenInv, NEW h \in Handlers, Store(h) PROVE TokenInv'
<1>1. Grows /\ capture' = capture /\ stored' = Patched(task[h])
    BY DEF Store, Grows, popupVars
<1>2. IsTask(task[h]) /\ TaskGranted(task[h]) /\ task[h] # NoTask /\ task[h].step = "writes"
    BY StepIsTask DEF Store
<1>3. IsStored(stored)
    BY DEF TokenInv, StoreGranted
<1>4. StoreGranted' /\ (stored.apiToken # Nothing => stored'.apiToken # Nothing)
    <2>1. CASE task[h].kind = "save"
        <3>1. /\ stored' = [[stored EXCEPT !.serverOrigin = task[h].origin] EXCEPT !.apiToken = task[h].token]
            BY <1>1, <2>1 DEF Patched
        <3>2. IsStored(stored)' /\ stored'.serverOrigin = task[h].origin /\ stored'.apiToken = task[h].token
            BY <1>3, <3>1 DEF IsStored
        <3>3. Granted(task[h].origin, task[h].token) /\ task[h].token # Nothing
            BY <1>2, <2>1 DEF TaskGranted, Granted
        <3> QED
            BY <1>1, <3>2, <3>3 DEF StoreGranted, Granted, Covered, Grows
    <2>2. CASE task[h].kind # "save"
        <3>1. stored' = [stored EXCEPT !.regionSuggestions = task[h].on]
            BY <1>1, <2>2 DEF Patched
        <3>2. /\ IsStored(stored)' /\ stored'.serverOrigin = stored.serverOrigin
              /\ stored'.apiToken = stored.apiToken
            BY <1>3, <3>1 DEF IsStored
        <3> QED
            BY <1>1, <3>2 DEF TokenInv, StoreGranted, Granted, Covered, Grows
    <2> QED
        BY <2>1, <2>2
<1>5. TasksGranted'
    <2>1. PICK q : q = task[h]
        OBVIOUS
    <2>2. PICK r : r = TaskMoved(q, "stored")
        OBVIOUS
    <2>3. task' = [task EXCEPT ![h] = r]
        BY <2>1, <2>2 DEF Store, TaskMoved
    <2>4. IsTask(r) /\ r.kind = q.kind /\ r.origin = q.origin /\ r.token = q.token
        BY <1>2, <2>1, <2>2, MovedIsTask
    <2>5. TaskGranted(r)'
        <3>1. Covered(q.origin) => Covered(q.origin)'
            BY <1>1 DEF Covered, Grows
        <3> QED
            BY <1>1, <1>2, <2>1, <2>4, <3>1 DEF TaskGranted, Grows
    <2> QED
        BY <1>1, <2>3, <2>5, OneTask DEF TokenInv
<1> QED
    BY <1>1, <1>4, <1>5, CapturesLast DEF TokenInv

(* A capture: the stored pair stays as it is.                                  *)
PairKept == /\ IsStored(stored)' /\ stored'.serverOrigin = stored.serverOrigin
            /\ stored'.apiToken = stored.apiToken
LEMMA PairLasts == ASSUME StoreGranted, Grows, PairKept PROVE StoreGranted'
BY DEF StoreGranted, PairKept, Granted, Covered, Grows

LEMMA ModeKeepsPair ==
    ASSUME StoreGranted, NEW mode, stored' = [stored EXCEPT !.lastMode = mode] PROVE PairKept
BY DEF StoreGranted, IsStored, PairKept
LEMMA FlagKeepsPair ==
    ASSUME StoreGranted, NEW c, stored' = [stored EXCEPT !.lastError = c] PROVE PairKept
BY DEF StoreGranted, IsStored, PairKept
LEMMA SameKeepsPair == ASSUME StoreGranted, stored' = stored PROVE PairKept
BY DEF StoreGranted, IsStored, PairKept

CaptureStep == target' = target /\ UNCHANGED optionsVars /\ PairKept
LEMMA CaptureStepSuffices ==
    ASSUME TokenInv, CaptureStep, NEW c \in CaptureIds, NEW r,
           capture' = [capture EXCEPT ![c] = r], CaptureGranted(r)'
    PROVE  TokenInv'
<1>1. Grows /\ task' = task /\ (stored.apiToken # Nothing => stored'.apiToken # Nothing)
    BY DEF CaptureStep, Grows, optionsVars, PairKept
<1>2. CapturesGranted'
    BY <1>1, OneCapture DEF TokenInv
<1> QED
    BY <1>1, <1>2, TasksLast, PairLasts DEF TokenInv, CaptureStep

LEMMA GrantedLasts == ASSUME CaptureStep, NEW o, NEW t, Granted(o, t) PROVE Granted(o, t)'
BY DEF CaptureStep, Granted, Covered, optionsVars

LEMMA BeginsGranted ==
    ASSUME TokenInv, target' = target, UNCHANGED optionsVars, NEW c \in CaptureIds, NEW mode,
           Begins(c, mode)
    PROVE  TokenInv'
<1>1. CaptureStep
    <2>1. CASE stored.apiToken = Nothing
        BY <2>1, SameKeepsPair DEF Begins, TokenInv, CaptureStep
    <2>2. CASE stored.apiToken # Nothing
        BY <2>2, ModeKeepsPair DEF Begins, TokenInv, CaptureStep
    <2> QED
        BY <2>1, <2>2
<1>2. PICK o, t : o = stored.serverOrigin /\ t = stored.apiToken
    OBVIOUS
<1>3. PICK r : r = [step |-> IF t = Nothing THEN "refused" ELSE "runs", mode |-> mode,
                    origin |-> o, token |-> t]
    OBVIOUS
<1>4. capture' = [capture EXCEPT ![c] = r]
    BY <1>2, <1>3 DEF Begins
<1>5. t # Nothing => Granted(o, t)'
    BY <1>1, <1>2, GrantedLasts DEF TokenInv, StoreGranted
<1>6. stored'.apiToken = t
    BY <1>1, <1>2 DEF CaptureStep, PairKept
<1>7. IsCapture(r) /\ (Uses(r) => t # Nothing) /\ r.origin = o /\ r.token = t
    BY <1>3 DEF IsCapture, Uses
<1>8. CaptureGranted(r)'
    BY <1>5, <1>6, <1>7 DEF CaptureGranted
<1> QED
    BY <1>1, <1>4, <1>8, CaptureStepSuffices

LEMMA InUse ==
    ASSUME TokenInv, NEW c \in CaptureIds, Uses(capture[c])
    PROVE  /\ IsCapture(capture[c]) /\ stored.apiToken # Nothing
           /\ Granted(capture[c].origin, capture[c].token)
BY DEF TokenInv, CapturesGranted, CaptureGranted, Uses, NoCapture

LEMMA RereadsGranted == ASSUME TokenInv, NEW c \in CaptureIds, Rereads(c) PROVE TokenInv'
<1>1. CaptureStep
    BY SameKeepsPair DEF Rereads, CaptureStep, TokenInv
<1>2. PICK q, o, t : q = capture[c] /\ o = stored.serverOrigin /\ t = stored.apiToken
    OBVIOUS
<1>3. IsCapture(q) /\ t # Nothing
    BY <1>2, InUse DEF Rereads, Uses
<1>4. PICK r : r = [[q EXCEPT !.origin = o] EXCEPT !.token = t]
    OBVIOUS
<1>5. capture' = [capture EXCEPT ![c] = r]
    BY <1>2, <1>4 DEF Rereads, TokenInv, CapturesGranted
<1>6. IsCapture(r) /\ r.origin = o /\ r.token = t
    BY <1>3, <1>4 DEF IsCapture
<1>7. Granted(o, t)'
    BY <1>1, <1>2, <1>3, GrantedLasts DEF TokenInv, StoreGranted
<1>8. stored'.apiToken = t
    BY <1>2 DEF Rereads
<1>9. CaptureGranted(r)'
    BY <1>3, <1>6, <1>7, <1>8 DEF CaptureGranted
<1> QED
    BY <1>1, <1>5, <1>9, CaptureStepSuffices

LEMMA UploadsGranted == ASSUME TokenInv, NEW c \in CaptureIds, Uploads(c) PROVE TokenInv'
<1>1. CaptureStep
    BY SameKeepsPair DEF Uploads, CaptureStep, TokenInv
<1>2. PICK q : q = capture[c]
    OBVIOUS
<1>3. IsCapture(q) /\ Granted(q.origin, q.token) /\ stored.apiToken # Nothing
    BY <1>2, InUse DEF Uploads, Uses
<1>4. PICK r : r = [q EXCEPT !.step = "uploads"]
    OBVIOUS
<1>5. capture' = [capture EXCEPT ![c] = r]
    BY <1>2, <1>4 DEF Uploads
<1>6. IsCapture(r) /\ r.origin = q.origin /\ r.token = q.token
    BY <1>3, <1>4 DEF IsCapture
<1>7. Granted(q.origin, q.token)' /\ stored'.apiToken # Nothing
    BY <1>1, <1>3, GrantedLasts DEF Uploads
<1>8. CaptureGranted(r)'
    BY <1>6, <1>7 DEF CaptureGranted
<1> QED
    BY <1>1, <1>5, <1>8, CaptureStepSuffices

(* A capture that ends is at work no more.                                     *)
LEMMA EndsGranted ==
    ASSUME TokenInv, CaptureStep, NEW c \in CaptureIds, NEW step,
           step \in {"uploaded", "failed", "cancelled"}, capture[c].step # "none",
           capture' = [capture EXCEPT ![c].step = step]
    PROVE  TokenInv'
<1>1. PICK q : q = capture[c]
    OBVIOUS
<1>2. IsCapture(q)
    BY <1>1 DEF TokenInv, CapturesGranted, CaptureGranted, NoCapture
<1>3. PICK r : r = [q EXCEPT !.step = step]
    OBVIOUS
<1>4. capture' = [capture EXCEPT ![c] = r]
    BY <1>1, <1>3
<1>5. IsCapture(r) /\ ~Uses(r)
    BY <1>2, <1>3 DEF IsCapture, Uses
<1>6. CaptureGranted(r)'
    BY <1>5 DEF CaptureGranted
<1> QED
    BY <1>4, <1>6, CaptureStepSuffices

LEMMA CapturesEndGranted ==
    ASSUME TokenInv, NEW c \in CaptureIds, Succeeds(c) \/ Collapses(c) \/ Cancelled(c)
    PROVE  TokenInv'
<1>1. CASE Succeeds(c)
    <2>1. CaptureStep
        BY <1>1, FlagKeepsPair DEF Succeeds, Unflag, TokenInv, CaptureStep
    <2> QED
        BY <1>1, <2>1, EndsGranted DEF Succeeds
<1>2. CASE Collapses(c)
    <2>1. CaptureStep
        BY <1>2, FlagKeepsPair DEF Collapses, Flag, TokenInv, CaptureStep
    <2> QED
        BY <1>2, <2>1, EndsGranted DEF Collapses
<1>3. CASE Cancelled(c)
    <2>1. CaptureStep
        BY <1>3, SameKeepsPair DEF Cancelled, TokenInv, CaptureStep
    <2> QED
        BY <1>3, <2>1, EndsGranted DEF Cancelled
<1> QED
    BY <1>1, <1>2, <1>3

LEMMA ClearsGranted == ASSUME TokenInv, ClearsFailureFlag PROVE TokenInv'
<1>1. CaptureStep /\ capture' = capture
    BY FlagKeepsPair DEF ClearsFailureFlag, TokenInv, CaptureStep
<1>2. Grows /\ task' = task /\ (stored.apiToken # Nothing => stored'.apiToken # Nothing)
    BY <1>1 DEF CaptureStep, Grows, optionsVars, PairKept
<1> QED
    BY <1>1, <1>2, TasksLast, CapturesLast, PairLasts DEF TokenInv, CaptureStep

LEMMA TokenNext == TokenInv /\ [ExtNext]_extVars => TokenInv'
<1> SUFFICES ASSUME TokenInv, [ExtNext]_extVars PROVE TokenInv'
    OBVIOUS
<1>1. CASE \/ OpenOptions \/ Fill \/ FillFails \/ Types \/ Unreadable
           \/ OpenPopup \/ ReadsLastError \/ Answered \/ ClosePopup \/ UNCHANGED extVars
    <2>1. UNCHANGED <<target, stored, granted, confirmed, task, capture>>
        BY <1>1 DEF OpenOptions, Fill, FillFails, Types, Unreadable, OpenPopup, ReadsLastError,
                    Answered, ClosePopup, extVars, optionsVars, popupVars
    <2> QED
        BY <2>1, AnyStep
<1>2. CASE Save \/ Test \/ SwitchSuggestions
    BY <1>2, SaveGranted, TestGranted, SwitchGranted
<1>3. CASE \E h \in Handlers : \/ Allowed(h) \/ Denied(h) \/ Store(h) \/ StoreFails(h)
                               \/ Stored(h) \/ NotStored(h) \/ Pinged(h)
    BY <1>3, AllowedGranted, StoreIsGranted, HandlersGranted
<1>4. CASE \E mode \in Modes : Command(mode) \/ Click(mode)
    <2>1. PICK mode \in Modes, c \in CaptureIds :
              Begins(c, mode) /\ target' = target /\ UNCHANGED optionsVars
        BY <1>4 DEF Command, Click
    <2> QED
        BY <2>1, BeginsGranted
<1>5. CASE \E c \in CaptureIds : \/ Rereads(c) \/ Uploads(c) \/ Succeeds(c)
                                 \/ Collapses(c) \/ Cancelled(c)
    BY <1>5, RereadsGranted, UploadsGranted, CapturesEndGranted
<1>6. CASE ClearsFailureFlag
    BY <1>6, ClearsGranted
<1> QED
    BY <1>1, <1>2, <1>3, <1>4, <1>5, <1>6 DEF ExtNext

(* The inductive invariant of the settings.                                    *)
THEOREM SettingsTravelTogether == ExtSpec => []TokenInv
BY TokenInit, TokenNext, PTL DEF ExtSpec

(* An upload carries a token to a server it was saved for, which the user let  *)
(* the extension reach: whatever the form, its handlers, the switch and other  *)
(* captures do meanwhile (options.ts, background.ts).                          *)
THEOREM TokensGoWhereSaved == ExtSpec => []TokenGoesWhereItWasSaved
<1>1. TokenInv => TokenGoesWhereItWasSaved
    BY DEF TokenInv, CapturesGranted, CaptureGranted, Uses, Granted, NoCapture,
           TokenGoesWhereItWasSaved
<1> QED
    BY <1>1, SettingsTravelTogether, PTL

(* The options page: what its handlers have yet to write.                      *)

Pending(h) == task[h].turn # 0
Switching(h) == Pending(h) /\ task[h].kind # "save"
Saving(h) == Pending(h) /\ task[h].kind = "save"
Before(g, h) == task[g].turn < task[h].turn

(* Turns follow the order of the calls; a write is carried out in its turn.    *)
InTurn(r) == r.turn \in Nat /\ (r.turn # 0 <=> r.step \in {"writes", "stored", "lost"})
             /\ (r.turn # 0 /\ r.kind # "save" => r.on \in BOOLEAN)
Queue == /\ \A h \in Handlers : InTurn(task[h])
         /\ \A g, h \in Handlers : Pending(g) /\ Pending(h) /\ g # h => Before(g, h) \/ Before(h, g)
         /\ \A g, h \in Handlers :
              Pending(g) /\ task[g].step # "writes" /\ task[h].step = "writes" => Before(g, h)
(* A write that failed was alone then, and stays the first.                    *)
LostFirst == \A g, h \in Handlers : task[g].step = "lost" /\ Pending(h) /\ g # h => Before(g, h)
Doomed == \E g, h \in Handlers : task[g].step = "lost" /\ Pending(h) /\ g # h

FormFields == {"state", "ready", "origin", "token", "suggest", "told", "toldOrigin", "testOff"}
FormFits == /\ DOMAIN form = FormFields /\ form.suggest \in BOOLEAN
            /\ stored.regionSuggestions \in BOOLEAN
            /\ (form.ready => form.state \notin {"closed", "loading"})
            /\ (~form.ready => \A h \in Handlers : task[h] = NoTask)

(* The server shown as saved is the last one written.                          *)
SavedFits ==
    /\ \A h \in Handlers :
         /\ Saving(h) /\ task[h].step = "stored"
         /\ \A g \in Handlers : Saving(g) /\ task[g].step = "stored" => ~Before(h, g)
         => task[h].origin = stored.serverOrigin
    /\ form.told = "saved" /\ (\A h \in Handlers : ~(Saving(h) /\ task[h].step = "stored"))
         => form.toldOrigin = stored.serverOrigin

(* Switches in flight alternate, between what is stored and what is shown.     *)
Alternate ==
    \A g, h \in Handlers :
        /\ Switching(g) /\ Switching(h) /\ Before(g, h)
        /\ \A k \in Handlers : Switching(k) => ~(Before(g, k) /\ Before(k, h))
        => task[g].on # task[h].on
LastIsShown ==
    \A h \in Handlers :
        Switching(h) /\ (\A k \in Handlers : Switching(k) => ~Before(h, k))
        => form.suggest = task[h].on
FirstIsNew ==
    \A h \in Handlers :
        /\ Switching(h) /\ task[h].step # "stored"
        /\ \A k \in Handlers : Switching(k) /\ task[k].step # "stored" => ~Before(k, h)
        => stored.regionSuggestions # task[h].on
AllAreStored ==
    form.ready /\ (\A h \in Handlers : Switching(h) => task[h].step = "stored")
        => form.suggest = stored.regionSuggestions
SwitchFits == Alternate /\ LastIsShown /\ FirstIsNew /\ AllAreStored

OptionsInv == /\ Queue /\ FormFits /\ SavedFits
              /\ ~crossed => LostFirst /\ (~Doomed => SwitchFits)

(* A finite set of numbers has a greatest one: of the sets of what is above a  *)
(* member one is the least.                                                    *)
LEMMA GreatestOf ==
    ASSUME NEW S \in SUBSET Nat, IsFiniteSet(S), S # {}
    PROVE  \E m \in S : \A n \in S : m >= n
<1> DEFINE Above(n) == {k \in S : n < k}
           Aboves == {Above(n) : n \in S}
           Strict == StrictSubsetOrdering(S)
<1>1. IsWellFoundedOn(Strict, SUBSET S)
    BY FS_StrictSubsetOrderingWellFounded, FS_FiniteSubsetsOfFinite
<1>2. Aboves \subseteq SUBSET S /\ Aboves # {}
    OBVIOUS
<1>3. PICK T \in Aboves : \A U \in Aboves : ~(<<U, T>> \in Strict)
    <2> HIDE DEF Aboves, Strict
    <2> QED
        BY <1>1, <1>2, WFMin
<1>4. PICK m \in S : T = Above(m)
    OBVIOUS
<1>5. \A n \in S : m >= n
    <2> SUFFICES ASSUME NEW n \in S, m < n PROVE FALSE
        OBVIOUS
    <2>1. Above(n) \in Aboves /\ Above(n) \subseteq S /\ Above(m) \subseteq S
        OBVIOUS
    <2>2. Above(n) \subseteq Above(m)
        <3> SUFFICES ASSUME NEW k \in S, n < k PROVE m < k
            OBVIOUS
        <3>1. k \in Nat /\ n \in Nat /\ m \in Nat
            OBVIOUS
        <3> QED
            BY <3>1
    <2>3. n \in Above(m) /\ n \notin Above(n)
        OBVIOUS
    <2> HIDE DEF Above
    <2>4. <<Above(n), Above(m)>> \in Strict
        BY <2>1, <2>2, <2>3 DEF StrictSubsetOrdering
    <2> QED
        BY <1>3, <1>4, <2>1, <2>4
<1> QED
    BY <1>5

LEMMA GreatestIsMax ==
    ASSUME NEW S, NEW m \in S, \A n \in S : m >= n
    PROVE  Max(S) \in S /\ \A n \in S : Max(S) >= n
BY Zenon DEF Max

LEMMA NextTurnIsLast ==
    ASSUME ExtensionPagesAssumption, Handlers # {}, \A h \in Handlers : task[h].turn \in Nat
    PROVE  NextTurn \in Nat /\ \A h \in Handlers : task[h].turn < NextTurn
<1> DEFINE Turns == {task[h].turn : h \in Handlers}
<1>1. IsFiniteSet(Turns)
    <2>1. PICK f : f = [h \in Handlers |-> task[h].turn]
        OBVIOUS
    <2>2. f \in Surjection(Handlers, Turns)
        BY <2>1 DEF Surjection
    <2> QED
        BY <2>2, FS_Surjection DEF ExtensionPagesAssumption
<1>2. Turns \in SUBSET Nat /\ Turns # {}
    OBVIOUS
<1>3. PICK m \in Turns : \A n \in Turns : m >= n
    <2> HIDE DEF Turns
    <2> QED
        BY <1>1, <1>2, GreatestOf
<1>4. Max(Turns) \in Turns /\ \A n \in Turns : Max(Turns) >= n
    <2> HIDE DEF Turns
    <2> QED
        BY <1>3, GreatestIsMax
<1>5. PICK t : t = Max(Turns)
    OBVIOUS
<1>6. NextTurn = 1 + t
    BY <1>5 DEF NextTurn
<1>7. \A h \in Handlers : t >= task[h].turn
    BY <1>4, <1>5
<1>8. t \in Nat
    BY <1>2, <1>4, <1>5
<1> HIDE DEF Turns
<1> QED
    BY <1>6, <1>7, <1>8

(* A handler that moves on while the others wait.                              *)
OneMoves(h, r) == task'[h] = r /\ \A g \in Handlers \ {h} : task'[g] = task[g]
LEMMA ItMoves ==
    ASSUME TokenInv, NEW h \in Handlers, NEW r, task' = [task EXCEPT ![h] = r]
    PROVE  OneMoves(h, r)
BY DEF TokenInv, TasksGranted, OneMoves

(* Steps that make no write, and end none.                                     *)
Idles(r) == r.turn = 0 /\ r.step \notin {"writes", "stored", "lost"}
SameTasks == \A h \in Handlers : task'[h] = task[h] \/ (Idles(task[h]) /\ Idles(task'[h]))
LEMMA SameQueue == ASSUME Queue, SameTasks PROVE Queue'
BY DEF Queue, SameTasks, Idles, InTurn, Pending, Before

SameStore == /\ stored'.serverOrigin = stored.serverOrigin
             /\ stored'.regionSuggestions = stored.regionSuggestions
SameShown == /\ form'.suggest = form.suggest /\ (form'.ready => form.ready)
             /\ (form'.told = "saved" => form.told = "saved" /\ form'.toldOrigin = form.toldOrigin)
LEMMA SameSwitch ==
    ASSUME SwitchFits, SameTasks, SameStore, SameShown
    PROVE  SwitchFits'
<1>1. \A h \in Handlers : Switching(h)' <=> Switching(h)
    BY DEF SameTasks, Idles, Switching, Pending
<1>2. \A h \in Handlers : Switching(h) => task'[h] = task[h]
    BY DEF SameTasks, Idles, Switching, Pending
<1>3. \A g, h \in Handlers : Before(g, h)' <=> Before(g, h)
    BY DEF SameTasks, Idles, Before
<1>4. Alternate'
    BY <1>1, <1>2, <1>3 DEF SwitchFits, Alternate
<1>5. LastIsShown'
    BY <1>1, <1>2, <1>3 DEF SwitchFits, LastIsShown, SameShown
<1>6. FirstIsNew'
    BY <1>1, <1>2, <1>3 DEF SwitchFits, FirstIsNew, SameStore
<1>7. AllAreStored'
    BY <1>1, <1>2 DEF SwitchFits, AllAreStored, SameStore, SameShown
<1> QED
    BY <1>4, <1>5, <1>6, <1>7 DEF SwitchFits

LEMMA SameSaved ==
    ASSUME SavedFits, SameTasks, SameStore, SameShown
    PROVE  SavedFits'
<1>1. \A h \in Handlers : Saving(h)' <=> Saving(h)
    BY DEF SameTasks, Idles, Saving, Pending
<1>2. \A h \in Handlers : Saving(h) => task'[h] = task[h]
    BY DEF SameTasks, Idles, Saving, Pending
<1>3. \A g, h \in Handlers : Before(g, h)' <=> Before(g, h)
    BY DEF SameTasks, Idles, Before
<1> QED
    BY <1>1, <1>2, <1>3 DEF SavedFits, SameStore, SameShown

LEMMA SameLost ==
    ASSUME SameTasks
    PROVE  (LostFirst' <=> LostFirst) /\ (Doomed' <=> Doomed)
<1>1. \A h \in Handlers : Pending(h)' <=> Pending(h)
    BY DEF SameTasks, Idles, Pending
<1>2. \A h \in Handlers : task'[h].step = "lost" <=> task[h].step = "lost"
    BY DEF SameTasks, Idles
<1>3. \A g, h \in Handlers : Before(g, h)' <=> Before(g, h)
    BY DEF SameTasks, Idles, Before
<1> QED
    BY <1>1, <1>2, <1>3 DEF LostFirst, Doomed

LEMMA SameOptions ==
    ASSUME OptionsInv, SameTasks, SameStore, SameShown, FormFits', crossed' = crossed
    PROVE  OptionsInv'
BY SameQueue, SameSaved, SameLost, SameSwitch DEF OptionsInv

(* A write gets its turn: the last.                                            *)
Enqueues(h, r) ==
    /\ OneMoves(h, r) /\ Idles(task[h]) /\ r.step = "writes" /\ r.turn = NextTurn
    /\ (r.kind # "save" => r.on \in BOOLEAN)
LEMMA EnqueuedIsLast ==
    ASSUME Queue, NEW h \in Handlers, NEW r, Enqueues(h, r)
    PROVE  /\ r.turn \in Nat /\ r.turn # 0
           /\ \A g \in Handlers : task[g].turn \in Nat /\ task[g].turn < r.turn
<1>1. \A g \in Handlers : task[g].turn \in Nat
    BY DEF Queue, InTurn
<1>2. NextTurn \in Nat /\ \A g \in Handlers : task[g].turn < NextTurn
    BY <1>1, NextTurnIsLast, ExtensionPagesAssumption
<1> QED
    BY <1>1, <1>2 DEF Enqueues

LEMMA EnqueuedQueue ==
    ASSUME Queue, NEW h \in Handlers, NEW r, Enqueues(h, r)
    PROVE  Queue'
BY EnqueuedIsLast DEF Queue, Enqueues, OneMoves, Idles, InTurn, Pending, Before

LEMMA EnqueuedLost ==
    ASSUME Queue, NEW h \in Handlers, NEW r, Enqueues(h, r)
    PROVE  (LostFirst => LostFirst') /\ (Doomed => Doomed')
BY EnqueuedIsLast DEF Enqueues, OneMoves, Idles, LostFirst, Doomed, Pending, Before

LEMMA EnqueuedSave ==
    ASSUME Queue, SwitchFits, NEW h \in Handlers, NEW r, Enqueues(h, r), r.kind = "save",
           SameStore, SameShown
    PROVE  SwitchFits'
<1>1. \A g \in Handlers : Switching(g)' <=> Switching(g)
    BY DEF Enqueues, OneMoves, Idles, Switching, Pending
<1>2. \A g \in Handlers : Switching(g) => g # h /\ task'[g] = task[g]
    BY DEF Enqueues, OneMoves, Idles, Switching, Pending
<1>3. \A g, k \in Handlers : g # h /\ k # h => (Before(g, k)' <=> Before(g, k))
    BY DEF Enqueues, OneMoves, Before
<1>4. Alternate'
    BY <1>1, <1>2, <1>3 DEF SwitchFits, Alternate
<1>5. LastIsShown'
    BY <1>1, <1>2, <1>3 DEF SwitchFits, LastIsShown, SameShown
<1>6. FirstIsNew'
    BY <1>1, <1>2, <1>3 DEF SwitchFits, FirstIsNew, SameStore
<1>7. AllAreStored'
    BY <1>1, <1>2 DEF SwitchFits, AllAreStored, SameStore, SameShown
<1> QED
    BY <1>4, <1>5, <1>6, <1>7 DEF SwitchFits

(* The switch turns: against what it showed, which the last write before it    *)
(* stores or, when all are stored, is stored.                                  *)
LEMMA EnqueuedSwitch ==
    ASSUME Queue, SwitchFits, NEW h \in Handlers, NEW r, Enqueues(h, r), r.kind # "save",
           SameStore, form.ready, r.on # form.suggest, form'.suggest = r.on
    PROVE  SwitchFits'
<1>1. \A g \in Handlers \ {h} : Switching(g)' <=> Switching(g)
    BY DEF Enqueues, OneMoves, Switching, Pending
<1>2. \A g \in Handlers \ {h} : task'[g] = task[g] /\ Before(g, h)' /\ ~Before(h, g)'
    BY EnqueuedIsLast DEF Enqueues, OneMoves, Before
<1>3. \A g, k \in Handlers \ {h} : Before(g, k)' <=> Before(g, k)
    BY DEF Enqueues, OneMoves, Before
<1>4. Switching(h)' /\ ~Switching(h) /\ task'[h] = r /\ ~Before(h, h)'
    BY EnqueuedIsLast DEF Enqueues, OneMoves, Idles, Switching, Pending, Before
<1>5. Alternate'
    <2> SUFFICES ASSUME NEW g \in Handlers, NEW k \in Handlers,
                        Switching(g)', Switching(k)', Before(g, k)',
                        \A l \in Handlers : Switching(l)' => ~(Before(g, l)' /\ Before(l, k)')
                 PROVE  task'[g].on # task'[k].on
        BY DEF Alternate
    <2>1. g # h
        BY <1>2, <1>4
    <2>2. CASE k = h
        <3>1. \A l \in Handlers : Switching(l) => ~Before(g, l)
            BY <1>1, <1>2, <1>3, <1>4, <2>1, <2>2
        <3>2. form.suggest = task[g].on
            BY <1>1, <2>1, <3>1 DEF SwitchFits, LastIsShown
        <3> QED
            BY <1>2, <1>4, <2>1, <2>2, <3>2
    <2>3. CASE k # h
        <3>1. \A l \in Handlers : Switching(l) => ~(Before(g, l) /\ Before(l, k))
            BY <1>1, <1>3, <1>4, <2>1, <2>3
        <3>2. Switching(g) /\ Switching(k) /\ Before(g, k)
            BY <1>1, <1>3, <2>1, <2>3
        <3> QED
            BY <1>2, <2>1, <2>3, <3>1, <3>2 DEF SwitchFits, Alternate
    <2> QED
        BY <2>2, <2>3
<1>6. LastIsShown'
    BY <1>1, <1>2, <1>4 DEF LastIsShown
<1>7. FirstIsNew'
    <2> SUFFICES ASSUME NEW g \in Handlers, Switching(g)', task'[g].step # "stored",
                        \A k \in Handlers : Switching(k)' /\ task'[k].step # "stored" => ~Before(k, g)'
                 PROVE  stored'.regionSuggestions # task'[g].on
        BY DEF FirstIsNew
    <2>1. CASE g = h
        <3>1. \A k \in Handlers : Switching(k) => task[k].step = "stored"
            BY <1>1, <1>2, <1>4, <2>1
        <3> QED
            BY <1>4, <2>1, <3>1 DEF SwitchFits, AllAreStored, SameStore
    <2>2. CASE g # h
        BY <1>1, <1>2, <1>3, <1>4, <2>2 DEF SwitchFits, FirstIsNew, SameStore
    <2> QED
        BY <2>1, <2>2
<1>8. AllAreStored'
    BY <1>4 DEF AllAreStored, Enqueues
<1> QED
    BY <1>5, <1>6, <1>7, <1>8 DEF SwitchFits

LEMMA EnqueuedOptions ==
    ASSUME OptionsInv, NEW h \in Handlers, NEW r, Enqueues(h, r), SameStore, FormFits',
           crossed' = crossed, form'.ready => form.ready,
           form'.told = "saved" => form.told = "saved" /\ form'.toldOrigin = form.toldOrigin,
           \/ r.kind = "save" /\ form'.suggest = form.suggest
           \/ r.kind # "save" /\ form.ready /\ r.on # form.suggest /\ form'.suggest = r.on
    PROVE  OptionsInv'
<1>1. SavedFits'
    <2>1. \A g \in Handlers : /\ (Saving(g) /\ task[g].step = "stored")' <=> Saving(g) /\ task[g].step = "stored"
                              /\ Saving(g) /\ task[g].step = "stored" => g # h /\ task'[g] = task[g]
        BY DEF Enqueues, OneMoves, Idles, Saving, Pending
    <2>2. \A g, k \in Handlers : g # h /\ k # h => (Before(g, k)' <=> Before(g, k))
        BY DEF Enqueues, OneMoves, Before
    <2> QED
        BY <2>1, <2>2 DEF OptionsInv, SavedFits, SameStore
<1>2. SwitchFits => SwitchFits'
    BY EnqueuedSave, EnqueuedSwitch DEF OptionsInv, SameShown
<1> QED
    BY <1>1, <1>2, EnqueuedQueue, EnqueuedLost DEF OptionsInv

(* A write is carried out: the first of those that wait.                       *)
Writes(h, r) ==
    /\ OneMoves(h, r) /\ task[h].step = "writes"
    /\ r.turn = task[h].turn /\ r.kind = task[h].kind /\ r.on = task[h].on
FirstWrite(h) == \A g \in Handlers : task[g].step = "writes" => task[h].turn <= task[g].turn

LEMMA WrittenSame ==
    ASSUME Queue, NEW h \in Handlers, NEW r, Writes(h, r)
    PROVE  /\ \A g \in Handlers : /\ task'[g].turn = task[g].turn /\ task'[g].on = task[g].on
                                  /\ (Pending(g)' <=> Pending(g))
                                  /\ (Switching(g)' <=> Switching(g))
                                  /\ (Saving(g)' <=> Saving(g))
           /\ \A g, k \in Handlers : Before(g, k)' <=> Before(g, k)
           /\ Pending(h)
BY DEF Queue, InTurn, Writes, OneMoves, Pending, Switching, Saving, Before

LEMMA WrittenQueue ==
    ASSUME Queue, NEW h \in Handlers, NEW r, Writes(h, r), FirstWrite(h), r.step \in {"stored", "lost"}
    PROVE  Queue'
<1>1. \A g \in Handlers : InTurn(task'[g])
    BY DEF Queue, InTurn, Writes, OneMoves
<1>2. \A g, k \in Handlers : Pending(g)' /\ Pending(k)' /\ g # k => Before(g, k)' \/ Before(k, g)'
    BY WrittenSame DEF Queue
<1>3. \A g, k \in Handlers :
          Pending(g)' /\ task'[g].step # "writes" /\ task'[k].step = "writes" => Before(g, k)'
    <2> SUFFICES ASSUME NEW g \in Handlers, NEW k \in Handlers,
                        Pending(g)', task'[g].step # "writes", task'[k].step = "writes"
                 PROVE  Before(g, k)
        BY WrittenSame
    <2>1. k # h /\ task[k].step = "writes" /\ Pending(g) /\ Pending(k)
        BY WrittenSame DEF Writes, OneMoves, Queue, InTurn, Pending
    <2>2. CASE g = h
        BY <2>1, <2>2 DEF FirstWrite, Queue, InTurn, Before
    <2>3. CASE g # h
        BY <2>1, <2>3 DEF Writes, OneMoves, Queue
    <2> QED
        BY <2>2, <2>3
<1> QED
    BY <1>1, <1>2, <1>3 DEF Queue

(* The write succeeds.                                                         *)
LEMMA StoredLost ==
    ASSUME Queue, NEW h \in Handlers, NEW r, Writes(h, r), r.step = "stored"
    PROVE  (LostFirst => LostFirst') /\ (Doomed' <=> Doomed)
BY WrittenSame DEF LostFirst, Doomed, Writes, OneMoves

LEMMA StoredSaved ==
    ASSUME Queue, SavedFits, NEW h \in Handlers, NEW r, Writes(h, r), FirstWrite(h), r.step = "stored",
           form' = form,
           \/ task[h].kind = "save" /\ stored'.serverOrigin = r.origin
           \/ task[h].kind # "save" /\ stored'.serverOrigin = stored.serverOrigin
    PROVE  SavedFits'
<1>1. \A g \in Handlers \ {h} : task'[g] = task[g]
    BY DEF Writes, OneMoves
<1>2. task'[h] = r /\ task[h].step = "writes"
    BY DEF Writes, OneMoves
<1>3. CASE task[h].kind = "save"
    <2>1. Saving(h) /\ Saving(h)'
        BY <1>3, WrittenSame DEF Saving
    <2>2. \A g \in Handlers \ {h} : Saving(g) /\ task[g].step = "stored" => Before(g, h)
        BY <1>2 DEF Queue, Saving
    <2>3. \A g \in Handlers :
              /\ Saving(g)' /\ task'[g].step = "stored"
              /\ \A k \in Handlers : Saving(k)' /\ task'[k].step = "stored" => ~Before(g, k)'
              => g = h
        BY <1>1, <1>2, <2>1, <2>2, WrittenSame
    <2> QED
        BY <1>2, <1>3, <2>1, <2>3 DEF SavedFits
<1>4. CASE task[h].kind # "save"
    <2>1. ~Saving(h)
        BY <1>4 DEF Saving
    <2> QED
        BY <1>1, <1>4, <2>1, WrittenSame DEF SavedFits
<1> QED
    BY <1>3, <1>4

LEMMA StoredSwitch ==
    ASSUME Queue, ~Doomed, SwitchFits, NEW h \in Handlers, NEW r, Writes(h, r), FirstWrite(h),
           r.step = "stored", form' = form,
           \/ task[h].kind = "save" /\ stored'.regionSuggestions = stored.regionSuggestions
           \/ task[h].kind # "save" /\ stored'.regionSuggestions = task[h].on
    PROVE  SwitchFits'
<1>1. \A g \in Handlers \ {h} : task'[g] = task[g]
    BY DEF Writes, OneMoves
<1>2. task'[h] = r /\ task[h].step = "writes"
    BY DEF Writes, OneMoves
<1>3. Alternate'
    BY WrittenSame DEF SwitchFits, Alternate
<1>4. LastIsShown'
    BY WrittenSame DEF SwitchFits, LastIsShown
<1>5. CASE task[h].kind = "save"
    <2>1. ~Switching(h)
        BY <1>5 DEF Switching
    <2>2. FirstIsNew'
        BY <1>1, <1>5, <2>1, WrittenSame DEF SwitchFits, FirstIsNew
    <2>3. AllAreStored'
        BY <1>1, <1>5, <2>1, WrittenSame DEF SwitchFits, AllAreStored
    <2> QED
        BY <1>3, <1>4, <2>2, <2>3 DEF SwitchFits
<1>6. CASE task[h].kind # "save"
    <2>1. Switching(h) /\ task[h].step # "stored"
        BY <1>2, <1>6, WrittenSame DEF Switching
    <2>2. \A g \in Handlers \ {h} : Switching(g) => task[g].step \in {"writes", "stored"}
        BY WrittenSame DEF Queue, InTurn, Switching, Pending, Doomed
    <2>3. \A g \in Handlers \ {h} : Switching(g) /\ task[g].step # "stored" => Before(h, g)
        BY <2>2, WrittenSame DEF FirstWrite, Queue, InTurn, Switching, Before
    <2>4. \A g \in Handlers \ {h} : Switching(g) /\ task[g].step = "stored" => Before(g, h)
        BY <1>2 DEF Queue, Switching
    <2>5. \A g, k \in Handlers : ~(Before(g, k) /\ Before(k, g))
        BY DEF Queue, InTurn, Before
    <2>6. \A g, k, l \in Handlers : Before(g, k) /\ Before(k, l) => Before(g, l)
        BY DEF Queue, InTurn, Before
    <2>7. FirstIsNew'
        <3> SUFFICES ASSUME NEW g \in Handlers, Switching(g)', task'[g].step # "stored",
                            \A k \in Handlers : Switching(k)' /\ task'[k].step # "stored" => ~Before(k, g)'
                     PROVE  stored'.regionSuggestions # task'[g].on
            BY DEF FirstIsNew
        <3>1. g # h /\ Switching(g) /\ task[g].step # "stored" /\ Before(h, g)
            BY <1>1, <1>2, <2>3, WrittenSame
        <3>2. \A k \in Handlers : Switching(k) => ~(Before(h, k) /\ Before(k, g))
            BY <1>1, <2>1, <2>4, <2>5, WrittenSame
        <3>3. task[h].on # task[g].on
            BY <2>1, <3>1, <3>2 DEF SwitchFits, Alternate
        <3> QED
            BY <1>6, <3>3, WrittenSame
    <2>8. AllAreStored'
        <3> SUFFICES ASSUME form.ready, \A g \in Handlers : Switching(g)' => task'[g].step = "stored"
                     PROVE  form.suggest = stored'.regionSuggestions
            BY DEF AllAreStored
        <3>1. \A g \in Handlers : Switching(g) => ~Before(h, g)
            BY <1>1, <2>4, <2>5, WrittenSame DEF Before
        <3> QED
            BY <1>6, <2>1, <3>1 DEF SwitchFits, LastIsShown
    <2> QED
        BY <1>3, <1>4, <2>7, <2>8 DEF SwitchFits
<1> QED
    BY <1>5, <1>6

(* The write fails: alone, or the page may be wrong from then on.              *)
LEMMA FailedLost ==
    ASSUME Queue, NEW h \in Handlers, NEW r, Writes(h, r), r.step = "lost"
    PROVE  (\A g \in Handlers \ {h} : ~Pending(g)) => LostFirst' /\ ~Doomed' /\ ~Doomed
<1>1. \A g \in Handlers \ {h} : ~Pending(g) => task'[g].step # "lost" /\ ~Pending(g)'
    BY WrittenSame DEF Writes, OneMoves, Queue, InTurn, Pending
<1>2. task[h].step # "lost" /\ \A g \in Handlers \ {h} : ~Pending(g) => task[g].step # "lost"
    BY DEF Writes, Queue, InTurn, Pending
<1> QED
    BY <1>1, <1>2 DEF LostFirst, Doomed

LEMMA FailedSaved ==
    ASSUME Queue, SavedFits, NEW h \in Handlers, NEW r, Writes(h, r), r.step = "lost", SameStore,
           form' = form
    PROVE  SavedFits'
<1>1. \A g \in Handlers : (Saving(g) /\ task[g].step = "stored")' <=> Saving(g) /\ task[g].step = "stored"
    BY WrittenSame DEF Writes, OneMoves
<1>2. \A g \in Handlers : Saving(g) /\ task[g].step = "stored" => task'[g] = task[g]
    BY DEF Writes, OneMoves
<1> QED
    BY <1>1, <1>2, WrittenSame DEF SavedFits, SameStore

LEMMA FailedSwitch ==
    ASSUME Queue, SwitchFits, NEW h \in Handlers, NEW r, Writes(h, r), r.step = "lost", SameStore,
           form' = form
    PROVE  SwitchFits'
<1>1. \A g \in Handlers : task'[g].step = "stored" <=> task[g].step = "stored"
    BY DEF Writes, OneMoves
<1>2. Alternate' /\ LastIsShown'
    BY WrittenSame DEF SwitchFits, Alternate, LastIsShown
<1>3. FirstIsNew'
    BY <1>1, WrittenSame DEF SwitchFits, FirstIsNew, SameStore
<1>4. AllAreStored'
    BY <1>1, WrittenSame DEF SwitchFits, AllAreStored, SameStore
<1> QED
    BY <1>2, <1>3, <1>4 DEF SwitchFits

(* The page goes on with the first of its handlers, which is through then.     *)
GoesAway(h) == OneMoves(h, NoTask) /\ Pending(h) /\ task[h].step # "writes" /\ IsFirst(h)

LEMMA LeftFirst ==
    ASSUME Queue, NEW h \in Handlers, GoesAway(h)
    PROVE  /\ ~Pending(h)' /\ ~Switching(h)' /\ ~Saving(h)' /\ task'[h].step = "none"
           /\ \A g \in Handlers \ {h} : /\ task'[g] = task[g]
                                        /\ (Pending(g)' <=> Pending(g))
                                        /\ (Switching(g)' <=> Switching(g))
                                        /\ (Saving(g)' <=> Saving(g))
                                        /\ Pending(g) => Before(h, g) /\ ~Before(g, h)
           /\ \A g, k \in Handlers \ {h} : Before(g, k)' <=> Before(g, k)
<1>1. task'[h] = NoTask /\ \A g \in Handlers \ {h} : task'[g] = task[g]
    BY DEF GoesAway, OneMoves
<1>2. ~Pending(h)' /\ ~Switching(h)' /\ ~Saving(h)' /\ task'[h].step = "none"
    BY <1>1 DEF Pending, Switching, Saving, NoTask
<1>3. \A g \in Handlers \ {h} : Pending(g) => Before(h, g) /\ ~Before(g, h)
    BY DEF GoesAway, IsFirst, Queue, InTurn, Pending, Before
<1> QED
    BY <1>1, <1>2, <1>3 DEF Pending, Switching, Saving, Before

LEMMA LeftQueue == ASSUME Queue, NEW h \in Handlers, GoesAway(h) PROVE Queue'
<1>1. InTurn(NoTask)
    BY DEF InTurn, NoTask
<1>2. \A g \in Handlers : InTurn(task'[g])
    BY <1>1, LeftFirst DEF GoesAway, OneMoves, Queue
<1>3. \A g, k \in Handlers : Pending(g)' /\ Pending(k)' /\ g # k => Before(g, k)' \/ Before(k, g)'
    BY LeftFirst DEF Queue
<1>4. \A g, k \in Handlers :
          Pending(g)' /\ task'[g].step # "writes" /\ task'[k].step = "writes" => Before(g, k)'
    BY LeftFirst DEF Queue
<1> QED
    BY <1>2, <1>3, <1>4 DEF Queue

LEMMA LeftLost ==
    ASSUME Queue, NEW h \in Handlers, GoesAway(h), LostFirst
    PROVE  /\ LostFirst'
           /\ (task[h].step # "lost" /\ Doomed => Doomed')
<1>1. LostFirst'
    BY LeftFirst DEF LostFirst
<1>2. ASSUME task[h].step # "lost", NEW g \in Handlers, NEW k \in Handlers,
             task[g].step = "lost", Pending(k), g # k
      PROVE  Doomed'
    <2>1. g # h
        BY <1>2
    <2>2. Pending(g)
        BY <1>2 DEF Queue, InTurn, Pending
    <2>3. Before(g, h)
        BY <1>2, <2>1 DEF LostFirst, GoesAway
    <2> QED
        BY <2>1, <2>2, <2>3, LeftFirst
<1> QED
    BY <1>1, <1>2 DEF Doomed

(* An earlier write leaves: what is shown of the last one stands.              *)
LEMMA LeftSwitch ==
    ASSUME Queue, SwitchFits, NEW h \in Handlers, GoesAway(h), task[h].step = "stored", SameStore,
           form'.suggest = form.suggest, form'.ready = form.ready
    PROVE  SwitchFits'
<1>1. Alternate'
    <2> SUFFICES ASSUME NEW g \in Handlers, NEW k \in Handlers,
                        Switching(g)', Switching(k)', Before(g, k)',
                        \A l \in Handlers : Switching(l)' => ~(Before(g, l)' /\ Before(l, k)')
                 PROVE  task'[g].on # task'[k].on
        BY DEF Alternate
    <2>1. g # h /\ k # h /\ Switching(g) /\ Switching(k) /\ Before(g, k) /\ ~Before(g, h)
        BY LeftFirst DEF Switching
    <2>2. \A l \in Handlers : Switching(l) => ~(Before(g, l) /\ Before(l, k))
        BY <2>1, LeftFirst
    <2> QED
        BY <2>1, <2>2, LeftFirst DEF SwitchFits, Alternate
<1>2. LastIsShown'
    <2> SUFFICES ASSUME NEW g \in Handlers, Switching(g)',
                        \A k \in Handlers : Switching(k)' => ~Before(g, k)'
                 PROVE  form.suggest = task'[g].on
        BY DEF LastIsShown
    <2>1. g # h /\ Switching(g) /\ ~Before(g, h)
        BY LeftFirst DEF Switching
    <2>2. \A k \in Handlers : Switching(k) => ~Before(g, k)
        BY <2>1, LeftFirst
    <2> QED
        BY <2>1, <2>2, LeftFirst DEF SwitchFits, LastIsShown
<1>3. FirstIsNew'
    BY LeftFirst DEF SwitchFits, FirstIsNew, SameStore
<1>4. AllAreStored'
    BY LeftFirst DEF SwitchFits, AllAreStored, SameStore
<1> QED
    BY <1>1, <1>2, <1>3, <1>4 DEF SwitchFits

(* A Save tells its server, or one that was stored after it will tell its own. *)
LEMMA LeftSaved ==
    ASSUME Queue, SavedFits, NEW h \in Handlers, GoesAway(h), SameStore,
           \/ /\ task[h].kind = "save" /\ task[h].step = "stored" /\ form'.toldOrigin = task[h].origin
           \/ form'.told # "saved"
           \/ task[h].step = "lost" /\ form' = form
    PROVE  SavedFits'
<1>1. \A g \in Handlers :
          /\ Saving(g)' /\ task'[g].step = "stored"
          /\ \A k \in Handlers : Saving(k)' /\ task'[k].step = "stored" => ~Before(g, k)'
          => task'[g].origin = stored.serverOrigin
    <2> SUFFICES ASSUME NEW g \in Handlers, Saving(g)', task'[g].step = "stored",
                        \A k \in Handlers : Saving(k)' /\ task'[k].step = "stored" => ~Before(g, k)'
                 PROVE  task'[g].origin = stored.serverOrigin
        OBVIOUS
    <2>1. g # h /\ Saving(g) /\ ~Before(g, h) /\ task'[g] = task[g]
        BY LeftFirst DEF Saving
    <2>2. \A k \in Handlers : Saving(k) /\ task[k].step = "stored" => ~Before(g, k)
        BY <2>1, LeftFirst
    <2> QED
        BY <2>1, <2>2 DEF SavedFits
<1>2. form'.told = "saved" /\ (\A g \in Handlers : ~(Saving(g)' /\ task'[g].step = "stored"))
          => form'.toldOrigin = stored.serverOrigin
    <2> SUFFICES ASSUME form'.told = "saved", \A g \in Handlers : ~(Saving(g)' /\ task'[g].step = "stored")
                 PROVE  form'.toldOrigin = stored.serverOrigin
        OBVIOUS
    <2>1. \A g \in Handlers \ {h} : ~(Saving(g) /\ task[g].step = "stored")
        BY LeftFirst
    <2>2. CASE task[h].kind = "save" /\ task[h].step = "stored" /\ form'.toldOrigin = task[h].origin
        <3>1. Saving(h) /\ ~Before(h, h)
            BY <2>2 DEF Saving, GoesAway, Queue, InTurn, Before
        <3> QED
            BY <2>1, <2>2, <3>1 DEF SavedFits
    <2>3. CASE task[h].step = "lost" /\ form' = form
        BY <2>1, <2>3 DEF SavedFits
    <2> QED
        BY <2>2, <2>3
<1> QED
    BY <1>1, <1>2 DEF SavedFits, SameStore

(* A switch whose write failed goes back to what is stored.                    *)
LEMMA GoneBack ==
    ASSUME Queue, SwitchFits, FormFits, NEW h \in Handlers, GoesAway(h), task[h].step = "lost",
           \A g \in Handlers \ {h} : ~Pending(g), SameStore, form'.ready = form.ready,
           \/ task[h].kind = "save" /\ form'.suggest = form.suggest
           \/ task[h].kind # "save" /\ form'.suggest \in BOOLEAN /\ form'.suggest # task[h].on
    PROVE  SwitchFits'
<1>1. \A g \in Handlers : ~Switching(g)'
    BY LeftFirst DEF Switching
<1>2. form.ready => form'.suggest = stored.regionSuggestions
    <2>1. CASE task[h].kind = "save"
        <3>1. \A g \in Handlers : ~Switching(g)
            BY <2>1 DEF Switching
        <3> QED
            BY <2>1, <3>1 DEF SwitchFits, AllAreStored
    <2>2. CASE task[h].kind # "save"
        <3>1. Switching(h) /\ (\A g \in Handlers \ {h} : ~Switching(g)) /\ ~Before(h, h)
            BY <2>2 DEF Switching, GoesAway, Queue, InTurn, Before
        <3>2. stored.regionSuggestions # task[h].on
            BY <3>1 DEF SwitchFits, FirstIsNew
        <3>3. task[h].on \in BOOLEAN
            BY <2>2 DEF Queue, InTurn, GoesAway, Pending
        <3> QED
            BY <2>2, <3>2, <3>3 DEF FormFits
    <2> QED
        BY <2>1, <2>2
<1> QED
    BY <1>1, <1>2 DEF SwitchFits, Alternate, LastIsShown, FirstIsNew, AllAreStored, SameStore

(* The form stays a form, and never loads twice.                               *)
Kept == /\ DOMAIN form' = FormFields /\ form'.ready = form.ready
        /\ (form.ready => form'.state \notin {"closed", "loading"})
LEMMA KeptFits ==
    ASSUME FormFits, Kept, form.ready, form'.suggest \in BOOLEAN, stored'.regionSuggestions \in BOOLEAN
    PROVE  FormFits'
BY DEF FormFits, Kept
LEMMA AtWorkReady ==
    ASSUME FormFits, NEW h \in Handlers, task[h] # NoTask
    PROVE  form.ready
BY DEF FormFits

(* Who is at work is a handler; what it moves to.                              *)
LEMMA PressedIdles ==
    ASSUME TokenInv, NEW r, Presses(r)
    PROVE  form.ready /\ \E h \in Handlers : OneMoves(h, r) /\ Idles(task[h])
<1>1. PICK h \in Handlers : task[h] = NoTask /\ task' = [task EXCEPT ![h] = r]
    BY DEF Presses
<1>2. OneMoves(h, r)
    BY <1>1, ItMoves
<1>3. Idles(task[h])
    BY <1>1 DEF Idles, NoTask
<1> QED
    BY <1>2, <1>3 DEF Presses
LEMMA IdlesOn ==
    ASSUME NEW h \in Handlers, NEW r, OneMoves(h, r), Idles(task[h]), Idles(r)
    PROVE  SameTasks
BY DEF OneMoves, SameTasks

LEMMA AsksOptions ==
    ASSUME TokenInv, OptionsInv, NEW kind, NEW state \in {"saving", "testing"},
           AsksAccess(kind, state), stored' = stored, crossed' = crossed
    PROVE  OptionsInv'
<1>1. PICK r : /\ r = [kind |-> kind, step |-> "asks", turn |-> 0, on |-> FALSE,
                       origin |-> form.origin, token |-> form.token]
               /\ Presses(r)
    BY DEF AsksAccess
<1>2. form.ready /\ SameTasks
    BY <1>1, PressedIdles, IdlesOn DEF Idles
<1>3. form' = [form EXCEPT !.state = state]
    BY DEF AsksAccess
<1>4. Kept /\ SameShown /\ form'.suggest = form.suggest
    BY <1>3 DEF OptionsInv, FormFits, FormFields, Kept, SameShown
<1>5. FormFits'
    BY <1>2, <1>4, KeptFits DEF OptionsInv, FormFits
<1> QED
    BY <1>2, <1>4, <1>5, SameOptions DEF SameStore

LEMMA Turned == ASSUME NEW b \in BOOLEAN PROVE (~b) \in BOOLEAN /\ (~b) # b
OBVIOUS

LEMMA SwitchOptions == ASSUME TokenInv, OptionsInv, SwitchSuggestions PROVE OptionsInv'
<1>1. PICK on : on = ~form.suggest
    OBVIOUS
<1>2. on \in BOOLEAN /\ on # form.suggest
    BY <1>1, Turned DEF OptionsInv, FormFits
<1>3. PICK r : /\ r = [kind |-> "switch", step |-> "writes", turn |-> NextTurn,
                       on |-> on, origin |-> Nothing, token |-> Nothing]
               /\ Presses(r)
    BY <1>1 DEF SwitchSuggestions
<1>4. PICK h \in Handlers : OneMoves(h, r) /\ Idles(task[h]) /\ form.ready
    BY <1>3, PressedIdles
<1>5. Enqueues(h, r) /\ r.kind # "save" /\ r.on = on
    BY <1>2, <1>3, <1>4 DEF Enqueues
<1>6. form' = [form EXCEPT !.suggest = on]
    BY <1>1 DEF SwitchSuggestions
<1>7. /\ Kept /\ form'.suggest = on
      /\ (form'.told = "saved" => form.told = "saved" /\ form'.toldOrigin = form.toldOrigin)
    BY <1>6 DEF OptionsInv, FormFits, FormFields, Kept
<1>8. stored' = stored /\ crossed' = crossed
    BY DEF SwitchSuggestions
<1>9. FormFits'
    BY <1>2, <1>4, <1>7, <1>8, KeptFits DEF OptionsInv, FormFits
<1> QED
    BY <1>2, <1>4, <1>5, <1>7, <1>8, <1>9, EnqueuedOptions DEF SameStore, Kept

LEMMA AllowedOptions == ASSUME TokenInv, OptionsInv, NEW h \in Handlers, Allowed(h) PROVE OptionsInv'
<1>1. PICK q : q = task[h]
    OBVIOUS
<1>2. IsTask(q) /\ q # NoTask /\ q.step = "asks"
    BY <1>1, StepIsTask DEF Allowed
<1>3. Idles(q) /\ form.ready /\ stored' = stored /\ crossed' = crossed
    BY <1>1, <1>2, AtWorkReady DEF Allowed, Idles, OptionsInv, Queue, InTurn
<1>4. CASE q.kind = "save"
    <2>1. PICK r : r = TaskQueued(q, NextTurn)
        OBVIOUS
    <2>2. task' = [task EXCEPT ![h] = r]
        <3>1. task' = [task EXCEPT ![h].step = "writes", ![h].turn = NextTurn]
            BY <1>1, <1>4 DEF Allowed
        <3> QED
            BY <1>1, <2>1, <3>1, TwoFields DEF TokenInv
    <2>3. r.kind = q.kind /\ r.step = "writes" /\ r.turn = NextTurn /\ r.on = q.on
        <3>1. PICK m : m = TaskMoved(q, "writes")
            OBVIOUS
        <3>2. /\ m = [kind |-> q.kind, step |-> "writes", turn |-> q.turn, on |-> q.on,
                      origin |-> q.origin, token |-> q.token]
            BY <1>2, <3>1 DEF IsTask, TaskMoved
        <3>3. r = [m EXCEPT !.turn = NextTurn]
            BY <2>1, <3>1 DEF TaskQueued, TaskMoved
        <3> QED
            BY <3>2, <3>3
    <2>4. OneMoves(h, r)
        BY <2>2, ItMoves
    <2>5. form' = form
        BY <1>1, <1>4 DEF Allowed
    <2>6. Kept /\ FormFits'
        BY <1>3, <2>5, KeptFits DEF Kept, OptionsInv, FormFits
    <2>7. Enqueues(h, r)
        BY <1>1, <1>3, <1>4, <2>3, <2>4 DEF Enqueues
    <2> QED
        BY <1>3, <1>4, <2>3, <2>5, <2>6, <2>7, EnqueuedOptions DEF SameStore
<1>5. CASE q.kind # "save"
    <2>1. PICK r : r = TaskMoved(q, "pings")
        OBVIOUS
    <2>2. task' = [task EXCEPT ![h] = r] /\ r.step = "pings" /\ r.turn = q.turn
        BY <1>1, <1>2, <1>5, <2>1 DEF Allowed, TaskMoved, IsTask
    <2>3. SameTasks
        BY <1>1, <1>3, <2>2, ItMoves, IdlesOn DEF Idles
    <2>4. form' = [form EXCEPT !.told = "contacting", !.testOff = TRUE]
        BY <1>1, <1>5 DEF Allowed
    <2>5. Kept /\ SameShown /\ form'.suggest = form.suggest
        BY <2>4 DEF OptionsInv, FormFits, FormFields, Kept, SameShown
    <2>6. FormFits'
        BY <1>3, <2>5, KeptFits DEF OptionsInv, FormFits
    <2> QED
        BY <1>3, <2>3, <2>5, <2>6, SameOptions DEF SameStore
<1> QED
    BY <1>4, <1>5

(* Refused, or answered by the server: no write.                               *)
LEMMA IdlesEndOptions ==
    ASSUME TokenInv, OptionsInv, NEW h \in Handlers, Denied(h) \/ Pinged(h)
    PROVE  OptionsInv'
<1>1. PICK q : q = task[h]
    OBVIOUS
<1>2. q.step \in {"asks", "pings"} /\ q # NoTask
    BY <1>1 DEF Denied, Pinged, NoTask
<1>3. Idles(q) /\ form.ready /\ stored' = stored /\ crossed' = crossed
    BY <1>1, <1>2, AtWorkReady DEF Denied, Pinged, Idles, OptionsInv, Queue, InTurn
<1>4. PICK r : r = NoTask
    OBVIOUS
<1>5. OneMoves(h, r) /\ Idles(r)
    BY <1>4, ItMoves DEF Denied, Pinged, Idles, NoTask
<1>6. SameTasks
    BY <1>1, <1>3, <1>5, IdlesOn
<1>7. Kept /\ SameShown /\ form'.suggest = form.suggest
    <2>1. CASE Denied(h)
        <3>1. form' = [form EXCEPT !.state = "error", !.told = "error"]
            BY <2>1 DEF Denied, Fails
        <3> QED
            BY <3>1 DEF OptionsInv, FormFits, FormFields, Kept, SameShown
    <2>2. CASE Pinged(h)
        <3>1. PICK end \in {"connected", "error"} :
                  form' = [form EXCEPT !.state = end, !.told = end, !.testOff = FALSE]
            BY <2>2 DEF Pinged
        <3> QED
            BY <3>1 DEF OptionsInv, FormFits, FormFields, Kept, SameShown
    <2> QED
        BY <2>1, <2>2
<1>8. FormFits'
    BY <1>3, <1>7, KeptFits DEF OptionsInv, FormFits
<1> QED
    BY <1>3, <1>6, <1>7, <1>8, SameOptions DEF SameStore

LEMMA WritesMove ==
    ASSUME TokenInv, OptionsInv, NEW h \in Handlers, NEW step,
           task[h].step = "writes", task' = [task EXCEPT ![h].step = step],
           \A g \in Handlers : task[g].step = "writes" => task[h].turn <= task[g].turn
    PROVE  /\ form.ready /\ FirstWrite(h)
           /\ \E r : Writes(h, r) /\ r.step = step /\ r.origin = task[h].origin
<1>1. PICK q : q = task[h]
    OBVIOUS
<1>2. IsTask(q) /\ q # NoTask /\ q.step = "writes"
    BY <1>1, StepIsTask
<1>3. PICK r : r = TaskMoved(q, step)
    OBVIOUS
<1>4. task' = [task EXCEPT ![h] = r]
    BY <1>1, <1>3 DEF TaskMoved
<1>5. /\ r.step = step /\ r.turn = q.turn /\ r.kind = q.kind /\ r.on = q.on
      /\ r.origin = q.origin
    BY <1>2, <1>3 DEF IsTask, TaskMoved
<1>6. Writes(h, r)
    BY <1>1, <1>2, <1>4, <1>5, ItMoves DEF Writes
<1> QED
    BY <1>1, <1>2, <1>5, <1>6, AtWorkReady DEF OptionsInv, FirstWrite

LEMMA StoreOptions == ASSUME TokenInv, OptionsInv, NEW h \in Handlers, Store(h) PROVE OptionsInv'
<1>1. form.ready /\ FirstWrite(h)
    BY WritesMove DEF Store
<1>2. PICK r : Writes(h, r) /\ r.step = "stored" /\ r.origin = task[h].origin
    BY WritesMove DEF Store
<1>3. form' = form /\ crossed' = crossed /\ stored' = Patched(task[h])
    BY DEF Store
<1>4. IsStored(stored) /\ Queue /\ FormFits /\ SavedFits
    BY DEF TokenInv, StoreGranted, OptionsInv
<1>5. \/ /\ task[h].kind = "save" /\ stored'.serverOrigin = r.origin
         /\ stored'.regionSuggestions = stored.regionSuggestions
      \/ /\ task[h].kind # "save" /\ stored'.serverOrigin = stored.serverOrigin
         /\ stored'.regionSuggestions = task[h].on
    <2>1. CASE task[h].kind = "save"
        <3>1. stored' = [[stored EXCEPT !.serverOrigin = task[h].origin] EXCEPT !.apiToken = task[h].token]
            BY <1>3, <2>1 DEF Patched
        <3> QED
            BY <1>2, <1>4, <2>1, <3>1 DEF IsStored
    <2>2. CASE task[h].kind # "save"
        <3>1. stored' = [stored EXCEPT !.regionSuggestions = task[h].on]
            BY <1>3, <2>2 DEF Patched
        <3> QED
            BY <1>4, <2>2, <3>1 DEF IsStored
    <2> QED
        BY <2>1, <2>2
<1>6. Queue' /\ SavedFits'
    BY <1>1, <1>2, <1>3, <1>4, <1>5, WrittenQueue, StoredSaved
<1>7. stored'.regionSuggestions \in BOOLEAN
    <2>1. task[h].kind # "save" => task[h].on \in BOOLEAN
        BY <1>2, <1>4 DEF Queue, InTurn, Writes
    <2> QED
        BY <1>4, <1>5, <2>1 DEF FormFits
<1>8. FormFits'
    BY <1>1, <1>3, <1>4, <1>7, KeptFits DEF FormFits, Kept
<1>9. ~crossed' => LostFirst' /\ (~Doomed' => SwitchFits')
    BY <1>1, <1>2, <1>3, <1>4, <1>5, StoredLost, StoredSwitch DEF OptionsInv
<1> QED
    BY <1>6, <1>8, <1>9 DEF OptionsInv

LEMMA StoreFailsOptions ==
    ASSUME TokenInv, OptionsInv, NEW h \in Handlers, StoreFails(h) PROVE OptionsInv'
<1>1. form.ready /\ FirstWrite(h)
    BY WritesMove DEF StoreFails
<1>2. PICK r : Writes(h, r) /\ r.step = "lost"
    BY WritesMove DEF StoreFails
<1>3. /\ form' = form /\ stored' = stored
      /\ crossed' = (crossed \/ \E g \in Handlers \ {h} : task[g].turn # 0)
    BY DEF StoreFails
<1>4. Queue /\ FormFits /\ SavedFits
    BY DEF OptionsInv
<1>5. Queue' /\ SavedFits'
    BY <1>1, <1>2, <1>3, <1>4, WrittenQueue, FailedSaved DEF SameStore
<1>6. FormFits'
    BY <1>1, <1>3, <1>4, KeptFits DEF FormFits, Kept
<1>7. ~crossed' => LostFirst' /\ SwitchFits'
    <2> SUFFICES ASSUME ~crossed' PROVE LostFirst' /\ SwitchFits'
        OBVIOUS
    <2>1. ~crossed /\ \A g \in Handlers \ {h} : ~Pending(g)
        BY <1>3 DEF Pending
    <2>2. LostFirst' /\ ~Doomed
        BY <1>2, <1>4, <2>1, FailedLost
    <2>3. SwitchFits
        BY <2>1, <2>2 DEF OptionsInv
    <2> QED
        BY <1>2, <1>3, <1>4, <2>2, <2>3, FailedSwitch DEF SameStore
<1> QED
    BY <1>5, <1>6, <1>7 DEF OptionsInv

LEMMA ThroughLeaves ==
    ASSUME TokenInv, OptionsInv, NEW h \in Handlers, task[h].step \in {"stored", "lost"}, IsFirst(h),
           task' = [task EXCEPT ![h] = NoTask]
    PROVE  GoesAway(h) /\ form.ready
<1>1. PICK r : r = NoTask
    OBVIOUS
<1>2. OneMoves(h, r)
    BY <1>1, ItMoves
<1>3. Pending(h) /\ task[h] # NoTask
    BY DEF OptionsInv, Queue, InTurn, Pending, NoTask
<1> QED
    BY <1>1, <1>2, <1>3, AtWorkReady DEF GoesAway, OptionsInv

LEMMA StoredOptions == ASSUME TokenInv, OptionsInv, NEW h \in Handlers, Stored(h) PROVE OptionsInv'
<1>1. GoesAway(h) /\ form.ready /\ task[h].step = "stored"
    BY ThroughLeaves DEF Stored
<1>2. stored' = stored /\ crossed' = crossed /\ SameStore
    BY DEF Stored, SameStore
<1>3. Queue /\ FormFits /\ SavedFits
    BY DEF OptionsInv
<1>4. /\ Kept /\ form'.suggest = form.suggest
      /\ \/ task[h].kind = "save" /\ form'.toldOrigin = task[h].origin
         \/ form'.told # "saved"
    <2>1. CASE task[h].kind = "save"
        <3>1. form' = [form EXCEPT !.state = "saved", !.told = "saved",
                                   !.origin = task[h].origin, !.toldOrigin = task[h].origin]
            BY <2>1 DEF Stored
        <3> QED
            BY <1>3, <2>1, <3>1 DEF FormFits, FormFields, Kept
    <2>2. CASE task[h].kind # "save"
        <3>1. form' = [form EXCEPT !.state = "saved", !.told = "switched"]
            BY <2>2 DEF Stored
        <3> QED
            BY <1>3, <2>2, <3>1 DEF FormFits, FormFields, Kept
    <2> QED
        BY <2>1, <2>2
<1>5. Queue' /\ SavedFits'
    BY <1>1, <1>2, <1>3, <1>4, LeftQueue, LeftSaved
<1>6. FormFits'
    BY <1>1, <1>2, <1>3, <1>4, KeptFits DEF FormFits
<1>7. ~crossed' => LostFirst' /\ (~Doomed' => SwitchFits')
    BY <1>1, <1>2, <1>3, <1>4, LeftLost, LeftSwitch DEF OptionsInv, Kept
<1> QED
    BY <1>5, <1>6, <1>7 DEF OptionsInv

LEMMA NotStoredOptions == ASSUME TokenInv, OptionsInv, NEW h \in Handlers, NotStored(h) PROVE OptionsInv'
<1>1. GoesAway(h) /\ form.ready /\ task[h].step = "lost"
    BY ThroughLeaves DEF NotStored
<1>2. /\ stored' = stored /\ SameStore
      /\ crossed' = (crossed \/ \E g \in Handlers \ {h} : task[g].turn # 0)
    BY DEF NotStored, SameStore
<1>3. Queue /\ FormFits /\ SavedFits
    BY DEF OptionsInv
<1>4. Kept /\ \/ task[h].kind = "save" /\ form' = form
              \/ /\ task[h].kind # "save" /\ form'.told # "saved"
                 /\ form'.suggest \in BOOLEAN /\ form'.suggest # task[h].on
    <2>1. CASE task[h].kind = "save"
        BY <1>3, <2>1 DEF NotStored, FormFits, Kept
    <2>2. CASE task[h].kind # "save"
        <3>1. PICK back : back = ~task[h].on
            OBVIOUS
        <3>2. task[h].on \in BOOLEAN
            BY <1>1, <1>3, <2>2 DEF GoesAway, Pending, Queue, InTurn
        <3>3. back \in BOOLEAN /\ back # task[h].on
            BY <3>1, <3>2, Turned
        <3>4. form' = [form EXCEPT !.suggest = back, !.state = "error", !.told = "error"]
            BY <2>2, <3>1 DEF NotStored
        <3>5. Kept /\ form'.suggest = back /\ form'.told = "error"
            BY <1>3, <3>4 DEF FormFits, FormFields, Kept
        <3> QED
            BY <2>2, <3>3, <3>5
    <2> QED
        BY <2>1, <2>2
<1>5. Queue' /\ SavedFits'
    BY <1>1, <1>2, <1>3, <1>4, LeftQueue, LeftSaved
<1>6. FormFits'
    BY <1>1, <1>2, <1>3, <1>4, KeptFits DEF FormFits
<1>7. ~crossed' => LostFirst' /\ SwitchFits'
    <2> SUFFICES ASSUME ~crossed' PROVE LostFirst' /\ SwitchFits'
        OBVIOUS
    <2>1. ~crossed /\ \A g \in Handlers \ {h} : ~Pending(g)
        BY <1>2 DEF Pending
    <2>2. \A g \in Handlers : task[g].step = "lost" => g = h
        BY <1>3, <2>1 DEF Queue, InTurn, Pending
    <2>3. LostFirst /\ SwitchFits
        BY <2>1, <2>2 DEF OptionsInv, Doomed
    <2> QED
        BY <1>1, <1>2, <1>3, <1>4, <2>1, <2>3, LeftLost, GoneBack DEF Kept
<1> QED
    BY <1>5, <1>6, <1>7 DEF OptionsInv

(* The form opens, is filled, is typed into; captures and the popup.           *)
LEMMA QuietOptions ==
    ASSUME OptionsInv, task' = task, crossed' = crossed, SameStore, SameShown, FormFits'
    PROVE  OptionsInv'
BY SameOptions DEF SameTasks

LEMMA ElsewhereOptions ==
    ASSUME OptionsInv, task' = task, crossed' = crossed, form' = form, SameStore
    PROVE  OptionsInv'
BY QuietOptions DEF OptionsInv, FormFits, SameStore, SameShown

LEMMA FormOptions ==
    ASSUME OptionsInv, OpenOptions \/ FillFails \/ Types \/ Unreadable
    PROVE  OptionsInv'
<1>1. task' = task /\ crossed' = crossed /\ stored' = stored
    BY DEF OpenOptions, FillFails, Types, Unreadable
<1>2. FormFits
    BY DEF OptionsInv
<1>3. CASE OpenOptions
    <2>1. form' = [form EXCEPT !.state = "loading"] /\ form.state = "closed"
        BY <1>3 DEF OpenOptions
    <2>2. FormFits' /\ SameShown
        BY <1>1, <1>2, <2>1 DEF FormFits, FormFields, SameShown
    <2> QED
        BY <1>1, <2>2, QuietOptions DEF SameStore
<1>4. CASE FillFails \/ Unreadable
    <2>1. form' = [form EXCEPT !.state = "error", !.told = "error"]
        BY <1>4 DEF FillFails, Unreadable, Fails
    <2>2. FormFits' /\ SameShown
        BY <1>1, <1>2, <2>1 DEF FormFits, FormFields, SameShown
    <2> QED
        BY <1>1, <2>2, QuietOptions DEF SameStore
<1>5. CASE Types
    <2>1. PICK o, t : form' = [form EXCEPT !.origin = o, !.token = t]
        BY <1>5 DEF Types
    <2>2. FormFits' /\ SameShown
        BY <1>1, <1>2, <2>1 DEF FormFits, FormFields, SameShown
    <2> QED
        BY <1>1, <2>2, QuietOptions DEF SameStore
<1> QED
    BY <1>3, <1>4, <1>5

LEMMA FillOptions == ASSUME OptionsInv, Fill PROVE OptionsInv'
<1>1. /\ form.state = "loading" /\ task' = task /\ crossed' = crossed /\ stored' = stored
      /\ form' = [form EXCEPT !.state = "ready", !.ready = TRUE, !.origin = stored.serverOrigin,
                              !.token = stored.apiToken, !.suggest = stored.regionSuggestions]
    BY DEF Fill
<1>2. FormFits /\ ~form.ready /\ \A h \in Handlers : task[h] = NoTask
    BY <1>1 DEF OptionsInv, FormFits
<1>3. /\ DOMAIN form' = FormFields /\ form'.ready /\ form'.state = "ready"
      /\ form'.suggest = stored.regionSuggestions
      /\ form'.told = form.told /\ form'.toldOrigin = form.toldOrigin
    BY <1>1, <1>2 DEF FormFits, FormFields
<1>4. FormFits'
    BY <1>1, <1>2, <1>3 DEF FormFits
<1>5. SameTasks /\ SameStore
    BY <1>1 DEF SameTasks, SameStore
<1>6. \A h \in Handlers : ~Pending(h) /\ ~Pending(h)' /\ task[h].step = "none" /\ task'[h].step = "none"
    BY <1>1, <1>2 DEF Pending, NoTask
<1>7. SavedFits'
    BY <1>1, <1>3, <1>6 DEF OptionsInv, SavedFits, Saving
<1>8. LostFirst' /\ SwitchFits'
    BY <1>1, <1>3, <1>6 DEF LostFirst, SwitchFits, Switching, Alternate, LastIsShown, FirstIsNew,
                            AllAreStored
<1> QED
    BY <1>4, <1>5, <1>7, <1>8, SameQueue DEF OptionsInv

LEMMA CapturesOptions ==
    ASSUME TokenInv, OptionsInv,
           \/ \E mode \in Modes : Command(mode) \/ Click(mode)
           \/ \E c \in CaptureIds : \/ Rereads(c) \/ Uploads(c) \/ Succeeds(c)
                                    \/ Collapses(c) \/ Cancelled(c)
           \/ OpenPopup \/ ReadsLastError \/ ClearsFailureFlag \/ Answered \/ ClosePopup
    PROVE  OptionsInv'
<1>1. task' = task /\ crossed' = crossed /\ form' = form
    BY DEF Command, Click, Rereads, Uploads, Succeeds, Collapses, Cancelled, OpenPopup,
           ReadsLastError, ClearsFailureFlag, Answered, ClosePopup, optionsVars
<1>2. \/ stored' = stored
      \/ \E mode : stored' = [stored EXCEPT !.lastMode = mode]
      \/ \E c : stored' = [stored EXCEPT !.lastError = c]
    BY DEF Command, Click, Begins, Rereads, Uploads, Succeeds, Collapses, Cancelled, OpenPopup,
           ReadsLastError, ClearsFailureFlag, Answered, ClosePopup, Flag, Unflag
<1>3. SameStore
    BY <1>2 DEF TokenInv, StoreGranted, IsStored, SameStore
<1> QED
    BY <1>1, <1>3, ElsewhereOptions

LEMMA OptionsStart == ExtInit => OptionsInv
<1> SUFFICES ASSUME ExtInit PROVE OptionsInv
    OBVIOUS
<1>1. \A h \in Handlers : task[h] = NoTask
    BY DEF ExtInit
<1>2. Queue
    BY <1>1 DEF Queue, InTurn, Pending, NoTask
<1>3. FormFits /\ ~form.ready /\ form.told = ""
    BY <1>1 DEF ExtInit, FormFits, FormFields
<1>4. \A h \in Handlers : ~Pending(h) /\ task[h].step = "none"
    BY <1>1 DEF Pending, NoTask
<1>5. SavedFits /\ LostFirst
    BY <1>3, <1>4 DEF SavedFits, LostFirst, Saving
<1>6. SwitchFits
    BY <1>3, <1>4 DEF SwitchFits, Switching, Alternate, LastIsShown, FirstIsNew, AllAreStored
<1> QED
    BY <1>2, <1>3, <1>5, <1>6 DEF OptionsInv

LEMMA OptionsNext == TokenInv /\ OptionsInv /\ [ExtNext]_extVars => OptionsInv'
<1> SUFFICES ASSUME TokenInv, OptionsInv, [ExtNext]_extVars PROVE OptionsInv'
    OBVIOUS
<1>1. CASE UNCHANGED extVars
    BY <1>1, ElsewhereOptions DEF extVars, optionsVars, SameStore
<1>2. CASE OpenOptions \/ FillFails \/ Types \/ Unreadable \/ Fill
    BY <1>2, FormOptions, FillOptions
<1>3. CASE Save \/ Test
    <2>1. stored' = stored /\ crossed' = crossed
        BY <1>3 DEF Save, Test
    <2>2. AsksAccess("save", "saving") \/ AsksAccess("test", "testing")
        BY <1>3 DEF Save, Test
    <2> QED
        BY <2>1, <2>2, AsksOptions
<1>4. CASE SwitchSuggestions
    BY <1>4, SwitchOptions
<1>5. CASE \E h \in Handlers : \/ Allowed(h) \/ Denied(h) \/ Store(h) \/ StoreFails(h)
                               \/ Stored(h) \/ NotStored(h) \/ Pinged(h)
    BY <1>5, AllowedOptions, IdlesEndOptions, StoreOptions, StoreFailsOptions, StoredOptions,
       NotStoredOptions
<1>6. CASE \/ \E mode \in Modes : Command(mode) \/ Click(mode)
           \/ \E c \in CaptureIds : \/ Rereads(c) \/ Uploads(c) \/ Succeeds(c)
                                    \/ Collapses(c) \/ Cancelled(c)
           \/ OpenPopup \/ ReadsLastError \/ ClearsFailureFlag \/ Answered \/ ClosePopup
    BY <1>6, CapturesOptions
<1> QED
    BY <1>1, <1>2, <1>3, <1>4, <1>5, <1>6 DEF ExtNext

(* The inductive invariant of the options page.                                *)
THEOREM WritesTakeTurns == ExtSpec => []OptionsInv
<1>1. ExtInit => OptionsInv
    BY OptionsStart
<1>2. TokenInv /\ OptionsInv /\ [ExtNext]_extVars => OptionsInv'
    BY OptionsNext
<1> QED
    BY <1>1, <1>2, SettingsTravelTogether, PTL DEF ExtSpec

(* With no write under way the options page names the server that is stored    *)
(* and its switch stands as stored, however many were pressed and whichever    *)
(* failed alone (options.ts).                                                  *)
THEOREM PageTellsWhatIsStored == ExtSpec => []OptionsShowWhatIsStored
<1>1. OptionsInv => OptionsShowWhatIsStored
    BY DEF OptionsInv, Queue, InTurn, Doomed, SwitchFits, AllAreStored, SavedFits, Saving, Switching,
           Pending, AtRest, OptionsShowWhatIsStored
<1> QED
    BY <1>1, WritesTakeTurns, PTL

-----------------------------------------------------------------------------
(* Geometry: which rows a tile leaves on the composite.                      *)

(* CSS rows in device pixels, by the product alone. *)
LEMMA PxOf ==
    ASSUME NEW c \in Int, NEW z \in Int, z = c * Scale
    PROVE  Px(c) \in Int /\ 4 * Px(c) <= z + 2 /\ z + 2 <= 4 * Px(c) + 3
<1>1. Scale \in Int
    BY GeometryAssumption
<1>2. 2 * c * Scale = 2 * z
    BY <1>1
<1>3. Px(c) = (2 * z + 4) \div 8
    BY <1>2 DEF Px
<1> QED
    BY <1>3

(* A snapshot is less than a row off the viewport it shows, and has a row. *)
LEMMA SnapshotIs ==
    ASSUME NEW s \in SnapshotHeights, NEW w \in Int, w = ViewportHeight * Scale
    PROVE  s \in Int /\ s >= 1 /\ 4 * s <= w + 3 /\ w <= 4 * s + 3
<1>1. w >= 4
    BY GeometryAssumption
<1>2. s = w \div 4 \/ s = (w + 3) \div 4
    BY DEF SnapshotHeights
<1> QED
    BY <1>1, <1>2

LEMMA Quotient ==
    ASSUME NEW a \in Nat, NEW b \in Nat \ {0}
    PROVE  /\ a \div b \in Nat /\ (a \div b) * b <= a /\ a < (a \div b) * b + b
<1>1. a \div b \in Nat
    OBVIOUS
<1>2. b \in Nat /\ b > 0
    OBVIOUS
<1>3. (a \div b) * b <= a
    BY <1>2, SMTT(30)
<1>4. a < (a \div b) * b + b
    BY <1>2, SMTT(30)
<1> QED
    BY <1>1, <1>3, <1>4

(* The tiles of a plan: a viewport apart, up to the height that is captured. *)
LEMMA PlanIs ==
    ASSUME NEW D \in Nat \ {0}
    PROVE  \E H \in Nat \ {0}, n \in Nat \ {0} :
             /\ H <= D /\ (n - 1) * ViewportHeight < H /\ H <= n * ViewportHeight
             /\ PlanTiles(D).canvasHeight = Px(H) /\ Len(PlanTiles(D).tiles) = n
             /\ \A i \in 1..n : PlanTiles(D).tiles[i] =
                  [scrollY |-> Min({(i - 1) * ViewportHeight, MaxScroll(D)}),
                   destY |-> (i - 1) * ViewportHeight,
                   height |-> Min({ViewportHeight, H - (i - 1) * ViewportHeight})]
<1> DEFINE H == Max({1, Min({D, CssHeightCap})})
           n == (H + ViewportHeight - 1) \div ViewportHeight
           TileAt(i) == [scrollY |-> Min({(i - 1) * ViewportHeight, MaxScroll(D)}),
                         destY |-> (i - 1) * ViewportHeight,
                         height |-> Min({ViewportHeight, H - (i - 1) * ViewportHeight})]
<1>1. ViewportHeight \in Nat \ {0} /\ Scale \in Nat \ {0} /\ MaxHeightPx \in Nat \ {0}
    BY GeometryAssumption
<1>2. PICK cap \in Int : cap = CssHeightCap
    <2> DEFINE d == (4 * MaxHeightPx) \div Scale
    <2>1. 1 \in Int /\ d \in Int
        BY <1>1
    <2>2. CssHeightCap = Max({1, d})
        BY Zenon DEF CssHeightCap
    <2> HIDE DEF d
    <2>3. Max({1, d}) \in {1, d}
        BY <2>1, MaxOfTwo
    <2> QED
        BY <2>1, <2>2, <2>3
<1>3. PICK m \in Int : m = Min({D, cap}) /\ m <= D
    BY MinOfTwo
<1>4. H \in Nat \ {0} /\ H <= D
    <2>1. Max({1, m}) \in {1, m} /\ Max({1, m}) >= 1
        BY MaxOfTwo
    <2>2. H = Max({1, m})
        BY <1>2, <1>3
    <2> HIDE DEF H
    <2> QED
        BY <1>3, <2>1, <2>2
<1> HIDE DEF H
<1>5. n \in Nat \ {0} /\ (n - 1) * ViewportHeight < H /\ H <= n * ViewportHeight
    <2>1. PICK a \in Nat : a = H + ViewportHeight - 1
        BY <1>1, <1>4
    <2>2. PICK v \in Nat \ {0} : v = ViewportHeight
        BY <1>1
    <2>3. n = a \div v
        BY <2>1, <2>2
    <2>4. n \in Nat /\ n * v <= a /\ a < n * v + v
        BY <2>3, Quotient
    <2> HIDE DEF n
    <2>5. n # 0
        BY <1>4, <2>1, <2>2, <2>4
    <2>6. (n - 1) * v = n * v - v
        BY <2>2, <2>4
    <2>7. n * v \in Int
        BY <2>2, <2>4
    <2> QED
        BY <1>4, <2>1, <2>2, <2>4, <2>5, <2>6, <2>7
<1>6. PlanTiles(D) = [canvasHeight |-> Px(H), tiles |-> [i \in 1..n |-> TileAt(i)]]
    BY Zenon DEF PlanTiles, H, n
<1> HIDE DEF n
<1>7. PICK ts : ts = [i \in 1..n |-> TileAt(i)]
    OBVIOUS
<1>8. PlanTiles(D) = [canvasHeight |-> Px(H), tiles |-> ts]
    BY <1>6, <1>7
<1>9. Len(ts) = n /\ \A i \in 1..n : ts[i] = TileAt(i)
    <2> HIDE DEF TileAt
    <2> QED
        BY <1>5, <1>7
<1> HIDE DEF TileAt
<1>10. /\ PlanTiles(D).canvasHeight = Px(H) /\ Len(PlanTiles(D).tiles) = n
       /\ \A i \in 1..n : PlanTiles(D).tiles[i] = TileAt(i)
    BY <1>8, <1>9
<1> QED
    BY <1>4, <1>5, <1>10 DEF TileAt

(* Of a plan for a document of height D, of which H rows make n tiles. *)
Planned(D, H, n) ==
    /\ D \in Nat \ {0} /\ H \in Nat \ {0} /\ n \in Nat \ {0}
    /\ H <= D /\ (n - 1) * ViewportHeight < H /\ H <= n * ViewportHeight

(* Tile k starts at y, is taken at a and ends at e. *)
Placed(D, H, n, k, y, a, e) ==
    /\ 0 <= y /\ y < H /\ a <= y /\ y < e /\ e <= H
    /\ k < n => a = y /\ e = y + ViewportHeight /\ e = k * ViewportHeight
    /\ k = n => e = H
    /\ a = y \/ (k = n /\ a = D - ViewportHeight)
    /\ Min({y + Min({ViewportHeight, H - y}), a + ViewportHeight}) = e

LEMMA TilePlace ==
    ASSUME NEW D, NEW H, NEW n, Planned(D, H, n), NEW k \in 1..n,
           NEW y \in Int, y = (k - 1) * ViewportHeight,
           NEW a, a = Min({y, MaxScroll(D)}), NEW e, e = Min({y + ViewportHeight, H})
    PROVE  a \in Int /\ e \in Int /\ Placed(D, H, n, k, y, a, e)
<1>1. PICK v \in Nat \ {0} : v = ViewportHeight
    BY GeometryAssumption
<1>2. D \in Nat \ {0} /\ H \in Nat \ {0} /\ n \in Nat \ {0} /\ k \in Nat \ {0} /\ k <= n
    BY DEF Planned
<1>3. PICK l \in Int : l = (n - 1) * v
    BY <1>1, <1>2
<1>4. l < H /\ H <= l + v /\ H <= D
    <2>1. n * v = l + v
        BY <1>1, <1>2, <1>3
    <2>2. H <= n * v /\ l < H /\ H <= D
        BY <1>1, <1>3 DEF Planned
    <2> QED
        BY <2>1, <2>2
<1>5. 0 <= y /\ y <= l /\ (k < n => y + v <= l) /\ (k = n => y = l) /\ (y = 0 \/ y >= v)
      /\ k * v = y + v
    <2>1. y = (k - 1) * v
        BY <1>1
    <2>2. (k - 1) * v >= 0 /\ (k = 1 => y = 0)
        BY <1>1, <1>2, <2>1
    <2>3. k > 1 => (k - 1) * v >= v
        BY <1>1, <1>2
    <2>4. PICK d \in Nat : d = n - k
        BY <1>2
    <2>5. l = y + d * v
        BY <1>1, <1>2, <1>3, <2>1, <2>4
    <2>6. d * v >= 0 /\ (d >= 1 => d * v >= v) /\ (d = 0 => d * v = 0) /\ d * v \in Int
        BY <1>1, <2>4
    <2>7. k * v = (k - 1) * v + v
        BY <1>1, <1>2
    <2> QED
        BY <1>1, <1>2, <1>3, <2>1, <2>2, <2>3, <2>4, <2>5, <2>6, <2>7
<1>6. PICK m \in Int : m = MaxScroll(D) /\ m >= 0 /\ (m = D - v \/ (m = 0 /\ D <= v))
    <2>1. PICK x \in Int : x = D - v
        BY <1>1, <1>2
    <2>2. MaxScroll(D) = Max({0, x})
        BY <1>1, <2>1, Zenon DEF MaxScroll
    <2>3. Max({0, x}) \in {0, x} /\ Max({0, x}) >= 0 /\ Max({0, x}) >= x
        <3>1. 0 \in Int /\ x \in Int
            OBVIOUS
        <3> QED
            BY <3>1, MaxOfTwo
    <2> QED
        BY <1>1, <1>2, <2>1, <2>2, <2>3
<1>7. a \in {y, m} /\ a <= y /\ a <= m
    BY <1>6, MinOfTwo
<1>8. PICK b \in Int : b = y + v
    BY <1>1
<1>9. e \in {b, H} /\ e <= b /\ e <= H
    <2>1. e = Min({b, H}) /\ H \in Int
        BY <1>1, <1>2, <1>8
    <2> QED
        BY <2>1, MinOfTwo
<1>10. a \in Int /\ e \in Int
    BY <1>2, <1>6, <1>7, <1>8, <1>9
<1>11. a = y \/ (k = n /\ a = D - v)
    BY <1>1, <1>2, <1>4, <1>5, <1>6, <1>7, <1>3
<1>12. /\ 0 <= y /\ y < H /\ a <= y /\ y < e /\ e <= H
       /\ k < n => a = y /\ e = b /\ e = k * v
       /\ k = n => e = H
    BY <1>1, <1>2, <1>3, <1>4, <1>5, <1>7, <1>8, <1>9, <1>10, <1>11
<1>13. PICK x \in Int : x = H - y
    BY <1>2
<1>14. PICK g \in Int : g = Min({v, x}) /\ g \in {v, x} /\ g <= v /\ g <= x
    <2>1. v \in Int /\ x \in Int
        BY <1>1
    <2>2. Min({v, x}) \in {v, x} /\ Min({v, x}) <= v /\ Min({v, x}) <= x
        BY <2>1, MinOfTwo
    <2> QED
        BY <2>1, <2>2
<1>15. PICK i \in Int : i = y + g
    BY <1>14
<1>16. PICK j \in Int : j = a + v
    BY <1>1, <1>10
<1>17. Min({i, j}) \in {i, j} /\ Min({i, j}) <= i /\ Min({i, j}) <= j
    BY MinOfTwo
<1>18. Min({i, j}) = e
    BY <1>1, <1>2, <1>4, <1>5, <1>8, <1>9, <1>10, <1>11, <1>12, <1>13, <1>14, <1>15, <1>16, <1>17
<1>19. Min({y + Min({v, H - y}), a + v}) = e
    BY <1>13, <1>14, <1>15, <1>16, <1>18
<1> QED
    BY <1>1, <1>8, <1>10, <1>11, <1>12, <1>19 DEF Placed

(* Rows further down are rows further down the image. *)
LEMMA PxGrows ==
    ASSUME NEW c \in Int, NEW d \in Int, c <= d
    PROVE  Px(c) <= Px(d)
<1>1. PICK s \in Nat : s = Scale
    BY GeometryAssumption
<1>2. PICK z \in Int : z = c * s
    BY <1>1
<1>3. PICK w \in Int : w = d * s
    BY <1>1
<1>4. z <= w
    <2>1. PICK x \in Nat : x = d - c
        OBVIOUS
    <2>2. w = z + x * s /\ x * s >= 0 /\ x * s \in Int
        BY <1>1, <1>2, <1>3, <2>1
    <2> QED
        BY <2>2
<1>5. Px(c) \in Int /\ 4 * Px(c) <= z + 2
    BY <1>1, <1>2, PxOf
<1>6. Px(d) \in Int /\ w + 2 <= 4 * Px(d) + 3
    BY <1>1, <1>3, PxOf
<1> QED
    BY <1>4, <1>5, <1>6

(* What is between the start of a tile and its end, in device pixels. *)
LEMMA PxAt ==
    ASSUME NEW c \in Int
    PROVE  \E z \in Int : /\ z = c * Scale /\ Px(c) \in Int
                          /\ 4 * Px(c) <= z + 2 /\ z <= 4 * Px(c) + 1
<1>1. PICK z \in Int : z = c * Scale
    BY GeometryAssumption
<1>2. Px(c) \in Int /\ 4 * Px(c) <= z + 2 /\ z + 2 <= 4 * Px(c) + 3
    BY <1>1, PxOf
<1> QED
    BY <1>1, <1>2

LEMMA PxOfNone == Px(0) = 0
<1>1. 0 \in Int /\ 0 = 0 * Scale
    BY GeometryAssumption
<1>2. Px(0) \in Int /\ 4 * Px(0) <= 2 /\ 2 <= 4 * Px(0) + 3
    BY <1>1, PxOf
<1> QED
    BY <1>2

(* The last tile ends where the image does, or two rows short of it. *)
LEMMA LastTileCovers ==
    ASSUME NEW D \in Nat, NEW H \in Nat, H <= D, NEW y \in Int, NEW a \in Int,
           a = y \/ a = D - ViewportHeight, a <= y, H <= y + ViewportHeight,
           NEW iH \in SnapshotHeights, NEW C \in Int, C = Px(H), NEW Q \in Int, Q = Px(y),
           NEW s \in Int, s = Px(y - a)
    PROVE  C - Q <= iH - s + 2
<1>1. PICK S \in Nat \ {0} : S = Scale
    BY GeometryAssumption
<1>2. PICK v \in Nat \ {0} : v = ViewportHeight
    BY GeometryAssumption
<1>3. PICK w \in Int : w = v * S
    BY <1>1, <1>2
<1>4. iH \in Int /\ w <= 4 * iH + 3
    BY <1>1, <1>2, <1>3, SnapshotIs
<1>5. PICK z \in Int : z = H * S /\ 4 * C <= z + 2
    BY <1>1, PxAt
<1>6. PICK u \in Int : u = y * S /\ u <= 4 * Q + 1
    BY <1>1, PxAt
<1>7. CASE a = y
    <2>1. s = 0
        BY <1>7, PxOfNone
    <2>2. z <= u + w
        <3>1. PICK x \in Nat : x = y + v - H
            BY <1>2
        <3>2. u + w = z + x * S /\ x * S >= 0 /\ x * S \in Int
            BY <1>1, <1>2, <1>3, <1>5, <1>6, <3>1
        <3> QED
            BY <3>2
    <2> QED
        BY <1>4, <1>5, <1>6, <2>1, <2>2
<1>8. CASE a = D - v
    <2>1. PICK o \in Int : o = y - a
        OBVIOUS
    <2>2. PICK t \in Int : t = o * S /\ 4 * s <= t + 2
        BY <1>1, <2>1, PxAt
    <2>3. z <= u + w - t
        <3>1. PICK x \in Nat : x = D - H
            OBVIOUS
        <3>2. o = y + v - D
            BY <1>2, <1>8, <2>1
        <3>3. D = H + x
            BY <3>1
        <3>4. t = u + w - z - x * S /\ x * S >= 0 /\ x * S \in Int
            BY <1>1, <1>2, <1>3, <1>5, <1>6, <2>2, <3>1, <3>2, <3>3
        <3> QED
            BY <2>2, <3>4
    <2> QED
        BY <1>4, <1>5, <1>6, <2>2, <2>3
<1> QED
    BY <1>2, <1>7, <1>8

(* A tile the page could scroll to is at most a row short of the next. *)
LEMMA InnerTileCovers ==
    ASSUME NEW y \in Int, NEW e \in Int, e = y + ViewportHeight, NEW iH \in SnapshotHeights
    PROVE  1 <= Px(e) - Px(y) /\ Px(e) - Px(y) <= iH + 1
<1>1. PICK S \in Nat \ {0} : S = Scale
    BY GeometryAssumption
<1>2. PICK v \in Nat \ {0} : v = ViewportHeight
    BY GeometryAssumption
<1>3. PICK w \in Int : w = v * S
    BY <1>1, <1>2
<1>4. iH \in Int /\ w <= 4 * iH + 3 /\ w >= 4
    BY <1>1, <1>2, <1>3, SnapshotIs, GeometryAssumption
<1>5. PICK u \in Int : u = y * S /\ Px(y) \in Int /\ 4 * Px(y) <= u + 2 /\ u <= 4 * Px(y) + 1
    BY <1>1, PxAt
<1>6. PICK z \in Int : z = e * S /\ Px(e) \in Int /\ 4 * Px(e) <= z + 2 /\ z <= 4 * Px(e) + 1
    BY <1>1, PxAt
<1>7. z = u + w
    BY <1>1, <1>2, <1>3, <1>5, <1>6
<1> QED
    BY <1>4, <1>5, <1>6, <1>7

(* Where a short tile is followed by a last one of which the snapshot has no *)
(* row, there was but one row to have.                                       *)
LEMMA NothingLeft ==
    ASSUME NEW H \in Nat, NEW y \in Int, NEW e \in Int, NEW o \in Int,
           e = y + ViewportHeight, H + o <= e + ViewportHeight,
           NEW iH \in SnapshotHeights, Px(e) - Px(y) > iH, iH <= Px(o)
    PROVE  Px(H) <= Px(e) + 1
<1>1. PICK S \in Nat \ {0} : S = Scale
    BY GeometryAssumption
<1>2. PICK v \in Nat \ {0} : v = ViewportHeight
    BY GeometryAssumption
<1>3. PICK w \in Int : w = v * S
    BY <1>1, <1>2
<1>4. iH \in Int /\ w <= 4 * iH + 3
    BY <1>1, <1>2, <1>3, SnapshotIs
<1>5. PICK z \in Int : z = H * S /\ Px(H) \in Int /\ 4 * Px(H) <= z + 2
    <2>1. H \in Int
        OBVIOUS
    <2> QED
        BY <1>1, <2>1, PxAt
<1>6. PICK u \in Int : u = y * S /\ Px(y) \in Int /\ u <= 4 * Px(y) + 1
    BY <1>1, PxAt
<1>7. PICK q \in Int : q = e * S /\ Px(e) \in Int /\ 4 * Px(e) <= q + 2
    BY <1>1, PxAt
<1>8. PICK t \in Int : t = o * S /\ Px(o) \in Int /\ 4 * Px(o) <= t + 2
    BY <1>1, PxAt
<1>9. q = u + w
    BY <1>1, <1>2, <1>3, <1>6, <1>7
<1>10. z <= q + w - t
    <2>1. PICK x \in Nat : x = e + v - o - H
        BY <1>2
    <2>2. q + w = z + t + x * S /\ x * S >= 0 /\ x * S \in Int
        BY <1>1, <1>2, <1>3, <1>5, <1>7, <1>8, <2>1
    <2> QED
        BY <1>3, <1>5, <1>7, <1>8, <2>2
<1> QED
    BY <1>4, <1>5, <1>6, <1>7, <1>8, <1>9, <1>10

(* Tile k of a plan, and what it leaves of a snapshot of iH rows. *)
TileLeaves(D, H, n, iH, k, y, a, e, dh, rect) ==
    /\ y = (k - 1) * ViewportHeight /\ Placed(D, H, n, k, y, a, e)
    /\ dh \in {Px(e) - Px(y), iH - Px(y - a)}
    /\ dh <= Px(e) - Px(y) /\ dh <= iH - Px(y - a)
    /\ rect = IF dh <= 0 THEN NoRect ELSE [dy |-> Px(y), sy |-> Px(y - a), dh |-> dh]

LEMMA TileIs ==
    ASSUME NEW D, NEW H, NEW n, Planned(D, H, n), NEW iH \in Int, NEW k \in 1..n, NEW tile,
           tile = [scrollY |-> Min({(k - 1) * ViewportHeight, MaxScroll(D)}),
                   destY |-> (k - 1) * ViewportHeight,
                   height |-> Min({ViewportHeight, H - (k - 1) * ViewportHeight})]
    PROVE  \E y \in Int, a \in Int, e \in Int, dh \in Int :
             TileLeaves(D, H, n, iH, k, y, a, e, dh, DrawRectFor(tile, tile.scrollY, Px(H), iH))
<1>1. PICK v \in Nat \ {0} : v = ViewportHeight
    BY GeometryAssumption
<1>2. PICK y \in Int : y = (k - 1) * v
    BY <1>1 DEF Planned
<1>3. PICK H0 \in Nat : H0 = H
    BY DEF Planned
<1>4. PICK a0 : a0 = Min({y, MaxScroll(D)})
    OBVIOUS
<1>5. PICK e0 : e0 = Min({y + v, H})
    OBVIOUS
<1>6. a0 \in Int /\ e0 \in Int /\ Placed(D, H, n, k, y, a0, e0)
    BY <1>1, <1>2, <1>4, <1>5, TilePlace
<1>7. PICK a \in Int : a = a0
    BY <1>6
<1>8. PICK e \in Int : e = e0
    BY <1>6
<1>9. PICK g \in Int : g = Min({v, H - y})
    <2>1. PICK x \in Int : x = H - y
        BY <1>3
    <2>2. v \in Int
        BY <1>1
    <2> QED
        BY <2>1, <2>2, MinOfTwo
<1>10. a <= y /\ y < e /\ e <= H0 /\ Min({y + g, a + v}) = e
    BY <1>1, <1>3, <1>6, <1>7, <1>8, <1>9 DEF Placed
<1>11. tile.destY = y /\ tile.height = g /\ tile.scrollY = a
    BY <1>1, <1>2, <1>4, <1>7, <1>9
<1>12. Max({y, a}) = y
    <2>1. Max({y, a}) \in {y, a} /\ Max({y, a}) >= y
        BY MaxOfTwo
    <2> QED
        BY <1>10, <2>1
<1>13. PICK p \in Int : p = Px(e)
    BY PxAt
<1>14. PICK c \in Int : c = Px(H0)
    <2>1. H0 \in Int
        OBVIOUS
    <2> QED
        BY <2>1, PxAt
<1>15. PICK dy \in Int : dy = Px(y)
    BY PxAt
<1>16. PICK o \in Int : o = y - a
    OBVIOUS
<1>17. PICK sy \in Int : sy = Px(o)
    BY PxAt
<1>18. Min({p, c}) = p
    <2>1. H0 \in Int
        OBVIOUS
    <2>2. p <= c
        BY <1>10, <1>13, <1>14, <2>1, PxGrows
    <2>3. Min({p, c}) \in {p, c} /\ Min({p, c}) <= p
        BY MinOfTwo
    <2> QED
        BY <2>2, <2>3
<1>19. PICK u \in Int : u = p - dy
    OBVIOUS
<1>20. PICK w \in Int : w = iH - sy
    OBVIOUS
<1>21. PICK dh : dh = Min({u, w})
    OBVIOUS
<1>22. dh \in {u, w} /\ dh <= u /\ dh <= w
    BY <1>21, MinOfTwo
<1>23. DrawRectFor(tile, a, c, iH) =
         LET top == Max({y, a})
             bottom == Min({y + g, a + v})
             d == Px(top)
             q == Px(top - a)
             h == Min({Min({Px(bottom), c}) - d, iH - q})
         IN IF bottom <= top \/ h <= 0 THEN NoRect ELSE [dy |-> d, sy |-> q, dh |-> h]
    BY <1>1, <1>11, Zenon DEF DrawRectFor
<1>24. DrawRectFor(tile, a, c, iH) =
         LET h == Min({Min({p, c}) - dy, iH - sy})
         IN IF e <= y \/ h <= 0 THEN NoRect ELSE [dy |-> dy, sy |-> sy, dh |-> h]
    BY <1>10, <1>12, <1>13, <1>15, <1>16, <1>17, <1>23
<1>25. DrawRectFor(tile, a, c, iH) = IF dh <= 0 THEN NoRect ELSE [dy |-> dy, sy |-> sy, dh |-> dh]
    <2>1. Min({Min({p, c}) - dy, iH - sy}) = dh
        BY <1>18, <1>19, <1>20, <1>21
    <2>2. ~(e <= y)
        BY <1>10
    <2> QED
        BY <1>24, <2>1, <2>2
<1>26. DrawRectFor(tile, tile.scrollY, Px(H), iH)
         = IF dh <= 0 THEN NoRect ELSE [dy |-> Px(y), sy |-> Px(y - a), dh |-> dh]
    BY <1>3, <1>11, <1>14, <1>15, <1>16, <1>17, <1>25, Zenon
<1>27. dh \in {Px(e) - Px(y), iH - Px(y - a)} /\ dh <= Px(e) - Px(y) /\ dh <= iH - Px(y - a)
    BY <1>13, <1>15, <1>16, <1>17, <1>19, <1>20, <1>22, Zenon
<1>28. TileLeaves(D, H, n, iH, k, y, a, e, dh, DrawRectFor(tile, tile.scrollY, Px(H), iH))
    BY <1>1, <1>2, <1>6, <1>7, <1>8, <1>26, <1>27, Zenon DEF TileLeaves
<1>29. dh \in Int
    BY <1>22
<1> QED
    BY <1>28, <1>29

RowsOf(rect) == rect.dy .. (rect.dy + rect.dh - 1)

(* What becomes of a row of an image of plan P, of snapshots of iH rows. *)
Reached(P, iH, row) ==
    \/ row >= P.canvasHeight - 2
    \/ \E k \in 1..Len(P.tiles) :
         LET rect == DrawRectFor(P.tiles[k], P.tiles[k].scrollY, P.canvasHeight, iH)
         IN rect # NoRect /\ (row \in RowsOf(rect) \/ rect.dy = row + 1)

(* Every row of the image is one a tile leaves, the one before such rows, or *)
(* one of the last two.                                                      *)
LEMMA TilesCover ==
    ASSUME NEW D \in Nat \ {0}, NEW P, P = PlanTiles(D), NEW iH \in SnapshotHeights,
           NEW row \in Nat, row < P.canvasHeight
    PROVE  Reached(P, iH, row)
<1> USE DEF Reached
<1>1. iH \in Int /\ iH >= 1
    <2>1. PICK w \in Int : w = ViewportHeight * Scale
        BY GeometryAssumption
    <2> QED
        BY <2>1, SnapshotIs
<1>2. \E H \in Nat \ {0}, n \in Nat \ {0} :
         /\ Planned(D, H, n) /\ P.canvasHeight = Px(H) /\ Len(P.tiles) = n
         /\ \A i \in 1..n : P.tiles[i] =
              [scrollY |-> Min({(i - 1) * ViewportHeight, MaxScroll(D)}),
               destY |-> (i - 1) * ViewportHeight,
               height |-> Min({ViewportHeight, H - (i - 1) * ViewportHeight})]
    BY PlanIs, Zenon DEF Planned
<1>3. PICK H \in Nat \ {0} : \E n \in Nat \ {0} :
         /\ Planned(D, H, n) /\ P.canvasHeight = Px(H) /\ Len(P.tiles) = n
         /\ \A i \in 1..n : P.tiles[i] =
              [scrollY |-> Min({(i - 1) * ViewportHeight, MaxScroll(D)}),
               destY |-> (i - 1) * ViewportHeight,
               height |-> Min({ViewportHeight, H - (i - 1) * ViewportHeight})]
    BY <1>2, Zenon
<1>4. PICK n \in Nat \ {0} :
         /\ Planned(D, H, n) /\ P.canvasHeight = Px(H) /\ Len(P.tiles) = n
         /\ \A i \in 1..n : P.tiles[i] =
              [scrollY |-> Min({(i - 1) * ViewportHeight, MaxScroll(D)}),
               destY |-> (i - 1) * ViewportHeight,
               height |-> Min({ViewportHeight, H - (i - 1) * ViewportHeight})]
    BY <1>3, Zenon
<1> DEFINE Rect(k) == DrawRectFor(P.tiles[k], P.tiles[k].scrollY, P.canvasHeight, iH)
<1>5. ASSUME NEW k \in 1..n
      PROVE  \E y \in Int, a \in Int, e \in Int, dh \in Int :
               TileLeaves(D, H, n, iH, k, y, a, e, dh, Rect(k))
    <2>1. PICK tile : tile = P.tiles[k]
        OBVIOUS
    <2>2. tile = [scrollY |-> Min({(k - 1) * ViewportHeight, MaxScroll(D)}),
                  destY |-> (k - 1) * ViewportHeight,
                  height |-> Min({ViewportHeight, H - (k - 1) * ViewportHeight})]
        BY <1>4, <2>1
    <2>3. Rect(k) = DrawRectFor(tile, tile.scrollY, Px(H), iH)
        BY <1>4, <2>1, Zenon
    <2>4. Planned(D, H, n)
        BY <1>4
    <2> HIDE DEF Rect
    <2>5. \E y \in Int, a \in Int, e \in Int, dh \in Int :
             TileLeaves(D, H, n, iH, k, y, a, e, dh, DrawRectFor(tile, tile.scrollY, Px(H), iH))
        BY <1>1, <2>2, <2>4, TileIs, Zenon
    <2> QED
        BY <2>3, <2>5, Zenon
<1>6. PICK C \in Int : C = Px(H) /\ C = P.canvasHeight
    BY <1>4, PxAt
<1> SUFFICES ASSUME row < C - 2
             PROVE  \E k \in 1..n : Rect(k) # NoRect /\ (row \in RowsOf(Rect(k)) \/ Rect(k).dy = row + 1)
    <2>1. Len(P.tiles) = n
        BY <1>4
    <2> HIDE DEF Rect
    <2>2. CASE ~(row < C - 2)
        BY <1>6, <2>2
    <2>3. CASE row < C - 2
        <3>1. \E k \in 1..n : Rect(k) # NoRect /\ (row \in RowsOf(Rect(k)) \/ Rect(k).dy = row + 1)
            BY <2>3
        <3> QED
            BY <2>1, <3>1, Zenon DEF Rect
    <2> QED
        BY <2>2, <2>3
<1> HIDE DEF Rect
<1> DEFINE Starts == {k \in 1..n : Px((k - 1) * ViewportHeight) <= row}
<1>7. PICK k \in Starts : \A j \in Starts : k >= j
    <2>1. IsFiniteSet(Starts) /\ Starts \in SUBSET Nat
        <3>1. IsFiniteSet(1..n)
            BY FS_Interval
        <3>2. Starts \in SUBSET (1..n) /\ Starts \in SUBSET Nat
            OBVIOUS
        <3> HIDE DEF Starts
        <3>3. IsFiniteSet(Starts)
            BY <3>1, <3>2, FS_Subset, Zenon
        <3> QED
            BY <3>2, <3>3
    <2>2. 1 \in Starts
        <3>1. 1 \in 1..n
            OBVIOUS
        <3>2. (1 - 1) * ViewportHeight = 0
            BY GeometryAssumption
        <3> QED
            BY <3>1, <3>2, PxOfNone
    <2> HIDE DEF Starts
    <2> QED
        BY <2>1, <2>2, GreatestOf
<1>8. k \in 1..n /\ (k < n => ~(Px(k * ViewportHeight) <= row))
    <2>1. k \in 1..n
        OBVIOUS
    <2>2. ASSUME k < n, Px(k * ViewportHeight) <= row PROVE FALSE
        <3>1. PICK j \in 1..n : j = k + 1
            BY <2>1, <2>2
        <3>2. j - 1 = k
            BY <2>1, <3>1
        <3>3. j \in Starts
            BY <2>2, <3>2
        <3> HIDE DEF Starts
        <3> QED
            BY <1>7, <2>1, <3>1, <3>3
    <2> QED
        BY <2>1, <2>2
<1>9. PICK y \in Int : \E a \in Int, e \in Int, dh \in Int :
         TileLeaves(D, H, n, iH, k, y, a, e, dh, Rect(k))
    BY <1>5, <1>8
<1>10. PICK a \in Int, e \in Int, dh \in Int : TileLeaves(D, H, n, iH, k, y, a, e, dh, Rect(k))
    BY <1>9
<1>11. PICK p \in Int : p = Px(y) /\ p <= row
    <2>1. y = (k - 1) * ViewportHeight
        BY <1>10 DEF TileLeaves
    <2>2. Px(y) <= row
        BY <2>1
    <2> QED
        BY <2>2, PxAt
<1>12. PICK q \in Int : q = Px(e)
    BY PxAt
<1>13. PICK o \in Int : o = y - a
    OBVIOUS
<1>14. PICK s \in Int : s = Px(o)
    BY PxAt
<1>15. /\ dh \in {q - p, iH - s} /\ Placed(D, H, n, k, y, a, e)
       /\ Rect(k) = IF dh <= 0 THEN NoRect ELSE [dy |-> p, sy |-> s, dh |-> dh]
    BY <1>10, <1>11, <1>12, <1>13, <1>14 DEF TileLeaves
<1>16. ASSUME dh > 0, row < p + dh PROVE Rect(k) # NoRect /\ row \in RowsOf(Rect(k))
    <2>1. Rect(k) = [dy |-> p, sy |-> s, dh |-> dh]
        BY <1>15, <1>16
    <2>2. Rect(k) # NoRect
        BY <1>16, <2>1 DEF NoRect
    <2>3. RowsOf(Rect(k)) = p .. (p + dh - 1)
        BY <2>1 DEF RowsOf
    <2> QED
        BY <1>11, <1>16, <2>2, <2>3
<1>17. CASE k = n
    <2>1. e = H /\ (a = y \/ a = D - ViewportHeight) /\ a <= y /\ H <= y + ViewportHeight /\ H <= D
        <3>1. e = H /\ (a = y \/ a = D - ViewportHeight) /\ a <= y
            BY <1>15, <1>17 DEF Placed
        <3>2. PICK v \in Nat : v = ViewportHeight
            BY GeometryAssumption
        <3>3. y = (n - 1) * v
            BY <1>10, <1>17, <3>2 DEF TileLeaves
        <3>4. n * v = y + v
            BY <3>2, <3>3
        <3>5. H <= n * v /\ H <= D
            BY <1>4, <3>2 DEF Planned
        <3> QED
            BY <3>1, <3>2, <3>4, <3>5
    <2>2. q = C
        BY <1>6, <1>12, <2>1
    <2>3. C - p <= iH - s + 2
        BY <1>6, <1>11, <1>13, <1>14, <2>1, LastTileCovers
    <2>4. dh > 0 /\ row < p + dh
        BY <1>1, <1>11, <1>15, <2>2, <2>3
    <2> QED
        BY <1>8, <1>16, <2>4
<1>18. CASE k < n
    <2>1. a = y /\ e = y + ViewportHeight /\ e = k * ViewportHeight
        BY <1>15, <1>18 DEF Placed
    <2>2. s = 0
        BY <1>13, <1>14, <2>1, PxOfNone
    <2>3. 1 <= q - p /\ q - p <= iH + 1
        BY <1>11, <1>12, <2>1, InnerTileCovers
    <2>4. row < q
        BY <1>8, <1>12, <1>18, <2>1
    <2>5. dh > 0
        BY <1>1, <1>15, <2>2, <2>3
    <2>6. CASE row < p + dh
        BY <1>8, <1>16, <2>5, <2>6
    <2>7. CASE row >= p + dh
        <3>1. row + 1 = q /\ q - p > iH
            BY <1>1, <1>15, <2>2, <2>3, <2>4, <2>7
        <3>2. PICK j \in 1..n : j = k + 1
            BY <1>8, <1>18
        <3>3. PICK y2 \in Int : \E a2 \in Int, e2 \in Int, dh2 \in Int :
                 TileLeaves(D, H, n, iH, j, y2, a2, e2, dh2, Rect(j))
            BY <1>5
        <3>4. PICK a2 \in Int, e2 \in Int, dh2 \in Int :
                 TileLeaves(D, H, n, iH, j, y2, a2, e2, dh2, Rect(j))
            BY <3>3
        <3>5. y2 = e
            <4>1. j - 1 = k
                BY <1>8, <3>2
            <4> QED
                BY <2>1, <3>4, <4>1 DEF TileLeaves
        <3>6. PICK r2 \in Int : r2 = Px(e2)
            BY PxAt
        <3>7. PICK o2 \in Int : o2 = y2 - a2
            OBVIOUS
        <3>8. PICK s2 \in Int : s2 = Px(o2)
            BY PxAt
        <3>9. /\ dh2 \in {r2 - q, iH - s2} /\ Placed(D, H, n, j, y2, a2, e2)
              /\ Rect(j) = IF dh2 <= 0 THEN NoRect ELSE [dy |-> q, sy |-> s2, dh |-> dh2]
            BY <1>12, <3>4, <3>5, <3>6, <3>7, <3>8 DEF TileLeaves
        <3>10. dh2 > 0
            <4>1. CASE j < n
                <5>1. a2 = y2 /\ e2 = y2 + ViewportHeight
                    BY <3>9, <4>1 DEF Placed
                <5>2. s2 = 0
                    BY <3>7, <3>8, <5>1, PxOfNone
                <5>3. 1 <= r2 - q
                    BY <1>12, <3>5, <3>6, <5>1, InnerTileCovers
                <5> QED
                    BY <1>1, <3>9, <5>2, <5>3
            <4>2. CASE j = n
                <5>1. e2 = H /\ (a2 = y2 \/ a2 = D - ViewportHeight)
                    BY <3>9, <4>2 DEF Placed
                <5>2. r2 = C
                    BY <1>6, <3>6, <5>1
                <5>3. r2 - q > 0
                    BY <3>1, <5>2
                <5>4. CASE a2 = y2
                    <6>1. s2 = 0
                        BY <3>7, <3>8, <5>4, PxOfNone
                    <6> QED
                        BY <1>1, <3>9, <5>3, <6>1
                <5>5. CASE a2 = D - ViewportHeight
                    <6>1. ~(iH <= s2)
                        <7> SUFFICES ASSUME iH <= s2 PROVE FALSE
                            OBVIOUS
                        <7>1. H + o2 <= e + ViewportHeight
                            <8>1. H <= D
                                BY <1>4 DEF Planned
                            <8>2. ViewportHeight \in Int
                                BY GeometryAssumption
                            <8> QED
                                BY <3>5, <3>7, <5>5, <8>1, <8>2
                        <7>2. Px(e) - Px(y) > iH /\ iH <= Px(o2) /\ H \in Nat
                            BY <1>11, <1>12, <3>1, <3>8
                        <7>3. Px(H) <= Px(e) + 1
                            BY <2>1, <7>1, <7>2, NothingLeft
                        <7> QED
                            BY <1>6, <1>12, <3>1, <7>3
                    <6> QED
                        BY <1>1, <3>9, <5>3, <6>1
                <5> QED
                    BY <5>1, <5>4, <5>5
            <4> QED
                BY <4>1, <4>2
        <3>11. Rect(j) = [dy |-> q, sy |-> s2, dh |-> dh2] /\ Rect(j) # NoRect
            BY <3>9, <3>10 DEF NoRect
        <3>12. Rect(j).dy = row + 1
            BY <3>1, <3>11
        <3> QED
            BY <3>2, <3>11, <3>12
    <2> QED
        BY <1>1, <1>11, <2>6, <2>7
<1> QED
    BY <1>8, <1>17, <1>18

(* Wherever the page is, the rows a tile leaves belong there, to the pixel. *)
LEMMA DrawnInPlace ==
    ASSUME NEW tile, tile.destY \in Int, tile.height \in Int, NEW actual \in Int,
           NEW canvas \in Int, NEW iH \in Int, NEW rect,
           rect = DrawRectFor(tile, actual, canvas, iH), rect # NoRect
    PROVE  /\ rect.dy \in Int /\ rect.sy \in Int /\ rect.dh \in Int
           /\ actual * Scale + 4 * rect.sy - 4 * rect.dy \in -4..4
<1>1. PICK S \in Nat \ {0} : S = Scale
    BY GeometryAssumption
<1>2. PICK v \in Int : v = ViewportHeight
    BY GeometryAssumption
<1>3. PICK y \in Int : y = tile.destY
    OBVIOUS
<1>4. PICK f \in Int : f = y + tile.height
    BY <1>3
<1>5. PICK t \in Int : t = Max({y, actual})
    BY MaxOfTwo
<1>6. PICK b \in Int : b = Min({f, actual + v})
    <2>1. PICK x \in Int : x = actual + v
        OBVIOUS
    <2> QED
        BY <2>1, MinOfTwo
<1>7. PICK z \in Int : z = t * S /\ Px(t) \in Int /\ 4 * Px(t) <= z + 2 /\ z <= 4 * Px(t) + 1
    BY <1>1, PxAt
<1>8. PICK o \in Int : o = t - actual
    OBVIOUS
<1>9. PICK w \in Int : w = o * S /\ Px(o) \in Int /\ 4 * Px(o) <= w + 2 /\ w <= 4 * Px(o) + 1
    BY <1>1, PxAt
<1>10. PICK m \in Int : m = Min({Px(b), canvas})
    <2>1. PICK x \in Int : x = Px(b)
        BY PxAt
    <2> QED
        BY <2>1, MinOfTwo
<1>11. PICK dy \in Int : dy = Px(t)
    BY <1>7
<1>12. PICK sy \in Int : sy = Px(o)
    BY <1>9
<1>13. PICK dh \in Int : dh = Min({m - dy, iH - sy})
    <2>1. PICK x \in Int, u \in Int : x = m - dy /\ u = iH - sy
        OBVIOUS
    <2> QED
        BY <2>1, MinOfTwo
<1>14. rect =
         LET top == t
             bottom == Min({f, actual + v})
             d == Px(top)
             q == Px(top - actual)
             h == Min({Min({Px(bottom), canvas}) - d, iH - q})
         IN IF bottom <= top \/ h <= 0 THEN NoRect ELSE [dy |-> d, sy |-> q, dh |-> h]
    BY <1>2, <1>3, <1>4, <1>5, Zenon DEF DrawRectFor
<1>15. rect = IF b <= t \/ dh <= 0 THEN NoRect ELSE [dy |-> dy, sy |-> sy, dh |-> dh]
    BY <1>6, <1>8, <1>10, <1>11, <1>12, <1>13, <1>14
<1>16. rect = [dy |-> dy, sy |-> sy, dh |-> dh]
    BY <1>15
<1>17. PICK x \in Int : x = actual * S
    BY <1>1
<1>18. z = w + x
    BY <1>1, <1>7, <1>8, <1>9, <1>17
<1>19. PICK i \in Int : i = x + 4 * sy - 4 * dy
    OBVIOUS
<1>20. -4 <= i /\ i <= 4
    BY <1>7, <1>9, <1>11, <1>12, <1>18, <1>19
<1>21. i \in -4..4
    BY <1>20
<1> QED
    BY <1>1, <1>16, <1>17, <1>19, <1>21

-----------------------------------------------------------------------------
(* The image of a capture.                                                   *)

HasAnswer(r) == r.reply # Waiting /\ r.reply # Rejected

(* A band that was drawn on a composite. *)
Bands == [dy : Int, sy : Int, dh : Int, y : Int, of : Tabs, fixed : BOOLEAN]

Painted(r) == r.landed \in Int /\ r.imageHeight \in Int /\ r.comp \in Seq(Bands)

OffsetFits(b) == b.y * Scale + 4 * b.sy - 4 * b.dy \in -4..4

(* How many of the plan's tiles are drawn, and what each was to leave. *)
DrawnUpTo(r) ==
    IF r.ok THEN Len(r.plan.tiles)
    ELSE IF r.pc = "hide" THEN 1
    ELSE IF r.pc \in {"check", "tile", "scroll"} THEN r.i - 1 ELSE 0

RectOf(r, k) ==
    DrawRectFor(r.plan.tiles[k], r.plan.tiles[k].scrollY, r.plan.canvasHeight, r.imageHeight)

Shows(comp, rect) == \E j \in 1..Len(comp) : comp[j].dy = rect.dy /\ comp[j].dh = rect.dh

(* The command a capture waits for is the last its page has queued. *)
AskedFor(f, r) ==
    [cmd |-> r.pc, y |-> IF r.pc = "scroll" THEN r.plan.tiles[r.i].scrollY ELSE 0, flow |-> f, n |-> r.n]

BeginQueued(f, r, q) ==
    /\ Len(q) > 0 /\ q[Len(q)] = AskedFor(f, r)
    /\ \A k \in 1..(Len(q) - 1) : q[k].flow # f

(* Of its commands, the one it waits for is the last in the queue; those of  *)
(* older captures can only be ahead of a begin.                              *)
QueueFits(f, r, q) ==
    /\ r.pc = "begin" /\ r.reply = Waiting => BeginQueued(f, r, q)
    /\ r.pc \in {"hide", "scroll"} /\ r.reply = Waiting => q = <<AskedFor(f, r)>>
    /\ r.pc \in {"begin", "hide", "scroll"} /\ HasAnswer(r) => q = <<>>
    /\ r.pc \in {"check", "tile"} => q = <<>>

(* The page is where the answer says, and where the tile was asked for; past *)
(* the first tile its fixed elements are hidden.                             *)
PlaceFits(r, p) ==
    /\ r.pc = "begin" /\ HasAnswer(r) => p.y = 0
    /\ r.pc \in {"check", "tile"} => p.y = r.landed /\ (r.i > 1 => p.hidden)
    /\ r.pc = "hide" /\ HasAnswer(r) => p.hidden
    /\ r.pc = "scroll" => r.i > 1 /\ (r.reply # Rejected => p.hidden) /\ (HasAnswer(r) => p.y = r.reply.y)

(* What was drawn is where it belongs, and only the first band may show the  *)
(* page's fixed elements.                                                    *)
CompFits(r) ==
    /\ r.imageHeight \in SnapshotHeights
    /\ r.pc = "begin" => r.landed = 0
    /\ r.pc = "begin" \/ (r.pc \in {"check", "tile"} /\ r.i = 1) => r.comp = <<>>
    /\ r.ok => r.pc \in {"restore", "upload"}
    /\ \A j \in 1..Len(r.comp) : OffsetFits(r.comp[j]) /\ (j > 1 => ~r.comp[j].fixed)

(* While the document keeps its height h, the plan is of that height, the    *)
(* page reaches what the plan asks, and no tile that was passed is missing.  *)
PlanFits(r, h) ==
    /\ r.pc = "begin" /\ HasAnswer(r) => r.reply.height = h
    /\ r.pc # "begin" => r.plan = PlanTiles(h)
    /\ r.pc \in {"check", "tile"} => r.landed = r.plan.tiles[r.i].scrollY
    /\ r.pc = "scroll" /\ HasAnswer(r) => r.reply.y = r.plan.tiles[r.i].scrollY
    /\ \A k \in 1..DrawnUpTo(r) : RectOf(r, k) = NoRect \/ Shows(r.comp, RectOf(r, k))

StitchFits(f, r, p) ==
    QueueFits(f, r, p.inbox) /\ PlaceFits(r, p) /\ CompFits(r) /\ (~r.resized => PlanFits(r, p.height))

(* Of a capture nobody disturbed, the tab t is shown and nothing else was    *)
(* drawn; of a stitched one, all of the above holds.                         *)
ImageFits(f, r, p, t) ==
    /\ Painted(r)
    /\ ~r.disturbed =>
         /\ r.tab = t /\ \A j \in 1..Len(r.comp) : r.comp[j].of = t
         /\ r.mode = "full" => StitchFits(f, r, p)

(* Every capture's image fits its page; with CaptureInv, this is inductive.  *)
ImageInv == \A f \in Flows : Live(f) => ImageFits(f, flow[f], page[flow[f].tab], active)

-----------------------------------------------------------------------------
(* The invariant says of an image what the property says of it.              *)

(* Every row of the canvas is in a band, but for those the property allows. *)
LEMMA CompositeCovers ==
    ASSUME NEW r, NEW h \in Nat \ {0}, PlanFits(r, h), CompFits(r), r.ok,
           NEW row \in 0 .. (r.plan.canvasHeight - 1)
    PROVE  \/ row >= r.plan.canvasHeight - 2
           \/ \E j \in 1..Len(r.comp) : row \in Rows(r.comp[j]) \/ r.comp[j].dy = row + 1
<1>1. r.plan = PlanTiles(h)
    BY DEF PlanFits, CompFits
<1>2. r.imageHeight \in SnapshotHeights /\ DrawnUpTo(r) = Len(r.plan.tiles)
    BY DEF CompFits, DrawnUpTo
<1>3. PICK P : P = r.plan
    OBVIOUS
<1>4. PICK c \in Int : c = P.canvasHeight
    <2>1. PlanTiles(h) \in Plans
        BY PlanTyped
    <2> QED
        BY <1>1, <1>3, <2>1 DEF Plans
<1>5. row \in Nat /\ row < P.canvasHeight
    BY <1>3, <1>4
<1>6. \/ row >= P.canvasHeight - 2
      \/ \E k \in 1..Len(P.tiles) :
           LET rect == DrawRectFor(P.tiles[k], P.tiles[k].scrollY, P.canvasHeight, r.imageHeight)
           IN rect # NoRect /\ (row \in RowsOf(rect) \/ rect.dy = row + 1)
    <2>1. P = PlanTiles(h)
        BY <1>1, <1>3
    <2>2. PICK iH \in SnapshotHeights : iH = r.imageHeight
        BY <1>2
    <2>3. PICK m \in Nat : m = row /\ m < P.canvasHeight
        BY <1>5
    <2>4. Reached(P, iH, m)
        BY <2>1, <2>3, TilesCover
    <2> QED
        BY <2>2, <2>3, <2>4, Zenon DEF Reached
<1>7. CASE row >= P.canvasHeight - 2
    BY <1>3, <1>7
<1>8. ASSUME NEW k \in 1..Len(P.tiles), RectOf(r, k) # NoRect,
             row \in RowsOf(RectOf(r, k)) \/ RectOf(r, k).dy = row + 1
      PROVE  \E j \in 1..Len(r.comp) : row \in Rows(r.comp[j]) \/ r.comp[j].dy = row + 1
    <2>1. k \in 1..DrawnUpTo(r)
        BY <1>2, <1>3, <1>8
    <2>2. Shows(r.comp, RectOf(r, k))
        BY <1>8, <2>1 DEF PlanFits
    <2>3. PICK j \in 1..Len(r.comp) : r.comp[j].dy = RectOf(r, k).dy /\ r.comp[j].dh = RectOf(r, k).dh
        BY <2>2 DEF Shows
    <2>4. Rows(r.comp[j]) = RowsOf(RectOf(r, k))
        BY <2>3 DEF Rows, RowsOf
    <2> QED
        BY <1>8, <2>3, <2>4
<1>9. \A k \in 1..Len(P.tiles) :
        DrawRectFor(P.tiles[k], P.tiles[k].scrollY, P.canvasHeight, r.imageHeight) = RectOf(r, k)
    BY <1>3 DEF RectOf
<1> QED
    BY <1>6, <1>7, <1>8, <1>9

(* The image the property speaks of is one whose tiles are all drawn. *)
LEMMA ImagesShow == ASSUME CaptureInv, ImageInv PROVE ImageShowsItsPage
<1> SUFFICES ASSUME NEW f \in Flows, Live(f), flow[f].ok, ~flow[f].disturbed
             PROVE  LET r == flow[f]   bands == {r.comp[j] : j \in DOMAIN r.comp}
                    IN /\ \A b \in bands : b.of = r.tab
                       /\ Composed(r) => \A b \in bands : b.y * Scale + 4 * b.sy - 4 * b.dy \in -4..4
                       /\ \A j \in DOMAIN r.comp : Composed(r) /\ j > 1 => ~r.comp[j].fixed
                       /\ Composed(r) /\ ~r.resized =>
                            LET missing == (0 .. (r.plan.canvasHeight - 1)) \ UNION {Rows(b) : b \in bands}
                            IN \A row \in missing : \/ \E b \in bands : b.dy = row + 1
                                                    \/ row >= r.plan.canvasHeight - 2
    BY Zenon DEF ImageShowsItsPage
<1>1. PICK r : r = flow[f]
    OBVIOUS
<1>2. PICK p : p = page[r.tab]
    OBVIOUS
<1>3. ImageFits(f, r, p, active) /\ r.ok /\ ~r.disturbed
    BY <1>1, <1>2 DEF ImageInv
<1>4. IsRun(r) /\ r.tab \in Tabs /\ p.height \in Nat \ {0}
    BY <1>1, <1>2, LiveIsRun DEF CaptureInv, TypeOK, IsRun, Pages
<1>5. r.comp \in Seq(Bands)
    BY <1>3 DEF ImageFits, Painted
<1>6. PICK s \in Seq(Bands) : s = r.comp
    BY <1>5
<1>7. DOMAIN s = 1..Len(s)
    BY <1>6
<1> DEFINE bands == {s[j] : j \in DOMAIN s}
<1>8. \A b \in bands : \E j \in 1..Len(s) : b = s[j]
    BY <1>7
<1>9. \A j \in 1..Len(s) : s[j] \in bands
    BY <1>7
<1> HIDE DEF bands
<1>10. \A b \in bands : b.of = r.tab
    BY <1>3, <1>6, <1>8 DEF ImageFits
<1>11. Composed(r) => StitchFits(f, r, p)
    BY <1>3 DEF ImageFits, Composed
<1>12. Composed(r) => \A b \in bands : b.y * Scale + 4 * b.sy - 4 * b.dy \in -4..4
    BY <1>6, <1>8, <1>11 DEF StitchFits, CompFits, OffsetFits
<1>13. \A j \in 1..Len(s) : Composed(r) /\ j > 1 => ~s[j].fixed
    BY <1>6, <1>11 DEF StitchFits, CompFits
<1>14. ASSUME Composed(r), ~r.resized,
              NEW row \in (0 .. (r.plan.canvasHeight - 1)) \ UNION {Rows(b) : b \in bands}
       PROVE  (\E b \in bands : b.dy = row + 1) \/ row >= r.plan.canvasHeight - 2
    <2>1. PlanFits(r, p.height) /\ CompFits(r)
        BY <1>11, <1>14 DEF StitchFits
    <2>2. \/ row >= r.plan.canvasHeight - 2
          \/ \E j \in 1..Len(r.comp) : row \in Rows(r.comp[j]) \/ r.comp[j].dy = row + 1
        <3>1. row \in 0 .. (r.plan.canvasHeight - 1)
            BY <1>14
        <3> QED
            BY <1>3, <1>4, <2>1, <3>1, CompositeCovers
    <2>3. \A j \in 1..Len(s) : row \notin Rows(s[j])
        BY <1>9, <1>14
    <2> QED
        BY <1>6, <1>9, <2>2, <2>3
<1> QED
    <2>1. bands = {flow[f].comp[j] : j \in DOMAIN flow[f].comp}
        BY <1>1, <1>6 DEF bands
    <2>2. \A j \in DOMAIN r.comp : Composed(r) /\ j > 1 => ~r.comp[j].fixed
        BY <1>6, <1>7, <1>13
    <2>3. /\ \A b \in bands : b.of = flow[f].tab
          /\ Composed(flow[f]) => \A b \in bands : b.y * Scale + 4 * b.sy - 4 * b.dy \in -4..4
          /\ \A j \in DOMAIN flow[f].comp : Composed(flow[f]) /\ j > 1 => ~flow[f].comp[j].fixed
          /\ Composed(flow[f]) /\ ~flow[f].resized =>
               \A row \in (0 .. (flow[f].plan.canvasHeight - 1)) \ UNION {Rows(b) : b \in bands} :
                 (\E b \in bands : b.dy = row + 1) \/ row >= flow[f].plan.canvasHeight - 2
        BY <1>1, <1>10, <1>12, <1>14, <2>2
    <2> QED
        BY <2>1, <2>3, Zenon

-----------------------------------------------------------------------------
(* The parts of the invariant, where a capture or its page changes a little. *)

(* The same image, of a capture at whatever step. *)
Depicts(q, r) ==
    /\ q.mode = r.mode /\ q.tab = r.tab /\ q.i = r.i /\ q.plan = r.plan /\ q.comp = r.comp
    /\ q.landed = r.landed /\ q.imageHeight = r.imageHeight /\ q.ok = r.ok
    /\ q.disturbed = r.disturbed /\ q.resized = r.resized

(* A page that looks the same, with the same commands. *)
LooksAlike(p, q) ==
    p.y = q.y /\ p.hidden = q.hidden /\ p.height = q.height /\ p.inbox = q.inbox

LEMMA SameImage ==
    ASSUME NEW f, NEW r, NEW q, NEW p, NEW o, NEW t, ImageFits(f, r, o, t), Depicts(q, r),
           q.pc = r.pc, q.n = r.n, q.reply = r.reply,
           LooksAlike(p, o) \/ r.mode # "full"
    PROVE  ImageFits(f, q, p, t)
<1>1. Painted(q)
    BY DEF ImageFits, Painted, Depicts
<1>2. ASSUME ~q.disturbed PROVE q.tab = t /\ \A j \in 1..Len(q.comp) : q.comp[j].of = t
    BY <1>2 DEF ImageFits, Depicts
<1>3. ASSUME ~q.disturbed, q.mode = "full" PROVE StitchFits(f, q, p)
    <2>1. StitchFits(f, r, o) /\ LooksAlike(p, o)
        BY <1>3 DEF ImageFits, Depicts
    <2>2. QueueFits(f, q, p.inbox)
        BY <2>1 DEF StitchFits, QueueFits, BeginQueued, AskedFor, HasAnswer, Depicts, LooksAlike
    <2>3. PlaceFits(q, p)
        BY <2>1 DEF StitchFits, PlaceFits, HasAnswer, Depicts, LooksAlike
    <2>4. CompFits(q)
        BY <2>1 DEF StitchFits, CompFits, Depicts
    <2>5. ~q.resized => PlanFits(q, p.height)
        BY <2>1 DEF StitchFits, PlanFits, HasAnswer, RectOf, DrawnUpTo, Depicts, LooksAlike
    <2> QED
        BY <2>2, <2>3, <2>4, <2>5 DEF StitchFits
<1> QED
    BY <1>1, <1>2, <1>3 DEF ImageFits

LEMMA LostImage ==
    ASSUME NEW f, NEW r, NEW q, NEW p, NEW o, NEW t, NEW u, ImageFits(f, r, o, t),
           q.comp = r.comp, q.landed = r.landed, q.imageHeight = r.imageHeight, q.disturbed
    PROVE  ImageFits(f, q, p, u)
BY DEF ImageFits, Painted

(* A capture that gets no answer, or gets on without one. *)
LEMMA TurnedDown ==
    ASSUME NEW f, NEW r, NEW q, NEW p, NEW t, ImageFits(f, r, p, t), Depicts(q, r),
           q.pc = r.pc, q.n = r.n, q.reply = Rejected
    PROVE  ImageFits(f, q, p, t)
<1>1. Painted(q)
    BY DEF ImageFits, Painted, Depicts
<1>2. ASSUME ~q.disturbed PROVE q.tab = t /\ \A j \in 1..Len(q.comp) : q.comp[j].of = t
    BY <1>2 DEF ImageFits, Depicts
<1>3. ASSUME ~q.disturbed, q.mode = "full" PROVE StitchFits(f, q, p)
    <2>1. StitchFits(f, r, p)
        BY <1>3 DEF ImageFits, Depicts
    <2>2. QueueFits(f, q, p.inbox)
        BY <2>1 DEF StitchFits, QueueFits, HasAnswer, Waiting, Rejected, Depicts
    <2>3. PlaceFits(q, p)
        BY <2>1 DEF StitchFits, PlaceFits, HasAnswer, Depicts
    <2>4. CompFits(q)
        BY <2>1 DEF StitchFits, CompFits, Depicts
    <2>5. ~q.resized => PlanFits(q, p.height)
        BY <2>1 DEF StitchFits, PlanFits, HasAnswer, RectOf, DrawnUpTo, Depicts
    <2> QED
        BY <2>2, <2>3, <2>4, <2>5 DEF StitchFits
<1> QED
    BY <1>1, <1>2, <1>3 DEF ImageFits

-----------------------------------------------------------------------------
(* Steps of one capture of its own.                                          *)

(* The others keep their images, and their pages. *)
LEMMA OwnImage ==
    ASSUME CaptureInv, ImageInv, NEW f \in Flows, NEW x, flow' = [flow EXCEPT ![f] = x],
           active' = active,
           page' = page \/ \A g \in Flows \ {f} : Live(g) => flow[g].mode # "full",
           x.pc \in {"idle", "over"} \/ ImageFits(f, x, page'[x.tab], active)
    PROVE  ImageInv'
<1>1. flow'[f] = x /\ \A g \in Flows \ {f} : flow'[g] = flow[g]
    BY FlowSet DEF CaptureInv
<1> SUFFICES ASSUME NEW g \in Flows, Live(g)'
             PROVE  ImageFits(g, flow'[g], page'[flow'[g].tab], active')
    BY DEF ImageInv
<1>2. CASE g = f
    BY <1>1, <1>2 DEF Live
<1>3. CASE g # f
    <2>1. flow'[g] = flow[g] /\ Live(g)
        BY <1>1, <1>3 DEF Live
    <2>2. PICK r : r = flow[g]
        OBVIOUS
    <2>3. ImageFits(g, r, page[r.tab], active)
        BY <2>1, <2>2 DEF ImageInv
    <2>4. LooksAlike(page'[r.tab], page[r.tab]) \/ r.mode # "full"
        BY <1>3, <2>1, <2>2 DEF LooksAlike
    <2>5. Depicts(r, r)
        BY DEF Depicts
    <2>6. ImageFits(g, r, page'[r.tab], active)
        BY <2>3, <2>4, <2>5, SameImage
    <2> QED
        BY <2>1, <2>2, <2>6
<1> QED
    BY <1>2, <1>3

(* Whoever has the lock, or takes it while it is free, stitches alone. *)
LEMMA StitchesAlone ==
    ASSUME CaptureInv, NEW f \in Flows, holder \in {0, f}
    PROVE  \A g \in Flows \ {f} : Live(g) => flow[g].mode # "full"
<1> SUFFICES ASSUME NEW g \in Flows \ {f}, Live(g), flow[g].mode = "full" PROVE FALSE
    OBVIOUS
<1>1. holder = g
    BY DEF CaptureInv, LockHeld, Locking
<1> QED
    BY <1>1 DEF Flows

(* q is r with a request sent; p is the page o that has it queued. *)
Asks(f, r, pc, y, q, p, o) ==
    /\ Depicts(q, r) /\ q.pc = pc /\ q.n = r.n + 1 /\ q.reply \in {Waiting, Rejected}
    /\ p.y = o.y /\ p.hidden = o.hidden /\ p.height = o.height
    /\ q.reply = Waiting =>
         p.inbox = Append(o.inbox, [cmd |-> pc, y |-> y, flow |-> f, n |-> q.n])

LEMMA AskIs ==
    ASSUME CaptureInv, NEW f \in Flows, NEW r, NEW pc \in Asking, NEW y \in Int, IsRun(r),
           Ask(f, r, pc, pc, y)
    PROVE  \E x : /\ flow' = [flow EXCEPT ![f] = x] /\ x.tab = r.tab
                  /\ Asks(f, r, pc, y, x, page'[r.tab], page[r.tab])
<1>1. PICK o : o = page[r.tab]
    OBVIOUS
<1>2. PICK a : a = IF o.open THEN Waiting ELSE Rejected
    OBVIOUS
<1>3. PICK n : n = r.n + 1
    OBVIOUS
<1>4. PICK t \in Tabs : t = r.tab
    BY DEF IsRun
<1> DEFINE x == Asked(r, pc, n, a)
           c == [cmd |-> pc, y |-> y, flow |-> f, n |-> n]
<1>5. x.pc = pc /\ x.n = n /\ x.reply = a /\ Depicts(x, r) /\ x.tab = t
    BY <1>4 DEF Asked, IsRun, Depicts
<1>6. flow' = [flow EXCEPT ![f] = x]
    BY <1>1, <1>2, <1>3, Zenon DEF Ask, Asked
<1>7. page' = IF page[r.tab].open
              THEN [page EXCEPT ![r.tab].inbox =
                        Append(@, [cmd |-> pc, y |-> y, flow |-> f, n |-> x.n])]
              ELSE page
    <2> DEFINE z == Asked(r, pc, r.n + 1, IF page[r.tab].open THEN Waiting ELSE Rejected)
    <2>1. page' = IF page[r.tab].open
                  THEN [page EXCEPT ![r.tab].inbox =
                            Append(@, [cmd |-> pc, y |-> y, flow |-> f, n |-> z.n])]
                  ELSE page
        BY Zenon DEF Ask, Asked
    <2>2. z = x
        BY <1>1, <1>2, <1>3
    <2> HIDE DEF x, z
    <2> QED
        BY <2>1, <2>2, Zenon
<1> HIDE DEF x
<1>8. o \in Pages /\ o = page[t] /\ page \in [Tabs -> Pages]
    BY <1>1, <1>4 DEF CaptureInv, TypeOK
<1>9. PICK s : s = Append(o.inbox, c)
    OBVIOUS
<1>10. page' = IF o.open THEN [page EXCEPT ![t] = [o EXCEPT !.inbox = s]] ELSE page
    BY <1>4, <1>5, <1>7, <1>8, <1>9
<1>11. page'[t] = IF o.open THEN [o EXCEPT !.inbox = s] ELSE o
    BY <1>8, <1>10
<1>12. PICK p : p = page'[t]
    OBVIOUS
<1>13. p.y = o.y /\ p.hidden = o.hidden /\ p.height = o.height /\ (o.open => p.inbox = s)
    BY <1>8, <1>11, <1>12 DEF Pages
<1>14. a = Waiting => o.open
    BY <1>2 DEF Waiting, Rejected
<1>15. Asks(f, r, pc, y, x, p, o)
    BY <1>2, <1>3, <1>5, <1>9, <1>13, <1>14 DEF Asks
<1> QED
    BY <1>1, <1>4, <1>5, <1>6, <1>12, <1>15

LEMMA AskedImage ==
    ASSUME CaptureInv, ImageInv, NEW f \in Flows, NEW r, NEW pc \in Asking, NEW y \in Int, IsRun(r),
           Ask(f, r, pc, pc, y), holder \in {0, f}, active' = active,
           \A q, p : Asks(f, r, pc, y, q, p, page[r.tab]) => ImageFits(f, q, p, active)
    PROVE  ImageInv'
<1>1. PICK x : /\ flow' = [flow EXCEPT ![f] = x] /\ x.tab = r.tab
               /\ Asks(f, r, pc, y, x, page'[r.tab], page[r.tab])
    BY AskIs
<1>2. ImageFits(f, x, page'[x.tab], active)
    BY <1>1
<1>3. \A g \in Flows \ {f} : Live(g) => flow[g].mode # "full"
    BY StitchesAlone
<1> QED
    BY <1>1, <1>2, <1>3, OwnImage

-----------------------------------------------------------------------------
(* Captures that start.                                                      *)

Blank(r, t) ==
    /\ r.tab = t /\ r.comp = <<>> /\ r.landed = 0 /\ r.imageHeight \in Int
    /\ r.ok = FALSE /\ r.disturbed = FALSE /\ r.resized = FALSE

LEMMA NewIsBlank ==
    ASSUME NEW mode \in {"visible", "region", "full"}, NEW t \in Tabs, NEW pc \in Pcs
    PROVE  LET r == NewFlow(mode, t, pc) IN Blank(r, t) /\ r.mode = mode /\ r.pc = pc
BY DEF NewFlow, Blank

LEMMA NewOfHeight ==
    ASSUME NEW mode \in {"visible", "region", "full"}, NEW t \in Tabs, NEW pc \in Pcs, NEW h \in Int
    PROVE  LET r == [NewFlow(mode, t, pc) EXCEPT !.imageHeight = h]
           IN Blank(r, t) /\ r.imageHeight = h
BY DEF NewFlow, Blank

LEMMA BlankIsPainted ==
    ASSUME NEW r, NEW t, Blank(r, t)
    PROVE  Painted(r) /\ Len(r.comp) = 0 /\ \A j \in 1..Len(r.comp) : FALSE
<1>1. PICK none : none = <<>>
    OBVIOUS
<1>2. none \in Seq(Bands) /\ Len(none) = 0
    <2> HIDE <1>1
    <2> QED
        BY <1>1, EmptySeq
<1>3. r.comp = none
    BY <1>1 DEF Blank
<1>4. \A j \in 1..Len(none) : FALSE
    BY <1>2
<1>5. r.landed \in Int /\ r.imageHeight \in Int
    BY DEF Blank
<1> QED
    BY <1>2, <1>3, <1>4, <1>5 DEF Painted

LEMMA StartVisibleImage ==
    ASSUME CaptureInv, ImageInv, NEW f \in Flows, StartVisible(f)
    PROVE  ImageInv'
<1>1. PICK x : x = NewFlow("visible", active, "shot")
    OBVIOUS
<1>2. active \in Tabs /\ "shot" \in Pcs /\ 0 \in Int
    BY DEF CaptureInv, TypeOK, Pcs
<1>3. Blank(x, active) /\ x.mode = "visible"
    BY <1>1, <1>2, NewIsBlank
<1>4. ImageFits(f, x, page'[x.tab], active)
    BY <1>3, BlankIsPainted DEF ImageFits, Blank
<1>5. flow' = [flow EXCEPT ![f] = x] /\ active' = active /\ page' = page
    BY <1>1 DEF StartVisible
<1> QED
    BY <1>4, <1>5, OwnImage

LEMMA StartRegionImage ==
    ASSUME CaptureInv, ImageInv, NEW f \in Flows, StartRegion(f)
    PROVE  ImageInv'
<1>1. PICK r : r = NewFlow("region", active, "select")
    OBVIOUS
<1>2. active \in Tabs /\ "select" \in Pcs /\ "select" \in Asking /\ 0 \in Int
    BY DEF CaptureInv, TypeOK, Pcs, Asking
<1>3. IsRun(r) /\ Blank(r, active) /\ r.mode = "region"
    BY <1>1, <1>2, NewRun, NewIsBlank
<1>4. Ask(f, r, "select", "select", 0) /\ holder \in {0, f} /\ active' = active
    BY <1>1 DEF StartRegion, Acquirable
<1>5. ASSUME NEW q, NEW p, Asks(f, r, "select", 0, q, p, page[r.tab])
      PROVE  ImageFits(f, q, p, active)
    <2>1. Blank(q, active) /\ q.mode = "region"
        BY <1>3, <1>5 DEF Asks, Depicts, Blank
    <2> QED
        BY <2>1, BlankIsPainted DEF ImageFits, Blank
<1> QED
    BY <1>2, <1>3, <1>4, <1>5, AskedImage

LEMMA BeginIsQueued ==
    ASSUME NEW f, NEW q, NEW s \in Seq(Commands), \A k \in 1..Len(s) : s[k].flow # f
    PROVE  BeginQueued(f, q, Append(s, AskedFor(f, q)))
<1>1. PICK c : c = AskedFor(f, q)
    OBVIOUS
<1>2. PICK u : u = Append(s, c)
    OBVIOUS
<1>3. Len(s) \in Nat
    OBVIOUS
<1>4. Len(u) = Len(s) + 1 /\ u[Len(s) + 1] = c /\ \A k \in 1..Len(s) : u[k] = s[k]
    BY <1>2
<1>5. Len(u) > 0 /\ u[Len(u)] = c /\ \A k \in 1..(Len(u) - 1) : u[k].flow # f
    BY <1>3, <1>4
<1> QED
    BY <1>1, <1>2, <1>5 DEF BeginQueued

LEMMA StartFullImage ==
    ASSUME CaptureInv, ImageInv, NEW f \in Flows, StartFull(f)
    PROVE  ImageInv'
<1>1. PICK r0 : r0 = NewFlow("full", active, "begin")
    OBVIOUS
<1>2. active \in Tabs /\ "begin" \in Pcs /\ "begin" \in Asking /\ 0 \in Int
    BY DEF CaptureInv, TypeOK, Pcs, Asking
<1>3. PICK h \in SnapshotHeights :
          Ask(f, [r0 EXCEPT !.imageHeight = h], "begin", "begin", 0)
    BY <1>1 DEF StartFull
<1>4. PICK r : r = [r0 EXCEPT !.imageHeight = h]
    OBVIOUS
<1>5. h \in Int
    <2>1. PICK w \in Int : w = ViewportHeight * Scale
        BY GeometryAssumption
    <2> QED
        BY <2>1, SnapshotIs
<1>6. IsRun(r0) /\ r0.mode = "full"
    BY <1>1, <1>2, NewRun
<1>7. IsRun(r) /\ r.mode = "full"
    BY <1>4, <1>6, ImageSet DEF Alike
<1>8. Blank(r, active) /\ r.imageHeight = h
    BY <1>1, <1>2, <1>4, <1>5, NewOfHeight
<1>9. /\ Ask(f, r, "begin", "begin", 0) /\ holder \in {0, f} /\ active' = active
      /\ flow[f].pc = "idle"
    BY <1>3, <1>4, UnusedIdles DEF StartFull, Acquirable
<1>10. ASSUME NEW q, NEW p, Asks(f, r, "begin", 0, q, p, page[r.tab])
       PROVE  ImageFits(f, q, p, active)
    <2>1. Blank(q, active) /\ q.mode = "full" /\ q.pc = "begin" /\ q.imageHeight = h
        BY <1>7, <1>8, <1>10 DEF Asks, Depicts, Blank
    <2>2. Painted(q) /\ Len(q.comp) = 0 /\ \A j \in 1..Len(q.comp) : FALSE
        BY <2>1, BlankIsPainted
    <2>3. ~HasAnswer(q)
        BY <1>10 DEF Asks, HasAnswer
    <2>4. ASSUME q.reply = Waiting PROVE BeginQueued(f, q, p.inbox)
        <3>1. PICK s : s = page[active].inbox
            OBVIOUS
        <3>2. s \in Seq(Commands)
            BY <1>2, <3>1 DEF CaptureInv, TypeOK, Pages
        <3>3. \A k \in 1..Len(s) : s[k].flow # f
            BY <1>2, <1>9, <3>1 DEF CaptureInv, CommandsFit, CommandFits
        <3>4. p.inbox = Append(s, [cmd |-> "begin", y |-> 0, flow |-> f, n |-> q.n])
            BY <1>8, <1>10, <2>4, <3>1 DEF Asks, Blank
        <3>5. AskedFor(f, q) = [cmd |-> "begin", y |-> 0, flow |-> f, n |-> q.n]
            BY <2>1 DEF AskedFor
        <3> QED
            BY <3>2, <3>3, <3>4, <3>5, BeginIsQueued
    <2>5. QueueFits(f, q, p.inbox)
        BY <2>1, <2>3, <2>4 DEF QueueFits
    <2>6. PlaceFits(q, p)
        BY <2>1, <2>3 DEF PlaceFits
    <2>7. CompFits(q)
        BY <2>1, <2>2 DEF CompFits, Blank
    <2>8. PlanFits(q, p.height)
        BY <2>1, <2>3 DEF PlanFits, DrawnUpTo, Blank
    <2> QED
        BY <2>1, <2>2, <2>5, <2>6, <2>7, <2>8 DEF ImageFits, StitchFits, Blank
<1> QED
    BY <1>2, <1>7, <1>9, <1>10, AskedImage

-----------------------------------------------------------------------------
(* Captures under way.                                                       *)

LEMMA ImageOf ==
    ASSUME CaptureInv, ImageInv, NEW f \in Flows, flow[f].pc \in Pcs
    PROVE  /\ IsRun(flow[f]) /\ StepFits(flow[f]) /\ flow[f].tab \in Tabs
           /\ ImageFits(f, flow[f], page[flow[f].tab], active)
           /\ page[flow[f].tab] \in Pages
<1>1. Live(f) /\ IsRun(flow[f]) /\ StepFits(flow[f])
    BY RunFacts
<1>2. flow[f].tab \in Tabs
    BY <1>1 DEF IsRun
<1> QED
    BY <1>1, <1>2 DEF ImageInv, CaptureInv, TypeOK

LEMMA TimeoutImage ==
    ASSUME CaptureInv, ImageInv, NEW f \in Flows, Timeout(f)
    PROVE  ImageInv'
<1>1. PICK r : r = flow[f]
    OBVIOUS
<1>2. flow[f].pc \in Pcs
    BY DEF Timeout, Pcs, Asking
<1>3. IsRun(r) /\ ImageFits(f, r, page[r.tab], active)
    BY <1>1, <1>2, ImageOf
<1>4. PICK x : x = [r EXCEPT !.reply = Rejected]
    OBVIOUS
<1>5. flow' = [flow EXCEPT ![f] = x] /\ active' = active /\ page' = page
    BY <1>1, <1>4 DEF Timeout, CaptureInv, TypeOK
<1>6. Depicts(x, r) /\ x.pc = r.pc /\ x.n = r.n /\ x.reply = Rejected
    BY <1>3, <1>4 DEF IsRun, Depicts
<1>7. ImageFits(f, x, page[r.tab], active)
    BY <1>3, <1>6, TurnedDown
<1>8. x.tab = r.tab
    BY <1>6 DEF Depicts
<1> QED
    BY <1>5, <1>7, <1>8, OwnImage

LEMMA EndsImage ==
    ASSUME CaptureInv, ImageInv, NEW f \in Flows, Ends(f), active' = active, page' = page
    PROVE  ImageInv'
<1>1. Over.pc \in {"idle", "over"} /\ flow' = [flow EXCEPT ![f] = Over]
    BY OverIsDead DEF Ends
<1> QED
    BY <1>1, OwnImage

(* An image that is not stitched. *)
LEMMA PlainImage ==
    ASSUME NEW f, NEW r, NEW q, NEW p, NEW o, NEW t, ImageFits(f, r, o, t),
           q.comp = r.comp, q.landed = r.landed, q.imageHeight = r.imageHeight, q.tab = r.tab,
           q.disturbed = r.disturbed, q.mode # "full"
    PROVE  ImageFits(f, q, p, t)
BY DEF ImageFits, Painted

LEMMA RegionStartedImage ==
    ASSUME CaptureInv, ImageInv, NEW f \in Flows, RegionStarted(f)
    PROVE  ImageInv'
<1>1. flow[f].pc \in Pcs /\ flow[f].pc = "select" /\ active' = active /\ page' = page
    BY DEF RegionStarted, Pcs, Asking
<1>2. PICK r : r = flow[f]
    OBVIOUS
<1>3. IsRun(r) /\ ImageFits(f, r, page[r.tab], active) /\ r.mode = "region"
    BY <1>1, <1>2, ImageOf DEF StepFits
<1>4. CASE flow[f].reply = Rejected
    BY <1>1, <1>4, EndsImage DEF RegionStarted
<1>5. CASE flow[f].reply # Rejected
    <2>1. PICK x : x = [r EXCEPT !.pc = "pending"]
        OBVIOUS
    <2>2. flow' = [flow EXCEPT ![f] = x]
        BY <1>2, <1>5, <2>1 DEF RegionStarted, CaptureInv, TypeOK
    <2>3. /\ x.comp = r.comp /\ x.landed = r.landed /\ x.imageHeight = r.imageHeight /\ x.tab = r.tab
          /\ x.disturbed = r.disturbed /\ x.mode = r.mode
        BY <1>3, <2>1 DEF IsRun
    <2>4. ImageFits(f, x, page'[x.tab], active)
        BY <1>3, <2>3, PlainImage
    <2> QED
        BY <1>1, <2>2, <2>4, OwnImage
<1> QED
    BY <1>4, <1>5

LEMMA UploadImage ==
    ASSUME CaptureInv, ImageInv, NEW f \in Flows, Upload(f)
    PROVE  ImageInv'
BY EndsImage DEF Upload

(* The snapshot of the window shows the active tab. *)
LEMMA BandIs ==
    ASSUME CaptureInv, NEW rect, rect.dy \in Int, rect.sy \in Int, rect.dh \in Int
    PROVE  /\ Band(rect) \in Bands /\ Band(rect).of = active
           /\ Band(rect).dy = rect.dy /\ Band(rect).sy = rect.sy /\ Band(rect).dh = rect.dh
           /\ Band(rect).y = page[active].y /\ Band(rect).fixed = ~page[active].hidden
<1>1. active \in Tabs /\ page[active] \in Pages
    BY DEF CaptureInv, TypeOK
<1>2. page[active].y \in Int
    BY <1>1 DEF Pages
<1>3. PICK b \in BOOLEAN : b = ~page[active].hidden
    OBVIOUS
<1>4. Band(rect) = [dy |-> rect.dy, sy |-> rect.sy, dh |-> rect.dh, y |-> page[active].y,
                    of |-> active, fixed |-> b]
    BY <1>3 DEF Band
<1>5. /\ Band(rect).dy = rect.dy /\ Band(rect).sy = rect.sy /\ Band(rect).dh = rect.dh
      /\ Band(rect).y = page[active].y /\ Band(rect).of = active /\ Band(rect).fixed = b
    BY <1>4
<1>6. Band(rect) \in Bands
    BY <1>1, <1>2, <1>4 DEF Bands
<1> QED
    BY <1>3, <1>5, <1>6

LEMMA ShotImage ==
    ASSUME CaptureInv, ImageInv, NEW f \in Flows, Shot(f)
    PROVE  ImageInv'
<1>1. flow[f].pc \in Pcs /\ flow[f].pc = "shot" /\ active' = active /\ page' = page
    BY DEF Shot, Pcs
<1>2. PICK r : r = flow[f]
    OBVIOUS
<1>3. IsRun(r) /\ ImageFits(f, r, page[r.tab], active) /\ r.mode # "full"
    BY <1>1, <1>2, ImageOf DEF StepFits
<1>4. PICK b : b = Band(NoRect)
    OBVIOUS
<1>5. b \in Bands /\ b.of = active
    BY <1>4, BandIs DEF NoRect
<1>6. PICK s : s = <<b>>
    OBVIOUS
<1>7. s \in Seq(Bands) /\ \A j \in 1..Len(s) : s[j].of = active
    BY <1>5, <1>6
<1>8. PICK x : x = [r EXCEPT !.pc = "upload", !.ok = TRUE, !.comp = s]
    OBVIOUS
<1>9. flow' = [flow EXCEPT ![f] = x]
    BY <1>2, <1>4, <1>6, <1>8 DEF Shot, CaptureInv, TypeOK
<1>10. /\ x.comp = s /\ x.landed = r.landed /\ x.imageHeight = r.imageHeight /\ x.tab = r.tab
       /\ x.disturbed = r.disturbed /\ x.mode = r.mode
    BY <1>3, <1>8 DEF IsRun
<1>11. ImageFits(f, x, page'[x.tab], active)
    BY <1>3, <1>7, <1>10 DEF ImageFits, Painted
<1> QED
    BY <1>1, <1>9, <1>11, OwnImage

-----------------------------------------------------------------------------
(* What is left of the invariant once nothing more is drawn.                 *)
Whole(r, h) ==
    /\ r.imageHeight \in SnapshotHeights
    /\ \A j \in 1..Len(r.comp) : OffsetFits(r.comp[j]) /\ (j > 1 => ~r.comp[j].fixed)
    /\ ~r.resized =>
         /\ r.plan = PlanTiles(h)
         /\ r.ok => \A k \in 1..Len(r.plan.tiles) : RectOf(r, k) = NoRect \/ Shows(r.comp, RectOf(r, k))

Closes(r, h, t) ==
    /\ Painted(r)
    /\ ~r.disturbed =>
         /\ r.tab = t /\ \A j \in 1..Len(r.comp) : r.comp[j].of = t
         /\ r.mode = "full" => Whole(r, h)

LEMMA FitsCloses ==
    ASSUME NEW f, NEW r, NEW p, NEW t, ImageFits(f, r, p, t), r.pc # "begin"
    PROVE  Closes(r, p.height, t)
<1>1. ASSUME ~r.disturbed, r.mode = "full" PROVE Whole(r, p.height)
    <2>1. CompFits(r) /\ (~r.resized => PlanFits(r, p.height))
        BY <1>1 DEF ImageFits, StitchFits
    <2>2. ASSUME ~r.resized, r.ok, NEW k \in 1..Len(r.plan.tiles)
          PROVE  RectOf(r, k) = NoRect \/ Shows(r.comp, RectOf(r, k))
        <3>1. DrawnUpTo(r) = Len(r.plan.tiles)
            BY <2>2 DEF DrawnUpTo
        <3> QED
            BY <2>1, <2>2, <3>1 DEF PlanFits
    <2>3. ~r.resized => r.plan = PlanTiles(p.height)
        BY <2>1 DEF PlanFits
    <2>4. /\ r.imageHeight \in SnapshotHeights
          /\ \A j \in 1..Len(r.comp) : OffsetFits(r.comp[j]) /\ (j > 1 => ~r.comp[j].fixed)
        BY <2>1 DEF CompFits
    <2> QED
        BY <2>2, <2>3, <2>4 DEF Whole
<1> QED
    BY <1>1 DEF ImageFits, Closes

LEMMA ClosedFits ==
    ASSUME NEW f, NEW r, NEW q, NEW p, NEW t, Closes(r, p.height, t), Depicts(q, r),
           q.pc \in {"restore", "upload"}
    PROVE  ImageFits(f, q, p, t)
<1>1. Painted(q) /\ (~q.disturbed => q.tab = t /\ \A j \in 1..Len(q.comp) : q.comp[j].of = t)
    BY DEF Closes, Painted, Depicts
<1>2. ASSUME ~q.disturbed, q.mode = "full" PROVE StitchFits(f, q, p)
    <2>1. Whole(r, p.height)
        BY <1>2 DEF Closes, Depicts
    <2>2. QueueFits(f, q, p.inbox) /\ PlaceFits(q, p)
        BY DEF QueueFits, PlaceFits
    <2>3. CompFits(q)
        BY <2>1 DEF CompFits, Whole, Depicts
    <2>4. ASSUME ~q.resized PROVE PlanFits(q, p.height)
        <3>1. r.plan = PlanTiles(p.height)
            BY <2>1, <2>4 DEF Whole, Depicts
        <3>2. ASSUME NEW k \in 1..DrawnUpTo(q) PROVE RectOf(q, k) = NoRect \/ Shows(q.comp, RectOf(q, k))
            <4>1. q.ok /\ k \in 1..Len(q.plan.tiles)
                BY <3>2 DEF DrawnUpTo
            <4>2. RectOf(r, k) = NoRect \/ Shows(r.comp, RectOf(r, k))
                BY <2>1, <2>4, <4>1 DEF Whole, Depicts
            <4> QED
                BY <4>2 DEF RectOf, Depicts
        <3> QED
            BY <3>1, <3>2 DEF PlanFits, Depicts
    <2> QED
        BY <2>2, <2>3, <2>4 DEF StitchFits
<1> QED
    BY <1>1, <1>2 DEF ImageFits

(* Every way out keeps what was drawn. *)
LEMMA FinallyImage ==
    ASSUME CaptureInv, ImageInv, NEW f \in Flows, flow[f].pc \in {"check", "tile", "hide", "scroll"},
           NEW r, IsRun(r), r.tab = flow[f].tab, Finally(f, r), active' = active,
           Closes(r, page[r.tab].height, active)
    PROVE  ImageInv'
<1>1. "restore" \in Asking /\ 0 \in Int
    BY DEF Asking
<1>2. Ask(f, r, "restore", "restore", 0)
    BY DEF Finally
<1>3. holder = f
    BY RunFacts DEF Pcs, Asking, StepFits, Locking
<1>4. ASSUME NEW q, NEW p, Asks(f, r, "restore", 0, q, p, page[r.tab])
      PROVE  ImageFits(f, q, p, active)
    <2>1. Depicts(q, r) /\ q.pc = "restore" /\ p.height = page[r.tab].height
        BY <1>4 DEF Asks
    <2> QED
        BY <2>1, ClosedFits
<1> QED
    BY <1>1, <1>2, <1>3, <1>4, AskedImage

LEMMA GivesUpImage ==
    ASSUME CaptureInv, ImageInv, NEW f \in Flows, flow[f].pc \in {"check", "tile", "hide", "scroll"},
           Finally(f, flow[f]), active' = active
    PROVE  ImageInv'
<1>1. flow[f].pc \in Pcs /\ flow[f].pc # "begin"
    BY DEF Pcs, Asking
<1>2. PICK r : r = flow[f]
    OBVIOUS
<1>3. PICK p : p = page[r.tab]
    OBVIOUS
<1>4. IsRun(r) /\ ImageFits(f, r, p, active)
    BY <1>1, <1>2, <1>3, ImageOf
<1>5. Closes(r, p.height, active)
    BY <1>1, <1>2, <1>4, FitsCloses
<1> QED
    BY <1>2, <1>3, <1>4, <1>5, FinallyImage

LEMMA TileFailsImage ==
    ASSUME CaptureInv, ImageInv, NEW f \in Flows, TileFails(f)
    PROVE  ImageInv'
BY GivesUpImage DEF TileFails

LEMMA RestoredImage ==
    ASSUME CaptureInv, ImageInv, NEW f \in Flows, Restored(f)
    PROVE  ImageInv'
<1>1. flow[f].pc = "restore" /\ flow[f].pc \in Pcs /\ active' = active /\ page' = page
    BY DEF Restored, Pcs, Asking
<1>2. PICK r : r = flow[f]
    OBVIOUS
<1>3. PICK p : p = page[r.tab]
    OBVIOUS
<1>4. IsRun(r) /\ ImageFits(f, r, p, active)
    BY <1>1, <1>2, <1>3, ImageOf
<1>5. Closes(r, p.height, active)
    BY <1>1, <1>2, <1>4, FitsCloses
<1>6. CASE flow[f].ok
    <2>1. PICK x : x = [r EXCEPT !.pc = "upload"]
        OBVIOUS
    <2>2. flow' = [flow EXCEPT ![f] = x]
        BY <1>2, <1>6, <2>1 DEF Restored, CaptureInv, TypeOK
    <2>3. Depicts(x, r) /\ x.pc = "upload"
        BY <1>4, <2>1 DEF IsRun, Depicts
    <2>4. x.tab = r.tab
        BY <2>3 DEF Depicts
    <2>5. ImageFits(f, x, p, active)
        BY <1>5, <2>3, ClosedFits
    <2> QED
        BY <1>1, <1>3, <2>2, <2>4, <2>5, OwnImage
<1>7. CASE ~flow[f].ok
    BY <1>1, <1>7, EndsImage DEF Restored
<1> QED
    BY <1>6, <1>7

-----------------------------------------------------------------------------
(* A tile at a time.                                                         *)

(* Nothing is queued, and the first k tiles are drawn. *)
Ready(r, o, k, t) ==
    /\ Painted(r)
    /\ ~r.disturbed =>
         /\ r.tab = t /\ \A j \in 1..Len(r.comp) : r.comp[j].of = t
         /\ r.mode = "full" =>
              /\ o.inbox = <<>> /\ ~r.ok /\ r.imageHeight \in SnapshotHeights
              /\ \A j \in 1..Len(r.comp) : OffsetFits(r.comp[j]) /\ (j > 1 => ~r.comp[j].fixed)
              /\ ~r.resized =>
                   /\ r.plan = PlanTiles(o.height)
                   /\ \A m \in 1..k : RectOf(r, m) = NoRect \/ Shows(r.comp, RectOf(r, m))

LEMMA QueuedAlone == ASSUME NEW c, NEW s, s = <<>> PROVE Append(s, c) = <<c>>
OBVIOUS

LEMMA ScrollFits ==
    ASSUME NEW f, NEW r, NEW o, NEW t, Ready(r, o, r.i - 1, t), r.i > 1,
           ~r.disturbed /\ r.mode = "full" => o.hidden, NEW y, y = r.plan.tiles[r.i].scrollY,
           NEW q, NEW p, Asks(f, r, "scroll", y, q, p, o)
    PROVE  ImageFits(f, q, p, t)
<1>1. /\ Depicts(q, r) /\ q.pc = "scroll" /\ q.reply \in {Waiting, Rejected}
      /\ p.hidden = o.hidden /\ p.height = o.height
    BY DEF Asks
<1>2. Painted(q) /\ (~q.disturbed => q.tab = t /\ \A j \in 1..Len(q.comp) : q.comp[j].of = t)
    BY <1>1 DEF Ready, Painted, Depicts
<1>3. ~HasAnswer(q)
    BY <1>1 DEF HasAnswer
<1>4. ASSUME ~q.disturbed, q.mode = "full" PROVE StitchFits(f, q, p)
    <2>1. /\ o.inbox = <<>> /\ ~q.ok /\ q.imageHeight \in SnapshotHeights /\ p.hidden /\ q.i > 1
          /\ \A j \in 1..Len(q.comp) : OffsetFits(q.comp[j]) /\ (j > 1 => ~q.comp[j].fixed)
        BY <1>1, <1>4 DEF Ready, Depicts
    <2>2. ASSUME q.reply = Waiting PROVE p.inbox = <<AskedFor(f, q)>>
        <3>1. PICK c : c = [cmd |-> "scroll", y |-> y, flow |-> f, n |-> q.n]
            OBVIOUS
        <3>2. c = AskedFor(f, q)
            BY <1>1, <3>1 DEF AskedFor, Depicts
        <3>3. p.inbox = Append(o.inbox, c)
            BY <2>2, <3>1 DEF Asks
        <3> QED
            BY <2>1, <3>2, <3>3, QueuedAlone
    <2>3. QueueFits(f, q, p.inbox)
        BY <1>1, <1>3, <2>2 DEF QueueFits
    <2>4. PlaceFits(q, p)
        BY <1>1, <1>3, <2>1 DEF PlaceFits
    <2>5. CompFits(q)
        BY <1>1, <2>1 DEF CompFits
    <2>6. ASSUME ~q.resized PROVE PlanFits(q, p.height)
        <3>1. q.plan = PlanTiles(p.height)
            BY <1>1, <1>4, <2>6 DEF Ready, Depicts
        <3>2. DrawnUpTo(q) = r.i - 1
            BY <1>1, <2>1 DEF DrawnUpTo, Depicts
        <3>3. ASSUME NEW k \in 1..DrawnUpTo(q) PROVE RectOf(q, k) = NoRect \/ Shows(q.comp, RectOf(q, k))
            <4>1. RectOf(r, k) = NoRect \/ Shows(r.comp, RectOf(r, k))
                BY <1>1, <1>4, <2>6, <3>2, <3>3 DEF Ready, Depicts
            <4> QED
                BY <1>1, <4>1 DEF RectOf, Depicts
        <3> QED
            BY <1>1, <1>3, <3>1, <3>3 DEF PlanFits
    <2> QED
        BY <2>3, <2>4, <2>5, <2>6 DEF StitchFits
<1> QED
    BY <1>2, <1>4 DEF ImageFits

LEMMA HideFits ==
    ASSUME NEW f, NEW r, NEW o, NEW t, Ready(r, o, 1, t), NEW q, NEW p, Asks(f, r, "hide", 0, q, p, o)
    PROVE  ImageFits(f, q, p, t)
<1>1. /\ Depicts(q, r) /\ q.pc = "hide" /\ q.reply \in {Waiting, Rejected} /\ p.height = o.height
    BY DEF Asks
<1>2. Painted(q) /\ (~q.disturbed => q.tab = t /\ \A j \in 1..Len(q.comp) : q.comp[j].of = t)
    BY <1>1 DEF Ready, Painted, Depicts
<1>3. ~HasAnswer(q)
    BY <1>1 DEF HasAnswer
<1>4. ASSUME ~q.disturbed, q.mode = "full" PROVE StitchFits(f, q, p)
    <2>1. /\ o.inbox = <<>> /\ ~q.ok /\ q.imageHeight \in SnapshotHeights
          /\ \A j \in 1..Len(q.comp) : OffsetFits(q.comp[j]) /\ (j > 1 => ~q.comp[j].fixed)
        BY <1>1, <1>4 DEF Ready, Depicts
    <2>2. ASSUME q.reply = Waiting PROVE p.inbox = <<AskedFor(f, q)>>
        <3>1. PICK c : c = [cmd |-> "hide", y |-> 0, flow |-> f, n |-> q.n]
            OBVIOUS
        <3>2. c = AskedFor(f, q)
            BY <1>1, <3>1 DEF AskedFor
        <3>3. p.inbox = Append(o.inbox, c)
            BY <2>2, <3>1 DEF Asks
        <3> QED
            BY <2>1, <3>2, <3>3, QueuedAlone
    <2>3. QueueFits(f, q, p.inbox) /\ PlaceFits(q, p)
        BY <1>1, <1>3, <2>2 DEF QueueFits, PlaceFits
    <2>5. CompFits(q)
        BY <1>1, <2>1 DEF CompFits
    <2>6. ASSUME ~q.resized PROVE PlanFits(q, p.height)
        <3>1. q.plan = PlanTiles(p.height)
            BY <1>1, <1>4, <2>6 DEF Ready, Depicts
        <3>2. DrawnUpTo(q) = 1
            BY <1>1, <2>1 DEF DrawnUpTo
        <3>3. ASSUME NEW k \in 1..DrawnUpTo(q) PROVE RectOf(q, k) = NoRect \/ Shows(q.comp, RectOf(q, k))
            <4>1. RectOf(r, k) = NoRect \/ Shows(r.comp, RectOf(r, k))
                BY <1>1, <1>4, <2>6, <3>2, <3>3 DEF Ready, Depicts
            <4> QED
                BY <1>1, <4>1 DEF RectOf, Depicts
        <3> QED
            BY <1>1, <1>3, <3>1, <3>3 DEF PlanFits
    <2> QED
        BY <2>3, <2>5, <2>6 DEF StitchFits
<1> QED
    BY <1>2, <1>4 DEF ImageFits

(* All tiles are drawn. *)
LEMMA DoneCloses ==
    ASSUME NEW r, NEW o, NEW t, Ready(r, o, Len(r.plan.tiles), t), IsRun(r),
           NEW x, x = [r EXCEPT !.ok = TRUE]
    PROVE  Closes(x, o.height, t)
<1>1. /\ x.mode = r.mode /\ x.tab = r.tab /\ x.plan = r.plan /\ x.comp = r.comp
      /\ x.landed = r.landed /\ x.imageHeight = r.imageHeight
      /\ x.disturbed = r.disturbed /\ x.resized = r.resized
    BY DEF IsRun
<1>2. Painted(x) /\ (~x.disturbed => x.tab = t /\ \A j \in 1..Len(x.comp) : x.comp[j].of = t)
    BY <1>1 DEF Ready, Painted
<1>3. ASSUME ~x.disturbed, x.mode = "full" PROVE Whole(x, o.height)
    <2>1. ASSUME ~x.resized, NEW k \in 1..Len(x.plan.tiles)
          PROVE  RectOf(x, k) = NoRect \/ Shows(x.comp, RectOf(x, k))
        <3>1. RectOf(r, k) = NoRect \/ Shows(r.comp, RectOf(r, k))
            BY <1>1, <1>3, <2>1 DEF Ready
        <3> QED
            BY <1>1, <3>1 DEF RectOf
    <2>2. /\ x.imageHeight \in SnapshotHeights /\ (~x.resized => x.plan = PlanTiles(o.height))
          /\ \A j \in 1..Len(x.comp) : OffsetFits(x.comp[j]) /\ (j > 1 => ~x.comp[j].fixed)
        BY <1>1, <1>3 DEF Ready
    <2> QED
        BY <2>1, <2>2 DEF Whole
<1> QED
    BY <1>2, <1>3 DEF Closes

LEMMA TileIsTyped ==
    ASSUME NEW r, IsRun(r), NEW i \in 1..Len(r.plan.tiles)
    PROVE  /\ r.plan.tiles[i].destY \in Int /\ r.plan.tiles[i].height \in Int
           /\ r.plan.canvasHeight \in Int
<1>1. r.plan.tiles \in Seq([scrollY : Int, destY : Int, height : Int]) /\ r.plan.canvasHeight \in Int
    BY DEF IsRun, Plans
<1> DEFINE T == [scrollY : Int, destY : Int, height : Int]
           s == r.plan.tiles
<1> HIDE DEF T, s
<1>2. s \in Seq(T)
    BY <1>1 DEF s, T
<1>3. i \in 1..Len(s)
    BY DEF s
<1>4. s[i] \in T
    BY <1>2, <1>3
<1> QED
    BY <1>1, <1>4 DEF s, T

(* A band more. *)
LEMMA AppendedBand ==
    ASSUME NEW s \in Seq(Bands), NEW b \in Bands, NEW u, u = Append(s, b)
    PROVE  /\ u \in Seq(Bands) /\ Len(u) = Len(s) + 1 /\ Len(s) \in Nat
           /\ u[Len(s) + 1] = b /\ \A j \in 1..Len(s) : u[j] = s[j]
<1>1. Len(s) \in Nat
    OBVIOUS
<1> HIDE DEF Bands
<1> QED
    BY <1>1

LEMMA DrawnImage ==
    ASSUME CaptureInv, ImageInv, NEW f \in Flows, flow[f].pc = "tile", NEW o, o = page[flow[f].tab],
           NEW r, r = Drawn(flow[f])
    PROVE  Ready(r, o, r.i, active) /\ (~r.disturbed /\ r.mode = "full" /\ r.i > 1 => o.hidden)
<1>1. PICK r0 : r0 = flow[f]
    OBVIOUS
<1>2. IsRun(r0) /\ ImageFits(f, r0, o, active) /\ r0.i \in 1..Len(r0.plan.tiles) /\ r0.pc = "tile"
    BY <1>1, ImageOf DEF Pcs, StepFits
<1>3. IsRun(r) /\ Alike(r, r0)
    BY <1>1, <1>2, DrawnIsAlike
<1>4. PICK tile : tile = r0.plan.tiles[r0.i]
    OBVIOUS
<1>5. tile.destY \in Int /\ tile.height \in Int /\ r0.plan.canvasHeight \in Int
    BY <1>2, <1>4, TileIsTyped
<1>6. PICK rect : rect = DrawRectFor(tile, r0.landed, r0.plan.canvasHeight, r0.imageHeight)
    OBVIOUS
<1>7. PICK s \in Seq(Bands) : s = r0.comp /\ r0.landed \in Int /\ r0.imageHeight \in Int
    BY <1>2 DEF ImageFits, Painted
<1>8. PICK u : u = IF rect = NoRect THEN s ELSE Append(s, Band(rect))
    OBVIOUS
<1>9. r = [r0 EXCEPT !.comp = u]
    <2>1. r = IF rect = NoRect THEN r0 ELSE [r0 EXCEPT !.comp = Append(s, Band(rect))]
        BY <1>1, <1>4, <1>6, <1>7, Zenon DEF Drawn
    <2>2. CASE rect = NoRect
        BY <1>2, <1>7, <1>8, <2>1, <2>2 DEF IsRun
    <2>3. CASE rect # NoRect
        BY <1>8, <2>1, <2>3, Zenon
    <2> QED
        BY <2>2, <2>3
<1>10. /\ r.mode = r0.mode /\ r.tab = r0.tab /\ r.i = r0.i /\ r.plan = r0.plan /\ r.comp = u
       /\ r.landed = r0.landed /\ r.imageHeight = r0.imageHeight /\ r.ok = r0.ok
       /\ r.disturbed = r0.disturbed /\ r.resized = r0.resized
    BY <1>2, <1>9 DEF IsRun
(* The band that is drawn, where there is one. *)
<1>11. ASSUME rect # NoRect
       PROVE  /\ Band(rect) \in Bands /\ Band(rect).of = active
              /\ Band(rect).dy = rect.dy /\ Band(rect).dh = rect.dh
              /\ Band(rect).fixed = ~page[active].hidden
              /\ page[active].y = r0.landed => OffsetFits(Band(rect))
    <2>1. /\ rect.dy \in Int /\ rect.sy \in Int /\ rect.dh \in Int
          /\ r0.landed * Scale + 4 * rect.sy - 4 * rect.dy \in -4..4
        BY <1>5, <1>6, <1>7, <1>11, DrawnInPlace
    <2>2. /\ Band(rect) \in Bands /\ Band(rect).of = active
          /\ Band(rect).dy = rect.dy /\ Band(rect).sy = rect.sy /\ Band(rect).dh = rect.dh
          /\ Band(rect).y = page[active].y /\ Band(rect).fixed = ~page[active].hidden
        BY <2>1, BandIs
    <2> QED
        BY <2>1, <2>2 DEF OffsetFits
<1>12. u \in Seq(Bands) /\ Len(s) \in Nat
    BY <1>8, <1>11, AppendedBand
<1>13. \A j \in 1..Len(s) : j \in 1..Len(u) /\ u[j] = s[j]
    <2>1. CASE rect = NoRect
        BY <1>8, <2>1
    <2>2. CASE rect # NoRect
        BY <1>8, <1>11, <2>2, AppendedBand
    <2> QED
        BY <2>1, <2>2
<1>14. rect # NoRect => Len(s) + 1 \in 1..Len(u) /\ u[Len(s) + 1] = Band(rect)
    BY <1>8, <1>11, AppendedBand
<1>15. \A j \in 1..Len(u) : \/ j \in 1..Len(s) /\ u[j] = s[j]
                            \/ rect # NoRect /\ j = Len(s) + 1 /\ u[j] = Band(rect)
    <2>1. CASE rect = NoRect
        BY <1>8, <2>1
    <2>2. CASE rect # NoRect
        BY <1>8, <1>11, <2>2, AppendedBand
    <2> QED
        BY <2>1, <2>2
<1>16. Painted(r)
    BY <1>7, <1>10, <1>12 DEF Painted
<1>17. ASSUME ~r.disturbed PROVE r.tab = active /\ \A j \in 1..Len(r.comp) : r.comp[j].of = active
    <2>1. r0.tab = active /\ \A j \in 1..Len(s) : s[j].of = active
        BY <1>2, <1>7, <1>10, <1>17 DEF ImageFits
    <2> QED
        BY <1>10, <1>11, <1>15, <2>1
<1>18. ASSUME ~r.disturbed, r.mode = "full"
       PROVE  /\ o.inbox = <<>> /\ ~r.ok /\ r.imageHeight \in SnapshotHeights
              /\ \A j \in 1..Len(r.comp) : OffsetFits(r.comp[j]) /\ (j > 1 => ~r.comp[j].fixed)
              /\ r.i > 1 => o.hidden
              /\ ~r.resized =>
                   /\ r.plan = PlanTiles(o.height)
                   /\ \A m \in 1..r.i : RectOf(r, m) = NoRect \/ Shows(r.comp, RectOf(r, m))
    <2>1. StitchFits(f, r0, o) /\ o = page[active]
        BY <1>1, <1>2, <1>10, <1>18 DEF ImageFits
    <2>2. o.inbox = <<>> /\ o.y = r0.landed /\ (r0.i > 1 => o.hidden)
        BY <1>2, <2>1 DEF StitchFits, QueueFits, PlaceFits
    <2>3. /\ r0.imageHeight \in SnapshotHeights /\ ~r0.ok /\ (r0.i = 1 => r0.comp = <<>>)
          /\ \A j \in 1..Len(s) : OffsetFits(s[j]) /\ (j > 1 => ~s[j].fixed)
        BY <1>2, <1>7, <2>1 DEF StitchFits, CompFits
    <2>4. Len(s) + 1 > 1 => r0.i > 1
        <3>1. r0.i \in Nat /\ r0.i >= 1
            BY <1>2
        <3>2. r0.i = 1 => Len(s) = 0
            <4>1. PICK none : none = <<>>
                OBVIOUS
            <4>2. Len(none) = 0
                BY <4>1
            <4> QED
                BY <1>7, <2>3, <4>1, <4>2
        <3> QED
            BY <3>1, <3>2
    <2>5. rect # NoRect =>
            OffsetFits(Band(rect)) /\ (Len(s) + 1 > 1 => ~Band(rect).fixed)
        BY <1>11, <2>1, <2>2, <2>4
    <2>6. \A j \in 1..Len(u) : OffsetFits(u[j]) /\ (j > 1 => ~u[j].fixed)
        BY <1>15, <2>3, <2>5
    <2>7. ASSUME ~r.resized PROVE r.plan = PlanTiles(o.height) /\ r0.landed = tile.scrollY
        BY <1>2, <1>4, <1>10, <2>1, <2>7 DEF StitchFits, PlanFits
    <2>8. ASSUME ~r.resized, NEW m \in 1..r.i PROVE RectOf(r, m) = NoRect \/ Shows(r.comp, RectOf(r, m))
        <3>1. RectOf(r, m) = RectOf(r0, m)
            BY <1>10 DEF RectOf
        <3>2. CASE m = r0.i
            <4>1. RectOf(r0, m) = rect
                BY <1>4, <1>6, <2>7, <2>8, <3>2, Zenon DEF RectOf
            <4>2. rect # NoRect => Shows(u, rect)
                BY <1>11, <1>14 DEF Shows
            <4> QED
                BY <1>10, <3>1, <4>1, <4>2
        <3>3. CASE m # r0.i
            <4>1. DrawnUpTo(r0) = r0.i - 1 /\ m \in 1..(r0.i - 1)
                BY <1>2, <1>10, <2>3, <2>8, <3>3 DEF DrawnUpTo
            <4>2. RectOf(r0, m) = NoRect \/ Shows(s, RectOf(r0, m))
                BY <1>7, <1>10, <2>1, <2>8, <4>1 DEF StitchFits, PlanFits
            <4>3. Shows(s, RectOf(r0, m)) => Shows(u, RectOf(r0, m))
                BY <1>13 DEF Shows
            <4> QED
                BY <1>10, <3>1, <4>2, <4>3
        <3> QED
            BY <3>2, <3>3
    <2> QED
        BY <1>10, <2>2, <2>3, <2>6, <2>7, <2>8
<1> QED
    BY <1>16, <1>17, <1>18 DEF Ready

LEMMA TileImage ==
    ASSUME CaptureInv, ImageInv, NEW f \in Flows, Tile(f)
    PROVE  ImageInv'
<1>1. flow[f].pc = "tile" /\ flow[f].pc \in Pcs /\ active' = active /\ holder' = holder
    BY DEF Tile, Pcs
<1>2. IsRun(flow[f]) /\ StepFits(flow[f]) /\ holder \in {0, f}
    BY <1>1, RunFacts DEF StepFits, Locking
<1>3. PICK r : r = Drawn(flow[f])
    OBVIOUS
<1>4. IsRun(r) /\ Alike(r, flow[f]) /\ r.tab = flow[f].tab
    BY <1>2, <1>3, DrawnIsAlike DEF Alike
<1>5. PICK o : o = page[r.tab]
    OBVIOUS
<1>6. Ready(r, o, r.i, active) /\ (~r.disturbed /\ r.mode = "full" /\ r.i > 1 => o.hidden)
    BY <1>1, <1>3, <1>4, <1>5, DrawnImage
<1>7. PICK last \in Nat : last = Len(r.plan.tiles) /\ r.i \in 1..last
    <2>1. r.i \in 1..Len(r.plan.tiles)
        BY <1>1, <1>2, <1>4 DEF StepFits, Alike
    <2>2. Len(r.plan.tiles) \in Nat
        BY <1>4 DEF IsRun, Plans
    <2> QED
        BY <2>1, <2>2
<1>8. CASE r.i = last
    <2>1. PICK x : x = [r EXCEPT !.ok = TRUE]
        OBVIOUS
    <2>2. Finally(f, x)
        <3> DEFINE d == Drawn(flow[f])
        <3>1. d.i = Len(d.plan.tiles) /\ ~(d.i = 1 /\ Len(d.plan.tiles) > 1)
            <4>1. PICK n : n = Len(r.plan.tiles)
                OBVIOUS
            <4>2. r.i = n /\ n \in Nat
                BY <1>7, <1>8, <4>1, Zenon
            <4>3. ~(r.i = 1 /\ n > 1)
                BY <4>2
            <4> QED
                BY <1>3, <4>1, <4>2, <4>3, Zenon
        <3>2. Finally(f, [d EXCEPT !.ok = TRUE])
            BY <3>1, Zenon DEF Tile
        <3> QED
            BY <1>3, <2>1, <3>2, Zenon
    <2>3. IsRun(x) /\ Alike(x, r)
        <3>1. TRUE \in BOOLEAN
            OBVIOUS
        <3> QED
            BY <1>4, <2>1, <3>1, ImageSet, Zenon
    <2>4. x.tab = r.tab
        BY <2>3 DEF Alike
    <2>5. Ready(r, o, Len(r.plan.tiles), active)
        BY <1>6, <1>7, <1>8
    <2>6. Closes(x, o.height, active)
        BY <1>4, <2>1, <2>5, DoneCloses
    <2> QED
        BY <1>1, <1>4, <1>5, <2>2, <2>3, <2>4, <2>6, FinallyImage
<1>9. CASE r.i # last /\ r.i = 1 /\ last > 1
    <2>1. Ask(f, r, "hide", "hide", 0)
        BY <1>3, <1>7, <1>9 DEF Tile
    <2>2. "hide" \in Asking /\ 0 \in Int
        BY DEF Asking
    <2>3. \A q, p : Asks(f, r, "hide", 0, q, p, o) => ImageFits(f, q, p, active)
        BY <1>6, <1>9, HideFits
    <2> QED
        BY <1>1, <1>2, <1>4, <1>5, <2>1, <2>2, <2>3, AskedImage
<1>10. CASE r.i # last /\ ~(r.i = 1 /\ last > 1)
    <2>1. PICK i \in Nat : i = r.i + 1 /\ i \in 1..last /\ i > 1
        BY <1>7, <1>10
    <2>2. PICK x : x = [r EXCEPT !.i = i]
        OBVIOUS
    <2>3. PICK y : y = r.plan.tiles[i].scrollY
        OBVIOUS
    <2>4. Ask(f, x, "scroll", "scroll", y)
        BY <1>3, <1>7, <1>10, <2>1, <2>2, <2>3 DEF Tile
    <2>5. y \in Int
        BY <1>4, <1>7, <2>1, <2>3, TileTyped
    <2>6. IsRun(x)
        BY <1>4, <2>2, RunSet
    <2>7. /\ x.i = i /\ x.mode = r.mode /\ x.tab = r.tab /\ x.plan = r.plan /\ x.comp = r.comp
          /\ x.landed = r.landed /\ x.imageHeight = r.imageHeight /\ x.ok = r.ok
          /\ x.disturbed = r.disturbed /\ x.resized = r.resized
        BY <1>4, <2>2 DEF IsRun
    <2>8. i - 1 = r.i /\ r.i > 1
        BY <1>7, <1>10, <2>1
    <2>9. Ready(x, o, x.i - 1, active)
        <3>1. \A m \in 1..r.i : RectOf(x, m) = RectOf(r, m)
            BY <2>7 DEF RectOf
        <3> QED
            BY <1>6, <2>7, <2>8, <3>1 DEF Ready, Painted
    <2>10. "scroll" \in Asking
        BY DEF Asking
    <2>11. y = x.plan.tiles[x.i].scrollY /\ x.i > 1 /\ (~x.disturbed /\ x.mode = "full" => o.hidden)
        BY <1>6, <2>1, <2>3, <2>7, <2>8
    <2>12. \A q, p : Asks(f, x, "scroll", y, q, p, o) => ImageFits(f, q, p, active)
        BY <2>9, <2>11, ScrollFits
    <2>13. o = page[x.tab]
        BY <1>5, <2>7
    <2> QED
        BY <1>1, <1>2, <2>4, <2>5, <2>6, <2>10, <2>12, <2>13, AskedImage
<1> QED
    BY <1>8, <1>9, <1>10

LEMMA HiddenImage ==
    ASSUME CaptureInv, ImageInv, NEW f \in Flows, Hidden(f)
    PROVE  ImageInv'
<1>1. /\ flow[f].pc = "hide" /\ flow[f].pc \in Pcs /\ active' = active /\ holder' = holder
      /\ flow[f].reply # Waiting
    BY DEF Hidden, Pcs, Asking
<1>2. CASE flow[f].reply = Rejected
    BY <1>1, <1>2, GivesUpImage DEF Hidden
<1>3. CASE flow[f].reply # Rejected
    <2>1. PICK r : r = flow[f]
        OBVIOUS
    <2>2. PICK o : o = page[r.tab]
        OBVIOUS
    <2>3. IsRun(r) /\ StepFits(r) /\ ImageFits(f, r, o, active) /\ holder \in {0, f}
        BY <1>1, <2>1, <2>2, ImageOf, RunFacts DEF StepFits, Locking
    <2>4. HasAnswer(r) /\ r.pc = "hide"
        BY <1>1, <1>3, <2>1 DEF HasAnswer
    <2>5. PICK x : x = [r EXCEPT !.i = 2]
        OBVIOUS
    <2>6. PICK y : y = r.plan.tiles[2].scrollY
        OBVIOUS
    <2>7. Ask(f, x, "scroll", "scroll", y)
        BY <1>3, <2>1, <2>5, <2>6 DEF Hidden
    <2>8. y \in Int
        <3>1. Len(r.plan.tiles) \in Nat /\ Len(r.plan.tiles) > 1
            BY <2>3, <2>4, TileTyped DEF StepFits
        <3>2. 2 \in 1..Len(r.plan.tiles)
            BY <3>1
        <3> QED
            BY <2>3, <2>6, <3>2, TileTyped
    <2>9. IsRun(x)
        BY <2>3, <2>5, RunSet
    <2>10. /\ x.i = 2 /\ x.mode = r.mode /\ x.tab = r.tab /\ x.plan = r.plan /\ x.comp = r.comp
           /\ x.landed = r.landed /\ x.imageHeight = r.imageHeight /\ x.ok = r.ok
           /\ x.disturbed = r.disturbed /\ x.resized = r.resized
        BY <2>3, <2>5 DEF IsRun
    <2>11. ASSUME ~r.disturbed, r.mode = "full"
           PROVE  /\ o.inbox = <<>> /\ ~r.ok /\ o.hidden /\ r.imageHeight \in SnapshotHeights
                  /\ \A j \in 1..Len(r.comp) : OffsetFits(r.comp[j]) /\ (j > 1 => ~r.comp[j].fixed)
                  /\ ~r.resized =>
                       /\ r.plan = PlanTiles(o.height)
                       /\ \A m \in 1..1 : RectOf(r, m) = NoRect \/ Shows(r.comp, RectOf(r, m))
        <3>1. StitchFits(f, r, o)
            BY <2>3, <2>11 DEF ImageFits
        <3>2. o.inbox = <<>> /\ o.hidden
            BY <2>4, <3>1 DEF StitchFits, QueueFits, PlaceFits
        <3>3. /\ ~r.ok /\ r.imageHeight \in SnapshotHeights
              /\ \A j \in 1..Len(r.comp) : OffsetFits(r.comp[j]) /\ (j > 1 => ~r.comp[j].fixed)
            BY <2>4, <3>1 DEF StitchFits, CompFits
        <3>4. DrawnUpTo(r) = 1
            BY <2>4, <3>3 DEF DrawnUpTo
        <3>5. ASSUME ~r.resized
              PROVE  /\ r.plan = PlanTiles(o.height)
                     /\ \A m \in 1..1 : RectOf(r, m) = NoRect \/ Shows(r.comp, RectOf(r, m))
            BY <2>4, <3>1, <3>4, <3>5 DEF StitchFits, PlanFits
        <3> QED
            BY <3>2, <3>3, <3>5
    <2>12. \A m \in 1..1 : RectOf(x, m) = RectOf(r, m)
        BY <2>10 DEF RectOf
    <2>13. Ready(x, o, 1, active)
        BY <2>3, <2>10, <2>11, <2>12 DEF Ready, ImageFits, Painted
    <2>14. Ready(x, o, x.i - 1, active) /\ x.i > 1
        <3>1. x.i - 1 = 1
            BY <2>10
        <3> QED
            BY <2>10, <2>13, <3>1
    <2>15. "scroll" \in Asking
        BY DEF Asking
    <2>16. y = x.plan.tiles[x.i].scrollY /\ (~x.disturbed /\ x.mode = "full" => o.hidden)
        BY <2>6, <2>10, <2>11
    <2>17. \A q, p : Asks(f, x, "scroll", y, q, p, o) => ImageFits(f, q, p, active)
        BY <2>14, <2>16, ScrollFits
    <2>18. o = page[x.tab]
        BY <2>2, <2>10
    <2> QED
        BY <1>1, <2>3, <2>7, <2>8, <2>9, <2>15, <2>17, <2>18, AskedImage
<1> QED
    BY <1>2, <1>3

LEMMA EnsureActiveImage ==
    ASSUME CaptureInv, ImageInv, NEW f \in Flows, EnsureActive(f)
    PROVE  ImageInv'
<1>1. flow[f].pc = "check" /\ flow[f].pc \in Pcs /\ active' = active
    BY DEF EnsureActive, Pcs
<1>2. CASE active = flow[f].tab
    <2>1. PICK r : r = flow[f]
        OBVIOUS
    <2>2. PICK p : p = page[r.tab]
        OBVIOUS
    <2>3. IsRun(r) /\ ImageFits(f, r, p, active) /\ r.pc = "check"
        BY <1>1, <2>1, <2>2, ImageOf
    <2>4. PICK x : x = [r EXCEPT !.pc = "tile"]
        OBVIOUS
    <2>5. flow' = [flow EXCEPT ![f] = x] /\ page' = page
        BY <1>2, <2>1, <2>4 DEF EnsureActive, CaptureInv, TypeOK
    <2>6. Depicts(x, r) /\ x.pc = "tile" /\ x.n = r.n /\ x.reply = r.reply /\ x.tab = r.tab
        BY <2>3, <2>4 DEF IsRun, Depicts
    <2>7. Painted(x) /\ (~x.disturbed => x.tab = active /\ \A j \in 1..Len(x.comp) : x.comp[j].of = active)
        BY <2>3, <2>6 DEF ImageFits, Painted, Depicts
    <2>8. ASSUME ~x.disturbed, x.mode = "full" PROVE StitchFits(f, x, p)
        <3>1. StitchFits(f, r, p)
            BY <2>3, <2>6, <2>8 DEF ImageFits, Depicts
        <3>2. QueueFits(f, x, p.inbox) /\ PlaceFits(x, p)
            BY <2>3, <2>6, <3>1 DEF StitchFits, QueueFits, PlaceFits, Depicts
        <3>3. CompFits(x)
            BY <2>3, <2>6, <3>1 DEF StitchFits, CompFits, Depicts
        <3>4. ~x.resized => PlanFits(x, p.height)
            BY <2>3, <2>6, <3>1 DEF StitchFits, PlanFits, RectOf, DrawnUpTo, Depicts
        <3> QED
            BY <3>2, <3>3, <3>4 DEF StitchFits
    <2>9. ImageFits(f, x, p, active)
        BY <2>7, <2>8 DEF ImageFits
    <2> QED
        BY <1>1, <2>2, <2>5, <2>6, <2>9, OwnImage
<1>3. CASE active # flow[f].tab
    BY <1>1, <1>3, GivesUpImage DEF EnsureActive
<1> QED
    BY <1>2, <1>3

LEMMA ScrolledImage ==
    ASSUME CaptureInv, ImageInv, NEW f \in Flows, Scrolled(f)
    PROVE  ImageInv'
<1> DEFINE back == flow[f].reply = Rejected \/ (flow[f].reply # Rejected /\ flow[f].reply.cancelled)
<1>1. /\ flow[f].pc = "scroll" /\ flow[f].pc \in Pcs /\ active' = active
      /\ flow[f].reply # Waiting
    BY DEF Scrolled, Pcs, Asking
<1>2. CASE back
    BY <1>1, <1>2, GivesUpImage DEF Scrolled
<1>3. CASE ~back
    <2>1. PICK r : r = flow[f]
        OBVIOUS
    <2>2. PICK p : p = page[r.tab]
        OBVIOUS
    <2>3. IsRun(r) /\ StepFits(r) /\ ImageFits(f, r, p, active) /\ r.pc = "scroll"
        BY <1>1, <2>1, <2>2, ImageOf
    <2>4. HasAnswer(r)
        BY <1>1, <1>3, <2>1 DEF HasAnswer
    <2>5. PICK y \in Int : y = r.reply.y
        BY <2>3, <2>4, ReplyKinds DEF IsRun, StepFits, HasAnswer, Replies, Waiting, Rejected
    <2>6. PICK x : x = [r EXCEPT !.pc = "check", !.landed = y]
        OBVIOUS
    <2>7. flow' = [flow EXCEPT ![f] = x] /\ page' = page
        <3>1. flow' = [flow EXCEPT ![f].pc = "check", ![f].landed = y] /\ page' = page
            BY <1>3, <2>1, <2>5, Zenon DEF Scrolled
        <3> QED
            BY <2>1, <2>6, <3>1 DEF CaptureInv, TypeOK
    <2>8. /\ x.pc = "check" /\ x.landed = y /\ x.n = r.n /\ x.reply = r.reply
          /\ x.i = r.i /\ x.mode = r.mode /\ x.tab = r.tab /\ x.plan = r.plan /\ x.comp = r.comp
          /\ x.imageHeight = r.imageHeight /\ x.ok = r.ok
          /\ x.disturbed = r.disturbed /\ x.resized = r.resized
        BY <2>3, <2>6 DEF IsRun
    <2>9. Painted(x) /\ (~x.disturbed => x.tab = active /\ \A j \in 1..Len(x.comp) : x.comp[j].of = active)
        BY <2>3, <2>8 DEF ImageFits, Painted
    <2>10. ASSUME ~x.disturbed, x.mode = "full" PROVE StitchFits(f, x, p)
        <3>1. StitchFits(f, r, p)
            BY <2>3, <2>8, <2>10 DEF ImageFits
        <3>2. QueueFits(f, x, p.inbox) /\ PlaceFits(x, p)
            BY <2>3, <2>4, <2>5, <2>8, <3>1 DEF StitchFits, QueueFits, PlaceFits, HasAnswer
        <3>3. CompFits(x)
            <4>1. r.i > 1
                BY <2>3, <3>1 DEF StitchFits, PlaceFits
            <4> QED
                BY <2>3, <2>8, <3>1, <4>1 DEF StitchFits, CompFits
        <3>4. ASSUME ~x.resized PROVE PlanFits(x, p.height)
            <4>1. PlanFits(r, p.height)
                BY <2>8, <3>1, <3>4 DEF StitchFits
            <4>2. DrawnUpTo(x) = DrawnUpTo(r)
                BY <2>3, <2>8 DEF DrawnUpTo
            <4>3. \A k \in 1..DrawnUpTo(x) : RectOf(x, k) = NoRect \/ Shows(x.comp, RectOf(x, k))
                BY <2>8, <4>1, <4>2 DEF PlanFits, RectOf
            <4> QED
                BY <2>3, <2>4, <2>5, <2>8, <4>1, <4>3 DEF PlanFits
        <3> QED
            BY <3>2, <3>3, <3>4 DEF StitchFits
    <2>11. ImageFits(f, x, p, active)
        BY <2>9, <2>10 DEF ImageFits
    <2> QED
        BY <1>1, <2>2, <2>7, <2>8, <2>11, OwnImage
<1> QED
    BY <1>2, <1>3

(* The first tile is the top of the page; every tile is where it can go.     *)
LEMMA FirstTile ==
    ASSUME NEW D \in Nat \ {0}
    PROVE  PlanTiles(D).tiles[1].scrollY = 0
<1>1. PICK H \in Nat \ {0}, n \in Nat \ {0} :
             \A i \in 1..n : PlanTiles(D).tiles[i] =
                  [scrollY |-> Min({(i - 1) * ViewportHeight, MaxScroll(D)}),
                   destY |-> (i - 1) * ViewportHeight,
                   height |-> Min({ViewportHeight, H - (i - 1) * ViewportHeight})]
    BY PlanIs
<1>2. PICK i \in 1..n : i = 1
    OBVIOUS
<1>3. (i - 1) * ViewportHeight = 0
    BY <1>2, GeometryAssumption
<1>4. PlanTiles(D).tiles[i].scrollY = Min({0, MaxScroll(D)})
    <2>1. PICK tile : tile = PlanTiles(D).tiles[i]
        OBVIOUS
    <2>2. tile = [scrollY |-> Min({(i - 1) * ViewportHeight, MaxScroll(D)}),
                  destY |-> (i - 1) * ViewportHeight,
                  height |-> Min({ViewportHeight, H - (i - 1) * ViewportHeight})]
        BY <1>1, <2>1, Zenon
    <2>3. tile.scrollY = Min({(i - 1) * ViewportHeight, MaxScroll(D)})
        BY <2>2
    <2> QED
        BY <1>3, <2>1, <2>3, Zenon
<1>5. PICK m \in Nat : m = MaxScroll(D)
    BY MaxScrollNat
<1>6. 0 \in Int /\ m \in Int
    OBVIOUS
<1>7. Min({0, m}) \in {0, m} /\ Min({0, m}) <= 0 /\ Min({0, m}) <= m
    BY <1>6, MinOfTwo
<1> QED
    BY <1>2, <1>4, <1>5, <1>7

LEMMA TileReached ==
    ASSUME NEW D \in Nat \ {0}, NEW k \in 1..Len(PlanTiles(D).tiles), NEW y,
           y = PlanTiles(D).tiles[k].scrollY
    PROVE  Min({y, MaxScroll(D)}) = y
<1>1. PICK H \in Nat \ {0}, n \in Nat \ {0} :
        /\ Len(PlanTiles(D).tiles) = n
        /\ \A i \in 1..n : PlanTiles(D).tiles[i] =
                  [scrollY |-> Min({(i - 1) * ViewportHeight, MaxScroll(D)}),
                   destY |-> (i - 1) * ViewportHeight,
                   height |-> Min({ViewportHeight, H - (i - 1) * ViewportHeight})]
    BY PlanIs
<1>2. PICK w \in Int : w = (k - 1) * ViewportHeight
    BY <1>1, GeometryAssumption
<1>3. PICK m \in Int : m = MaxScroll(D)
    BY MaxScrollNat
<1>4. y = Min({w, m})
    <2>1. k \in 1..n
        BY <1>1
    <2>2. PICK tile : tile = PlanTiles(D).tiles[k]
        OBVIOUS
    <2>3. tile = [scrollY |-> Min({(k - 1) * ViewportHeight, MaxScroll(D)}),
                  destY |-> (k - 1) * ViewportHeight,
                  height |-> Min({ViewportHeight, H - (k - 1) * ViewportHeight})]
        BY <1>1, <2>1, <2>2, Zenon
    <2>4. tile.scrollY = Min({(k - 1) * ViewportHeight, MaxScroll(D)})
        BY <2>3
    <2> QED
        BY <1>2, <1>3, <2>2, <2>4, Zenon
<1>5. y \in Int /\ y <= m
    BY <1>4, MinOfTwo
<1>6. Min({y, m}) \in {y, m} /\ Min({y, m}) <= y
    BY <1>5, MinOfTwo
<1>7. Min({y, m}) = y
    BY <1>5, <1>6
<1> QED
    BY <1>3, <1>7

LEMMA MeasuredImage ==
    ASSUME CaptureInv, ImageInv, NEW f \in Flows, Measured(f)
    PROVE  ImageInv'
<1>1. /\ flow[f].pc = "begin" /\ flow[f].pc \in Pcs /\ active' = active /\ page' = page
      /\ flow[f].reply # Waiting
    BY DEF Measured, Pcs, Asking
<1>2. CASE flow[f].reply = Rejected
    BY <1>1, <1>2, EndsImage DEF Measured
<1>3. CASE flow[f].reply # Rejected
    <2>1. PICK r : r = flow[f]
        OBVIOUS
    <2>2. PICK p : p = page[r.tab]
        OBVIOUS
    <2>3. IsRun(r) /\ StepFits(r) /\ ImageFits(f, r, p, active) /\ r.pc = "begin"
        BY <1>1, <2>1, <2>2, ImageOf
    <2>4. HasAnswer(r)
        BY <1>1, <1>3, <2>1 DEF HasAnswer
    <2>5. r.reply.height \in Nat \ {0}
        <3>1. r.reply \in Replies /\ r.reply.kind \in {"none", "error", "metrics"}
            BY <2>3 DEF IsRun, StepFits
        <3> QED
            BY <2>4, <3>1, ReplyKinds DEF HasAnswer
    <2>6. PICK plan : plan = PlanTiles(r.reply.height)
        OBVIOUS
    <2>7. PICK x : x = [r EXCEPT !.pc = "check", !.i = 1, !.plan = plan]
        OBVIOUS
    <2>8. flow' = [flow EXCEPT ![f] = x]
        BY <1>3, <2>1, <2>6, <2>7 DEF Measured, CaptureInv, TypeOK
    <2>9. /\ x.pc = "check" /\ x.i = 1 /\ x.plan = plan /\ x.landed = r.landed
          /\ x.mode = r.mode /\ x.tab = r.tab /\ x.comp = r.comp
          /\ x.imageHeight = r.imageHeight /\ x.ok = r.ok
          /\ x.disturbed = r.disturbed /\ x.resized = r.resized
        BY <2>3, <2>7 DEF IsRun
    <2>10. Painted(x) /\ (~x.disturbed => x.tab = active /\ \A j \in 1..Len(x.comp) : x.comp[j].of = active)
        BY <2>3, <2>9 DEF ImageFits, Painted
    <2>11. ASSUME ~x.disturbed, x.mode = "full" PROVE StitchFits(f, x, p)
        <3>1. StitchFits(f, r, p)
            BY <2>3, <2>9, <2>11 DEF ImageFits
        <3>2. p.inbox = <<>> /\ p.y = 0 /\ r.landed = 0 /\ r.comp = <<>> /\ ~r.ok
            BY <2>3, <2>4, <3>1 DEF StitchFits, QueueFits, PlaceFits, CompFits
        <3>3. QueueFits(f, x, p.inbox) /\ PlaceFits(x, p)
            BY <2>9, <3>2 DEF QueueFits, PlaceFits
        <3>4. CompFits(x)
            BY <2>3, <2>9, <3>1, <3>2 DEF StitchFits, CompFits
        <3>5. ASSUME ~x.resized PROVE PlanFits(x, p.height)
            <4>1. r.reply.height = p.height
                BY <2>3, <2>4, <2>9, <3>1, <3>5 DEF StitchFits, PlanFits
            <4>2. plan.tiles[1].scrollY = 0
                BY <2>5, <2>6, FirstTile
            <4>3. DrawnUpTo(x) = 0
                BY <2>9, <3>2 DEF DrawnUpTo
            <4> QED
                BY <2>6, <2>9, <3>2, <4>1, <4>2, <4>3 DEF PlanFits
        <3> QED
            BY <3>3, <3>4, <3>5 DEF StitchFits
    <2>12. ImageFits(f, x, p, active)
        BY <2>10, <2>11 DEF ImageFits
    <2> QED
        BY <1>1, <2>2, <2>8, <2>9, <2>12, OwnImage
<1> QED
    BY <1>2, <1>3
-----------------------------------------------------------------------------
(* What happens around the captures.                                         *)

LEMMA EachImage ==
    ASSUME \A g \in Flows : Live(g)' =>
             flow'[g].tab = flow[g].tab /\ ImageFits(g, flow'[g], page'[flow[g].tab], active')
    PROVE  ImageInv'
BY DEF ImageInv

LEMMA LiveImage ==
    ASSUME CaptureInv, ImageInv, NEW g \in Flows, Live(g)
    PROVE  IsRun(flow[g]) /\ ImageFits(g, flow[g], page[flow[g].tab], active) /\ flow[g].tab \in Tabs
BY LiveIsRun, TabsOfRuns DEF CaptureInv, ImageInv

(* Nothing changes that a capture could see. *)
LEMMA QuietImage ==
    ASSUME CaptureInv, ImageInv, flow' = flow, active' = active,
           \A u \in Tabs : LooksAlike(page'[u], page[u])
    PROVE  ImageInv'
<1> SUFFICES ASSUME NEW g \in Flows, Live(g)
             PROVE  ImageFits(g, flow[g], page'[flow[g].tab], active)
    BY EachImage DEF Live
<1>1. PICK r : r = flow[g]
    OBVIOUS
<1>2. ImageFits(g, r, page[r.tab], active) /\ r.tab \in Tabs
    BY <1>1, LiveImage
<1>3. PICK p : p = page'[r.tab] /\ LooksAlike(p, page[r.tab])
    BY <1>2
<1>4. Depicts(r, r)
    BY DEF Depicts
<1>5. ImageFits(g, r, p, active)
    BY <1>2, <1>3, <1>4, SameImage
<1> QED
    BY <1>1, <1>3, <1>5

LEMMA EscapeImage ==
    ASSUME CaptureInv, ImageInv, Escape
    PROVE  ImageInv'
<1>1. PICK o : o = page[active] /\ o \in Pages
    BY DEF CaptureInv, TypeOK
<1>2. PICK q : q = [o EXCEPT !.cancelled = TRUE]
    OBVIOUS
<1>3. page' = [page EXCEPT ![active] = q] /\ flow' = flow /\ active' = active
    BY <1>1, <1>2 DEF Escape, background, CaptureInv, TypeOK
<1>4. LooksAlike(q, o)
    BY <1>1, <1>2 DEF Pages, LooksAlike
<1>5. \A u \in Tabs : page'[u] = page[u] \/ (page'[u] = q /\ page[u] = o)
    BY <1>1, <1>3 DEF CaptureInv, TypeOK
<1>6. \A u \in Tabs : LooksAlike(page'[u], page[u])
    BY <1>4, <1>5 DEF LooksAlike
<1> QED
    BY <1>3, <1>6, QuietImage

LEMMA RegionEndsImage ==
    ASSUME CaptureInv, ImageInv, NEW chosen, RegionEnds(chosen)
    PROVE  ImageInv'
<1>1. PICK o : o = page[active] /\ o \in Pages
    BY DEF CaptureInv, TypeOK
<1>2. PICK q : q = [o EXCEPT !.overlays = o.overlays - 1]
    OBVIOUS
<1>3. page' = [page EXCEPT ![active] = q] /\ flow' = flow /\ active' = active
    BY <1>1, <1>2 DEF RegionEnds, CaptureInv, TypeOK
<1>4. LooksAlike(q, o)
    BY <1>1, <1>2 DEF Pages, LooksAlike
<1>5. \A u \in Tabs : page'[u] = page[u] \/ (page'[u] = q /\ page[u] = o)
    BY <1>1, <1>3 DEF CaptureInv, TypeOK
<1>6. \A u \in Tabs : LooksAlike(page'[u], page[u])
    BY <1>4, <1>5 DEF LooksAlike
<1> QED
    BY <1>3, <1>6, QuietImage

(* The captures of a tab are marked. *)
LEMMA MarkedIs ==
    ASSUME CaptureInv, NEW t, NEW g \in Flows, flow' = Marked(t, "disturbed")
    PROVE  /\ Live(g)' => Live(g)
           /\ Live(g) /\ flow[g].tab # t => flow'[g] = flow[g]
           /\ Live(g) /\ flow[g].tab = t =>
                /\ flow'[g].disturbed /\ flow'[g].tab = t /\ flow'[g].comp = flow[g].comp
                /\ flow'[g].landed = flow[g].landed /\ flow'[g].imageHeight = flow[g].imageHeight
<1>1. flow'[g] = IF Live(g) /\ flow[g].tab = t THEN [flow[g] EXCEPT !.disturbed = TRUE] ELSE flow[g]
    BY DEF Marked
<1>2. PICK r : r = flow[g]
    OBVIOUS
<1>3. CASE Live(g) /\ r.tab = t
    <2>1. IsRun(r)
        BY <1>2, <1>3, LiveIsRun DEF CaptureInv
    <2>2. PICK q : q = [r EXCEPT !.disturbed = TRUE]
        OBVIOUS
    <2>3. /\ q.disturbed = TRUE /\ q.tab = r.tab /\ q.comp = r.comp /\ q.landed = r.landed
          /\ q.imageHeight = r.imageHeight
        BY <2>1, <2>2 DEF IsRun
    <2>4. flow'[g] = q
        BY <1>1, <1>2, <1>3, <2>2
    <2> QED
        BY <1>2, <1>3, <2>3, <2>4
<1>4. CASE ~(Live(g) /\ r.tab = t)
    <2>1. flow'[g] = flow[g]
        BY <1>1, <1>2, <1>4
    <2> QED
        BY <1>2, <1>4, <2>1 DEF Live
<1> QED
    BY <1>3, <1>4

(* Whatever happens to the window, its captures know; the rest are lost.     *)
LEMMA WindowImage ==
    ASSUME CaptureInv, ImageInv, flow' = Marked(active, "disturbed")
    PROVE  ImageInv'
<1> SUFFICES ASSUME NEW g \in Flows, Live(g)'
             PROVE  flow'[g].tab = flow[g].tab /\ ImageFits(g, flow'[g], page'[flow[g].tab], active')
    BY EachImage
<1>1. PICK r : r = flow[g]
    OBVIOUS
<1>2. PICK q : q = flow'[g]
    OBVIOUS
<1>3. Live(g) /\ ImageFits(g, r, page[r.tab], active)
    BY <1>1, MarkedIs, LiveImage
<1>4. /\ q.tab = r.tab /\ q.comp = r.comp /\ q.landed = r.landed /\ q.imageHeight = r.imageHeight
      /\ q.disturbed
    <2>1. CASE r.tab = active
        BY <1>1, <1>2, <1>3, <2>1, MarkedIs
    <2>2. CASE r.tab # active
        <3>1. q = r
            BY <1>1, <1>2, <1>3, <2>2, MarkedIs
        <3>2. r.disturbed
            BY <1>3, <2>2 DEF ImageFits
        <3> QED
            BY <3>1, <3>2
    <2> QED
        BY <2>1, <2>2
<1>5. ImageFits(g, q, page'[r.tab], active')
    BY <1>3, <1>4, LostImage
<1> QED
    BY <1>1, <1>2, <1>4, <1>5

LEMMA SwitchImage ==
    ASSUME CaptureInv, ImageInv, NEW t \in Tabs, Switch(t)
    PROVE  ImageInv'
BY WindowImage DEF Switch

LEMMA UserScrollsImage ==
    ASSUME CaptureInv, ImageInv, NEW y \in Scrolls, UserScrolls(y)
    PROVE  ImageInv'
BY WindowImage DEF UserScrolls

LEMMA WatchdogImage ==
    ASSUME CaptureInv, ImageInv, NEW t \in Tabs, Watchdog(t)
    PROVE  ImageInv'
<1>1. flow' = Marked(t, "disturbed") /\ active' = active /\ \A u \in Tabs : u # t => page'[u] = page[u]
    BY DEF Watchdog, CaptureInv, TypeOK
<1> SUFFICES ASSUME NEW g \in Flows, Live(g)'
             PROVE  flow'[g].tab = flow[g].tab /\ ImageFits(g, flow'[g], page'[flow[g].tab], active')
    BY EachImage
<1>2. PICK r : r = flow[g]
    OBVIOUS
<1>3. PICK q : q = flow'[g]
    OBVIOUS
<1>4. Live(g) /\ ImageFits(g, r, page[r.tab], active) /\ r.tab \in Tabs
    BY <1>1, <1>2, MarkedIs, LiveImage
<1>5. CASE r.tab = t
    <2>1. /\ q.tab = r.tab /\ q.comp = r.comp /\ q.landed = r.landed
          /\ q.imageHeight = r.imageHeight /\ q.disturbed
        BY <1>1, <1>2, <1>3, <1>4, <1>5, MarkedIs
    <2>2. ImageFits(g, q, page'[r.tab], active')
        BY <1>4, <2>1, LostImage
    <2> QED
        BY <1>2, <1>3, <2>1, <2>2
<1>6. CASE r.tab # t
    <2>1. q = r /\ page'[r.tab] = page[r.tab]
        BY <1>1, <1>2, <1>3, <1>4, <1>6, MarkedIs
    <2> QED
        BY <1>1, <1>2, <1>3, <1>4, <2>1
<1> QED
    BY <1>5, <1>6

LEMMA LeavesImage ==
    ASSUME CaptureInv, ImageInv, NEW t \in Tabs, NEW open \in BOOLEAN, Leaves(t, open)
    PROVE  ImageInv'
<1>1. /\ \A u \in Tabs : u # t => page'[u] = page[u]
      /\ active' = active \/ active = t
    BY DEF Leaves, CaptureInv, TypeOK
<1>2. ASSUME NEW g \in Flows
      PROVE  flow'[g] = IF ~Live(g) \/ (Live(g) /\ flow[g].tab # t) THEN flow[g]
                        ELSE [flow[g] EXCEPT !.disturbed = TRUE,
                                             !.reply = IF @ = Waiting THEN Rejected ELSE @]
    BY Zenon DEF Leaves
<1> SUFFICES ASSUME NEW g \in Flows, Live(g)'
             PROVE  flow'[g].tab = flow[g].tab /\ ImageFits(g, flow'[g], page'[flow[g].tab], active')
    BY EachImage
<1>3. PICK r : r = flow[g]
    OBVIOUS
<1>4. PICK q : q = flow'[g]
    OBVIOUS
<1>5. Live(g)
    <2>1. ~Live(g) => flow'[g] = flow[g]
        BY <1>2
    <2> QED
        BY <2>1 DEF Live
<1>6. IsRun(r) /\ ImageFits(g, r, page[r.tab], active) /\ r.tab \in Tabs
    BY <1>3, <1>5, LiveImage
<1>7. CASE r.tab = t
    <2>1. PICK a : a = IF r.reply = Waiting THEN Rejected ELSE r.reply
        OBVIOUS
    <2>2. q = [r EXCEPT !.disturbed = TRUE, !.reply = a]
        BY <1>2, <1>3, <1>4, <1>5, <1>7, <2>1, Zenon
    <2>3. /\ q.tab = r.tab /\ q.comp = r.comp /\ q.landed = r.landed
          /\ q.imageHeight = r.imageHeight /\ q.disturbed = TRUE
        BY <1>6, <2>2 DEF IsRun
    <2>4. ImageFits(g, q, page'[r.tab], active')
        BY <1>6, <2>3, LostImage
    <2> QED
        BY <1>3, <1>4, <2>3, <2>4
<1>8. CASE r.tab # t
    <2>1. q = r /\ page'[r.tab] = page[r.tab]
        BY <1>1, <1>2, <1>3, <1>4, <1>5, <1>6, <1>8
    <2>2. ImageFits(g, r, page[r.tab], active')
        <3>1. CASE active' = active
            BY <1>6, <3>1
        <3>2. CASE active = t
            <4>1. r.disturbed
                BY <1>6, <1>8, <3>2 DEF ImageFits
            <4> QED
                BY <1>6, <4>1, LostImage
        <3> QED
            BY <1>1, <3>1, <3>2
    <2> QED
        BY <1>3, <1>4, <2>1, <2>2
<1> QED
    BY <1>7, <1>8

LEMMA RecycleImage ==
    ASSUME CaptureInv, ImageInv, Recycle
    PROVE  ImageInv'
<1>1. \A g \in Flows : flow'[g] = IF Live(g) THEN Over ELSE flow[g]
    BY DEF Recycle
<1>2. \A g \in Flows : ~Live(g)'
    BY <1>1, OverIsDead DEF Live
<1> QED
    BY <1>2 DEF ImageInv

(* The document has another height, and the page is where it was. *)
LEMMA ResizedImage ==
    ASSUME NEW f, NEW r, NEW q, NEW p, NEW o, NEW t, ImageFits(f, r, o, t), q.resized,
           q.mode = r.mode, q.tab = r.tab, q.i = r.i, q.plan = r.plan, q.comp = r.comp,
           q.landed = r.landed, q.imageHeight = r.imageHeight, q.ok = r.ok,
           q.disturbed = r.disturbed, q.pc = r.pc, q.n = r.n, q.reply = r.reply,
           p.y = o.y, p.hidden = o.hidden, p.inbox = o.inbox
    PROVE  ImageFits(f, q, p, t)
<1>1. Painted(q) /\ (~q.disturbed => q.tab = t /\ \A j \in 1..Len(q.comp) : q.comp[j].of = t)
    BY DEF ImageFits, Painted
<1>2. ASSUME ~q.disturbed, q.mode = "full" PROVE StitchFits(f, q, p)
    <2>1. StitchFits(f, r, o)
        BY <1>2 DEF ImageFits
    <2>2. QueueFits(f, q, p.inbox)
        BY <2>1 DEF StitchFits, QueueFits, BeginQueued, AskedFor, HasAnswer
    <2>3. PlaceFits(q, p)
        BY <2>1 DEF StitchFits, PlaceFits, HasAnswer
    <2>4. CompFits(q)
        BY <2>1 DEF StitchFits, CompFits
    <2> QED
        BY <2>2, <2>3, <2>4 DEF StitchFits
<1> QED
    BY <1>1, <1>2 DEF ImageFits

LEMMA ResizesImage ==
    ASSUME CaptureInv, ImageInv, NEW t \in Tabs, NEW h \in Heights, Resizes(t, h)
    PROVE  ImageInv'
<1>1. PICK o : o = page[t] /\ o \in Pages
    BY DEF CaptureInv, TypeOK
<1>2. PICK m \in Int : m = MaxScroll(h)
    BY MaxScrollNat, ExtensionAssumption
<1>3. PICK y : y = Min({o.y, m})
    OBVIOUS
<1>4. PICK home : home = IF o.driver.driving THEN o.home ELSE y
    OBVIOUS
<1>5. PICK p : p = Moved(o, h, y)
    OBVIOUS
<1>6. page' = [page EXCEPT ![t] = p] /\ active' = active
    <2>1. page' = [page EXCEPT ![t].height = h, ![t].y = y, ![t].home = home] /\ active' = active
        BY <1>1, <1>2, <1>3, <1>4, Zenon DEF Resizes
    <2>2. p = [o EXCEPT !.height = h, !.y = y, !.home = home]
        BY <1>4, <1>5, Zenon DEF Moved
    <2> QED
        BY <1>1, <2>1, <2>2 DEF CaptureInv, TypeOK
<1>7. p.y = y /\ p.hidden = o.hidden /\ p.inbox = o.inbox /\ o.y \in Int
    <2>1. p = [o EXCEPT !.height = h, !.y = y, !.home = home]
        BY <1>4, <1>5, Zenon DEF Moved
    <2> QED
        BY <1>1, <2>1 DEF Pages
<1>8. page'[t] = p /\ \A u \in Tabs : u # t => page'[u] = page[u]
    BY <1>6 DEF CaptureInv, TypeOK
<1>9. o.y <= m => p.y = o.y
    <2>1. y \in {o.y, m} /\ y <= o.y /\ y <= m
        BY <1>2, <1>3, <1>7, MinOfTwo
    <2> QED
        BY <1>2, <1>7, <2>1
<1> SUFFICES ASSUME NEW g \in Flows, Live(g)'
             PROVE  flow'[g].tab = flow[g].tab /\ ImageFits(g, flow'[g], page'[flow[g].tab], active')
    BY EachImage
<1>10. PICK r : r = flow[g]
    OBVIOUS
<1>11. PICK q : q = flow'[g]
    OBVIOUS
<1>12. q = IF Live(g) /\ r.tab = t
           THEN [r EXCEPT !.resized = TRUE, !.disturbed = r.disturbed \/ page[t].y > MaxScroll(h)] ELSE r
    BY <1>10, <1>11, Zenon DEF Resizes
<1>13. Live(g)
    BY <1>10, <1>11, <1>12 DEF Live
<1>14. IsRun(r) /\ ImageFits(g, r, page[r.tab], active) /\ r.tab \in Tabs
    BY <1>10, <1>13, LiveImage
<1>15. CASE r.tab = t
    <2>1. PICK b \in BOOLEAN : b = (r.disturbed \/ page[t].y > MaxScroll(h))
        OBVIOUS
    <2>2. q = [r EXCEPT !.resized = TRUE, !.disturbed = b]
        BY <1>12, <1>13, <1>15, <2>1, Zenon
    <2>3. /\ q.resized = TRUE /\ q.mode = r.mode /\ q.tab = r.tab /\ q.i = r.i /\ q.plan = r.plan
          /\ q.comp = r.comp /\ q.landed = r.landed /\ q.imageHeight = r.imageHeight /\ q.ok = r.ok
          /\ q.disturbed = b /\ q.pc = r.pc /\ q.n = r.n /\ q.reply = r.reply
        BY <1>14, <2>2 DEF IsRun
    <2>4. CASE b = TRUE
        <3>1. ImageFits(g, q, p, active)
            BY <1>14, <2>3, <2>4, LostImage
        <3> QED
            BY <1>6, <1>8, <1>10, <1>11, <1>15, <2>3, <3>1
    <2>5. CASE b = FALSE
        <3>1. ~r.disturbed /\ ~(page[t].y > MaxScroll(h))
            BY <2>1, <2>5, Zenon
        <3>2. p.y = o.y
            BY <1>1, <1>2, <1>7, <1>9, <3>1
        <3>3. q.disturbed = r.disturbed
            BY <1>14, <2>3, <2>5, <3>1 DEF IsRun
        <3>4. ImageFits(g, r, o, active)
            BY <1>1, <1>14, <1>15
        <3>5. ImageFits(g, q, p, active)
            BY <1>7, <2>3, <3>2, <3>3, <3>4, ResizedImage
        <3> QED
            BY <1>6, <1>8, <1>10, <1>11, <1>15, <2>3, <3>5
    <2> QED
        BY <2>4, <2>5
<1>16. CASE r.tab # t
    <2>1. q = r
        BY <1>12, <1>16
    <2> QED
        BY <1>6, <1>8, <1>10, <1>11, <1>14, <1>16, <2>1
<1> QED
    BY <1>15, <1>16

(* A selection whose tab's event or result came too early looks the same. *)
LEMMA MissedImage ==
    ASSUME CaptureInv, ImageInv, NEW t, NEW g \in Flows, Live(g), NEW q, q = Missed(t)[g]
    PROVE  q.tab = flow[g].tab /\ ImageFits(g, q, page[flow[g].tab], active)
<1>1. PICK r : r = flow[g]
    OBVIOUS
<1>2. IsRun(r) /\ ImageFits(g, r, page[r.tab], active)
    BY <1>1, LiveImage
<1>3. q = IF r.pc = "select" /\ r.tab = t THEN [r EXCEPT !.missed = TRUE] ELSE r
    BY <1>1, Zenon DEF Missed
<1>4. CASE q = [r EXCEPT !.missed = TRUE]
    <2>1. Depicts(q, r) /\ q.pc = r.pc /\ q.n = r.n /\ q.reply = r.reply
        BY <1>2, <1>4 DEF IsRun, Depicts
    <2>2. LooksAlike(page[r.tab], page[r.tab])
        BY DEF LooksAlike
    <2>3. ImageFits(g, q, page[r.tab], active)
        BY <1>2, <2>1, <2>2, SameImage
    <2> QED
        BY <1>1, <2>1, <2>3 DEF Depicts
<1> QED
    BY <1>1, <1>2, <1>3, <1>4

LEMMA AbandonRegionImage ==
    ASSUME CaptureInv, ImageInv, NEW t \in Tabs, AbandonRegion(t)
    PROVE  ImageInv'
<1>1. page' = page /\ active' = active
    BY DEF AbandonRegion
<1>2. CASE pendingRegions[t] = 0
    <2>1. flow' = Missed(t)
        BY <1>2 DEF AbandonRegion
    <2> SUFFICES ASSUME NEW g \in Flows, Live(g)'
                 PROVE  flow'[g].tab = flow[g].tab /\ ImageFits(g, flow'[g], page'[flow[g].tab], active')
        BY EachImage
    <2>2. Live(g)
        BY <2>1, MissedTouches DEF Live, Touched, CaptureInv
    <2>3. PICK q : q = flow'[g] /\ q = Missed(t)[g]
        BY <2>1
    <2>4. q.tab = flow[g].tab /\ ImageFits(g, q, page[flow[g].tab], active)
        BY <2>2, <2>3, MissedImage
    <2> QED
        BY <1>1, <2>3, <2>4
<1>3. CASE pendingRegions[t] # 0
    <2>1. PICK p \in Flows : p = pendingRegions[t]
        BY <1>3 DEF CaptureInv, TypeOK
    <2>2. Ends(p)
        BY <1>3, <2>1 DEF AbandonRegion
    <2> QED
        BY <1>1, <2>2, EndsImage
<1> QED
    BY <1>2, <1>3

LEMMA HandleRegionResultImage ==
    ASSUME CaptureInv, ImageInv, NEW m \in results, NEW f \in Flows, HandleRegionResult(m, f)
    PROVE  ImageInv'
<1>1. PICK t \in Tabs : t = m.tab
    BY DEF CaptureInv, TypeOK, Results
<1>2. PICK x : x = [NewFlow("region", t, "shot") EXCEPT !.disturbed = t # active]
    OBVIOUS
<1>3. /\ page' = page /\ active' = active
      /\ f = pendingRegions[t] \/ (pendingRegions[t] = 0 /\ Unused(f))
    BY <1>1 DEF HandleRegionResult
<1>4. flow' = IF m.selected THEN [Missed(t) EXCEPT ![f] = x]
              ELSE IF pendingRegions[t] = 0 THEN Missed(t)
              ELSE [flow EXCEPT ![pendingRegions[t]] = Over]
    BY <1>1, <1>2, Zenon DEF HandleRegionResult
<1>5. ImageFits(f, x, page[x.tab], active)
    <2>1. /\ x.tab = t /\ x.comp = <<>> /\ x.landed = 0 /\ x.imageHeight = 0 /\ x.mode = "region"
          /\ x.disturbed <=> t # active
        <3>1. PICK b \in BOOLEAN : b = (t # active)
            OBVIOUS
        <3>2. x = [NewFlow("region", t, "shot") EXCEPT !.disturbed = b]
            BY <1>2, <3>1, Zenon
        <3>3. /\ x.tab = t /\ x.comp = <<>> /\ x.landed = 0 /\ x.imageHeight = 0 /\ x.mode = "region"
              /\ x.disturbed = b
            BY <3>2 DEF NewFlow
        <3> QED
            BY <3>1, <3>3
    <2>2. PICK none : none = <<>>
        OBVIOUS
    <2>3. none \in Seq(Bands) /\ Len(none) = 0
        <3> HIDE <2>2
        <3> QED
            BY <2>2, EmptySeq
    <2>4. x.comp = none /\ \A j \in 1..Len(none) : FALSE
        BY <2>1, <2>2, <2>3
    <2> QED
        BY <2>1, <2>3, <2>4 DEF ImageFits, Painted
<1>6. CASE ~m.selected /\ pendingRegions[t] # 0
    <2>1. flow' = [flow EXCEPT ![f] = Over]
        BY <1>3, <1>4, <1>6
    <2> QED
        BY <1>3, <2>1, OverIsDead, OwnImage
<1>7. CASE m.selected \/ pendingRegions[t] = 0
    <2>1. \A g \in Flows : flow'[g] = Missed(t)[g] \/ (g = f /\ flow'[g] = x)
        <3>1. Missed(t) = [g \in Flows |-> Missed(t)[g]]
            BY Zenon DEF Missed
        <3> QED
            BY <1>4, <1>7, <3>1
    <2> SUFFICES ASSUME NEW g \in Flows, Live(g)'
                 PROVE  ImageFits(g, flow'[g], page'[flow'[g].tab], active')
        BY DEF ImageInv
    <2>2. CASE g = f /\ flow'[g] = x
        BY <1>3, <1>5, <2>2
    <2>3. CASE flow'[g] = Missed(t)[g]
        <3>1. Live(g)
            BY <2>3, MissedTouches DEF Live, Touched, CaptureInv
        <3>2. PICK q : q = flow'[g] /\ q = Missed(t)[g]
            BY <2>3
        <3>3. q.tab = flow[g].tab /\ ImageFits(g, q, page[flow[g].tab], active)
            BY <3>1, <3>2, MissedImage
        <3> QED
            BY <1>3, <3>2, <3>3
    <2> QED
        BY <2>1, <2>2, <2>3
<1> QED
    BY <1>6, <1>7
-----------------------------------------------------------------------------
(* A page handles its next command.                                          *)

(* What a command's handler does to the picture. *)
Pictured(p, c, q, a) ==
    /\ q.height = p.height /\ q.inbox = p.inbox
    /\ c.cmd = "begin" => q.y = 0 /\ HasAnswer([reply |-> a]) /\ a.height = p.height
    /\ c.cmd = "hide" => a = Rejected \/ q.hidden
    /\ c.cmd = "scroll" => \/ a = Rejected
                           \/ /\ q.y = Min({c.y, MaxScroll(p.height)})
                              /\ q.hidden = p.hidden /\ a.y = q.y

LEMMA BegunIs ==
    ASSUME NEW p \in Pages, PageKept(p)
    PROVE  Begun(p).y = 0 /\ Begun(p).height = p.height /\ Begun(p).inbox = p.inbox
<1> DEFINE q == Teardown(p)
           y1 == Min({0, MaxScroll(q.height)})
           d == [driving |-> TRUE, original |-> q.y]
<1>1. SamePage(p, q)
    BY TeardownKeeps
<1>2. q \in Pages
    BY <1>1 DEF SamePage
<1>3. ScrollTo(q, 0) = [q EXCEPT !.y = y1]
    BY <1>2, ScrollIsTyped
<1>4. Begun(p) = [q EXCEPT !.y = y1, !.driver = d]
    BY <1>2, <1>3 DEF Begun, Pages
<1>5. y1 = 0
    <2>1. PICK m \in Int : m = MaxScroll(q.height) /\ m >= 0
        <3>1. q.height \in Nat
            BY <1>2 DEF Pages
        <3> QED
            BY <3>1, MaxScrollNat
    <2>2. 0 \in Int /\ m \in Int
        OBVIOUS
    <2>3. Min({0, m}) \in {0, m} /\ Min({0, m}) <= 0
        BY <2>2, MinOfTwo
    <2> QED
        BY <2>1, <2>3
<1>6. SamePage(p, Begun(p))
    BY BegunKeeps
<1> HIDE DEF q, y1, d
<1> QED
    BY <1>2, <1>4, <1>5, <1>6 DEF Pages, SamePage

LEMMA HandledPicture ==
    ASSUME NEW p \in Pages, PageKept(p), NEW c \in Commands
    PROVE  Pictured(p, c, Handled(p, c)[1], Handled(p, c)[2])
<1> DEFINE h == Handled(p, c)
<1>1. c.cmd \in Asking /\ c.y \in Int
    BY DEF Commands
<1>2. CASE c.cmd = "select"
    <2>1. PICK q : q = [p EXCEPT !.overlays = p.overlays + 1]
        OBVIOUS
    <2>2. h = <<q, [kind |-> "started"]>>
        BY <1>2, <2>1 DEF Handled
    <2>3. q.height = p.height /\ q.inbox = p.inbox
        BY <2>1 DEF Pages
    <2> QED
        BY <1>2, <2>2, <2>3 DEF Pictured
<1>3. CASE c.cmd = "begin"
    <2>1. PICK q : q = Begun(p) /\ q.y = 0 /\ q.height = p.height /\ q.inbox = p.inbox
        BY BegunIs
    <2>2. PICK a : a = [kind |-> "metrics", height |-> p.height]
        OBVIOUS
    <2>3. h = <<q, a>>
        BY <1>3, <2>1, <2>2 DEF Handled, MeasurePage
    <2>4. a.height = p.height /\ a # Waiting /\ a # Rejected
        BY <2>2 DEF Waiting, Rejected
    <2> QED
        BY <1>3, <2>1, <2>3, <2>4 DEF Pictured, HasAnswer
<1>4. CASE c.cmd = "restore"
    <2>1. PICK q : q = Teardown(p) /\ SamePage(p, q)
        BY TeardownKeeps
    <2>2. h = <<q, [kind |-> "restored"]>>
        BY <1>4, <2>1 DEF Handled
    <2> QED
        BY <1>4, <2>1, <2>2 DEF Pictured, SamePage
<1>5. CASE c.cmd \in {"scroll", "hide"} /\ ~p.driver.driving
    <2>1. h = <<p, Rejected>>
        BY <1>5 DEF Handled
    <2> QED
        BY <1>5, <2>1 DEF Pictured
<1>6. CASE c.cmd = "scroll" /\ p.driver.driving
    <2>1. PICK q : q = ScrollTo(p, c.y)
        OBVIOUS
    <2>2. PICK a : a = [kind |-> "scrolled", y |-> q.y, cancelled |-> q.cancelled]
        OBVIOUS
    <2>3. h = <<q, a>>
        BY <1>6, <2>1, <2>2, Zenon DEF Handled
    <2>4. /\ q.y = Min({c.y, MaxScroll(p.height)}) /\ q.hidden = p.hidden
          /\ q.height = p.height /\ q.inbox = p.inbox
        <3>1. PICK y : y = Min({c.y, MaxScroll(p.height)})
            OBVIOUS
        <3>2. q = [p EXCEPT !.y = y]
            BY <2>1, <3>1, Zenon DEF ScrollTo
        <3>3. q.y = y /\ q.hidden = p.hidden /\ q.height = p.height /\ q.inbox = p.inbox
            BY <3>2 DEF Pages
        <3> QED
            BY <3>1, <3>3
    <2>5. a.y = q.y
        BY <2>2
    <2> QED
        BY <1>6, <2>3, <2>4, <2>5 DEF Pictured
<1>7. CASE c.cmd = "hide" /\ p.driver.driving
    <2>1. PICK q : q = [p EXCEPT !.hidden = TRUE]
        OBVIOUS
    <2>2. h = <<q, [kind |-> "hidden"]>>
        BY <1>7, <2>1 DEF Handled, HideFixed
    <2>3. q.hidden = TRUE /\ q.height = p.height /\ q.inbox = p.inbox
        BY <2>1 DEF Pages
    <2> QED
        BY <1>7, <2>2, <2>3 DEF Pictured
<1> QED
    BY <1>1, <1>2, <1>3, <1>4, <1>5, <1>6, <1>7 DEF Asking

(* A capture whose request is turned down, whatever its page did meanwhile. *)
LEMMA RejectedImage ==
    ASSUME NEW f, NEW r, NEW q, NEW p, NEW o, NEW t, ImageFits(f, r, o, t), Depicts(q, r),
           q.pc = r.pc, q.reply = Rejected, r.pc \in {"begin", "hide", "scroll"}, p.height = o.height
    PROVE  ImageFits(f, q, p, t)
<1>1. Painted(q) /\ (~q.disturbed => q.tab = t /\ \A j \in 1..Len(q.comp) : q.comp[j].of = t)
    BY DEF ImageFits, Painted, Depicts
<1>2. ASSUME ~q.disturbed, q.mode = "full" PROVE StitchFits(f, q, p)
    <2>1. StitchFits(f, r, o)
        BY <1>2 DEF ImageFits, Depicts
    <2>2. ~HasAnswer(q) /\ q.reply # Waiting
        BY DEF HasAnswer, Waiting, Rejected
    <2>3. QueueFits(f, q, p.inbox)
        BY <2>2 DEF QueueFits
    <2>4. PlaceFits(q, p)
        BY <2>1, <2>2 DEF StitchFits, PlaceFits, Depicts
    <2>5. CompFits(q)
        BY <2>1 DEF StitchFits, CompFits, Depicts
    <2>6. ~q.resized => PlanFits(q, p.height)
        BY <2>1, <2>2 DEF StitchFits, PlanFits, RectOf, DrawnUpTo, Depicts
    <2> QED
        BY <2>3, <2>4, <2>5, <2>6 DEF StitchFits
<1> QED
    BY <1>1, <1>2 DEF ImageFits

(* A command of an earlier capture: the one that is waited for comes nearer. *)
LEMMA BeginComesNearer ==
    ASSUME NEW f, NEW r, NEW s \in Seq(Commands), BeginQueued(f, r, s), NEW u, u = Tail(s)
    PROVE  \/ s[1] = AskedFor(f, r) /\ u = <<>>
           \/ s[1].flow # f /\ BeginQueued(f, r, u)
<1>1. Len(s) \in Nat /\ Len(s) > 0
    BY DEF BeginQueued
<1>2. Len(u) = Len(s) - 1 /\ \A k \in 1..(Len(s) - 1) : u[k] = s[k + 1]
    BY <1>1
<1>3. CASE Len(s) = 1
    <2>1. s[1] = AskedFor(f, r)
        BY <1>3 DEF BeginQueued
    <2>2. u = <<>>
        BY <1>1, <1>2, <1>3
    <2> QED
        BY <2>1, <2>2
<1>4. CASE Len(s) > 1
    <2>1. 1 \in 1..(Len(s) - 1)
        BY <1>1, <1>4
    <2>2. s[1].flow # f
        BY <2>1 DEF BeginQueued
    <2>3. PICK n \in Nat : n = Len(s) - 1 /\ n > 0
        BY <1>1, <1>4
    <2>4. Len(u) = n /\ u[n] = s[n + 1] /\ n + 1 = Len(s)
        BY <1>1, <1>2, <2>3
    <2>5. ASSUME NEW k \in 1..(n - 1) PROVE u[k].flow # f
        <3>1. PICK j \in Nat : j = k + 1
            OBVIOUS
        <3>2. j \in 1..(Len(s) - 1) /\ u[k] = s[j]
            BY <1>1, <1>2, <2>3, <3>1
        <3> QED
            BY <3>2 DEF BeginQueued
    <2>6. s[n + 1] = AskedFor(f, r)
        BY <2>4 DEF BeginQueued
    <2>7. BeginQueued(f, r, u)
        BY <2>3, <2>4, <2>5, <2>6 DEF BeginQueued
    <2> QED
        BY <2>2, <2>7
<1>5. Len(s) = 1 \/ Len(s) > 1
    <2>1. PICK n \in Nat : n = Len(s) /\ n > 0
        BY <1>1
    <2> QED
        BY <2>1
<1> QED
    BY <1>3, <1>4, <1>5, Zenon

(* The page handled c, and this is what came of the capture r. *)
Handles(f, r, q, c, a) ==
    /\ Depicts(q, r) /\ q.pc = r.pc /\ q.n = r.n
    /\ q.reply = IF f = c.flow /\ r.n = c.n /\ r.reply = Waiting THEN a ELSE r.reply

LEMMA HandledImage ==
    ASSUME NEW f, NEW r, NEW o \in Pages, NEW t, ImageFits(f, r, o, t), IsRun(r), StepFits(r),
           ~r.disturbed, r.mode = "full", o.inbox # <<>>, NEW c, c = o.inbox[1],
           NEW m, m.height = o.height, m.hidden = o.hidden, m.inbox = Tail(o.inbox),
           NEW p, NEW a, Pictured(m, c, p, a), a # Waiting,
           NEW q, Handles(f, r, q, c, a)
    PROVE  ImageFits(f, q, p, t)
<1>1. /\ Depicts(q, r) /\ q.pc = r.pc /\ q.n = r.n
      /\ q.reply = IF f = c.flow /\ r.n = c.n /\ r.reply = Waiting THEN a ELSE r.reply
    BY DEF Handles
<1>2. p.height = o.height /\ p.inbox = m.inbox
    BY DEF Pictured
<1>3. Painted(q) /\ (~q.disturbed => q.tab = t /\ \A j \in 1..Len(q.comp) : q.comp[j].of = t)
    BY <1>1 DEF ImageFits, Painted, Depicts
<1>4. StitchFits(f, r, o)
    BY DEF ImageFits
<1>5. r.pc \in {"begin", "hide", "scroll", "restore", "upload"}
    <2>1. r.pc \notin {"check", "tile"}
        BY <1>4 DEF StitchFits, QueueFits
    <2> QED
        BY <2>1 DEF IsRun, StepFits, Pcs, Asking
<1>6. CompFits(q)
    BY <1>1, <1>4 DEF StitchFits, CompFits, Depicts
<1>7. CASE r.pc \in {"restore", "upload"}
    <2>1. Closes(r, p.height, t)
        BY <1>2, <1>7, FitsCloses
    <2> QED
        BY <1>1, <1>7, <2>1, ClosedFits
<1>8. CASE r.pc \in {"begin", "hide", "scroll"} /\ r.reply # Waiting
    <2>1. r.reply = Rejected
        BY <1>4, <1>8 DEF StitchFits, QueueFits, HasAnswer
    <2>2. q.reply = Rejected
        BY <1>1, <1>8, <2>1
    <2> QED
        BY <1>1, <1>2, <1>8, <2>2, RejectedImage
<1>9. CASE r.pc = "begin" /\ r.reply = Waiting
    <2>1. BeginQueued(f, r, o.inbox) /\ o.inbox \in Seq(Commands)
        BY <1>4, <1>9 DEF StitchFits, QueueFits, Pages
    <2>2. \/ c = AskedFor(f, r) /\ m.inbox = <<>>
          \/ c.flow # f /\ BeginQueued(f, r, m.inbox)
        BY <2>1, BeginComesNearer
    <2>3. CASE c = AskedFor(f, r) /\ m.inbox = <<>>
        <3>1. c.flow = f /\ c.n = r.n /\ c.cmd = "begin"
            BY <1>9, <2>3 DEF AskedFor
        <3>2. q.reply = a /\ a # Rejected /\ p.y = 0 /\ a.height = m.height
            BY <1>1, <1>9, <3>1 DEF Pictured, HasAnswer
        <3>3. HasAnswer(q)
            BY <3>2 DEF HasAnswer
        <3>4. QueueFits(f, q, p.inbox) /\ PlaceFits(q, p)
            BY <1>1, <1>2, <1>9, <2>3, <3>2, <3>3 DEF QueueFits, PlaceFits
        <3>5. ASSUME ~q.resized PROVE PlanFits(q, p.height)
            <4>1. DrawnUpTo(q) = 0
                BY <1>1, <1>6, <1>9 DEF DrawnUpTo, CompFits
            <4> QED
                BY <1>1, <1>2, <1>9, <3>2, <4>1 DEF PlanFits
        <3> QED
            BY <1>3, <1>6, <3>4, <3>5 DEF ImageFits, StitchFits
    <2>4. CASE c.flow # f /\ BeginQueued(f, r, m.inbox)
        <3>1. q.reply = Waiting /\ ~HasAnswer(q)
            BY <1>1, <1>9, <2>4 DEF HasAnswer
        <3>2. BeginQueued(f, q, p.inbox)
            BY <1>1, <1>2, <1>9, <2>4 DEF BeginQueued, AskedFor
        <3>3. QueueFits(f, q, p.inbox) /\ PlaceFits(q, p)
            BY <1>1, <1>9, <3>1, <3>2 DEF QueueFits, PlaceFits
        <3>4. PlanFits(q, p.height)
            <4>1. DrawnUpTo(q) = 0
                BY <1>1, <1>6, <1>9 DEF DrawnUpTo, CompFits
            <4> QED
                BY <1>1, <1>9, <3>1, <4>1 DEF PlanFits
        <3> QED
            BY <1>3, <1>6, <3>3, <3>4 DEF ImageFits, StitchFits
    <2> QED
        BY <2>2, <2>3, <2>4
<1>10. CASE r.pc \in {"hide", "scroll"} /\ r.reply = Waiting
    <2>1. o.inbox = <<AskedFor(f, r)>>
        BY <1>4, <1>10 DEF StitchFits, QueueFits
    <2>2. PICK d : d = AskedFor(f, r)
        OBVIOUS
    <2>3. c = d /\ m.inbox = <<>>
        <3>1. o.inbox = <<d>>
            BY <2>1, <2>2
        <3> QED
            BY <3>1
    <2>4. c.flow = f /\ c.n = r.n /\ c.cmd = r.pc
        BY <2>2, <2>3 DEF AskedFor
    <2>5. q.reply = a /\ p.inbox = <<>>
        BY <1>1, <1>2, <1>10, <2>3, <2>4
    <2>6. CASE a = Rejected
        BY <1>1, <1>2, <1>10, <2>5, <2>6, RejectedImage
    <2>7. CASE a # Rejected
        <3>1. HasAnswer(q)
            BY <2>5, <2>7 DEF HasAnswer
        <3>2. QueueFits(f, q, p.inbox)
            BY <1>1, <1>10, <2>5, <3>1 DEF QueueFits, HasAnswer
        <3>3. CASE r.pc = "hide"
            <4>1. p.hidden
                BY <2>4, <2>7, <3>3 DEF Pictured
            <4>2. PlaceFits(q, p)
                BY <1>1, <3>3, <4>1 DEF PlaceFits
            <4>3. ~q.resized => PlanFits(q, p.height)
                BY <1>1, <1>2, <1>4, <3>3 DEF StitchFits, PlanFits, RectOf, DrawnUpTo, Depicts
            <4> QED
                BY <1>3, <1>6, <3>2, <4>2, <4>3 DEF ImageFits, StitchFits
        <3>4. CASE r.pc = "scroll"
            <4>1. p.y = Min({c.y, MaxScroll(m.height)}) /\ p.hidden = m.hidden /\ a.y = p.y
                BY <2>4, <2>7, <3>4 DEF Pictured
            <4>2. o.hidden /\ r.i > 1
                BY <1>4, <1>10, <3>4 DEF StitchFits, PlaceFits, Waiting, Rejected
            <4>3. PlaceFits(q, p)
                BY <1>1, <2>5, <3>4, <4>1, <4>2 DEF PlaceFits, Depicts
            <4>4. ASSUME ~q.resized PROVE PlanFits(q, p.height)
                <5>1. PlanFits(r, o.height)
                    BY <1>1, <1>4, <4>4 DEF StitchFits, Depicts
                <5>2. r.plan = PlanTiles(o.height) /\ o.height \in Nat \ {0}
                    BY <3>4, <5>1 DEF PlanFits, Pages
                <5>3. PICK y : y = r.plan.tiles[r.i].scrollY
                    OBVIOUS
                <5>4. c.y = y
                    BY <2>2, <2>3, <3>4, <5>3 DEF AskedFor
                <5>5. r.i \in 1..Len(PlanTiles(o.height).tiles)
                    BY <3>4, <5>2 DEF StepFits
                <5>6. PICK k \in 1..Len(PlanTiles(o.height).tiles) : k = r.i
                    BY <5>5
                <5>7. y = PlanTiles(o.height).tiles[k].scrollY
                    BY <5>2, <5>3, <5>6
                <5>8. Min({y, MaxScroll(o.height)}) = y
                    BY <5>2, <5>7, TileReached
                <5>9. a.y = y
                    BY <4>1, <5>4, <5>8
                <5>10. DrawnUpTo(q) = DrawnUpTo(r)
                    BY <1>1 DEF DrawnUpTo, Depicts
                <5>11. \A j \in 1..DrawnUpTo(q) : RectOf(q, j) = NoRect \/ Shows(q.comp, RectOf(q, j))
                    BY <1>1, <5>1, <5>10 DEF PlanFits, RectOf, Depicts
                <5> QED
                    BY <1>1, <1>2, <2>5, <3>4, <5>2, <5>3, <5>9, <5>11 DEF PlanFits, Depicts
            <4> QED
                BY <1>3, <1>6, <3>2, <4>3, <4>4 DEF ImageFits, StitchFits
        <3> QED
            BY <1>10, <3>3, <3>4
    <2> QED
        BY <2>6, <2>7
<1> QED
    BY <1>5, <1>7, <1>8, <1>9, <1>10

LEMMA PageHandlesImage ==
    ASSUME CaptureInv, ImageInv, NEW t \in Tabs, PageHandles(t)
    PROVE  ImageInv'
<1>1. PICK o \in Pages : o = page[t]
    BY DEF CaptureInv, TypeOK
<1>2. PageKept(o) /\ o.inbox # <<>> /\ active' = active
    BY <1>1 DEF CaptureInv, PagesKept, PageHandles
<1>3. PICK m : m = Taken(o)
    OBVIOUS
<1>4. PICK c : c = Head(o.inbox)
    OBVIOUS
<1>5. Takes(o, m)
    BY <1>2, <1>3, TakenPage
<1>6. m \in Pages /\ PageKept(m) /\ c \in Commands
    BY <1>4, <1>5 DEF Takes
<1>7. PICK p : p = Handled(m, c)[1]
    OBVIOUS
<1>8. PICK a : a = Handled(m, c)[2]
    OBVIOUS
<1>9. /\ page' = [page EXCEPT ![t] = p]
      /\ flow' = IF Live(c.flow) /\ flow[c.flow].n = c.n /\ flow[c.flow].reply = Waiting
                 THEN [flow EXCEPT ![c.flow].reply = a] ELSE flow
    BY <1>1, <1>3, <1>4, <1>7, <1>8, Zenon DEF PageHandles, Taken
<1>10. Pictured(m, c, p, a) /\ a # Waiting /\ a \in Replies
    BY <1>6, <1>7, <1>8, HandledPicture, HandledKeeps DEF Answers
<1>11. m.height = o.height /\ m.hidden = o.hidden /\ m.inbox = Tail(o.inbox) /\ c = o.inbox[1]
    <2>1. PICK u : u = Tail(o.inbox)
        OBVIOUS
    <2>2. m = [o EXCEPT !.inbox = u]
        BY <1>3, <2>1 DEF Taken
    <2>3. m.height = o.height /\ m.hidden = o.hidden /\ m.inbox = u
        BY <2>2 DEF Pages
    <2>4. c = o.inbox[1]
        BY <1>4
    <2> QED
        BY <2>1, <2>3, <2>4
<1>12. page'[t] = p /\ \A u \in Tabs : u # t => page'[u] = page[u]
    BY <1>9 DEF CaptureInv, TypeOK
<1>13. CommandFits(t, c)
    <2>1. PICK j \in 1..Len(o.inbox) : o.inbox[j] = c
        BY <1>4, <1>5 DEF Takes
    <2> QED
        BY <1>1, <2>1 DEF CaptureInv, CommandsFit
<1>14. c.flow \in Flows
    BY <1>6 DEF Commands
<1> SUFFICES ASSUME NEW g \in Flows, Live(g)'
             PROVE  flow'[g].tab = flow[g].tab /\ ImageFits(g, flow'[g], page'[flow[g].tab], active')
    BY EachImage
<1>15. PICK r : r = flow[g]
    OBVIOUS
<1>16. PICK q : q = flow'[g]
    OBVIOUS
<1>17. q = IF g = c.flow /\ Live(g) /\ r.n = c.n /\ r.reply = Waiting
           THEN [r EXCEPT !.reply = a] ELSE r
    BY <1>9, <1>14, <1>15, <1>16 DEF CaptureInv, TypeOK
<1>18. Live(g)
    BY <1>15, <1>16, <1>17 DEF Live
<1>19. /\ IsRun(r) /\ ImageFits(g, r, page[r.tab], active) /\ r.tab \in Tabs
    BY <1>15, <1>18, LiveImage
<1>20. StepFits(r)
    BY <1>15, <1>18 DEF CaptureInv, StepsFit
<1>21. Handles(g, r, q, c, a) /\ q.tab = r.tab
    <2>1. CASE g = c.flow /\ r.n = c.n /\ r.reply = Waiting
        <3>1. q = [r EXCEPT !.reply = a]
            BY <1>17, <1>18, <2>1
        <3>2. Depicts(q, r) /\ q.pc = r.pc /\ q.n = r.n /\ q.reply = a /\ q.tab = r.tab
            BY <1>19, <3>1 DEF IsRun, Depicts
        <3> QED
            BY <2>1, <3>2 DEF Handles
    <2>2. CASE ~(g = c.flow /\ r.n = c.n /\ r.reply = Waiting)
        <3>1. q = r
            BY <1>17, <2>2
        <3>2. Depicts(q, r)
            BY <3>1 DEF Depicts
        <3> QED
            BY <2>2, <3>1, <3>2 DEF Handles
    <2> QED
        BY <2>1, <2>2
<1>22. CASE r.disturbed
    <2>1. /\ q.comp = r.comp /\ q.landed = r.landed /\ q.imageHeight = r.imageHeight
          /\ q.disturbed = r.disturbed
        BY <1>21 DEF Handles, Depicts
    <2>2. q.disturbed
        BY <1>22, <2>1
    <2>3. PICK u : u = page'[r.tab]
        OBVIOUS
    <2>4. PICK w : w = active'
        OBVIOUS
    <2>5. PICK v : v = page[r.tab]
        OBVIOUS
    <2>6. ImageFits(g, r, v, active)
        BY <1>19, <2>5
    <2>7. ImageFits(g, q, u, w)
        BY <2>1, <2>2, <2>6, LostImage
    <2> QED
        BY <1>15, <1>16, <1>21, <2>3, <2>4, <2>7
<1>23. CASE r.mode # "full"
    <2>1. /\ q.comp = r.comp /\ q.landed = r.landed /\ q.imageHeight = r.imageHeight
          /\ q.tab = r.tab /\ q.disturbed = r.disturbed /\ q.mode # "full"
        BY <1>21, <1>23 DEF Handles, Depicts
    <2>2. ImageFits(g, q, page'[r.tab], active)
        BY <1>19, <2>1, PlainImage
    <2> QED
        BY <1>2, <1>15, <1>16, <1>21, <2>2
<1>24. CASE r.tab # t
    <2>1. ~(g = c.flow /\ r.n = c.n /\ r.reply = Waiting)
        BY <1>13, <1>15, <1>18, <1>24 DEF CommandFits
    <2>2. q = r
        BY <1>17, <2>1
    <2> QED
        BY <1>2, <1>12, <1>15, <1>16, <1>19, <1>24, <2>2
<1>25. CASE ~r.disturbed /\ r.mode = "full" /\ r.tab = t
    <2>1. ImageFits(g, r, o, active)
        BY <1>1, <1>19, <1>25
    <2>2. ImageFits(g, q, p, active)
        BY <1>2, <1>10, <1>11, <1>19, <1>20, <1>21, <1>25, <2>1, HandledImage
    <2> QED
        BY <1>2, <1>12, <1>15, <1>16, <1>21, <1>25, <2>2
<1> QED
    BY <1>22, <1>23, <1>24, <1>25

-----------------------------------------------------------------------------
(* Every step keeps the images.                                              *)

LEMMA ImageStart == ASSUME Init PROVE ImageInv
<1>1. \A g \in Flows : flow[g] = NotYet
    BY DEF Init
<1> QED
    BY <1>1, DeadOrRun DEF ImageInv, Live

LEMMA StutterImage == ASSUME CaptureInv, ImageInv, UNCHANGED vars PROVE ImageInv'
BY QuietImage DEF vars, LooksAlike

LEMMA ContinuesImage ==
    ASSUME CaptureInv, ImageInv, NEW f \in Flows, Continues(f)
    PROVE  ImageInv'
BY RegionStartedImage, ShotImage, UploadImage, MeasuredImage,
   EnsureActiveImage, TileImage, HiddenImage, ScrolledImage, RestoredImage
   DEF Continues

LEMMA NextImage == ASSUME CaptureInv, ImageInv, [Next]_vars PROVE ImageInv'
<1>1. ASSUME NEW f \in Flows,
             \/ StartVisible(f) \/ StartRegion(f) \/ StartFull(f)
             \/ Timeout(f) \/ TileFails(f) \/ Continues(f)
             \/ \E m \in results : HandleRegionResult(m, f)
      PROVE  ImageInv'
    BY <1>1, StartVisibleImage, StartRegionImage, StartFullImage, TimeoutImage,
       TileFailsImage, ContinuesImage, HandleRegionResultImage
<1>2. ASSUME NEW t \in Tabs,
             \/ PageHandles(t) \/ Watchdog(t) \/ AbandonRegion(t) \/ Switch(t)
             \/ \E h \in Heights : Resizes(t, h)
             \/ \E open \in BOOLEAN : Leaves(t, open)
      PROVE  ImageInv'
    BY <1>2, PageHandlesImage, WatchdogImage, AbandonRegionImage, SwitchImage,
       ResizesImage, LeavesImage
<1>3. ASSUME \/ \E chosen \in BOOLEAN : RegionEnds(chosen)
             \/ \E y \in Scrolls : UserScrolls(y)
             \/ Escape \/ Recycle
      PROVE  ImageInv'
    BY <1>3, RegionEndsImage, UserScrollsImage, EscapeImage, RecycleImage
<1> QED
    BY <1>1, <1>2, <1>3, StutterImage, Zenon DEF Next

(* The inductive invariant of the images.  While stitchFullPage              *)
(* (background.ts) has a page in hand, the command it waits for is the last  *)
(* one queued there, the page is where it answered, as high as was planned,  *)
(* and the tiles it has passed are drawn where they belong.                  *)
THEOREM ImagesAreConsistent == Spec => [](CaptureInv /\ ImageInv)
<1>1. Init => CaptureInv /\ ImageInv
    BY InitEstablishes, ImageStart
<1>2. CaptureInv /\ ImageInv /\ [Next]_vars => (CaptureInv /\ ImageInv)'
    BY NextPreserves, NextImage
<1> QED
    BY <1>1, <1>2, PTL DEF Spec

(* A finished image is of the tab it was asked of, row for row what the page *)
(* had there, with nothing missing but a row where tiles meet and two at the *)
(* bottom, unless the user got in the way (stitchFullPage, drawRectFor).     *)
THEOREM ImagesShowTheirPage == Spec => []ImageShowsItsPage
<1>1. CaptureInv /\ ImageInv => ImageShowsItsPage
    BY ImagesShow
<1> QED
    BY <1>1, ImagesAreConsistent, PTL
=============================================================================
