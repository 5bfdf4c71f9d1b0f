--------------------------- MODULE EditorAutosave ---------------------------
(* The owner's editor in several tabs against the annotation API: drawing,   *)
(* undo, debounced saves with a revision, retries, conflicts that reload,    *)
(* rotation of the link, and the beacon of a closing tab.  A browser task    *)
(* runs to its next await in one step; the server answers a request in one   *)
(* step, and the network may lose a request or an answer.  The texts of the  *)
(* status line are left out.                                                 *)
EXTENDS AnnotationModel

CONSTANTS
    Tabs,
    Gestures,       \* drags that draw a shape of a kind
    Frames,         \* gestures that place the crop frame
    MaxEdits,       \* bound on the user's changes
    MaxTroubles     \* bound on lost messages, rotations and deletions together

ASSUME EditorAssumption == {MaxEdits, MaxTroubles} \subseteq Nat

VARIABLES
    server,         \* the capture's row: view_id, annotations and their revisions
    tab,            \* the fields of each tab's CaptureEditor
    edits, troubles \* counters for the bounds

vars == <<server, tab, edits, troubles>>

NoShape == [id |-> 0]
NoCall == [kind |-> "none"]
Loaded(doc) == [shapes |-> RenderOrder(doc.shapes), crop |-> doc.crop]

OpenTab ==
    [open |-> TRUE, viewId |-> 0, rev |-> 0, doc |-> EmptyDoc,
     undo |-> <<EmptyDoc>>, redo |-> <<>>, drawing |-> NoShape,
     dirty |-> FALSE, saving |-> FALSE, gone |-> FALSE,
     timer |-> FALSE,        \* saveTimer or retryTimer is armed
     call |-> NoCall,        \* the request of save() and its answer
     rotation |-> "none",    \* how far rotateLink() is
     beacon |-> NoCall,      \* what sendBeacon handed to the browser
     seen |-> {},            \* history: shapes that were on its canvas
     discarded |-> {},       \* history: shapes dropped as too small
     adrift |-> FALSE]       \* history: a conflict whose reload failed

Init ==
    /\ server = [viewId |-> 0, live |-> TRUE, docs |-> <<EmptyDoc>>]
    /\ tab = [t \in Tabs |-> OpenTab]
    /\ edits = 0 /\ troubles = 0

ShapesOf(doc) == Members(doc.shapes)
Rev == Len(server.docs) - 1
DocAt(rev) == server.docs[rev + 1]
Changed == edits < MaxEdits /\ edits' = edits + 1
Trouble == troubles < MaxTroubles /\ troubles' = troubles + 1
Becomes(t, r) == tab' = [tab EXCEPT ![t] = r]

-----------------------------------------------------------------------------
(* The document and its history.                                             *)

\* Seeded bug: a change made while a save runs is not marked.
MarkDirtyWhenIdle(r) == IF r.saving THEN r ELSE [r EXCEPT !.dirty = TRUE, !.timer = TRUE]

MarkDirty(r) == [r EXCEPT !.dirty = TRUE, !.timer = TRUE]

Committed(r) ==
    MarkDirty(IF r.doc = r.undo[Len(r.undo)] THEN r
              ELSE [r EXCEPT !.undo = Append(@, r.doc), !.redo = <<>>])

NewShape(g) ==
    LET at == ToShape(g.kind, g)
    IN [id |-> edits + 1, kind |-> g.kind, x |-> at.x, y |-> at.y, w |-> at.w, h |-> at.h]

\* The shape is on the canvas from the first movement of the pointer.
BeginShape(t, g) ==
    /\ tab[t].open /\ tab[t].drawing = NoShape
    /\ Changed
    /\ LET s == NewShape(g)
       IN Becomes(t, [tab[t] EXCEPT !.doc.shapes = AddShape(@, s), !.drawing = s,
                                    !.seen = @ \cup {s}])
    /\ UNCHANGED <<server, troubles>>

Dropped(shapes, s) == Only(shapes, Members(shapes) \ {s})

\* The gesture ends: a shape below the minimum goes without a commit.
EndShape(t) ==
    /\ tab[t].open /\ tab[t].drawing # NoShape
    /\ LET s == tab[t].drawing
           r == [tab[t] EXCEPT !.drawing = NoShape]
       IN Becomes(t, IF TooSmall(s)
                     THEN [r EXCEPT !.doc.shapes = Dropped(@, s), !.discarded = @ \cup {s}]
                     ELSE Committed(r))
    /\ UNCHANGED <<server, edits, troubles>>

DeleteShape(t) ==
    /\ tab[t].open
    /\ \E i \in DOMAIN tab[t].doc.shapes :
         /\ tab[t].doc.shapes[i] # tab[t].drawing
         /\ Becomes(t, Committed([tab[t] EXCEPT !.doc.shapes = Dropped(@, tab[t].doc.shapes[i])]))
    /\ Changed
    /\ UNCHANGED <<server, troubles>>

\* object:modified: a shape was moved; it keeps its place in the stack.
MoveShape(t) ==
    /\ tab[t].open /\ tab[t].drawing = NoShape
    /\ Changed
    /\ \E i \in DOMAIN tab[t].doc.shapes :
         LET s == [tab[t].doc.shapes[i] EXCEPT !.x = @ + Px]
         IN Becomes(t, Committed([tab[t] EXCEPT !.doc.shapes[i] = s, !.seen = @ \cup {s}]))
    /\ UNCHANGED <<server, troubles>>

\* Apply or clear the crop: the canvas is rebuilt, one undo step, one save.
ChangeCrop(t, crop) ==
    /\ tab[t].open /\ tab[t].drawing = NoShape
    /\ Changed
    /\ Becomes(t, Committed([tab[t] EXCEPT !.doc = Loaded([@ EXCEPT !.crop = crop])]))
    /\ UNCHANGED <<server, troubles>>

UndoChange(t) ==
    /\ tab[t].open /\ Len(tab[t].undo) >= 2
    /\ Changed
    /\ LET r == tab[t]   n == Len(r.undo)
       IN Becomes(t, MarkDirty([r EXCEPT !.redo = Append(@, r.undo[n]),
                                         !.undo = SubSeq(@, 1, n - 1),
                                         !.doc = Loaded(r.undo[n - 1])]))
    /\ UNCHANGED <<server, troubles>>

RedoChange(t) ==
    /\ tab[t].open /\ tab[t].redo # <<>>
    /\ LET r == tab[t]   n == Len(r.redo)
       IN Becomes(t, MarkDirty([r EXCEPT !.undo = Append(@, r.redo[n]),
                                         !.redo = SubSeq(@, 1, n - 1),
                                         !.doc = Loaded(r.redo[n])]))
    /\ UNCHANGED <<server, edits, troubles>>

-----------------------------------------------------------------------------
(* save().                                                                   *)

Put(r) == [kind |-> "put", viewId |-> r.viewId, rev |-> r.rev, doc |-> r.doc]
Answer(c, code) == [kind |-> "answer", code |-> code, rev |-> c.rev + 1]

\* save() up to its await; it returns at once while a save runs or the tab is gone.
SaveBegins(r) ==
    IF r.saving \/ r.gone THEN r
    ELSE [r EXCEPT !.saving = TRUE, !.dirty = FALSE, !.timer = FALSE, !.call = Put(r)]

TimerFires(t) ==
    /\ tab[t].open /\ tab[t].timer
    /\ Becomes(t, SaveBegins([tab[t] EXCEPT !.timer = FALSE]))
    /\ UNCHANGED <<server, edits, troubles>>

SettlesIdle(r) == [r EXCEPT !.saving = FALSE, !.call = NoCall]     \* Seeded bug: finally does not reschedule

\* The finally block.
Settles(r) == [r EXCEPT !.saving = FALSE, !.call = NoCall, !.timer = @ \/ r.dirty]

Gone(r) == [r EXCEPT !.gone = TRUE, !.dirty = FALSE, !.timer = FALSE]

PutAnswered(t) ==
    /\ tab[t].open /\ tab[t].call.kind = "answer"
    /\ LET r == tab[t]
           code == r.call.code
       IN Becomes(t,
            CASE code = 200 -> Settles([r EXCEPT !.rev = r.call.rev, !.adrift = FALSE])
              [] code = 409 -> [r EXCEPT !.call = [kind |-> "get", viewId |-> r.viewId]]
              [] code = 404 -> Settles(Gone(r))
              [] OTHER -> Settles([r EXCEPT !.dirty = TRUE, !.timer = TRUE]))
    /\ UNCHANGED <<server, edits, troubles>>

Reloads(r) ==
    [r EXCEPT !.rev = r.call.rev, !.doc = Loaded(r.call.doc), !.dirty = FALSE,
              !.undo = <<Loaded(r.call.doc)>>, !.redo = <<>>, !.adrift = FALSE,
              !.seen = @ \cup ShapesOf(r.call.doc)]

\* reloadFromServer: the server's document replaces whatever is on the canvas
\* by now; a failed reload only says so.
Reloaded(t) ==
    /\ tab[t].open /\ tab[t].call.kind = "reload"
    /\ Becomes(t, Settles(IF tab[t].call.code = 200 THEN Reloads(tab[t])
                          ELSE [tab[t] EXCEPT !.adrift = TRUE]))
    /\ UNCHANGED <<server, edits, troubles>>

-----------------------------------------------------------------------------
(* The server.                                                               *)

Owned(viewId) == server.live /\ server.viewId = viewId

CodeIgnoresRev(c) == IF ~Owned(c.viewId) THEN 404 ELSE IF ~Valid(c.doc) THEN 400 ELSE 200  \* Seeded bug: last write wins

Code(c) ==
    CASE ~Owned(c.viewId) -> 404
      [] Owned(c.viewId) /\ ~Valid(c.doc) -> 400
      [] Owned(c.viewId) /\ Valid(c.doc) /\ c.rev # Rev -> 409
      [] OTHER -> 200

Stored(c) == IF Code(c) = 200 THEN [server EXCEPT !.docs = Append(@, c.doc)] ELSE server

\* PUT: the UPDATE lands only on the revision the client loaded.  A capture
\* deleted between the lookup and the UPDATE looks like a conflict.
ServerPut(t) ==
    /\ tab[t].call.kind = "put"
    /\ LET c == tab[t].call
       IN /\ server' = Stored(c)
          /\ \E code \in {Code(c)} \cup (IF server.live THEN {} ELSE {409}) :
               tab' = [tab EXCEPT ![t].call = Answer(c, code)]
    /\ UNCHANGED <<edits, troubles>>

ServerGet(t) ==
    /\ tab[t].call.kind = "get"
    /\ tab' = [tab EXCEPT ![t].call =
            IF Owned(@.viewId) THEN [kind |-> "reload", code |-> 200, rev |-> Rev, doc |-> DocAt(Rev)]
            ELSE [kind |-> "reload", code |-> 404]]
    /\ UNCHANGED <<server, edits, troubles>>

ServerBeacon(t) ==
    /\ tab[t].beacon.kind = "put"
    /\ server' = Stored(tab[t].beacon)
    /\ tab' = [tab EXCEPT ![t].beacon = NoCall]
    /\ UNCHANGED <<edits, troubles>>

\* The network loses a request, or the answer to one that was carried out.
Lose(t) ==
    /\ Trouble
    /\ LET c == tab[t].call
       IN /\ c.kind \in {"put", "get"}
          /\ server' \in {server, IF c.kind = "put" THEN Stored(c) ELSE server}
          /\ tab' = [tab EXCEPT ![t].call = IF c.kind = "put" THEN Answer(c, 0)
                                            ELSE [kind |-> "reload", code |-> 0]]
    /\ UNCHANGED edits

-----------------------------------------------------------------------------
(* The owner's other buttons.                                                *)

\* rotateLink: confirmed; flushSaves clears the timers ...
Rotate(t) ==
    /\ tab[t].open /\ tab[t].rotation = "none"
    /\ Trouble
    /\ Becomes(t, [tab[t] EXCEPT !.rotation = "flush", !.timer = FALSE])
    /\ UNCHANGED <<server, edits>>

PostOrStop(r) == [r EXCEPT !.rotation = IF r.gone THEN "none" ELSE "post"]

\* ... waits for the running save, five seconds at most, and saves what is left.
Flushed(t) ==
    /\ tab[t].open /\ tab[t].rotation = "flush"
    /\ LET r == tab[t]
       IN Becomes(t, IF r.dirty /\ ~r.gone /\ ~r.saving
                     THEN SaveBegins([r EXCEPT !.rotation = "save"])
                     ELSE PostOrStop(r))
    /\ UNCHANGED <<server, edits, troubles>>

FlushSaved(t) ==
    /\ tab[t].open /\ tab[t].rotation = "save" /\ ~tab[t].saving
    /\ Becomes(t, PostOrStop(tab[t]))
    /\ UNCHANGED <<server, edits, troubles>>

\* The POST; its answer may be lost.
ServerRotate(t) ==
    /\ tab[t].rotation = "post"
    /\ IF Owned(tab[t].viewId)
       THEN /\ server' = [server EXCEPT !.viewId = @ + 1]
            /\ tab' \in {[tab EXCEPT ![t].rotation = "rotated"], [tab EXCEPT ![t].rotation = "failed"]}
       ELSE tab' = [tab EXCEPT ![t].rotation = "lost"] /\ UNCHANGED server
    /\ UNCHANGED <<edits, troubles>>

\* The editor takes the new id from the answer; a 404 stops its saves.
RotateAnswered(t) ==
    /\ tab[t].open /\ tab[t].rotation \in {"rotated", "lost", "failed"}
    /\ LET r == [tab[t] EXCEPT !.rotation = "none"]
       IN Becomes(t, CASE tab[t].rotation = "rotated" -> [r EXCEPT !.viewId = @ + 1]
                       [] tab[t].rotation = "lost" -> Gone(r)
                       [] OTHER -> r)
    /\ UNCHANGED <<server, edits, troubles>>

\* The capture is deleted, from this editor or by an administrator.
DeleteCapture ==
    /\ server.live /\ server' = [server EXCEPT !.live = FALSE]
    /\ Trouble
    /\ UNCHANGED <<tab, edits>>

\* pagehide: a beacon if there is something unsaved.  Requests already sent
\* still reach the server; the rest of the tab is gone.
Close(t) ==
    /\ tab[t].open
    /\ LET r == tab[t]
       IN Becomes(t, [OpenTab EXCEPT !.open = FALSE, !.seen = r.seen, !.viewId = r.viewId,
                            !.beacon = IF r.dirty THEN Put(r) ELSE NoCall,
                            !.call = IF r.call.kind = "put" THEN r.call ELSE NoCall,
                            !.rotation = IF r.rotation = "post" THEN "post" ELSE "none"])
    /\ UNCHANGED <<server, edits, troubles>>

-----------------------------------------------------------------------------

Next ==
    \/ \E t \in Tabs :
         \/ \E g \in Gestures : BeginShape(t, g)
         \/ \E g \in Frames : ChangeCrop(t, CropOf(g))
         \/ ChangeCrop(t, NoCrop)
         \/ EndShape(t) \/ DeleteShape(t) \/ MoveShape(t) \/ UndoChange(t) \/ RedoChange(t)
         \/ TimerFires(t) \/ PutAnswered(t) \/ Reloaded(t)
         \/ ServerPut(t) \/ ServerGet(t) \/ ServerBeacon(t) \/ Lose(t)
         \/ Rotate(t) \/ Flushed(t) \/ FlushSaved(t) \/ ServerRotate(t) \/ RotateAnswered(t)
         \/ Close(t)
    \/ DeleteCapture

\* Timers fire, the server answers, continuations run.
Fairness ==
    \A t \in Tabs : /\ WF_vars(TimerFires(t)) /\ WF_vars(PutAnswered(t)) /\ WF_vars(Reloaded(t))
                    /\ WF_vars(ServerPut(t)) /\ WF_vars(ServerGet(t))
                    /\ WF_vars(Flushed(t)) /\ WF_vars(FlushSaved(t))
                    /\ WF_vars(ServerRotate(t)) /\ WF_vars(RotateAnswered(t))

Spec == Init /\ [][Next]_vars /\ Fairness

-----------------------------------------------------------------------------
(* Properties.                                                               *)

Settled(r, shapes) == Only(shapes, Members(shapes) \ ({r.drawing} \cup r.discarded))

\* A tab with nothing to save shows the document of its revision: a gesture
\* under way, shapes dropped as too small and a failed reload aside.
CleanTabShowsItsRevision ==
    \A t \in Tabs : LET r == tab[t] IN
        r.open /\ ~r.dirty /\ ~r.saving /\ ~r.gone /\ ~r.adrift /\ r.drawing = NoShape =>
            /\ Settled(r, r.doc.shapes) = Settled(r, RenderOrder(DocAt(r.rev).shapes))
            /\ r.doc.crop = DocAt(r.rev).crop

\* A shape another tab saved leaves the stored document only by a save of a
\* tab that has shown it: no save overwrites what it never loaded.
NoBlindOverwrite ==
    [][\A t \in Tabs :
         server'.docs # server.docs /\ (tab'[t].call # tab[t].call \/ tab'[t].beacon # tab[t].beacon)
            => ShapesOf(DocAt(Rev)) \subseteq tab[t].seen]_vars

\* What the user changed is settled: saved, reloaded over, or refused because
\* the capture is gone, unless the tab closes or holds a shape out of bounds.
ChangesAreSettled ==
    \A t \in Tabs :
        (tab[t].dirty \/ tab[t].saving) ~>
            (\/ ~tab[t].dirty /\ ~tab[t].saving
             \/ ~tab[t].open \/ tab[t].gone
             \/ ~Valid(tab[t].doc))
=============================================================================
