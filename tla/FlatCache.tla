------------------------------ MODULE FlatCache ------------------------------
(***************************************************************************)
(* GET /s/{view_id}/image.png and the flat-render cache behind it, for one *)
(* capture: which bytes a viewer gets, under which ETag, while the owner   *)
(* saves annotations, the capture expires or is deleted, and the process   *)
(* is restarted with a newer renderer.                                     *)
(*                                                                         *)
(* Modelled from server/src/images/flat.ts (ensure, render), routes/       *)
(* secret.ts (the image route), images/storage.ts (open, write, remove)    *)
(* and the write of routes/owner.ts's saveAnnotations.  A step is what     *)
(* runs between two awaits.  The render gate is RenderService, which       *)
(* RenderGate implements; its callers are the viewers.  A drawing is told  *)
(* apart by the revision and the renderer version it shows.                *)
(***************************************************************************)
EXTENDS Naturals, RenderService

CONSTANTS
  Capture,   \* the internal id, a key of the render gate
  Versions,  \* values of RENDER_VERSION, over upgrades of the server
  MaxRev,    \* bound: saves of the annotation document
  Original,  \* the re-encoded upload, as an image
  Absent     \* no file, or no copy at the client

ASSUME CacheAssumption ==
  /\ Capture \in Keys
  /\ NoKey \notin Keys
  /\ Versions \subseteq Nat \ {0}
  /\ MaxRev \in Nat
  /\ Original # Absent
  /\ {Original, Absent} \cap [rev : 0..MaxRev, by : Versions] = {}   \* neither is a drawing

VARIABLES
  rev,      \* annotations_rev
  blank,    \* the revisions whose document has neither shapes nor crop
  row,      \* "live"; "expired" (the purge may unlink); "deleted"
  mark,     \* <flat_rev, flat_render_version> of the row, as a drawing
  disk,     \* the files of the capture
  version,  \* RENDER_VERSION of the running process
  work,     \* the locals of the render job
  view,     \* view[v]: where v's request stands
  held      \* held[v]: the image v's browser has cached, with its ETag

docVars == <<rev, blank, row>>
vars == <<docVars, mark, disk, version, serviceVars, work, view, held>>

(* A drawing; also the ETag "r{rev}-v{version}" and the marker columns.      *)
Drawing(r, w) == [rev |-> r, by |-> w]
Unmarked == Drawing(0, 0)

NoWork == [pc |-> "none"]
Rendering(pc, r) == [pc |-> pc, rev |-> r]
Rendered(r, variant) == [pc |-> "done", rev |-> r, variant |-> variant]
NoRender == [pc |-> "done", variant |-> "none"]

Idle == [pc |-> "idle"]
Missing == [pc |-> "missing"]   \* the uniform 404
Failed == [pc |-> "failed"]     \* a 500, or a body that broke off
Settled == {Idle, Missing, Failed}

(* Opening a file to send it under the ETag of revision r; `again` while a   *)
(* missing file still leads to a render.                                     *)
Opening(r, variant, again) == [pc |-> "open", rev |-> r, variant |-> variant, again |-> again]
Streaming(r, variant) == [pc |-> "stream", rev |-> r, variant |-> variant]
Waiting == [pc |-> "wait"]

Init ==
  /\ rev = 0 /\ blank = {0} /\ row = "live"
  /\ mark = Unmarked
  /\ disk = [original |-> Original, flat |-> Absent]
  /\ version \in Versions
  /\ ServiceInit
  /\ work = NoWork
  /\ view = [v \in Callers |-> Idle]
  /\ held = [v \in Callers |-> [tag |-> Absent, body |-> Absent]]
-----------------------------------------------------------------------------
(* What happens to the row and the files around the route.                   *)

(* saveAnnotations: the guarded UPDATE raises the revision by one, whatever  *)
(* the document becomes.                                                     *)
Save ==
  /\ rev < MaxRev
  /\ row # "deleted"
  /\ rev' = rev + 1
  /\ blank' \in {blank, blank \cup {rev + 1}}
  /\ UNCHANGED <<row, mark, disk, version, serviceVars, work, view, held>>

(* The retention ends; from here the purge may unlink before it tombstones.  *)
Expire ==
  /\ row = "live"
  /\ row' = "expired"
  /\ UNCHANGED <<rev, blank, mark, disk, version, serviceVars, work, view, held>>

Delete ==
  /\ row # "deleted"
  /\ row' = "deleted"
  /\ UNCHANGED <<rev, blank, mark, disk, version, serviceVars, work, view, held>>

(* store.remove, one unlink. *)
Unlink(variant) ==
  /\ row # "live"
  /\ disk' = [disk EXCEPT ![variant] = Absent]
  /\ UNCHANGED <<docVars, mark, version, serviceVars, work, view, held>>
-----------------------------------------------------------------------------
(* The route.  Between the query of findLive and the next await it decides   *)
(* on the row it read.                                                       *)

(* Seeded bug: the renderer version of the file is not compared. *)
CacheCurrentAnyVersion == mark # Unmarked /\ mark.rev = rev

CacheCurrent == mark = Drawing(rev, version)

(* Seeded bug: the ETag before E1, "r{rev}" only. *)
ConfirmsAnyVersion(v) == held[v].tag # Absent /\ held[v].tag.rev = rev

Confirms(v) == held[v].tag = Drawing(rev, version)

(* flat.ensure(): join the render in flight or ask for one. *)
Ensure(v) ==
  /\ Ask(v, Capture)
  /\ view' = [view EXCEPT ![v] = Waiting]

Lookup(v) ==
  /\ view[v] \in Settled
  /\ \/ /\ row # "live"
        /\ view' = [view EXCEPT ![v] = Missing]
        /\ UNCHANGED serviceVars
     \/ /\ row = "live" /\ Confirms(v)      \* 304, no file and no render
        /\ view' = [view EXCEPT ![v] = Idle]
        /\ UNCHANGED serviceVars
     \/ /\ row = "live" /\ ~Confirms(v)
        /\ IF rev \notin blank /\ ~CacheCurrent THEN Ensure(v)
           ELSE /\ view' = [view EXCEPT ![v] = Opening(rev,
                              IF rev \in blank THEN "original" ELSE "flat", TRUE)]
                /\ UNCHANGED serviceVars
  /\ UNCHANGED <<docVars, mark, disk, version, work, held>>

(* store.open: stat the path.  A missing file leads to a render the first    *)
(* time and to the 404 the second.                                           *)
Stat(v) ==
  LET o == view[v] IN
  /\ o.pc = "open"
  /\ IF disk[o.variant] = Absent /\ o.again THEN Ensure(v)
     ELSE /\ view' = [view EXCEPT ![v] =
                        IF disk[o.variant] = Absent THEN Missing
                        ELSE Streaming(o.rev, o.variant)]
          /\ UNCHANGED serviceVars
  /\ UNCHANGED <<docVars, mark, disk, version, work, held>>

(* createReadStream opens the path by itself, later; the headers are out.    *)
Stream(v) ==
  LET s == view[v] IN
  /\ s.pc = "stream"
  /\ IF disk[s.variant] = Absent
       THEN view' = [view EXCEPT ![v] = Failed] /\ UNCHANGED held
       ELSE /\ view' = [view EXCEPT ![v] = Idle]
            /\ held' = [held EXCEPT ![v] = [tag |-> Drawing(s.rev, version),
                                            body |-> disk[s.variant]]]
  /\ UNCHANGED <<docVars, mark, disk, version, serviceVars, work>>
-----------------------------------------------------------------------------
(* The render job.                                                           *)

RenderBegins ==
  /\ Begin(Capture)
  /\ work' = [pc |-> "read"]
  /\ UNCHANGED <<docVars, mark, disk, version, view, held>>

(* The job re-reads the row: gone, nothing to draw, or a revision to draw.   *)
RenderReads ==
  /\ work.pc = "read"
  /\ work' = IF row = "deleted" THEN NoRender
             ELSE IF rev \in blank THEN Rendered(rev, "original")
             ELSE Rendering("compose", rev)
  /\ UNCHANGED <<docVars, mark, disk, version, serviceVars, view, held>>

(* Seeded bug: a render of a missing original never settles. *)
RenderComposesOnlyPresent ==
  /\ work.pc = "compose" /\ disk["original"] # Absent
  /\ work' = Rendering("write", work.rev)
  /\ UNCHANGED <<docVars, mark, disk, version, serviceVars, view, held>>

RenderComposes ==
  /\ work.pc = "compose"
  /\ work' = IF disk["original"] = Absent THEN NoRender ELSE Rendering("write", work.rev)
  /\ UNCHANGED <<docVars, mark, disk, version, serviceVars, view, held>>

(* A rename into place; the row is not looked at again. *)
RenderWrites ==
  /\ work.pc = "write"
  /\ disk' = [disk EXCEPT !["flat"] = Drawing(work.rev, version)]
  /\ work' = Rendering("mark", work.rev)
  /\ UNCHANGED <<docVars, mark, version, serviceVars, view, held>>

(* Seeded bug: flat_rev = annotations_rev, unconditionally. *)
RenderMarksCurrent ==
  /\ work.pc = "mark"
  /\ mark' = Drawing(rev, version)
  /\ work' = Rendered(work.rev, "flat")
  /\ UNCHANGED <<docVars, disk, version, serviceVars, view, held>>

(* WHERE annotations_rev = rev: a save that raced the render leaves the      *)
(* markers stale.                                                            *)
RenderMarks ==
  /\ work.pc = "mark"
  /\ mark' = IF rev = work.rev THEN Drawing(work.rev, version) ELSE mark
  /\ work' = Rendered(work.rev, "flat")
  /\ UNCHANGED <<docVars, disk, version, serviceVars, view, held>>

(* The promise settles: everybody who joined goes on with the one result.    *)
Settle(outcome) ==
  /\ Answer(Capture)
  /\ work' = NoWork
  /\ view' = [v \in Callers |-> IF awaits[v] = Capture THEN outcome ELSE view[v]]
  /\ UNCHANGED <<docVars, mark, disk, version, held>>

(* Seeded bug: `empty` is ignored and the flat file opened. *)
RenderAnswersFlat ==
  /\ work.pc = "done"
  /\ Settle(IF work = NoRender THEN Missing ELSE Opening(work.rev, "flat", FALSE))

RenderAnswers ==
  /\ work.pc = "done"
  /\ Settle(IF work = NoRender THEN Missing ELSE Opening(work.rev, work.variant, FALSE))

(* A query, sharp or the write throws. *)
RenderThrows ==
  /\ work.pc \in {"read", "compose", "write", "mark"}
  /\ Settle(Failed)
-----------------------------------------------------------------------------
(* The process stops and starts again, possibly upgraded: what it held in    *)
(* memory is gone, and so is every connection.                               *)
Restart ==
  /\ version' \in {w \in Versions : w >= version}
  /\ job' = [k \in Keys |-> "none"]
  /\ awaits' = [v \in Callers |-> NoKey]
  /\ work' = NoWork
  /\ view' = [v \in Callers |-> IF view[v] \in Settled THEN view[v] ELSE Failed]
  /\ UNCHANGED <<docVars, mark, disk, held>>

RouteStep(v) == Stat(v) \/ Stream(v)

RenderStep ==
  \/ RenderBegins \/ RenderReads \/ RenderComposes
  \/ RenderWrites \/ RenderMarks \/ RenderAnswers

Next ==
  \/ Save \/ Expire \/ Delete
  \/ \E variant \in DOMAIN disk : Unlink(variant)
  \/ \E v \in Callers : Lookup(v) \/ RouteStep(v)
  \/ RenderStep \/ RenderThrows
  \/ Restart

(* Requests and the job go on as long as the process runs.  Nothing is       *)
(* assumed of the owner, of the viewers' visits or of restarts.              *)
Fairness ==
  /\ \A v \in Callers : WF_vars(RouteStep(v))
  /\ WF_vars(RenderStep)

Spec == Init /\ [][Next]_vars /\ Fairness
-----------------------------------------------------------------------------
(* "flat_rev never claims a render that is not on disk" (flat.ts): while the   *)
(* markers call the cache current, the flat file holds exactly that drawing,   *)
(* through saves that race the render, crashes between the file and the        *)
(* markers and renderer upgrades; only the purge of a dying capture takes it.  *)
MarkerTruthful ==
  CacheCurrent => disk["flat"] = mark \/ (row # "live" /\ disk["flat"] = Absent)

(* An image is never older than the ETag it is sent and cached under, although *)
(* the file is opened long after the revision was read and may be replaced in  *)
(* between: nothing a viewer holds claims more than it shows.                  *)
CopyIsNotOlderThanTag ==
  \A v \in Callers : LET copy == held[v] IN
    copy.tag # Absent =>
      IF copy.tag.rev \in blank THEN copy.body = Original
      ELSE /\ copy.body \notin {Original, Absent}
           /\ copy.body.rev >= copy.tag.rev /\ copy.body.by >= copy.tag.by

(* The copy a 304 would confirm now is the drawing of the current document by  *)
(* the running renderer, so a revalidating client never keeps a stale image.   *)
ConfirmedCopyIsCurrent ==
  \A v \in Callers : Confirms(v) =>
    held[v].body = IF rev \in blank THEN Original ELSE Drawing(rev, version)

(* A viewer of a capture that has neither expired nor been deleted is never    *)
(* answered with the not-found, whatever saves, renders, other viewers and     *)
(* restarts do meanwhile: "missing file" means a dying capture.                *)
MissingMeansDying ==
  \A v \in Callers : view[v] = Missing => row # "live"

(* Every request for the image is answered.                                    *)
EveryViewEnds ==
  \A v \in Callers : view[v] \notin Settled ~> view[v] \in Settled
=============================================================================
