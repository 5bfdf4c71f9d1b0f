---------------------------- MODULE CaptureStore ----------------------------
(***************************************************************************)
(* The life of a capture: its row in Postgres and its two files on disk,   *)
(* from upload to hard delete.  The two stores share no transaction, so    *)
(* every handler is cut at each await: an insert, an UPDATE, a transaction *)
(* and an unlink are one step each, and steps of uploads, owner and admin  *)
(* requests, renders and the purge job interleave freely.                  *)
(*                                                                         *)
(* Modelled from server/src/routes/captures.ts (upload), routes/owner.ts   *)
(* (retention and delete), routes/admin.ts (keep indefinitely, delete),    *)
(* jobs/purge.ts, images/storage.ts and the file side of images/flat.ts.   *)
(* What a render draws, and which revision is served, is FlatCache's.      *)
(*                                                                         *)
(* Time is a bounded clock in units of eight hours: TOMBSTONE_DAYS >= 1 is *)
(* at least three units, and a render or half a purge pass, which take     *)
(* seconds, span at most one tick.                                         *)
(***************************************************************************)
EXTENDS Naturals, FiniteSets

CONSTANTS
  Ids,            \* row ids the identity column may hand out, naturals from 1
  Requests,       \* HTTP requests that may be in progress at one time
  Forever,        \* retention_until IS NULL: keep indefinitely
  Default,        \* RETENTION_DEFAULT_DAYS
  UserChoices,    \* retentionDays an owner may ask for (1 .. RETENTION_MAX_DAYS_USER)
  TombstoneAge,   \* TOMBSTONE_DAYS
  BatchSize,      \* rows per purge query
  Horizon,        \* bound: the clock stops here
  MaxFaults       \* bound: crashes, failed writes, failed unlinks in one behaviour

ASSUME StoreAssumption ==
  /\ Ids \subseteq Nat \ {0} /\ IsFiniteSet(Ids)
  /\ Forever \notin Nat
  /\ Default \in Nat \ {0} /\ UserChoices \subseteq Nat \ {0}
  /\ TombstoneAge \in Nat /\ TombstoneAge >= 3
  /\ BatchSize \in Nat \ {0}
  /\ Horizon \in Nat /\ MaxFaults \in Nat

VARIABLES
  status,     \* status[i]: how row i stands, see Statuses
  created,    \* created_at
  until,      \* retention_until, Forever for NULL
  deleted,    \* deleted_at, meaningful once status is "tombstone"
  files,      \* the files of capture i on disk, a subset of Variants
  req,        \* the requests in progress
  render,     \* render[i]: the render job of capture i
  purgePc,    \* where the purge pass stands
  purgeNow,   \* the clock reading the current half of the pass works with
  batch,      \* rows of the last purge query still to be processed
  batchFull,  \* that query returned BatchSize rows, so another one follows
  lastId,     \* the id the next query starts after
  clock,
  faults,     \* faults spent
  doomed      \* history: captures some purge query has selected as expired

rowVars   == <<status, created, until, deleted>>
purgeVars == <<purgePc, purgeNow, batch, batchFull, lastId>>
vars == <<rowVars, files, req, render, purgeVars, clock, faults, doomed>>

Variants == {"original", "flat"}

(* "unused": the identity column has not reached the id.  "inserting": an    *)
(* upload's transaction is open, the row invisible to everybody else.        *)
(* "live": deleted_at is null.  "gone": hard-deleted.  "aborted": the        *)
(* transaction rolled back, and the id is never handed out again.            *)
Statuses == {"unused", "inserting", "live", "tombstone", "gone", "aborted"}

Idle == [pc |-> "idle"]
RequestPcs == {"write", "commit", "ownerDelete", "ownerRetain", "adminRetain",
               "unlinkOriginal", "unlinkFlat"}
AtStep(pc, i) == [pc |-> pc, id |-> i]

Renders == [pc : {"composing", "composed"}, since : Nat]
NoRender == [pc |-> "none"]

PurgePcs == {"idle", "selectExpired", "expireOriginal", "expireFlat", "expireRow",
             "selectTombstones", "sweepOriginal", "sweepFlat", "sweepRow"}

ExpiredAt(i, t) == until[i] # Forever /\ until[i] <= t

(* ORDER BY id LIMIT n *)
FirstOf(S, n) == {i \in S : Cardinality({j \in S : j < i}) < n}

First(S) == CHOOSE i \in S : \A j \in S : i <= j

Init ==
  /\ status = [i \in Ids |-> "unused"]
  /\ created = [i \in Ids |-> 0]
  /\ until = [i \in Ids |-> 0]
  /\ deleted = [i \in Ids |-> 0]
  /\ files = [i \in Ids |-> {}]
  /\ req = [r \in Requests |-> Idle]
  /\ render = [i \in Ids |-> NoRender]
  /\ purgePc = "idle" /\ purgeNow = 0 /\ batch = {} /\ batchFull = FALSE /\ lastId = 0
  /\ clock = 0
  /\ faults = 0
  /\ doomed = {}

Fault == faults < MaxFaults /\ faults' = faults + 1
-----------------------------------------------------------------------------
(* Upload: insert, write the original, commit.                             *)

(* Seeded bug: the insert commits by itself. *)
UploadInsertAutocommits(r, i) ==
  /\ req[r] = Idle
  /\ status[i] = "unused"
  /\ status' = [status EXCEPT ![i] = "live"]
  /\ created' = [created EXCEPT ![i] = clock]
  /\ until' = [until EXCEPT ![i] = clock + Default]
  /\ req' = [req EXCEPT ![r] = AtStep("write", i)]
  /\ UNCHANGED <<deleted, files, render, purgeVars, clock, faults, doomed>>

UploadInsert(r, i) ==
  /\ req[r] = Idle
  /\ status[i] = "unused"
  /\ status' = [status EXCEPT ![i] = "inserting"]
  /\ created' = [created EXCEPT ![i] = clock]
  /\ until' = [until EXCEPT ![i] = clock + Default]
  /\ req' = [req EXCEPT ![r] = AtStep("write", i)]
  /\ UNCHANGED <<deleted, files, render, purgeVars, clock, faults, doomed>>

(* The temp file is renamed into place: the original appears whole. *)
UploadWrite(r) ==
  /\ req[r].pc = "write"
  /\ files' = [files EXCEPT ![req[r].id] = @ \cup {"original"}]
  /\ req' = [req EXCEPT ![r] = AtStep("commit", req[r].id)]
  /\ UNCHANGED <<rowVars, render, purgeVars, clock, faults, doomed>>

UploadCommit(r) ==
  /\ req[r].pc = "commit"
  /\ status' = [status EXCEPT ![req[r].id] = "live"]
  /\ req' = [req EXCEPT ![r] = Idle]
  /\ UNCHANGED <<created, until, deleted, files, render, purgeVars, clock, faults, doomed>>

(* The write throws, or the COMMIT fails: the row rolls back, and nothing    *)
(* removes a file that is already in place.                                  *)
UploadFails(r) ==
  /\ req[r].pc \in {"write", "commit"}
  /\ Fault
  /\ status' = [status EXCEPT ![req[r].id] = "aborted"]
  /\ req' = [req EXCEPT ![r] = Idle]
  /\ UNCHANGED <<created, until, deleted, files, render, purgeVars, clock, doomed>>
-----------------------------------------------------------------------------
(* Owner requests: findOwned answers for a live, unexpired row; the UPDATE   *)
(* is a later step.                                                          *)

OwnerFinds(r, i) ==
  /\ req[r] = Idle
  /\ status[i] = "live" /\ ~ExpiredAt(i, clock)
  /\ \E pc \in {"ownerDelete", "ownerRetain"} :
       req' = [req EXCEPT ![r] = AtStep(pc, i)]
  /\ UNCHANGED <<rowVars, files, render, purgeVars, clock, faults, doomed>>

Tombstone(i, t) ==
  /\ status' = [status EXCEPT ![i] = "tombstone"]
  /\ deleted' = [deleted EXCEPT ![i] = t]

(* WHERE deleted_at IS NULL: a row somebody else deleted first keeps its     *)
(* deleted_at, and the handler goes on to unlink either way.                 *)
OwnerDelete(r) ==
  LET i == req[r].id IN
  /\ req[r].pc = "ownerDelete"
  /\ IF status[i] = "live" THEN Tombstone(i, clock) ELSE UNCHANGED <<status, deleted>>
  /\ req' = [req EXCEPT ![r] = AtStep("unlinkOriginal", i)]
  /\ UNCHANGED <<created, until, files, render, purgeVars, clock, faults, doomed>>

(* WHERE id only: the row may have been deleted, or have expired, meanwhile. *)
OwnerRetain(r) ==
  LET i == req[r].id IN
  /\ req[r].pc = "ownerRetain"
  /\ \E days \in UserChoices :
       until' = [until EXCEPT ![i] = IF status[i] = "gone" THEN @ ELSE created[i] + days]
  /\ req' = [req EXCEPT ![r] = Idle]
  /\ UNCHANGED <<status, created, deleted, files, render, purgeVars, clock, faults, doomed>>
-----------------------------------------------------------------------------
(* Admin requests: any row with deleted_at null, expired or not.             *)

AdminFinds(r, i) ==
  /\ req[r] = Idle
  /\ status[i] = "live"
  /\ req' = [req EXCEPT ![r] = AtStep("adminRetain", i)]
  /\ UNCHANGED <<rowVars, files, render, purgeVars, clock, faults, doomed>>

(* "Keep indefinitely" checked or unchecked, WHERE id only. *)
AdminRetain(r) ==
  LET i == req[r].id IN
  /\ req[r].pc = "adminRetain"
  /\ \E choice \in {Forever, created[i] + Default} :
       until' = [until EXCEPT ![i] = IF status[i] = "gone" THEN @ ELSE choice]
  /\ req' = [req EXCEPT ![r] = Idle]
  /\ UNCHANGED <<status, created, deleted, files, render, purgeVars, clock, faults, doomed>>

(* One audited transaction, then the unlinks. *)
AdminDelete(r, i) ==
  /\ req[r] = Idle
  /\ status[i] = "live"
  /\ Tombstone(i, clock)
  /\ req' = [req EXCEPT ![r] = AtStep("unlinkOriginal", i)]
  /\ UNCHANGED <<created, until, files, render, purgeVars, clock, faults, doomed>>
-----------------------------------------------------------------------------
(* store.remove: two unlinks, original first; ENOENT is not an error.        *)

Unlink(i, variant) == files' = [files EXCEPT ![i] = @ \ {variant}]

RequestUnlinksOriginal(r) ==
  /\ req[r].pc = "unlinkOriginal"
  /\ Unlink(req[r].id, "original")
  /\ req' = [req EXCEPT ![r] = AtStep("unlinkFlat", req[r].id)]
  /\ UNCHANGED <<rowVars, render, purgeVars, clock, faults, doomed>>

RequestUnlinksFlat(r) ==
  /\ req[r].pc = "unlinkFlat"
  /\ Unlink(req[r].id, "flat")
  /\ req' = [req EXCEPT ![r] = Idle]
  /\ UNCHANGED <<rowVars, render, purgeVars, clock, faults, doomed>>

(* The handler logs the failure and answers 204; the sweep takes over. *)
RequestUnlinkFails(r) ==
  /\ req[r].pc \in {"unlinkOriginal", "unlinkFlat"}
  /\ Fault
  /\ req' = [req EXCEPT ![r] = Idle]
  /\ UNCHANGED <<rowVars, files, render, purgeVars, clock, doomed>>
-----------------------------------------------------------------------------
(* A render of an annotated capture, inside the gate: at most one per id.    *)

RenderReads(i) ==
  /\ render[i] = NoRender
  /\ status[i] = "live"
  /\ render' = [render EXCEPT ![i] = [pc |-> "composing", since |-> clock]]
  /\ UNCHANGED <<rowVars, files, req, purgeVars, clock, faults, doomed>>

(* sharp reads the original; a missing one ends the job with null. *)
RenderComposes(i) ==
  /\ render[i].pc = "composing"
  /\ render' = [render EXCEPT ![i] = IF "original" \in files[i]
                                       THEN [@ EXCEPT !.pc = "composed"]
                                       ELSE NoRender]
  /\ UNCHANGED <<rowVars, files, req, purgeVars, clock, faults, doomed>>

(* The flat file is written whether or not the row is still live. *)
RenderWrites(i) ==
  /\ render[i].pc = "composed"
  /\ files' = [files EXCEPT ![i] = @ \cup {"flat"}]
  /\ render' = [render EXCEPT ![i] = NoRender]
  /\ UNCHANGED <<rowVars, req, purgeVars, clock, faults, doomed>>
-----------------------------------------------------------------------------
(* The purge pass.  runOnce() is single-flight, so there is one program      *)
(* counter; a pass is expire() followed by sweepAndHardDelete().             *)

PurgeBegins ==
  /\ purgePc = "idle"
  /\ purgePc' = "selectExpired"
  /\ purgeNow' = clock
  /\ lastId' = 0
  /\ UNCHANGED <<rowVars, files, req, render, batch, batchFull, clock, faults, doomed>>

(* One query of a paged scan over the candidates, ordered by id. *)
Page(candidates) == FirstOf({i \in candidates : i > lastId}, BatchSize)

(* Seeded bug: a full page is taken for the last one. *)
FetchLastPage(rows, pc) ==
  /\ purgePc' = pc
  /\ batch' = rows
  /\ batchFull' = (Cardinality(rows) > BatchSize)
  /\ UNCHANGED <<purgeNow, lastId>>

Fetch(rows, pc) ==
  /\ purgePc' = pc
  /\ batch' = rows
  /\ batchFull' = (Cardinality(rows) = BatchSize)
  /\ UNCHANGED <<purgeNow, lastId>>

(* sweepAndHardDelete() reads its own clock and starts from the first id. *)
ToSweep ==
  /\ purgePc' = "selectTombstones"
  /\ purgeNow' = clock
  /\ batch' = {} /\ batchFull' = FALSE /\ lastId' = 0

(* The locals of the pass go out of scope. *)
PassEnds ==
  /\ purgePc' = "idle"
  /\ purgeNow' = 0
  /\ batch' = {} /\ batchFull' = FALSE /\ lastId' = 0

(* Seeded bug: a row whose original is already unlinked is not selected. *)
SelectExpiredWithFile ==
  LET rows == Page({i \in Ids : status[i] = "live" /\ ExpiredAt(i, purgeNow)
                                 /\ "original" \in files[i]}) IN
  /\ purgePc = "selectExpired"
  /\ doomed' = doomed \cup rows
  /\ IF rows = {} THEN ToSweep ELSE Fetch(rows, "expireOriginal")
  /\ UNCHANGED <<rowVars, files, req, render, clock, faults>>

SelectExpired ==
  LET rows == Page({i \in Ids : status[i] = "live" /\ ExpiredAt(i, purgeNow)}) IN
  /\ purgePc = "selectExpired"
  /\ doomed' = doomed \cup rows
  /\ IF rows = {} THEN ToSweep ELSE Fetch(rows, "expireOriginal")
  /\ UNCHANGED <<rowVars, files, req, render, clock, faults>>

(* After row i: the next row of the batch, the next query, or the sweep. *)
NextExpired(i) ==
  LET rest == batch \ {i} IN
  IF rest = {} /\ ~batchFull THEN ToSweep
  ELSE /\ purgePc' = IF rest # {} THEN "expireOriginal" ELSE "selectExpired"
       /\ batch' = rest
       /\ lastId' = i
       /\ UNCHANGED <<purgeNow, batchFull>>

ExpireOriginal ==
  /\ purgePc = "expireOriginal"
  /\ Unlink(First(batch), "original")
  /\ purgePc' = "expireFlat"
  /\ UNCHANGED <<rowVars, req, render, purgeNow, batch, batchFull, lastId, clock, faults, doomed>>

ExpireFlat ==
  /\ purgePc = "expireFlat"
  /\ Unlink(First(batch), "flat")
  /\ purgePc' = "expireRow"
  /\ UNCHANGED <<rowVars, req, render, purgeNow, batch, batchFull, lastId, clock, faults, doomed>>

(* Seeded bug: a row deleted meanwhile is stamped again. *)
ExpireRowAgain ==
  LET i == First(batch) IN
  /\ purgePc = "expireRow"
  /\ Tombstone(i, purgeNow)
  /\ NextExpired(i)
  /\ UNCHANGED <<created, until, files, req, render, clock, faults, doomed>>

(* WHERE deleted_at IS NULL, stamped with the time the pass began; whether   *)
(* the row is still expired is not asked again.                              *)
ExpireRow ==
  LET i == First(batch) IN
  /\ purgePc = "expireRow"
  /\ IF status[i] = "live" THEN Tombstone(i, purgeNow) ELSE UNCHANGED <<status, deleted>>
  /\ NextExpired(i)
  /\ UNCHANGED <<created, until, files, req, render, clock, faults, doomed>>

(* An unlink throws: the row is left as it is and counted as an error. *)
ExpireSkips ==
  /\ purgePc \in {"expireOriginal", "expireFlat"}
  /\ Fault
  /\ NextExpired(First(batch))
  /\ UNCHANGED <<rowVars, files, req, render, clock, doomed>>

(* Seeded bugs: the sweep selects live rows too, or only old tombstones. *)
SelectAnyRow ==
  LET rows == Page({i \in Ids : status[i] \in {"live", "tombstone"}}) IN
  /\ purgePc = "selectTombstones"
  /\ IF rows = {} THEN PassEnds ELSE Fetch(rows, "sweepOriginal")
  /\ UNCHANGED <<rowVars, files, req, render, clock, faults, doomed>>

SelectOldTombstones ==
  LET rows == Page({i \in Ids : status[i] = "tombstone"
                                 /\ deleted[i] + TombstoneAge <= purgeNow}) IN
  /\ purgePc = "selectTombstones"
  /\ IF rows = {} THEN PassEnds ELSE Fetch(rows, "sweepOriginal")
  /\ UNCHANGED <<rowVars, files, req, render, clock, faults, doomed>>

SelectTombstones ==
  LET rows == Page({i \in Ids : status[i] = "tombstone"}) IN
  /\ purgePc = "selectTombstones"
  /\ IF rows = {} THEN PassEnds ELSE Fetch(rows, "sweepOriginal")
  /\ UNCHANGED <<rowVars, files, req, render, clock, faults, doomed>>

(* After row i: the next row of the batch, the next query, or the end. *)
NextTombstone(i) ==
  LET rest == batch \ {i} IN
  IF rest = {} /\ ~batchFull THEN PassEnds
  ELSE /\ purgePc' = IF rest # {} THEN "sweepOriginal" ELSE "selectTombstones"
       /\ batch' = rest
       /\ lastId' = i
       /\ UNCHANGED <<purgeNow, batchFull>>

SweepOriginal ==
  /\ purgePc = "sweepOriginal"
  /\ Unlink(First(batch), "original")
  /\ purgePc' = "sweepFlat"
  /\ UNCHANGED <<rowVars, req, render, purgeNow, batch, batchFull, lastId, clock, faults, doomed>>

(* Seeded bugs: the age is ignored, or ends one unit early. *)
PastCutoffAtOnce(i) == deleted[i] <= purgeNow
PastCutoffEarly(i) == deleted[i] + TombstoneAge <= purgeNow + 1

(* A tombstone past the cutoff goes on to the DELETE, a younger one is done. *)
PastCutoff(i) == deleted[i] + TombstoneAge <= purgeNow

(* Seeded bug: the DELETE follows only when this unlink removed a file. *)
SweepFlatIfRemoved ==
  LET i == First(batch) IN
  /\ purgePc = "sweepFlat"
  /\ Unlink(i, "flat")
  /\ IF PastCutoff(i) /\ files[i] # {}
       THEN purgePc' = "sweepRow" /\ UNCHANGED <<purgeNow, batch, batchFull, lastId>>
       ELSE NextTombstone(i)
  /\ UNCHANGED <<rowVars, req, render, clock, faults, doomed>>

SweepFlat ==
  LET i == First(batch) IN
  /\ purgePc = "sweepFlat"
  /\ Unlink(i, "flat")
  /\ IF PastCutoff(i) THEN purgePc' = "sweepRow" /\ UNCHANGED <<purgeNow, batch, batchFull, lastId>>
     ELSE NextTombstone(i)
  /\ UNCHANGED <<rowVars, req, render, clock, faults, doomed>>

SweepRow ==
  LET i == First(batch) IN
  /\ purgePc = "sweepRow"
  /\ status' = [status EXCEPT ![i] = "gone"]
  /\ NextTombstone(i)
  /\ UNCHANGED <<created, until, deleted, files, req, render, clock, faults, doomed>>

SweepSkips ==
  /\ purgePc \in {"sweepOriginal", "sweepFlat"}
  /\ Fault
  /\ NextTombstone(First(batch))
  /\ UNCHANGED <<rowVars, files, req, render, clock, doomed>>

(* A query of the pass throws: the pass ends, the next tick starts another. *)
PurgeFails ==
  /\ purgePc # "idle"
  /\ Fault
  /\ PassEnds
  /\ UNCHANGED <<rowVars, files, req, render, clock, doomed>>
-----------------------------------------------------------------------------
(* The process dies: open transactions roll back, everything in memory goes. *)
Crash ==
  /\ Fault
  /\ status' = [i \in Ids |-> IF status[i] = "inserting" THEN "aborted" ELSE status[i]]
  /\ req' = [r \in Requests |-> Idle]
  /\ render' = [i \in Ids |-> NoRender]
  /\ PassEnds
  /\ UNCHANGED <<created, until, deleted, files, clock, doomed>>

(* No render and no half of a purge pass is in progress over two ticks. *)
Tick ==
  /\ clock < Horizon
  /\ purgePc # "idle" => purgeNow = clock
  /\ \A i \in Ids : render[i] # NoRender => render[i].since = clock
  /\ clock' = clock + 1
  /\ UNCHANGED <<rowVars, files, req, render, purgeVars, faults, doomed>>

RequestStep(r) ==
  \/ UploadWrite(r) \/ UploadCommit(r) \/ UploadFails(r)
  \/ OwnerDelete(r) \/ OwnerRetain(r) \/ AdminRetain(r)
  \/ RequestUnlinksOriginal(r) \/ RequestUnlinksFlat(r) \/ RequestUnlinkFails(r)

RequestArrives(r, i) ==
  UploadInsert(r, i) \/ OwnerFinds(r, i) \/ AdminFinds(r, i) \/ AdminDelete(r, i)

RenderStep(i) == RenderReads(i) \/ RenderComposes(i) \/ RenderWrites(i)

PurgeProgress ==
  \/ PurgeBegins
  \/ SelectExpired \/ ExpireOriginal \/ ExpireFlat \/ ExpireRow
  \/ SelectTombstones \/ SweepOriginal \/ SweepFlat \/ SweepRow

PurgeStep == PurgeProgress \/ ExpireSkips \/ SweepSkips \/ PurgeFails

Next ==
  \/ \E r \in Requests : RequestStep(r) \/ \E i \in Ids : RequestArrives(r, i)
  \/ \E i \in Ids : RenderStep(i)
  \/ PurgeStep
  \/ Crash
  \/ Tick

(* The purge timer fires as long as the process runs, a pass that meets no   *)
(* error goes on to its end, a render ends, and time passes.  Nothing is     *)
(* assumed of requests.                                                      *)
Fairness ==
  /\ WF_vars(PurgeProgress)
  /\ \A i \in Ids : WF_vars(RenderComposes(i) \/ RenderWrites(i))
  /\ WF_vars(Tick)

Spec == Init /\ [][Next]_vars /\ Fairness
-----------------------------------------------------------------------------
TypeOK ==
  /\ status \in [Ids -> Statuses]
  /\ created \in [Ids -> Nat]
  /\ until \in [Ids -> Nat \cup {Forever}]
  /\ deleted \in [Ids -> Nat]
  /\ files \in [Ids -> SUBSET Variants]
  /\ req \in [Requests -> {Idle} \cup [pc : RequestPcs, id : Ids]]
  /\ render \in [Ids -> {NoRender} \cup Renders]
  /\ purgePc \in PurgePcs
  /\ purgeNow \in Nat
  /\ batch \in SUBSET Ids
  /\ batchFull \in BOOLEAN
  /\ lastId \in Nat
  /\ clock \in Nat /\ faults \in Nat
  /\ doomed \in SUBSET Ids

(* A live capture that no purge query ever selected as expired has its         *)
(* original, through concurrent deletes, renders, sweeps, failures and         *)
(* crashes: an upload commits only after its file is in place, a delete        *)
(* unlinks only after its tombstone, a sweep only touches tombstones.          *)
LiveHasOriginal ==
  \A i \in Ids : status[i] = "live" /\ i \notin doomed => "original" \in files[i]

(* A hard-deleted row leaves nothing on disk, although a render that read the  *)
(* row while it was live may still write the flat file of a tombstone.         *)
HardDeleteIsClean == \A i \in Ids : status[i] = "gone" => files[i] = {}

(* The purge never unlinks under a row it will leave live without having seen  *)
(* it expired: whatever it is processing is expired, rescued since, or dead.   *)
PurgeOnlyDoomed ==
  /\ purgePc \in {"expireOriginal", "expireFlat", "expireRow"} => batch \subseteq doomed
  /\ purgePc \in {"sweepOriginal", "sweepFlat", "sweepRow"} =>
       \A i \in batch : status[i] = "tombstone"

(* A tombstone is final: its deleted_at is stamped once, by whoever came first, *)
(* and nothing but the hard delete of the sweep ends it.                        *)
TombstoneIsFinal ==
  [][\A i \in Ids :
       status[i] \in {"tombstone", "gone"} =>
         /\ deleted'[i] = deleted[i]
         /\ status'[i] = status[i] \/ (status[i] = "tombstone" /\ SweepRow)]_vars

(* A tombstone stays for trust-and-safety for its full age (PLAN.md §5).        *)
TombstoneServesItsAge ==
  [][\A i \in Ids : status[i] = "tombstone" /\ status'[i] = "gone" =>
       deleted[i] + TombstoneAge <= clock]_vars

(* One pass works through the whole backlog, page by page: when the expiry hands *)
(* over to the sweep, every row still live and expired was selected (and skipped *)
(* for a failed unlink).  Checked without requests, which may shorten a          *)
(* retention behind the page already read.                                       *)
PassVisitsAll ==
  [][purgePc \notin {"idle", "selectTombstones"} /\ purgePc' = "selectTombstones"
       /\ (SelectExpired \/ ExpireRow \/ ExpireSkips)
     => \A i \in Ids : status'[i] = "live" /\ ExpiredAt(i, purgeNow) => i \in doomed']_vars

(* An expired capture does not stay live: it is purged or its retention moved.  *)
ExpiredIsPurged ==
  \A i \in Ids : (status[i] = "live" /\ ExpiredAt(i, clock))
                   ~> ~(status[i] = "live" /\ ExpiredAt(i, clock))

(* A failed unlink or a late render never leaves a tombstone with files for     *)
(* good, and a tombstone is hard-deleted in the end.                            *)
TombstoneIsSwept ==
  \A i \in Ids : status[i] = "tombstone" ~> files[i] = {}

TombstoneEnds ==
  \A i \in Ids : (status[i] = "tombstone" /\ deleted[i] + TombstoneAge <= Horizon)
                   ~> status[i] = "gone"

(* What the purge owes in the end, however its pass was interrupted: nothing   *)
(* stays live past its retention, on disk past its deletion, or on record past *)
(* the tombstone's age.                                                        *)
PurgeGetsThere == ExpiredIsPurged /\ TombstoneIsSwept /\ TombstoneEnds
=============================================================================
