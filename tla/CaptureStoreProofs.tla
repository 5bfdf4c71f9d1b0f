------------------------- MODULE CaptureStoreProofs -------------------------
(***************************************************************************)
(* Proofs about the capture store for any set of ids, any requests, any    *)
(* clock horizon and any number of faults.                                 *)
(*                                                                         *)
(* The argument.  A file is unlinked only under a row that is dead or was  *)
(* selected as expired, so a live row that never was keeps its original.   *)
(* A row leaves the disk clean because the sweep unlinks both files of a   *)
(* tombstone before its DELETE, and nothing can bring one back: an upload  *)
(* of that id is long over, and a render that began while the row was live *)
(* ended before the tombstone reached its age.                             *)
(***************************************************************************)
EXTENDS Backup, WellFoundedInduction, TLAPS

Uploading(r) == req[r].pc \in {"write", "commit"}

(* An open upload has its row to itself, and commits with its file in place. *)
UploadsOwnTheirRow ==
  /\ \A r \in Requests : Uploading(r) => status[req[r].id] = "inserting"
  /\ \A r \in Requests : req[r].pc = "commit" => "original" \in files[req[r].id]
  /\ \A r, s \in Requests :
       Uploading(r) /\ Uploading(s) /\ req[r].id = req[s].id => r = s

(* Owner and admin requests, and the unlinks of a delete, are about rows that *)
(* were committed; the unlinks come after the tombstone.                      *)
RequestsTarget ==
  \A r \in Requests :
    /\ req[r].pc \in {"ownerDelete", "ownerRetain", "adminRetain"}
         => status[req[r].id] \in {"live", "tombstone", "gone"}
    /\ req[r].pc \in {"unlinkOriginal", "unlinkFlat"}
         => status[req[r].id] \in {"tombstone", "gone"}

DoomedCommitted == \A i \in doomed : status[i] \in {"live", "tombstone", "gone"}

(* A render in flight is young: it read a live row at most a tick ago.  A      *)
(* tombstone it outlives is stamped no earlier than a tick before it began.    *)
RendersAreYoung ==
  \A i \in Ids : render[i] # NoRender =>
    /\ render[i].since <= clock /\ clock <= render[i].since + 1
    /\ status[i] \in {"live", "tombstone"}
    /\ status[i] = "tombstone" => render[i].since <= deleted[i] + 1

(* A pass works with a recent clock and, between queries, on a row of its batch. *)
PassIsFresh ==
  /\ purgePc # "idle" => purgeNow <= clock /\ clock <= purgeNow + 1
  /\ purgePc \notin {"idle", "selectExpired", "selectTombstones"} => batch # {}

(* What the sweep has removed of the row it is at stays removed. *)
SweepSticks ==
  /\ purgePc = "sweepFlat" => "original" \notin files[First(batch)]
  /\ purgePc = "sweepRow" => PastCutoff(First(batch)) /\ files[First(batch)] = {}

IInv ==
  /\ TypeOK
  /\ UploadsOwnTheirRow
  /\ RequestsTarget
  /\ DoomedCommitted
  /\ RendersAreYoung
  /\ PassIsFresh
  /\ PurgeOnlyDoomed
  /\ SweepSticks
  /\ LiveHasOriginal
  /\ HardDeleteIsClean
-----------------------------------------------------------------------------
(* The row a pass is at is one of its batch. *)
LEMMA FirstIsMember ==
  ASSUME NEW S \in SUBSET Nat, S # {}
  PROVE  First(S) \in S
<1>1. PICK m \in S : \A i \in S : ~(<<i, m>> \in OpToRel(<, Nat))
  BY NatLessThanWellFounded, WFMin, Zenon
<1>2. \A i \in S : m <= i
  <2> SUFFICES ASSUME NEW i \in S, i < m PROVE FALSE
    OBVIOUS
  <2>1. <<i, m>> \in OpToRel(<, Nat)
    BY DEF OpToRel
  <2> QED
    BY <1>1, <2>1
<1> QED
  BY <1>2 DEF First

(* A request in progress is about one id. *)
LEMMA RequestHasId ==
  ASSUME TypeOK, NEW r \in Requests, req[r] # Idle
  PROVE  req[r] \in [pc : RequestPcs, id : Ids] /\ req[r].pc \in RequestPcs /\ req[r].id \in Ids
BY DEF TypeOK

LEMMA IdlePc == Idle.pc = "idle"
BY DEF Idle

LEMMA StepOf ==
  ASSUME NEW pc \in RequestPcs, NEW i \in Ids
  PROVE  /\ AtStep(pc, i) \in [pc : RequestPcs, id : Ids]
         /\ AtStep(pc, i).pc = pc /\ AtStep(pc, i).id = i
BY DEF AtStep

LEMMA InitEstablishes == Init => IInv
<1> SUFFICES ASSUME Init PROVE IInv
  OBVIOUS
<1> USE IdlePc DEF Init
<1>1. TypeOK
  BY DEF TypeOK, Statuses, PurgePcs
<1>2. UploadsOwnTheirRow /\ RequestsTarget
  BY DEF UploadsOwnTheirRow, Uploading, RequestsTarget
<1>3. DoomedCommitted /\ RendersAreYoung /\ PassIsFresh
  BY DEF DoomedCommitted, RendersAreYoung, PassIsFresh
<1>4. PurgeOnlyDoomed /\ SweepSticks /\ LiveHasOriginal /\ HardDeleteIsClean
  BY DEF PurgeOnlyDoomed, SweepSticks, LiveHasOriginal, HardDeleteIsClean
<1> QED
  BY <1>1, <1>2, <1>3, <1>4 DEF IInv

LEMMA UploadInsertPreserves ==
  ASSUME IInv, NEW r \in Requests, NEW i \in Ids, UploadInsert(r, i)
  PROVE  IInv'
<1> USE StoreAssumption, IdlePc DEF IInv, UploadInsert
<1>1. TypeOK'
  <2>1. AtStep("write", i) \in [pc : RequestPcs, id : Ids]
    BY StepOf DEF RequestPcs
  <2> QED
    BY <2>1 DEF TypeOK, Statuses, purgeVars
<1>2. \A s \in Requests : Uploading(s) => req[s].id # i
  BY DEF UploadsOwnTheirRow
<1>3. /\ req'[r].pc = "write" /\ req'[r].id = i
      /\ \A s \in Requests : s # r => req'[s] = req[s]
  BY StepOf DEF TypeOK, RequestPcs
<1>4. UploadsOwnTheirRow'
  BY <1>2, <1>3, RequestHasId DEF UploadsOwnTheirRow, Uploading, TypeOK
<1>5. RequestsTarget'
  BY <1>3, RequestHasId DEF RequestsTarget, TypeOK, RequestPcs
<1>6. /\ DoomedCommitted' /\ RendersAreYoung' /\ PassIsFresh' /\ PurgeOnlyDoomed'
      /\ LiveHasOriginal' /\ HardDeleteIsClean'
  BY DEF DoomedCommitted, RendersAreYoung, PassIsFresh, PurgeOnlyDoomed, LiveHasOriginal,
         HardDeleteIsClean, TypeOK, purgeVars
<1>7. SweepSticks'
  BY DEF SweepSticks, PastCutoff, purgeVars
<1> QED
  BY <1>1, <1>4, <1>5, <1>6, <1>7

(* An upload's own row: nobody else is at work on a row that is inserting. *)
LEMMA UploadingFacts ==
  ASSUME IInv, NEW r \in Requests, Uploading(r)
  PROVE  /\ req[r].id \in Ids /\ req[r] # Idle
         /\ status[req[r].id] = "inserting"
         /\ render[req[r].id] = NoRender
         /\ req[r].id \notin doomed
         /\ \A s \in Requests : s # r /\ req[s] # Idle => req[s].id # req[r].id
         /\ purgePc \in {"sweepFlat", "sweepRow"} => First(batch) # req[r].id
<1> USE DEF IInv
<1>1. req[r].id \in Ids /\ req[r] # Idle /\ status[req[r].id] = "inserting"
  BY RequestHasId, IdlePc DEF Uploading, UploadsOwnTheirRow
<1>2. render[req[r].id] = NoRender /\ req[r].id \notin doomed
  BY <1>1 DEF RendersAreYoung, DoomedCommitted
<1>3. ASSUME NEW s \in Requests, s # r, req[s] # Idle PROVE req[s].id # req[r].id
  BY <1>1, <1>3, RequestHasId DEF UploadsOwnTheirRow, RequestsTarget, Uploading, RequestPcs
<1>4. ASSUME purgePc \in {"sweepFlat", "sweepRow"} PROVE First(batch) # req[r].id
  <2>1. batch # {} /\ batch \in SUBSET Nat
    BY <1>4, StoreAssumption DEF PassIsFresh, TypeOK
  <2> QED
    BY <1>1, <1>4, <2>1, FirstIsMember DEF PurgeOnlyDoomed
<1> QED
  BY <1>1, <1>2, <1>3, <1>4

LEMMA UploadWritePreserves ==
  ASSUME IInv, NEW r \in Requests, UploadWrite(r)
  PROVE  IInv'
<1> DEFINE i == req[r].id
<1> USE IdlePc DEF IInv, UploadWrite
<1>1. Uploading(r)
  BY DEF Uploading
<1>2. /\ i \in Ids /\ status[i] = "inserting"
      /\ purgePc \in {"sweepFlat", "sweepRow"} => First(batch) # i
  BY <1>1, UploadingFacts
<1>3. /\ req'[r].pc = "commit" /\ req'[r].id = i
      /\ \A s \in Requests : s # r => req'[s] = req[s]
  BY <1>2, StepOf DEF TypeOK, RequestPcs
<1>4. TypeOK'
  <2>1. AtStep("commit", i) \in [pc : RequestPcs, id : Ids]
    BY <1>2, StepOf DEF RequestPcs
  <2> QED
    BY <1>2, <2>1 DEF TypeOK, Variants, rowVars, purgeVars
<1>5. UploadsOwnTheirRow'
  BY <1>1, <1>2, <1>3, RequestHasId DEF UploadsOwnTheirRow, Uploading, TypeOK, rowVars
<1>6. RequestsTarget'
  BY <1>3 DEF RequestsTarget, rowVars
<1>7. DoomedCommitted' /\ RendersAreYoung' /\ PassIsFresh' /\ PurgeOnlyDoomed'
  BY DEF DoomedCommitted, RendersAreYoung, PassIsFresh, PurgeOnlyDoomed, rowVars, purgeVars
<1>8. LiveHasOriginal' /\ HardDeleteIsClean' /\ SweepSticks'
  BY <1>2 DEF LiveHasOriginal, HardDeleteIsClean, SweepSticks, PastCutoff, TypeOK, rowVars, purgeVars
<1> QED
  BY <1>4, <1>5, <1>6, <1>7, <1>8

LEMMA UploadEndsPreserves ==
  ASSUME IInv, NEW r \in Requests, UploadCommit(r) \/ UploadFails(r)
  PROVE  IInv'
<1> DEFINE i == req[r].id
<1> USE IdlePc DEF IInv
<1>1. Uploading(r)
  BY DEF Uploading, UploadCommit, UploadFails
<1>2. /\ i \in Ids /\ status[i] = "inserting" /\ render[i] = NoRender /\ i \notin doomed
      /\ \A s \in Requests : s # r /\ req[s] # Idle => req[s].id # i
  BY <1>1, UploadingFacts
<1>3. PICK end \in {"live", "aborted"} :
        /\ status' = [status EXCEPT ![i] = end]
        /\ end = "live" => req[r].pc = "commit"
  BY DEF UploadCommit, UploadFails
<1>4. /\ req' = [req EXCEPT ![r] = Idle] /\ faults' \in Nat
      /\ UNCHANGED <<created, until, deleted, files, render, purgeVars, clock, doomed>>
  BY DEF UploadCommit, UploadFails, Fault, TypeOK
<1>5. TypeOK'
  BY <1>3, <1>4 DEF TypeOK, Statuses, purgeVars
<1>6. UploadsOwnTheirRow' /\ RequestsTarget'
  BY <1>2, <1>3, <1>4, RequestHasId
  DEF UploadsOwnTheirRow, RequestsTarget, Uploading, TypeOK
<1>7. DoomedCommitted' /\ RendersAreYoung' /\ PassIsFresh' /\ PurgeOnlyDoomed'
  BY <1>2, <1>3, <1>4
  DEF DoomedCommitted, RendersAreYoung, PassIsFresh, PurgeOnlyDoomed, TypeOK, purgeVars
<1>8. LiveHasOriginal'
  BY <1>2, <1>3, <1>4 DEF LiveHasOriginal, UploadsOwnTheirRow, TypeOK
<1>9. HardDeleteIsClean' /\ SweepSticks'
  BY <1>2, <1>3, <1>4 DEF HardDeleteIsClean, SweepSticks, PastCutoff, TypeOK, purgeVars
<1> QED
  BY <1>5, <1>6, <1>7, <1>8, <1>9

LEMMA RequestFindsPreserves ==
  ASSUME IInv, NEW r \in Requests, NEW i \in Ids, OwnerFinds(r, i) \/ AdminFinds(r, i)
  PROVE  IInv'
<1> USE IdlePc DEF IInv
<1>1. PICK pc \in {"ownerDelete", "ownerRetain", "adminRetain"} :
        req' = [req EXCEPT ![r] = AtStep(pc, i)]
  BY DEF OwnerFinds, AdminFinds
<1>2. /\ req[r] = Idle /\ status[i] = "live"
      /\ UNCHANGED <<rowVars, files, render, purgeVars, clock, faults, doomed>>
  BY DEF OwnerFinds, AdminFinds
<1>3. /\ req'[r].pc = pc /\ req'[r].id = i
      /\ \A s \in Requests : s # r => req'[s] = req[s]
  BY <1>1, StepOf DEF TypeOK, RequestPcs
<1>4. TypeOK'
  <2>1. AtStep(pc, i) \in [pc : RequestPcs, id : Ids]
    BY StepOf DEF RequestPcs
  <2> QED
    BY <1>1, <1>2, <2>1 DEF TypeOK, rowVars, purgeVars
<1>5. UploadsOwnTheirRow' /\ RequestsTarget'
  BY <1>2, <1>3 DEF UploadsOwnTheirRow, RequestsTarget, Uploading, rowVars
<1>6. /\ DoomedCommitted' /\ RendersAreYoung' /\ PassIsFresh' /\ PurgeOnlyDoomed'
      /\ SweepSticks' /\ LiveHasOriginal' /\ HardDeleteIsClean'
  BY <1>2 DEF DoomedCommitted, RendersAreYoung, PassIsFresh, PurgeOnlyDoomed, SweepSticks,
              PastCutoff, LiveHasOriginal, HardDeleteIsClean, rowVars, purgeVars
<1> QED
  BY <1>4, <1>5, <1>6

LEMMA RetainPreserves ==
  ASSUME IInv, NEW r \in Requests, OwnerRetain(r) \/ AdminRetain(r)
  PROVE  IInv'
<1> DEFINE i == req[r].id
<1> USE IdlePc DEF IInv
<1>1. i \in Ids
  BY RequestHasId DEF OwnerRetain, AdminRetain
<1>2. /\ req' = [req EXCEPT ![r] = Idle]
      /\ UNCHANGED <<status, created, deleted, files, render, purgeVars, clock, faults, doomed>>
  BY DEF OwnerRetain, AdminRetain
<1>3. TypeOK'
  <2>1. until[i] \in Nat \cup {Forever} /\ created[i] \in Nat
    BY <1>1 DEF TypeOK
  <2>2. \A days \in UserChoices \cup {Default} : created[i] + days \in Nat
    BY <2>1, StoreAssumption
  <2>3. until' \in [Ids -> Nat \cup {Forever}]
    <3>1. CASE OwnerRetain(r)
      BY <1>1, <2>1, <2>2, <3>1 DEF OwnerRetain, TypeOK
    <3>2. CASE AdminRetain(r)
      BY <1>1, <2>1, <2>2, <3>2 DEF AdminRetain, TypeOK
    <3> QED
      BY <3>1, <3>2
  <2> QED
    BY <1>2, <2>3 DEF TypeOK, purgeVars
<1>4. UploadsOwnTheirRow' /\ RequestsTarget'
  BY <1>2 DEF UploadsOwnTheirRow, RequestsTarget, Uploading, TypeOK
<1>5. /\ DoomedCommitted' /\ RendersAreYoung' /\ PassIsFresh' /\ PurgeOnlyDoomed'
      /\ SweepSticks' /\ LiveHasOriginal' /\ HardDeleteIsClean'
  BY <1>2 DEF DoomedCommitted, RendersAreYoung, PassIsFresh, PurgeOnlyDoomed, SweepSticks,
              PastCutoff, LiveHasOriginal, HardDeleteIsClean, purgeVars
<1> QED
  BY <1>3, <1>4, <1>5

(* Tombstoning a live row disturbs nobody: an owner or an admin does it now,   *)
(* the purge with the time its pass began, at most a tick ago.                 *)
LEMMA TombstonePreserves ==
  ASSUME IInv, NEW i \in Ids, status[i] = "live", NEW t \in Nat, clock <= t + 1,
         Tombstone(i, t), UNCHANGED <<created, until, files, render, clock, doomed>>
  PROVE  /\ status' \in [Ids -> Statuses] /\ deleted' \in [Ids -> Nat]
         /\ \A j \in Ids : status[j] # "live" => status'[j] = status[j] /\ deleted'[j] = deleted[j]
         /\ \A j \in Ids : status'[j] = "live" => status[j] = "live"
         /\ status'[i] = "tombstone" /\ deleted'[i] = t
         /\ \A j \in Ids : status'[j] # status[j] => j = i
         /\ DoomedCommitted' /\ RendersAreYoung' /\ LiveHasOriginal' /\ HardDeleteIsClean'
<1> USE DEF IInv
<1>1. /\ status' = [status EXCEPT ![i] = "tombstone"] /\ deleted' = [deleted EXCEPT ![i] = t]
  BY DEF Tombstone
<1>2. status' \in [Ids -> Statuses] /\ deleted' \in [Ids -> Nat]
  BY <1>1 DEF TypeOK, Statuses
<1>3. /\ \A j \in Ids : status[j] # "live" => status'[j] = status[j] /\ deleted'[j] = deleted[j]
      /\ \A j \in Ids : status'[j] = "live" => status[j] = "live"
      /\ status'[i] = "tombstone" /\ deleted'[i] = t
      /\ \A j \in Ids : j # i => status'[j] = status[j] /\ deleted'[j] = deleted[j]
  BY <1>1 DEF TypeOK
<1>4. DoomedCommitted' /\ LiveHasOriginal' /\ HardDeleteIsClean'
  BY <1>3 DEF DoomedCommitted, LiveHasOriginal, HardDeleteIsClean, TypeOK
<1>5. RendersAreYoung'
  <2> SUFFICES ASSUME NEW j \in Ids, render[j] # NoRender
               PROVE  /\ render[j].since <= clock /\ clock <= render[j].since + 1
                      /\ status'[j] \in {"live", "tombstone"}
                      /\ status'[j] = "tombstone" => render[j].since <= deleted'[j] + 1
    BY DEF RendersAreYoung
  <2>1. render[j].since \in Nat /\ clock \in Nat
    BY DEF TypeOK, Renders
  <2> QED
    BY <1>3, <2>1 DEF RendersAreYoung
<1> QED
  BY <1>2, <1>3, <1>4, <1>5

LEMMA DeletePreserves ==
  ASSUME IInv, NEW r \in Requests, OwnerDelete(r) \/ \E i \in Ids : AdminDelete(r, i)
  PROVE  IInv'
<1> USE IdlePc DEF IInv
<1>1. PICK i \in Ids :
        /\ req' = [req EXCEPT ![r] = AtStep("unlinkOriginal", i)]
        /\ status[i] = "live" => Tombstone(i, clock)
        /\ status[i] # "live" => UNCHANGED <<status, deleted>>
        /\ status[i] \in {"live", "tombstone", "gone"}
        /\ ~Uploading(r)
  BY RequestHasId DEF OwnerDelete, AdminDelete, RequestsTarget, Uploading
<1>2. UNCHANGED <<created, until, files, render, purgeVars, clock, faults, doomed>>
  BY DEF OwnerDelete, AdminDelete
<1>3. /\ req'[r].pc = "unlinkOriginal" /\ req'[r].id = i
      /\ \A s \in Requests : s # r => req'[s] = req[s]
  BY <1>1, StepOf DEF TypeOK, RequestPcs
<1>4. /\ status' \in [Ids -> Statuses] /\ deleted' \in [Ids -> Nat]
      /\ \A j \in Ids : status[j] # "live" => status'[j] = status[j] /\ deleted'[j] = deleted[j]
      /\ status'[i] \in {"tombstone", "gone"}
      /\ \A j \in Ids : status'[j] # status[j] => j = i
      /\ DoomedCommitted' /\ RendersAreYoung' /\ LiveHasOriginal' /\ HardDeleteIsClean'
  <2>1. CASE status[i] = "live"
    BY <1>1, <1>2, <2>1, TombstonePreserves DEF TypeOK
  <2>2. CASE status[i] # "live"
    BY <1>1, <1>2, <2>2
    DEF TypeOK, DoomedCommitted, RendersAreYoung, LiveHasOriginal, HardDeleteIsClean
  <2> QED
    BY <2>1, <2>2
<1>5. TypeOK'
  <2>1. AtStep("unlinkOriginal", i) \in [pc : RequestPcs, id : Ids]
    BY StepOf DEF RequestPcs
  <2> QED
    BY <1>1, <1>2, <1>4, <2>1 DEF TypeOK, purgeVars
<1>6. UploadsOwnTheirRow' /\ RequestsTarget'
  BY <1>1, <1>2, <1>3, <1>4, RequestHasId
  DEF UploadsOwnTheirRow, RequestsTarget, Uploading, RequestPcs
<1>7. PassIsFresh' /\ PurgeOnlyDoomed'
  BY <1>2, <1>4 DEF PassIsFresh, PurgeOnlyDoomed, TypeOK, purgeVars
<1>8. SweepSticks'
  <2>1. purgePc = "sweepRow" => First(batch) \in Ids /\ status[First(batch)] = "tombstone"
    BY FirstIsMember, StoreAssumption DEF PassIsFresh, PurgeOnlyDoomed, TypeOK
  <2> QED
    BY <1>2, <1>4, <2>1 DEF SweepSticks, PastCutoff, purgeVars
<1> QED
  BY <1>4, <1>5, <1>6, <1>7, <1>8

(* Unlinking a file of a row that is dead or doomed disturbs nobody. *)
LEMMA UnlinkPreserves ==
  ASSUME IInv, NEW i \in Ids, status[i] \in {"tombstone", "gone"} \/ i \in doomed,
         NEW variant \in Variants, Unlink(i, variant), UNCHANGED <<status, doomed>>
  PROVE  /\ files' \in [Ids -> SUBSET Variants]
         /\ \A j \in Ids : files'[j] \subseteq files[j] /\ variant \notin files'[i]
         /\ \A s \in Requests : req[s].pc = "commit" => "original" \in files'[req[s].id]
         /\ LiveHasOriginal' /\ HardDeleteIsClean'
<1> USE DEF IInv
<1>1. files' = [files EXCEPT ![i] = @ \ {variant}]
  BY DEF Unlink
<1>2. /\ files' \in [Ids -> SUBSET Variants]
      /\ \A j \in Ids : files'[j] \subseteq files[j] /\ variant \notin files'[i]
      /\ \A j \in Ids : j # i => files'[j] = files[j]
  BY <1>1 DEF TypeOK
<1>3. LiveHasOriginal' /\ HardDeleteIsClean'
  BY <1>2 DEF LiveHasOriginal, HardDeleteIsClean
<1>4. ASSUME NEW s \in Requests, req[s].pc = "commit"
      PROVE  "original" \in files'[req[s].id]
  <2>1. Uploading(s)
    BY <1>4 DEF Uploading
  <2>2. req[s].id \in Ids /\ status[req[s].id] = "inserting" /\ req[s].id \notin doomed
    BY <2>1, UploadingFacts
  <2> QED
    BY <1>2, <1>4, <2>2 DEF UploadsOwnTheirRow
<1> QED
  BY <1>2, <1>3, <1>4

LEMMA RequestUnlinksPreserves ==
  ASSUME IInv, NEW r \in Requests,
         RequestUnlinksOriginal(r) \/ RequestUnlinksFlat(r) \/ RequestUnlinkFails(r)
  PROVE  IInv'
<1> DEFINE i == req[r].id
<1> USE IdlePc DEF IInv
<1>1. /\ i \in Ids /\ status[i] \in {"tombstone", "gone"} /\ ~Uploading(r)
      /\ UNCHANGED <<rowVars, render, purgeVars, clock, doomed>>
      /\ faults' \in Nat
  BY RequestHasId
  DEF RequestUnlinksOriginal, RequestUnlinksFlat, RequestUnlinkFails, RequestsTarget,
      Uploading, Fault, TypeOK
<1>2. /\ files' \in [Ids -> SUBSET Variants]
      /\ \A j \in Ids : files'[j] \subseteq files[j]
      /\ \A s \in Requests : req[s].pc = "commit" => "original" \in files'[req[s].id]
      /\ LiveHasOriginal' /\ HardDeleteIsClean'
  <2>1. CASE \E variant \in Variants : Unlink(i, variant)
    BY <1>1, <2>1, UnlinkPreserves DEF rowVars
  <2>2. CASE UNCHANGED files
    BY <1>1, <2>2 DEF LiveHasOriginal, HardDeleteIsClean, UploadsOwnTheirRow, TypeOK, rowVars
  <2> QED
    BY <2>1, <2>2 DEF RequestUnlinksOriginal, RequestUnlinksFlat, RequestUnlinkFails, Variants
<1>3. /\ req'[r] = Idle \/ req'[r] = AtStep("unlinkFlat", i)
      /\ req' \in [Requests -> {Idle} \cup [pc : RequestPcs, id : Ids]]
      /\ \A s \in Requests : s # r => req'[s] = req[s]
  <2>1. AtStep("unlinkFlat", i) \in [pc : RequestPcs, id : Ids]
    BY <1>1, StepOf DEF RequestPcs
  <2> QED
    BY <2>1 DEF RequestUnlinksOriginal, RequestUnlinksFlat, RequestUnlinkFails, TypeOK
<1>4. TypeOK'
  BY <1>1, <1>2, <1>3 DEF TypeOK, rowVars, purgeVars
<1>5. UploadsOwnTheirRow' /\ RequestsTarget'
  <2>1. (req'[r].pc = "unlinkFlat" /\ req'[r].id = i) \/ req'[r].pc = "idle"
    BY <1>1, <1>3, StepOf DEF RequestPcs
  <2> QED
    BY <1>1, <1>2, <1>3, <2>1 DEF UploadsOwnTheirRow, RequestsTarget, Uploading, rowVars
<1>6. DoomedCommitted' /\ RendersAreYoung' /\ PassIsFresh' /\ PurgeOnlyDoomed'
  BY <1>1 DEF DoomedCommitted, RendersAreYoung, PassIsFresh, PurgeOnlyDoomed, rowVars, purgeVars
<1>7. SweepSticks'
  <2>1. purgePc \in {"sweepFlat", "sweepRow"} => First(batch) \in Ids
    BY FirstIsMember, StoreAssumption DEF PassIsFresh, TypeOK
  <2> QED
    BY <1>1, <1>2, <2>1 DEF SweepSticks, PastCutoff, rowVars, purgeVars
<1> QED
  BY <1>2, <1>4, <1>5, <1>6, <1>7

LEMMA RenderReadsPreserves ==
  ASSUME IInv, NEW i \in Ids, RenderReads(i)
  PROVE  IInv'
<1> USE DEF IInv, RenderReads
<1>1. TypeOK' /\ RendersAreYoung'
  BY DEF TypeOK, RendersAreYoung, Renders, rowVars, purgeVars
<1> QED
  BY <1>1 DEF UploadsOwnTheirRow, Uploading, RequestsTarget, DoomedCommitted, PassIsFresh,
    PurgeOnlyDoomed, SweepSticks, PastCutoff, LiveHasOriginal, HardDeleteIsClean, rowVars, purgeVars

LEMMA RenderComposesPreserves ==
  ASSUME IInv, NEW i \in Ids, RenderComposes(i)
  PROVE  IInv'
<1> USE DEF IInv, RenderComposes
<1>1. PICK new \in {NoRender} \cup Renders :
        /\ render' = [render EXCEPT ![i] = new]
        /\ new # NoRender => new.since = render[i].since
  <2>1. render[i] \in Renders
    BY DEF TypeOK, NoRender
  <2>2. /\ [render[i] EXCEPT !.pc = "composed"] \in Renders
        /\ [render[i] EXCEPT !.pc = "composed"].since = render[i].since
    BY <2>1 DEF Renders
  <2> QED
    BY <2>2
<1>2. TypeOK'
  BY <1>1 DEF TypeOK, rowVars, purgeVars
<1>3. RendersAreYoung'
  BY <1>1 DEF TypeOK, RendersAreYoung, NoRender, rowVars
<1> QED
  BY <1>2, <1>3 DEF UploadsOwnTheirRow, Uploading, RequestsTarget, DoomedCommitted, PassIsFresh,
    PurgeOnlyDoomed, SweepSticks, PastCutoff, LiveHasOriginal, HardDeleteIsClean, rowVars, purgeVars

(* A tombstone past the cutoff has no render left in flight. *)
LEMMA PastCutoffHasNoRender ==
  ASSUME IInv, NEW i \in Ids, status[i] = "tombstone", purgePc # "idle", PastCutoff(i)
  PROVE  render[i] = NoRender
<1> SUFFICES ASSUME render[i] # NoRender PROVE FALSE
  OBVIOUS
<1>1. /\ render[i].since \in Nat /\ deleted[i] \in Nat /\ clock \in Nat /\ purgeNow \in Nat
      /\ TombstoneAge \in Nat /\ TombstoneAge >= 3
  BY StoreAssumption DEF IInv, TypeOK, Renders
<1>2. clock <= render[i].since + 1 /\ render[i].since <= deleted[i] + 1 /\ purgeNow <= clock
  BY DEF IInv, RendersAreYoung, PassIsFresh
<1> QED
  BY <1>1, <1>2 DEF PastCutoff

LEMMA RenderWritesPreserves ==
  ASSUME IInv, NEW i \in Ids, RenderWrites(i)
  PROVE  IInv'
<1> USE DEF IInv, RenderWrites
<1>1. /\ TypeOK' /\ RendersAreYoung'
      /\ \A j \in Ids : files[j] \subseteq files'[j] /\ files'[j] \subseteq files[j] \cup {"flat"}
      /\ \A j \in Ids : j # i => files'[j] = files[j]
  BY DEF TypeOK, RendersAreYoung, Variants, rowVars, purgeVars
<1>2. render[i] # NoRender /\ status[i] # "gone"
  BY DEF NoRender, RendersAreYoung
<1>3. LiveHasOriginal' /\ HardDeleteIsClean'
  BY <1>1, <1>2 DEF LiveHasOriginal, HardDeleteIsClean, rowVars
<1>4. UploadsOwnTheirRow' /\ RequestsTarget'
  BY <1>1, RequestHasId, IdlePc
  DEF UploadsOwnTheirRow, Uploading, RequestsTarget, rowVars
<1>5. SweepSticks'
  <2>1. purgePc \in {"sweepFlat", "sweepRow"} =>
          First(batch) \in Ids /\ status[First(batch)] = "tombstone"
    BY FirstIsMember, StoreAssumption DEF PassIsFresh, PurgeOnlyDoomed, TypeOK
  <2>2. purgePc = "sweepRow" => First(batch) # i
    BY <1>2, <2>1, PastCutoffHasNoRender DEF SweepSticks
  <2> QED
    BY <1>1, <2>1, <2>2 DEF SweepSticks, PastCutoff, rowVars, purgeVars
<1>6. DoomedCommitted' /\ PassIsFresh' /\ PurgeOnlyDoomed'
  BY DEF DoomedCommitted, PassIsFresh, PurgeOnlyDoomed, rowVars, purgeVars
<1> QED
  BY <1>1, <1>3, <1>4, <1>5, <1>6
-----------------------------------------------------------------------------
PassTypes ==
  /\ purgePc \in PurgePcs /\ purgeNow \in Nat /\ batch \in SUBSET Ids
  /\ batchFull \in BOOLEAN /\ lastId \in Nat

(* The row the pass is at, and what the batch says about it. *)
LEMMA RowOfPass ==
  ASSUME IInv, purgePc \notin {"idle", "selectExpired", "selectTombstones"}
  PROVE  /\ First(batch) \in batch /\ First(batch) \in Ids
         /\ purgePc \in {"expireOriginal", "expireFlat", "expireRow"} => First(batch) \in doomed
         /\ purgePc \in {"sweepOriginal", "sweepFlat", "sweepRow"} =>
              status[First(batch)] = "tombstone"
<1>1. batch # {} /\ batch \in SUBSET Ids /\ batch \in SUBSET Nat
  BY StoreAssumption DEF IInv, PassIsFresh, TypeOK
<1>2. First(batch) \in batch
  BY <1>1, FirstIsMember
<1> QED
  BY <1>1, <1>2 DEF IInv, PurgeOnlyDoomed

LEMMA ToSweepIsFresh ==
  ASSUME IInv, ToSweep, clock' = clock
  PROVE  PassTypes' /\ PassIsFresh' /\ batch' = {} /\ purgePc' = "selectTombstones"
<1>1. clock \in Nat
  BY DEF IInv, TypeOK
<1>2. PassTypes' /\ batch' = {} /\ purgePc' = "selectTombstones"
  BY <1>1 DEF ToSweep, PassTypes, PurgePcs
<1>3. purgeNow' <= clock' /\ clock' <= purgeNow' + 1
  BY <1>1 DEF ToSweep
<1> QED
  BY <1>2, <1>3 DEF PassIsFresh

LEMMA PassEndsIsFresh ==
  ASSUME PassEnds
  PROVE  PassTypes' /\ PassIsFresh' /\ batch' = {} /\ purgePc' = "idle"
BY DEF PassEnds, PassTypes, PassIsFresh, PurgePcs

LEMMA FetchIsFresh ==
  ASSUME IInv, NEW rows \in SUBSET Ids, rows # {}, purgePc # "idle",
         NEW pc \in {"expireOriginal", "sweepOriginal"}, Fetch(rows, pc), clock' = clock
  PROVE  PassTypes' /\ PassIsFresh' /\ batch' = rows /\ purgePc' = pc
BY DEF IInv, TypeOK, Fetch, PassTypes, PassIsFresh, PurgePcs

LEMMA NextExpiredIsFresh ==
  ASSUME IInv, purgePc \in {"expireOriginal", "expireFlat", "expireRow"},
         NextExpired(First(batch)), UNCHANGED <<clock, doomed>>
  PROVE  /\ PassTypes' /\ PassIsFresh' /\ PurgeOnlyDoomed'
         /\ purgePc' \in {"expireOriginal", "selectExpired", "selectTombstones"}
<1>1. First(batch) \in Ids /\ First(batch) \in Nat
  BY RowOfPass, StoreAssumption
<1>2. batch \in SUBSET Ids /\ batch \subseteq doomed
  BY DEF IInv, TypeOK, PurgeOnlyDoomed
<1>3. CASE ToSweep
  BY <1>3, ToSweepIsFresh DEF PurgeOnlyDoomed
<1>4. CASE ~ToSweep
  BY <1>1, <1>2, <1>4
  DEF NextExpired, IInv, TypeOK, PassTypes, PassIsFresh, PurgeOnlyDoomed, PurgePcs
<1> QED
  BY <1>3, <1>4

(* `status` may change at the row the pass leaves behind. *)
LEMMA NextTombstoneIsFresh ==
  ASSUME IInv, purgePc \in {"sweepOriginal", "sweepFlat", "sweepRow"},
         NextTombstone(First(batch)), clock' = clock,
         \A i \in Ids : i # First(batch) => status'[i] = status[i]
  PROVE  /\ PassTypes' /\ PassIsFresh' /\ PurgeOnlyDoomed'
         /\ purgePc' \in {"sweepOriginal", "selectTombstones", "idle"}
<1>1. First(batch) \in Ids /\ First(batch) \in Nat
  BY RowOfPass, StoreAssumption
<1>2. batch \in SUBSET Ids /\ \A i \in batch : status[i] = "tombstone"
  BY DEF IInv, TypeOK, PurgeOnlyDoomed
<1>3. CASE PassEnds
  BY <1>3, PassEndsIsFresh DEF PurgeOnlyDoomed
<1>4. CASE ~PassEnds
  BY <1>1, <1>2, <1>4
  DEF NextTombstone, IInv, TypeOK, PassTypes, PassIsFresh, PurgeOnlyDoomed, PurgePcs
<1> QED
  BY <1>3, <1>4

(* What a step of the pass between two rows leaves as it was. *)
LEMMA PassMovesPreserves ==
  ASSUME IInv, PassTypes', PassIsFresh', PurgeOnlyDoomed',
         purgePc' \notin {"sweepFlat", "sweepRow"},
         UNCHANGED <<rowVars, files, req, render, clock>>, faults' \in Nat,
         doomed' \in SUBSET Ids, DoomedCommitted', doomed \subseteq doomed'
  PROVE  IInv'
<1> USE DEF IInv
<1>1. TypeOK'
  BY DEF TypeOK, PassTypes, rowVars
<1>2. UploadsOwnTheirRow' /\ RequestsTarget' /\ RendersAreYoung'
  BY DEF UploadsOwnTheirRow, Uploading, RequestsTarget, RendersAreYoung, rowVars
<1>3. SweepSticks' /\ LiveHasOriginal' /\ HardDeleteIsClean'
  BY DEF SweepSticks, LiveHasOriginal, HardDeleteIsClean, rowVars
<1> QED
  BY <1>1, <1>2, <1>3

LEMMA PurgeBeginsPreserves ==
  ASSUME IInv, PurgeBegins
  PROVE  IInv'
<1>1. PassTypes' /\ PassIsFresh' /\ PurgeOnlyDoomed'
  BY DEF IInv, TypeOK, PurgeBegins, PassTypes, PassIsFresh, PurgeOnlyDoomed, PurgePcs
<1> QED
  BY <1>1, PassMovesPreserves DEF PurgeBegins, IInv, TypeOK, DoomedCommitted, rowVars

LEMMA SelectExpiredPreserves ==
  ASSUME IInv, SelectExpired
  PROVE  IInv'
<1> DEFINE rows == Page({i \in Ids : status[i] = "live" /\ ExpiredAt(i, purgeNow)})
<1> USE DEF SelectExpired
<1>1. rows \in SUBSET Ids /\ \A i \in rows : status[i] = "live"
  BY DEF Page, FirstOf
<1>2. doomed' = doomed \cup rows
  OBVIOUS
<1>3. PassTypes' /\ PassIsFresh' /\ PurgeOnlyDoomed' /\ purgePc' \notin {"sweepFlat", "sweepRow"}
  <2>1. CASE rows = {}
    BY <2>1, ToSweepIsFresh DEF PurgeOnlyDoomed
  <2>2. CASE rows # {}
    <3>1. PassTypes' /\ PassIsFresh' /\ batch' = rows /\ purgePc' = "expireOriginal"
      BY <1>1, <2>2, FetchIsFresh
    <3> QED
      BY <1>2, <3>1 DEF PurgeOnlyDoomed
  <2> QED
    BY <2>1, <2>2
<1>4. doomed' \in SUBSET Ids /\ DoomedCommitted' /\ doomed \subseteq doomed'
  BY <1>1, <1>2 DEF IInv, TypeOK, DoomedCommitted, rowVars
<1>5. faults' \in Nat
  BY DEF IInv, TypeOK
<1> QED
  BY <1>3, <1>4, <1>5, PassMovesPreserves

LEMMA SelectTombstonesPreserves ==
  ASSUME IInv, SelectTombstones
  PROVE  IInv'
<1> DEFINE rows == Page({i \in Ids : status[i] = "tombstone"})
<1> USE DEF SelectTombstones
<1>1. rows \in SUBSET Ids /\ \A i \in rows : status[i] = "tombstone"
  BY DEF Page, FirstOf
<1>2. PassTypes' /\ PassIsFresh' /\ PurgeOnlyDoomed' /\ purgePc' \notin {"sweepFlat", "sweepRow"}
  <2>1. CASE rows = {}
    BY <2>1, PassEndsIsFresh DEF PurgeOnlyDoomed
  <2>2. CASE rows # {}
    <3>1. PassTypes' /\ PassIsFresh' /\ batch' = rows /\ purgePc' = "sweepOriginal"
      BY <1>1, <2>2, FetchIsFresh
    <3> QED
      BY <1>1, <3>1 DEF PurgeOnlyDoomed, rowVars
  <2> QED
    BY <2>1, <2>2
<1>3. faults' \in Nat /\ doomed' \in SUBSET Ids /\ DoomedCommitted'
  BY DEF IInv, TypeOK, DoomedCommitted, rowVars
<1> QED
  BY <1>2, <1>3, PassMovesPreserves

LEMMA SkipsPreserve ==
  ASSUME IInv, ExpireSkips \/ SweepSkips \/ PurgeFails
  PROVE  IInv'
<1>1. /\ UNCHANGED <<rowVars, files, req, render, clock, doomed>> /\ faults' \in Nat
      /\ doomed' \in SUBSET Ids /\ DoomedCommitted'
  BY DEF ExpireSkips, SweepSkips, PurgeFails, Fault, IInv, TypeOK, DoomedCommitted, rowVars
<1>2. PassTypes' /\ PassIsFresh' /\ PurgeOnlyDoomed' /\ purgePc' \notin {"sweepFlat", "sweepRow"}
  <2>1. CASE ExpireSkips
    BY <1>1, <2>1, NextExpiredIsFresh DEF ExpireSkips
  <2>2. CASE SweepSkips
    BY <1>1, <2>2, NextTombstoneIsFresh DEF SweepSkips, rowVars
  <2>3. CASE PurgeFails
    BY <2>3, PassEndsIsFresh DEF PurgeFails, PurgeOnlyDoomed
  <2> QED
    BY <2>1, <2>2, <2>3
<1> QED
  BY <1>1, <1>2, PassMovesPreserves

(* The unlinks of the pass, apart from where it goes next. *)
LEMMA PassUnlinksPreserves ==
  ASSUME IInv, purgePc \in {"expireOriginal", "expireFlat", "sweepOriginal", "sweepFlat"},
         NEW variant \in Variants, Unlink(First(batch), variant),
         PassTypes', PassIsFresh', PurgeOnlyDoomed', SweepSticks',
         UNCHANGED <<rowVars, req, render, clock, faults, doomed>>
  PROVE  IInv'
<1> USE DEF IInv
<1>1. /\ First(batch) \in Ids
      /\ status[First(batch)] \in {"tombstone", "gone"} \/ First(batch) \in doomed
  BY RowOfPass
<1>2. /\ files' \in [Ids -> SUBSET Variants]
      /\ \A s \in Requests : req[s].pc = "commit" => "original" \in files'[req[s].id]
      /\ LiveHasOriginal' /\ HardDeleteIsClean'
  BY <1>1, UnlinkPreserves DEF rowVars
<1>3. TypeOK'
  BY <1>2 DEF TypeOK, PassTypes, rowVars
<1>4. UploadsOwnTheirRow' /\ RequestsTarget' /\ RendersAreYoung' /\ DoomedCommitted'
  BY <1>2
  DEF UploadsOwnTheirRow, Uploading, RequestsTarget, RendersAreYoung, DoomedCommitted, rowVars
<1> QED
  BY <1>2, <1>3, <1>4

LEMMA ExpireUnlinksPreserve ==
  ASSUME IInv, ExpireOriginal \/ ExpireFlat
  PROVE  IInv'
<1>1. /\ purgePc \in {"expireOriginal", "expireFlat"}
      /\ purgePc' \in {"expireFlat", "expireRow"}
      /\ UNCHANGED <<purgeNow, batch, batchFull, lastId>>
      /\ UNCHANGED <<rowVars, req, render, clock, faults, doomed>>
  BY DEF ExpireOriginal, ExpireFlat
<1>2. PICK variant \in Variants : Unlink(First(batch), variant)
  BY DEF ExpireOriginal, ExpireFlat, Variants
<1>3. PassTypes' /\ PassIsFresh' /\ PurgeOnlyDoomed' /\ SweepSticks'
  BY <1>1
  DEF IInv, TypeOK, PassTypes, PassIsFresh, PurgeOnlyDoomed, SweepSticks, PurgePcs, rowVars
<1> QED
  BY <1>1, <1>2, <1>3, PassUnlinksPreserves

LEMMA SweepOriginalPreserves ==
  ASSUME IInv, SweepOriginal
  PROVE  IInv'
<1> USE DEF SweepOriginal
<1>1. PassTypes' /\ PassIsFresh' /\ PurgeOnlyDoomed'
  BY DEF IInv, TypeOK, PassTypes, PassIsFresh, PurgeOnlyDoomed, PurgePcs, rowVars
<1>2. "original" \in Variants
  BY DEF Variants
<1>3. SweepSticks'
  <2>1. First(batch) \in Ids
    BY RowOfPass
  <2> QED
    BY <2>1 DEF SweepSticks, Unlink, IInv, TypeOK
<1> QED
  BY <1>1, <1>2, <1>3, PassUnlinksPreserves

LEMMA SweepFlatPreserves ==
  ASSUME IInv, SweepFlat
  PROVE  IInv'
<1> USE DEF SweepFlat
<1>1. First(batch) \in Ids /\ "flat" \in Variants
  BY RowOfPass DEF Variants
<1>2. PassTypes' /\ PassIsFresh' /\ PurgeOnlyDoomed' /\ SweepSticks'
  <2>1. CASE PastCutoff(First(batch))
    <3>1. purgePc' = "sweepRow" /\ UNCHANGED <<purgeNow, batch, batchFull, lastId>>
      BY <2>1
    <3>2. files'[First(batch)] = {}
      BY <1>1 DEF IInv, SweepSticks, Unlink, TypeOK, Variants
    <3>3. PassTypes' /\ PassIsFresh' /\ PurgeOnlyDoomed'
      BY <3>1 DEF IInv, TypeOK, PassTypes, PassIsFresh, PurgeOnlyDoomed, PurgePcs, rowVars
    <3> QED
      BY <2>1, <3>1, <3>2, <3>3 DEF SweepSticks, PastCutoff, rowVars
  <2>2. CASE ~PastCutoff(First(batch))
    BY <2>2, NextTombstoneIsFresh DEF SweepSticks, rowVars
  <2> QED
    BY <2>1, <2>2
<1> QED
  BY <1>1, <1>2, PassUnlinksPreserves

LEMMA ExpireRowPreserves ==
  ASSUME IInv, ExpireRow
  PROVE  IInv'
<1> DEFINE i == First(batch)
<1> USE DEF IInv, ExpireRow
<1>1. i \in Ids
  BY RowOfPass
<1>2. /\ PassTypes' /\ PassIsFresh' /\ PurgeOnlyDoomed'
      /\ purgePc' \in {"expireOriginal", "selectExpired", "selectTombstones"}
  BY NextExpiredIsFresh
<1>3. /\ status' \in [Ids -> Statuses] /\ deleted' \in [Ids -> Nat]
      /\ \A j \in Ids : status[j] # "live" => status'[j] = status[j] /\ deleted'[j] = deleted[j]
      /\ DoomedCommitted' /\ RendersAreYoung' /\ LiveHasOriginal' /\ HardDeleteIsClean'
  <2>1. CASE status[i] = "live"
    <3>1. purgeNow \in Nat /\ clock <= purgeNow + 1 /\ Tombstone(i, purgeNow)
      BY <2>1 DEF TypeOK, PassIsFresh
    <3> QED
      BY <1>1, <2>1, <3>1, TombstonePreserves
  <2>2. CASE status[i] # "live"
    BY <2>2 DEF TypeOK, DoomedCommitted, RendersAreYoung, LiveHasOriginal, HardDeleteIsClean
  <2> QED
    BY <2>1, <2>2
<1>4. \A j \in Ids : status[j] = "live" => status'[j] \in {"live", "tombstone"}
  BY <1>1 DEF Tombstone, TypeOK
<1>5. TypeOK'
  BY <1>2, <1>3 DEF TypeOK, PassTypes
<1>6. UploadsOwnTheirRow' /\ RequestsTarget'
  BY <1>3, <1>4, RequestHasId, IdlePc
  DEF UploadsOwnTheirRow, RequestsTarget, Uploading
<1>7. SweepSticks'
  BY <1>2 DEF SweepSticks
<1> QED
  BY <1>2, <1>3, <1>5, <1>6, <1>7

LEMMA SweepRowPreserves ==
  ASSUME IInv, SweepRow
  PROVE  IInv'
<1> DEFINE i == First(batch)
<1> USE DEF IInv, SweepRow
<1>1. i \in Ids /\ status[i] = "tombstone" /\ files[i] = {} /\ render[i] = NoRender
  BY RowOfPass, PastCutoffHasNoRender DEF SweepSticks
<1>2. /\ status' \in [Ids -> Statuses] /\ status'[i] = "gone"
      /\ \A j \in Ids : j # i => status'[j] = status[j]
  BY <1>1 DEF TypeOK, Statuses
<1>3. /\ PassTypes' /\ PassIsFresh' /\ PurgeOnlyDoomed'
      /\ purgePc' \in {"sweepOriginal", "selectTombstones", "idle"}
  BY <1>2, NextTombstoneIsFresh
<1>4. TypeOK'
  BY <1>2, <1>3 DEF TypeOK, PassTypes
<1>5. UploadsOwnTheirRow' /\ RequestsTarget' /\ DoomedCommitted'
  BY <1>1, <1>2, RequestHasId, IdlePc
  DEF UploadsOwnTheirRow, RequestsTarget, Uploading, DoomedCommitted, TypeOK
<1>6. RendersAreYoung' /\ LiveHasOriginal' /\ HardDeleteIsClean'
  BY <1>1, <1>2 DEF RendersAreYoung, LiveHasOriginal, HardDeleteIsClean
<1>7. SweepSticks'
  BY <1>3 DEF SweepSticks
<1> QED
  BY <1>3, <1>4, <1>5, <1>6, <1>7

LEMMA CrashPreserves ==
  ASSUME IInv, Crash
  PROVE  IInv'
<1> USE IdlePc DEF IInv, Crash
<1>1. /\ status' \in [Ids -> Statuses]
      /\ \A j \in Ids : status[j] # "inserting" => status'[j] = status[j]
      /\ \A j \in Ids : status'[j] \in {"live", "tombstone", "gone"} => status'[j] = status[j]
  BY DEF TypeOK, Statuses
<1>2. PassTypes' /\ PassIsFresh' /\ batch' = {} /\ purgePc' = "idle"
  BY PassEndsIsFresh
<1>3. TypeOK'
  BY <1>1, <1>2 DEF TypeOK, PassTypes, Fault
<1>4. UploadsOwnTheirRow' /\ RequestsTarget' /\ RendersAreYoung'
  BY DEF UploadsOwnTheirRow, RequestsTarget, Uploading, RendersAreYoung
<1>5. DoomedCommitted' /\ LiveHasOriginal' /\ HardDeleteIsClean'
  BY <1>1 DEF DoomedCommitted, LiveHasOriginal, HardDeleteIsClean, TypeOK
<1>6. PurgeOnlyDoomed' /\ SweepSticks'
  BY <1>2 DEF PurgeOnlyDoomed, SweepSticks
<1> QED
  BY <1>2, <1>3, <1>4, <1>5, <1>6

LEMMA TickPreserves ==
  ASSUME IInv, Tick
  PROVE  IInv'
<1> USE DEF IInv, Tick
<1>1. clock \in Nat /\ clock' = clock + 1
  BY DEF TypeOK
<1>2. TypeOK'
  BY <1>1 DEF TypeOK, rowVars, purgeVars
<1>3. RendersAreYoung'
  BY <1>1 DEF RendersAreYoung, rowVars
<1>4. PassIsFresh'
  BY <1>1 DEF PassIsFresh, purgeVars
<1> QED
  BY <1>2, <1>3, <1>4 DEF UploadsOwnTheirRow, Uploading, RequestsTarget, DoomedCommitted,
    PurgeOnlyDoomed, SweepSticks, PastCutoff, LiveHasOriginal, HardDeleteIsClean, rowVars, purgeVars
-----------------------------------------------------------------------------
LEMMA Inductive == IInv /\ [Next]_vars => IInv'
<1> SUFFICES ASSUME IInv, [Next]_vars PROVE IInv'
  OBVIOUS
<1>1. ASSUME NEW r \in Requests, RequestStep(r) PROVE IInv'
  BY <1>1, UploadWritePreserves, UploadEndsPreserves, DeletePreserves, RetainPreserves,
     RequestUnlinksPreserves DEF RequestStep
<1>2. ASSUME NEW r \in Requests, NEW i \in Ids, RequestArrives(r, i) PROVE IInv'
  BY <1>2, UploadInsertPreserves, RequestFindsPreserves, DeletePreserves DEF RequestArrives
<1>3. ASSUME NEW i \in Ids, RenderStep(i) PROVE IInv'
  BY <1>3, RenderReadsPreserves, RenderComposesPreserves, RenderWritesPreserves DEF RenderStep
<1>4. CASE PurgeStep
  BY <1>4, PurgeBeginsPreserves, SelectExpiredPreserves, ExpireUnlinksPreserve,
     ExpireRowPreserves, SelectTombstonesPreserves, SweepOriginalPreserves,
     SweepFlatPreserves, SweepRowPreserves, SkipsPreserve DEF PurgeStep, PurgeProgress
<1>5. CASE Crash
  BY <1>5, CrashPreserves
<1>6. CASE Tick
  BY <1>6, TickPreserves
<1>7. CASE UNCHANGED vars
  BY <1>7 DEF vars, rowVars, purgeVars, IInv, TypeOK, UploadsOwnTheirRow, Uploading,
    RequestsTarget, DoomedCommitted, RendersAreYoung, PassIsFresh, PurgeOnlyDoomed,
    SweepSticks, PastCutoff, LiveHasOriginal, HardDeleteIsClean
<1> QED
  BY <1>1, <1>2, <1>3, <1>4, <1>5, <1>6, <1>7 DEF Next

(* How a step may change a tombstone or a hard-deleted row: only the DELETE of   *)
(* the sweep does, and its row is past the cutoff.                               *)
LEMMA TombstoneSteps ==
  ASSUME IInv, [Next]_vars, NEW i \in Ids, status[i] \in {"tombstone", "gone"}
  PROVE  /\ deleted'[i] = deleted[i]
         /\ \/ status'[i] = status[i]
            \/ SweepRow /\ status[i] = "tombstone" /\ deleted[i] + TombstoneAge <= clock
<1> USE DEF IInv
<1>1. ASSUME UNCHANGED <<status, deleted>>
      PROVE  deleted'[i] = deleted[i] /\ status'[i] = status[i]
  BY <1>1
<1>2. ASSUME NEW j \in Ids, status[j] \notin {"tombstone", "gone"}, NEW t,
             NEW new, status' = [status EXCEPT ![j] = new],
             deleted' = [deleted EXCEPT ![j] = t] \/ deleted' = deleted
      PROVE  deleted'[i] = deleted[i] /\ status'[i] = status[i]
  BY <1>2 DEF TypeOK
<1>3. ASSUME NEW r \in Requests, RequestStep(r)
      PROVE  deleted'[i] = deleted[i] /\ status'[i] = status[i]
  <2>1. CASE UploadCommit(r) \/ UploadFails(r)
    <3>1. Uploading(r)
      BY <2>1 DEF UploadCommit, UploadFails, Uploading
    <3>2. req[r].id \in Ids /\ status[req[r].id] = "inserting"
      BY <3>1, UploadingFacts
    <3> QED
      BY <1>2, <2>1, <3>2 DEF UploadCommit, UploadFails
  <2>2. CASE OwnerDelete(r)
    <3>1. req[r].id \in Ids
      BY <2>2, RequestHasId, IdlePc DEF OwnerDelete
    <3>2. CASE status[req[r].id] = "live"
      BY <1>2, <2>2, <3>1, <3>2 DEF OwnerDelete, Tombstone
    <3> QED
      BY <1>1, <2>2, <3>2 DEF OwnerDelete
  <2>3. CASE \/ UploadWrite(r) \/ OwnerRetain(r) \/ AdminRetain(r)
             \/ RequestUnlinksOriginal(r) \/ RequestUnlinksFlat(r) \/ RequestUnlinkFails(r)
    BY <1>1, <2>3 DEF UploadWrite, OwnerRetain, AdminRetain, RequestUnlinksOriginal,
      RequestUnlinksFlat, RequestUnlinkFails, rowVars
  <2> QED
    BY <1>3, <2>1, <2>2, <2>3 DEF RequestStep
<1>4. ASSUME NEW r \in Requests, NEW j \in Ids, RequestArrives(r, j)
      PROVE  deleted'[i] = deleted[i] /\ status'[i] = status[i]
  BY <1>1, <1>2, <1>4
  DEF RequestArrives, UploadInsert, OwnerFinds, AdminFinds, AdminDelete, Tombstone, rowVars
<1>5. ASSUME NEW j \in Ids, RenderStep(j)
      PROVE  deleted'[i] = deleted[i] /\ status'[i] = status[i]
  BY <1>1, <1>5 DEF RenderStep, RenderReads, RenderComposes, RenderWrites, rowVars
<1>6. CASE PurgeStep
  <2>1. CASE ExpireRow
    <3>1. First(batch) \in Ids
      BY <2>1, RowOfPass DEF ExpireRow
    <3>2. CASE status[First(batch)] = "live"
      BY <1>2, <2>1, <3>1, <3>2 DEF ExpireRow, Tombstone
    <3> QED
      BY <1>1, <2>1, <3>2 DEF ExpireRow
  <2>2. CASE SweepRow
    <3>1. First(batch) \in Ids /\ status[First(batch)] = "tombstone"
      BY <2>2, RowOfPass DEF SweepRow
    <3>2. deleted[First(batch)] + TombstoneAge <= clock
      <4>1. deleted[First(batch)] + TombstoneAge <= purgeNow /\ purgeNow <= clock
        BY <2>2 DEF SweepRow, SweepSticks, PastCutoff, PassIsFresh
      <4>2. /\ deleted[First(batch)] \in Nat /\ TombstoneAge \in Nat
            /\ purgeNow \in Nat /\ clock \in Nat
        BY <3>1, StoreAssumption DEF TypeOK
      <4> QED
        BY <4>1, <4>2
    <3> QED
      BY <2>2, <3>1, <3>2 DEF SweepRow, TypeOK
  <2>3. CASE ~ExpireRow /\ ~SweepRow
    BY <1>1, <1>6, <2>3 DEF PurgeStep, PurgeProgress, PurgeBegins, SelectExpired,
      ExpireOriginal, ExpireFlat, SelectTombstones, SweepOriginal, SweepFlat, ExpireSkips,
      SweepSkips, PurgeFails, rowVars
  <2> QED
    BY <2>1, <2>2, <2>3
<1>7. CASE Crash
  BY <1>7 DEF Crash, TypeOK
<1>8. CASE Tick \/ UNCHANGED vars
  BY <1>1, <1>8 DEF Tick, vars, rowVars
<1> QED
  BY <1>3, <1>4, <1>5, <1>6, <1>7, <1>8 DEF Next
-----------------------------------------------------------------------------
(* The inductive invariant holds in every reachable state. *)
THEOREM StoreInvariant == Spec => []IInv
BY InitEstablishes, Inductive, PTL DEF Spec

(* Types, for every reachable state of upload, requests, renders and purge. *)
THEOREM StoreTypes == Spec => []TypeOK
<1>1. IInv => TypeOK
  BY DEF IInv
<1> QED
  BY <1>1, StoreInvariant, PTL

(* A live capture that no purge query selected has its original on disk.       *)
THEOREM LiveKeepsOriginal == Spec => []LiveHasOriginal
<1>1. IInv => LiveHasOriginal
  BY DEF IInv
<1> QED
  BY <1>1, StoreInvariant, PTL

(* A hard-deleted row leaves no file, late renders included.                    *)
THEOREM HardDeleteLeavesNothing == Spec => []HardDeleteIsClean
<1>1. IInv => HardDeleteIsClean
  BY DEF IInv
<1> QED
  BY <1>1, StoreInvariant, PTL

(* The purge is only ever at work on rows it saw expired or tombstoned.         *)
THEOREM PurgeIsSelective == Spec => []PurgeOnlyDoomed
<1>1. IInv => PurgeOnlyDoomed
  BY DEF IInv
<1> QED
  BY <1>1, StoreInvariant, PTL

(* Deletion is final: deleted_at is stamped once, and only the sweep's DELETE   *)
(* ends a tombstone.                                                            *)
THEOREM DeletionIsFinal == Spec => TombstoneIsFinal
<1>1. IInv /\ [Next]_vars =>
        [\A i \in Ids :
           status[i] \in {"tombstone", "gone"} =>
             /\ deleted'[i] = deleted[i]
             /\ status'[i] = status[i] \/ (status[i] = "tombstone" /\ SweepRow)]_vars
  BY TombstoneSteps
<1> QED
  BY <1>1, StoreInvariant, PTL DEF Spec, TombstoneIsFinal

(* No tombstone is hard-deleted before its age, whichever clock reading its      *)
(* deleted_at came from.                                                         *)
THEOREM TombstonesAge == Spec => TombstoneServesItsAge
<1>1. IInv /\ [Next]_vars =>
        [\A i \in Ids : status[i] = "tombstone" /\ status'[i] = "gone" =>
           deleted[i] + TombstoneAge <= clock]_vars
  BY TombstoneSteps
<1> QED
  BY <1>1, StoreInvariant, PTL DEF Spec, TombstoneServesItsAge
-----------------------------------------------------------------------------
(***************************************************************************)
(* The backup sidecar beside the store it reads, for any captures and any  *)
(* number of runs and faults.                                              *)
(*                                                                         *)
(* The argument.  The sidecar writes nothing the store reads, so the       *)
(* store's own invariant holds beside it.  A row in the dump was live when *)
(* the dump was taken, and a row that is live now was live ever since:     *)
(* nothing brings a tombstone back.  Until a purge query selects it, its   *)
(* original is on disk, so rsync lists it, finds it still there when it    *)
(* copies it, and restic finds it after that.                              *)
(***************************************************************************)

Jobs == [step : 1..5, at : Nat, whole : BOOLEAN, live : SUBSET Ids,
         listed : [Ids -> SUBSET Variants], got : [Ids -> SUBSET Variants],
         todo : SUBSET Ids, mtime : Nat]

BackupTypes == job \in {NoJob} \cup Jobs /\ dirTime \in Nat

(* The dump holds committed rows only. *)
DumpIsCommitted ==
    job # NoJob => \A i \in job.live : status[i] \in {"live", "tombstone", "gone"}

(* What a run must restore: the rows of its dump that are live, in no purge    *)
(* pass's hands.                                                               *)
Owed(i) == i \in job.live /\ status[i] = "live" /\ i \notin doomed

(* What the run owes is listed, then copied by rsync, then copied by restic. *)
OwedIsCopied ==
    job # NoJob /\ job.whole =>
        \A i \in Ids : Owed(i) =>
            /\ job.step = 3 => "original" \in job.listed[i]
            /\ job.step \in {3, 5} /\ i \notin job.todo => "original" \in job.got[i]
            /\ job.step = 4 => "original" \in job.got[i]

BackupInv == IInv /\ BackupTypes /\ DumpIsCommitted /\ OwedIsCopied

-----------------------------------------------------------------------------
(* The store beside the backup.                                              *)

(* A fault of the sidecar is none of the store's. *)
LEMMA StoreDisregardsFaults ==
    ASSUME IInv, faults' \in Nat,
           UNCHANGED <<rowVars, files, req, render, purgeVars, clock, doomed>>
    PROVE  IInv'
<1>1. TypeOK'
    BY DEF IInv, TypeOK, rowVars, purgeVars
<1>2. /\ UploadsOwnTheirRow' /\ RequestsTarget' /\ DoomedCommitted' /\ RendersAreYoung'
      /\ PassIsFresh' /\ PurgeOnlyDoomed' /\ SweepSticks' /\ LiveHasOriginal'
      /\ HardDeleteIsClean'
    BY DEF IInv, UploadsOwnTheirRow, Uploading, RequestsTarget, DoomedCommitted,
       RendersAreYoung, PassIsFresh, PurgeOnlyDoomed, SweepSticks, PastCutoff,
       LiveHasOriginal, HardDeleteIsClean, rowVars, purgeVars
<1> QED
    BY <1>1, <1>2 DEF IInv

LEMMA FaultIsCounted == TypeOK /\ Fault => faults' \in Nat
BY DEF TypeOK, Fault

(* A live row stays live or becomes a tombstone. *)
LEMMA LiveSteps ==
    ASSUME IInv, [Next]_vars, NEW i \in Ids, status[i] = "live"
    PROVE  status'[i] \in {"live", "tombstone"}
<1> USE DEF IInv
<1>1. status \in [Ids -> Statuses]
    BY DEF TypeOK
<1>2. ASSUME NEW j \in Ids, NEW new, status' = [status EXCEPT ![j] = new],
             status[j] # "live" \/ new \in {"live", "tombstone"}
      PROVE  status'[i] \in {"live", "tombstone"}
    BY <1>1, <1>2
<1>3. ASSUME NEW r \in Requests, RequestStep(r)
      PROVE  status'[i] \in {"live", "tombstone"}
    <2>1. CASE UploadCommit(r) \/ UploadFails(r)
        <3>1. Uploading(r)
            BY <2>1 DEF UploadCommit, UploadFails, Uploading
        <3>2. req[r].id \in Ids /\ status[req[r].id] = "inserting"
            BY <3>1, UploadingFacts
        <3> QED
            BY <1>2, <2>1, <3>2 DEF UploadCommit, UploadFails
    <2>2. CASE OwnerDelete(r)
        <3>1. req[r].id \in Ids
            BY <2>2, RequestHasId, IdlePc DEF OwnerDelete
        <3> QED
            BY <1>2, <2>2, <3>1 DEF OwnerDelete, Tombstone
    <2>3. CASE \/ UploadWrite(r) \/ OwnerRetain(r) \/ AdminRetain(r)
               \/ RequestUnlinksOriginal(r) \/ RequestUnlinksFlat(r) \/ RequestUnlinkFails(r)
        BY <2>3 DEF UploadWrite, OwnerRetain, AdminRetain, RequestUnlinksOriginal,
           RequestUnlinksFlat, RequestUnlinkFails, rowVars
    <2> QED
        BY <1>3, <2>1, <2>2, <2>3 DEF RequestStep
<1>4. ASSUME NEW r \in Requests, NEW j \in Ids, RequestArrives(r, j)
      PROVE  status'[i] \in {"live", "tombstone"}
    BY <1>2, <1>4
    DEF RequestArrives, UploadInsert, OwnerFinds, AdminFinds, AdminDelete, Tombstone, rowVars
<1>5. ASSUME NEW j \in Ids, RenderStep(j)
      PROVE  status'[i] \in {"live", "tombstone"}
    BY <1>5 DEF RenderStep, RenderReads, RenderComposes, RenderWrites, rowVars
<1>6. CASE PurgeStep
    <2>1. CASE ExpireRow
        <3>1. First(batch) \in Ids
            BY <2>1, RowOfPass DEF ExpireRow
        <3> QED
            BY <1>2, <2>1, <3>1 DEF ExpireRow, Tombstone
    <2>2. CASE SweepRow
        <3>1. First(batch) \in Ids /\ status[First(batch)] = "tombstone"
            BY <2>2, RowOfPass DEF SweepRow
        <3> QED
            BY <1>2, <2>2, <3>1 DEF SweepRow
    <2>3. CASE ~ExpireRow /\ ~SweepRow
        BY <1>6, <2>3 DEF PurgeStep, PurgeProgress, PurgeBegins, SelectExpired,
          ExpireOriginal, ExpireFlat, SelectTombstones, SweepOriginal, SweepFlat, ExpireSkips,
          SweepSkips, PurgeFails, rowVars
    <2> QED
        BY <2>1, <2>2, <2>3
<1>7. CASE Crash
    BY <1>1, <1>7 DEF Crash
<1>8. CASE Tick \/ UNCHANGED vars
    BY <1>8 DEF Tick, vars, rowVars
<1> QED
    BY <1>3, <1>4, <1>5, <1>6, <1>7, <1>8 DEF Next

(* A capture selected as expired stays selected. *)
LEMMA DoomedGrows == [Next]_vars => doomed \subseteq doomed'
BY DEF Next, RequestStep, UploadWrite, UploadCommit, UploadFails, OwnerDelete, OwnerRetain,
   AdminRetain, RequestUnlinksOriginal, RequestUnlinksFlat, RequestUnlinkFails,
   RequestArrives, UploadInsert, OwnerFinds, AdminFinds, AdminDelete, RenderStep, RenderReads,
   RenderComposes, RenderWrites, PurgeStep, PurgeProgress, PurgeBegins, SelectExpired,
   ExpireOriginal, ExpireFlat, ExpireRow, SelectTombstones, SweepOriginal, SweepFlat, SweepRow,
   ExpireSkips, SweepSkips, PurgeFails, Crash, Tick, vars
-----------------------------------------------------------------------------
(* The run.                                                                  *)

(* The commands by their number. *)
LEMMA Commands ==
    ASSUME job \in {NoJob} \cup Jobs
    PROVE  /\ job # NoJob <=> job \in Jobs
           /\ At("dump") <=> job \in Jobs /\ job.step = 1
           /\ At("list") <=> job \in Jobs /\ job.step = 2
           /\ At("copy") <=> job \in Jobs /\ job.step = 3
           /\ At("rotate") <=> job \in Jobs /\ job.step = 4
           /\ At("offbox") <=> job \in Jobs /\ job.step = 5
           /\ Len(Steps) = 5
<1>1. job # NoJob <=> job \in Jobs
    BY DEF NoJob, Jobs
<1>2. ASSUME job \in Jobs PROVE job.step \in 1..5
    BY <1>2 DEF Jobs
<1> QED
    BY <1>1, <1>2 DEF At, Steps

(* One command on: the record of the run is otherwise as given. *)
LEMMA Continues ==
    ASSUME NEW r \in Jobs, Len(Steps) = 5, Continue(r)
    PROVE  /\ r.step = 5 => job' = NoJob
           /\ r.step < 5 => /\ job' \in Jobs /\ job'.step = r.step + 1
                            /\ job'.whole = r.whole /\ job'.live = r.live
                            /\ job'.listed = r.listed /\ job'.got = r.got
                            /\ job'.todo = r.todo
BY DEF Continue, Jobs

LEMMA BackupInitEstablishes == BackupInit => BackupInv
BY InitEstablishes DEF BackupInit, BackupInv, BackupTypes, DumpIsCommitted, OwedIsCopied

(* A step of the sidecar leaves rows and files as they are. *)
LEMMA StoreKept ==
    ASSUME BackupInv, BackupStep
    PROVE  IInv' /\ UNCHANGED <<status, files, doomed, dirTime>>
<1>1. ASSUME StoreStands PROVE IInv' /\ UNCHANGED <<status, files, doomed, dirTime>>
    BY <1>1, Inductive DEF BackupInv, StoreStands, vars, rowVars
<1>2. ASSUME Fault, UNCHANGED <<rowVars, files, req, render, purgeVars, clock, doomed, dirTime>>
      PROVE  IInv' /\ UNCHANGED <<status, files, doomed, dirTime>>
    <2>1. IInv'
        BY <1>2, FaultIsCounted, StoreDisregardsFaults DEF BackupInv, IInv
    <2> QED
        BY <1>2, <2>1 DEF rowVars
<1>3. CASE DumpFails \/ CopyFails \/ SidecarStops
    BY <1>2, <1>3 DEF DumpFails, CopyFails, SidecarStops
<1>4. CASE BeginBackup \/ Dump \/ List \/ PublishImages \/ Rotate \/ PublishOffBox
    BY <1>1, <1>4 DEF BeginBackup, Dump, List, PublishImages, Rotate, PublishOffBox
<1>5. CASE \E i \in Ids : Copy(i) \/ CopyOffBox(i)
    BY <1>1, <1>5 DEF Copy, CopyOffBox
<1> QED
    BY <1>3, <1>4, <1>5 DEF BackupStep

(* A run without a job owes nothing; neither does one that has failed. *)
LEMMA NothingOwed ==
    ASSUME BackupInv, BackupStep, job' = NoJob
    PROVE  BackupInv'
BY StoreKept DEF BackupInv, BackupTypes, DumpIsCommitted, OwedIsCopied

LEMMA FailedOwesNothing ==
    ASSUME BackupInv, BackupStep, job \in Jobs,
           job' \in Jobs, job'.whole = FALSE, job'.live = job.live
    PROVE  BackupInv'
BY StoreKept, Commands DEF BackupInv, BackupTypes, DumpIsCommitted, OwedIsCopied

LEMMA BeginPreserves ==
    ASSUME BackupInv, BeginBackup
    PROVE  BackupInv'
<1>1. BackupStep
    BY DEF BackupStep
<1>2. clock \in Nat
    BY DEF BackupInv, IInv, TypeOK
<1>3. job' \in Jobs /\ job'.step = 1 /\ job'.live = {}
    BY <1>2 DEF BeginBackup, Jobs, NoFiles
<1>4. DumpIsCommitted' /\ OwedIsCopied'
    BY <1>3 DEF DumpIsCommitted, OwedIsCopied, Owed
<1> QED
    BY <1>1, <1>3, <1>4, StoreKept DEF BackupInv, BackupTypes

LEMMA DumpPreserves ==
    ASSUME BackupInv, Dump
    PROVE  BackupInv'
<1>1. BackupStep
    BY DEF BackupStep
<1>2. job \in Jobs /\ job.step = 1 /\ Len(Steps) = 5
    BY Commands DEF BackupInv, BackupTypes, Dump
<1> DEFINE r == [job EXCEPT !.live = Live]
<1>3. Live \in SUBSET Ids /\ \A i \in Live : status[i] = "live"
    BY DEF Live
<1>4. r \in Jobs /\ r.step = 1 /\ r.live = Live
    BY <1>2, <1>3 DEF Jobs
<1>5. Continue(r)
    BY DEF Dump
<1> HIDE DEF r
<1>6. job' \in Jobs /\ job'.step = 2 /\ job'.live = Live
    BY <1>2, <1>4, <1>5, Continues
<1>7. DumpIsCommitted' /\ OwedIsCopied'
    BY <1>1, <1>3, <1>6, StoreKept DEF DumpIsCommitted, OwedIsCopied
<1> QED
    BY <1>1, <1>6, <1>7, StoreKept DEF BackupInv, BackupTypes

LEMMA DumpFailsPreserves ==
    ASSUME BackupInv, DumpFails
    PROVE  BackupInv'
<1>1. BackupStep
    BY DEF BackupStep
<1>2. job \in Jobs /\ job.step = 1 /\ Len(Steps) = 5
    BY Commands DEF BackupInv, BackupTypes, DumpFails
<1> DEFINE r == [job EXCEPT !.whole = FALSE]
<1>3. r \in Jobs /\ r.step = 1 /\ r.live = job.live /\ r.whole = FALSE
    BY <1>2 DEF Jobs
<1>4. job' = NoJob \/ Continue(r)
    BY DEF DumpFails, Errexit
<1> HIDE DEF r
<1>5. CASE Continue(r)
    <2>1. job' \in Jobs /\ job'.whole = FALSE /\ job'.live = job.live
        BY <1>2, <1>3, <1>5, Continues
    <2> QED
        BY <1>1, <1>2, <2>1, FailedOwesNothing
<1> QED
    BY <1>1, <1>4, <1>5, NothingOwed

(* What the run owes is live with its original on disk: it is in the list. *)
LEMMA ListPreserves ==
    ASSUME BackupInv, List
    PROVE  BackupInv'
<1>1. BackupStep
    BY DEF BackupStep
<1>2. job \in Jobs /\ job.step = 2 /\ Len(Steps) = 5
    BY Commands DEF BackupInv, BackupTypes, List
<1> DEFINE r == [job EXCEPT !.listed = files, !.todo = Ids, !.mtime = dirTime]
<1>3. files \in [Ids -> SUBSET Variants] /\ dirTime \in Nat
    BY DEF BackupInv, IInv, TypeOK, BackupTypes
<1>4. /\ r \in Jobs /\ r.step = 2 /\ r.live = job.live /\ r.listed = files
      /\ r.todo = Ids
    BY <1>2, <1>3 DEF Jobs
<1>5. Continue(r)
    BY DEF List
<1> HIDE DEF r
<1>6. /\ job' \in Jobs /\ job'.step = 3 /\ job'.live = job.live /\ job'.listed = files
      /\ job'.todo = Ids
    BY <1>2, <1>4, <1>5, Continues
<1>7. job # NoJob
    BY <1>2, Commands
<1>8. DumpIsCommitted' /\ OwedIsCopied'
    BY <1>1, <1>6, <1>7, StoreKept
    DEF BackupInv, DumpIsCommitted, OwedIsCopied, Owed, IInv, LiveHasOriginal
<1> QED
    BY <1>1, <1>6, <1>8, StoreKept DEF BackupInv, BackupTypes

(* One capture read: what it owes is listed and still there. *)
LEMMA CopyPreserves ==
    ASSUME BackupInv, NEW i \in Ids, Copy(i)
    PROVE  BackupInv'
<1>1. BackupStep
    BY DEF BackupStep
<1>2. job \in Jobs /\ job.step = 3 /\ job # NoJob
    BY Commands DEF BackupInv, BackupTypes, Copy
<1>3. files \in [Ids -> SUBSET Variants]
    BY DEF BackupInv, IInv, TypeOK
<1>4. job' = [job EXCEPT !.todo = @ \ {i}, !.got[i] = job.listed[i] \cap files[i]]
    BY DEF Copy
<1>5. /\ job' \in Jobs /\ job'.step = 3 /\ job'.live = job.live /\ job'.whole = job.whole
      /\ job'.listed = job.listed /\ job'.todo = job.todo \ {i}
      /\ job'.got[i] = job.listed[i] \cap files[i]
      /\ \A j \in Ids \ {i} : job'.got[j] = job.got[j]
    BY <1>2, <1>3, <1>4 DEF Jobs
<1>6. DumpIsCommitted'
    BY <1>1, <1>2, <1>5, StoreKept DEF BackupInv, DumpIsCommitted
<1>7. OwedIsCopied'
    <2> SUFFICES ASSUME job'.whole, NEW j \in Ids, Owed(j)'
                 PROVE  /\ "original" \in job'.listed[j]
                        /\ j \notin job'.todo => "original" \in job'.got[j]
        BY <1>5 DEF OwedIsCopied
    <2>1. Owed(j) /\ job.whole
        BY <1>1, <1>5, StoreKept DEF Owed
    <2>2. /\ "original" \in job.listed[j] /\ "original" \in files[j]
          /\ j \notin job.todo => "original" \in job.got[j]
        BY <1>2, <2>1 DEF BackupInv, OwedIsCopied, Owed, IInv, LiveHasOriginal
    <2> QED
        BY <1>5, <2>2
<1> QED
    BY <1>1, <1>5, <1>6, <1>7, StoreKept DEF BackupInv, BackupTypes

LEMMA PublishImagesPreserves ==
    ASSUME BackupInv, PublishImages
    PROVE  BackupInv'
<1>1. BackupStep
    BY DEF BackupStep
<1>2. job \in Jobs /\ job.step = 3 /\ job # NoJob /\ Len(Steps) = 5 /\ job.todo = {}
    BY Commands DEF BackupInv, BackupTypes, PublishImages
<1>3. CASE Continue(job)
    <2>1. /\ job' \in Jobs /\ job'.step = 4 /\ job'.live = job.live
          /\ job'.whole = job.whole /\ job'.got = job.got
        BY <1>2, <1>3, Continues
    <2>2. DumpIsCommitted' /\ OwedIsCopied'
        BY <1>1, <1>2, <2>1, StoreKept DEF BackupInv, DumpIsCommitted, OwedIsCopied, Owed
    <2> QED
        BY <1>1, <2>1, <2>2, StoreKept DEF BackupInv, BackupTypes
<1> QED
    BY <1>1, <1>3, NothingOwed DEF PublishImages

LEMMA CopyFailsPreserves ==
    ASSUME BackupInv, CopyFails
    PROVE  BackupInv'
<1>1. BackupStep
    BY DEF BackupStep
<1>2. job \in Jobs /\ job.step = 3 /\ Len(Steps) = 5
    BY Commands DEF BackupInv, BackupTypes, CopyFails
<1> DEFINE r == [job EXCEPT !.whole = FALSE, !.todo = {}]
<1>3. r \in Jobs /\ r.step = 3 /\ r.live = job.live /\ r.whole = FALSE
    BY <1>2 DEF Jobs
<1>4. job' = NoJob \/ Continue(r)
    BY DEF CopyFails
<1> HIDE DEF r
<1>5. CASE Continue(r)
    <2>1. job' \in Jobs /\ job'.whole = FALSE /\ job'.live = job.live
        BY <1>2, <1>3, <1>5, Continues
    <2> QED
        BY <1>1, <1>2, <2>1, FailedOwesNothing
<1> QED
    BY <1>1, <1>4, <1>5, NothingOwed

LEMMA RotatePreserves ==
    ASSUME BackupInv, Rotate
    PROVE  BackupInv'
<1>1. BackupStep
    BY DEF BackupStep
<1>2. job \in Jobs /\ job.step = 4 /\ job # NoJob /\ Len(Steps) = 5
    BY Commands DEF BackupInv, BackupTypes, Rotate
<1> DEFINE r == [job EXCEPT !.todo = Ids, !.got = NoFiles, !.listed = NoFiles]
<1>3. r \in Jobs /\ r.step = 4 /\ r.live = job.live /\ r.todo = Ids
    BY <1>2 DEF Jobs, NoFiles
<1>4. Continue(r)
    BY DEF Rotate
<1> HIDE DEF r
<1>5. job' \in Jobs /\ job'.step = 5 /\ job'.live = job.live /\ job'.todo = Ids
    BY <1>2, <1>3, <1>4, Continues
<1>6. DumpIsCommitted' /\ OwedIsCopied'
    BY <1>1, <1>2, <1>5, StoreKept DEF BackupInv, DumpIsCommitted, OwedIsCopied
<1> QED
    BY <1>1, <1>5, <1>6, StoreKept DEF BackupInv, BackupTypes

LEMMA CopyOffBoxPreserves ==
    ASSUME BackupInv, NEW i \in Ids, CopyOffBox(i)
    PROVE  BackupInv'
<1>1. BackupStep
    BY DEF BackupStep
<1>2. job \in Jobs /\ job.step = 5 /\ job # NoJob
    BY Commands DEF BackupInv, BackupTypes, CopyOffBox
<1>3. files \in [Ids -> SUBSET Variants]
    BY DEF BackupInv, IInv, TypeOK
<1>4. job' = [job EXCEPT !.todo = @ \ {i}, !.got[i] = files[i]]
    BY DEF CopyOffBox
<1>5. /\ job' \in Jobs /\ job'.step = 5 /\ job'.live = job.live /\ job'.whole = job.whole
      /\ job'.todo = job.todo \ {i} /\ job'.got[i] = files[i]
      /\ \A j \in Ids \ {i} : job'.got[j] = job.got[j]
    BY <1>2, <1>3, <1>4 DEF Jobs
<1>6. DumpIsCommitted'
    BY <1>1, <1>2, <1>5, StoreKept DEF BackupInv, DumpIsCommitted
<1>7. OwedIsCopied'
    <2> SUFFICES ASSUME job'.whole, NEW j \in Ids, Owed(j)', j \notin job'.todo
                 PROVE  "original" \in job'.got[j]
        BY <1>5 DEF OwedIsCopied
    <2>1. Owed(j) /\ job.whole
        BY <1>1, <1>5, StoreKept DEF Owed
    <2>2. /\ "original" \in files[j]
          /\ j \notin job.todo => "original" \in job.got[j]
        BY <1>2, <2>1 DEF BackupInv, OwedIsCopied, Owed, IInv, LiveHasOriginal
    <2> QED
        BY <1>5, <2>2
<1> QED
    BY <1>1, <1>5, <1>6, <1>7, StoreKept DEF BackupInv, BackupTypes

LEMMA RunEndsPreserves ==
    ASSUME BackupInv, PublishOffBox \/ SidecarStops
    PROVE  BackupInv'
<1>1. BackupStep
    BY DEF BackupStep
<1>2. CASE PublishOffBox
    <2>1. job \in Jobs /\ job.step = 5 /\ Len(Steps) = 5 /\ Continue(job)
        BY <1>2, Commands DEF BackupInv, BackupTypes, PublishOffBox
    <2> QED
        BY <1>1, <2>1, Continues, NothingOwed
<1> QED
    BY <1>1, <1>2, NothingOwed DEF SidecarStops

(* Whatever the store does beside the run, it adds nothing to what is owed. *)
LEMMA StoreRunsPreserves ==
    ASSUME BackupInv, StoreRuns
    PROVE  BackupInv'
<1>1. IInv' /\ doomed \subseteq doomed' /\ job' = job
    BY Inductive, DoomedGrows DEF BackupInv, StoreRuns, backupVars
<1>2. BackupTypes'
    BY <1>1 DEF BackupInv, BackupTypes, StoreRuns, IInv, TypeOK
<1> SUFFICES ASSUME job # NoJob PROVE DumpIsCommitted' /\ OwedIsCopied'
    BY <1>1, <1>2 DEF BackupInv, DumpIsCommitted, OwedIsCopied
<1>3. job \in Jobs
    BY Commands DEF BackupInv, BackupTypes
<1>4. \A i \in job.live : /\ i \in Ids
                          /\ status'[i] \in {"live", "tombstone", "gone"}
                          /\ status'[i] = "live" => status[i] = "live"
    <2> SUFFICES ASSUME NEW i \in job.live
                 PROVE  /\ i \in Ids
                        /\ status'[i] \in {"live", "tombstone", "gone"}
                        /\ status'[i] = "live" => status[i] = "live"
        OBVIOUS
    <2>1. i \in Ids /\ status[i] \in {"live", "tombstone", "gone"}
        BY <1>3 DEF BackupInv, DumpIsCommitted, Jobs
    <2>2. CASE status[i] = "live"
        BY <2>1, <2>2, LiveSteps DEF BackupInv, StoreRuns
    <2>3. CASE status[i] # "live"
        BY <2>1, <2>3, TombstoneSteps DEF BackupInv, StoreRuns, SweepRow, IInv, TypeOK
    <2> QED
        BY <2>2, <2>3
<1>5. \A i \in Ids : Owed(i)' => Owed(i)
    BY <1>1, <1>4 DEF Owed
<1> QED
    BY <1>1, <1>4, <1>5 DEF BackupInv, DumpIsCommitted, OwedIsCopied
-----------------------------------------------------------------------------
LEMMA BackupInductive == BackupInv /\ [BackupNext]_allVars => BackupInv'
<1> SUFFICES ASSUME BackupInv, [BackupNext]_allVars PROVE BackupInv'
    OBVIOUS
<1>1. CASE BackupStep
    BY <1>1, BeginPreserves, DumpPreserves, DumpFailsPreserves, ListPreserves, CopyPreserves,
       PublishImagesPreserves, CopyFailsPreserves, RotatePreserves, CopyOffBoxPreserves,
       RunEndsPreserves DEF BackupStep
<1>2. CASE StoreRuns
    BY <1>2, StoreRunsPreserves
<1>3. CASE UNCHANGED allVars
    <2>1. IInv' /\ UNCHANGED <<status, doomed, job, dirTime>>
        BY <1>3, Inductive DEF allVars, vars, rowVars, backupVars, BackupInv
    <2> QED
        BY <2>1 DEF BackupInv, BackupTypes, DumpIsCommitted, OwedIsCopied, Owed
<1> QED
    BY <1>1, <1>2, <1>3 DEF BackupNext

(* A backup beside a working store: what its run still owes, it has copied. *)
THEOREM BackupInvariant == BackupSpec => []BackupInv
BY BackupInitEstablishes, BackupInductive, PTL DEF BackupSpec

(* Beside the sidecar, too, a live capture no purge selected has its original, *)
(* and a hard-deleted row left nothing on disk.                                *)
THEOREM StoreHoldsBesideBackup == BackupSpec => [](LiveHasOriginal /\ HardDeleteIsClean)
<1>1. BackupInv => LiveHasOriginal /\ HardDeleteIsClean
    BY DEF BackupInv, IInv
<1> QED
    BY <1>1, BackupInvariant, PTL

(* A run none of whose commands failed restores every capture that is live in  *)
(* its dump and still live now, from the local snapshot and from the off-box   *)
(* copy.                                                                       *)
THEOREM BackupsRestore == BackupSpec => []BackupRestores
<1>1. ASSUME BackupInv PROVE BackupRestores
    <2> SUFFICES ASSUME job # NoJob, job.whole, job.todo = {}, At("rotate") \/ At("offbox"),
                        NEW i \in job.live \cap Live, i \notin doomed
                 PROVE  "original" \in job.got[i]
        BY DEF BackupRestores
    <2>1. Owed(i) /\ i \in Ids /\ job.step \in {4, 5}
        BY <1>1, Commands DEF Owed, Live, BackupInv, BackupTypes
    <2> QED
        BY <1>1, <2>1 DEF BackupInv, OwedIsCopied
<1> QED
    BY <1>1, BackupInvariant, PTL
=============================================================================
