------------------------------- MODULE Backup -------------------------------
(* The backup sidecar (deploy/backup/backup.sh) beside the running store: a   *)
(* dump of the database, a snapshot of the image volume, rotation, and        *)
(* restic.  Nothing stops the store while it runs: each command sees the     *)
(* rows and files of its own moment, and rsync and restic read file after     *)
(* file.                                                                      *)
(* `set -e` ends an ad-hoc run at the first command that fails.  The nightly  *)
(* loop calls `run_backup || log ...`, where the shell ignores errexit, so    *)
(* that run goes on with whatever the command left.                           *)
EXTENDS CaptureStore, Sequences

CONSTANTS
    KeepDays,       \* BACKUP_KEEP_DAYS, in units of the clock
    Shards,         \* 256 directories below IMAGES_DIR
    MaxRuns         \* bound on the backups started

ASSUME BackupAssumption == {KeepDays, MaxRuns} \subseteq Nat /\ Shards \in Nat \ {0}

VARIABLES
    job,            \* the run in progress
    snapshots,      \* the directories in $BACKUP_ROOT/images: [at, mtime]
    shards,         \* the directories of IMAGES_DIR
    dirTime,        \* its modification time
    runs            \* backups started

backupVars == <<job, snapshots, runs>>
allVars == <<vars, backupVars, shards, dirTime>>

NoFiles == [i \in Ids |-> {}]
NoJob == [step |-> 0]

\* The commands of run_backup, in their order.
StepsImagesFirst == <<"list", "copy", "dump", "rotate", "offbox">>     \* Seeded bug
Steps == <<"dump", "list", "copy", "rotate", "offbox">>

BackupInit ==
    /\ Init
    /\ job = NoJob /\ snapshots = {}
    /\ shards = {} /\ dirTime = 0 /\ runs = 0

Live == {i \in Ids : status[i] = "live"}
At(name) == job # NoJob /\ Steps[job.step] = name

\* The run ends with the last command, and logs sec.backup.completed.
Continue(r) == job' = IF r.step = Len(Steps) THEN NoJob ELSE [r EXCEPT !.step = @ + 1]
\* An ad-hoc run stops at a failed command, the nightly one does not.
Errexit(r) == job' = NoJob \/ Continue(r)
StoreStands == UNCHANGED <<vars, shards, dirTime>>

\* The loop wakes up, or somebody calls `backup run`.
BeginBackup ==
    /\ job = NoJob /\ runs < MaxRuns
    /\ runs' = runs + 1
    /\ job' = [step |-> 1, at |-> clock, whole |-> TRUE, live |-> {},
               listed |-> NoFiles, got |-> NoFiles, todo |-> {}, mtime |-> 0]
    /\ UNCHANGED <<snapshots>> /\ StoreStands

\* pg_dump reads one snapshot of the database; the file appears by rename.
Dump ==
    /\ At("dump")
    /\ Continue([job EXCEPT !.live = Live])
    /\ UNCHANGED <<snapshots, runs>> /\ StoreStands

\* pg_dump fails: the nightly run goes on without a dump, or renames a broken one.
DumpFails ==
    /\ At("dump") /\ Fault
    /\ Errexit([job EXCEPT !.whole = FALSE])
    /\ UNCHANGED <<snapshots, runs, shards, dirTime>>
    /\ UNCHANGED <<rowVars, files, req, render, purgeVars, clock, doomed>>

\* rsync lists the volume, its root directory with it ...
List ==
    /\ At("list")
    /\ Continue([job EXCEPT !.listed = files, !.todo = Ids, !.mtime = dirTime])
    /\ UNCHANGED <<snapshots, runs>> /\ StoreStands

\* ... and copies what is listed and still there, one capture after another.
Copy(i) ==
    /\ At("copy") /\ i \in job.todo
    /\ job' = [job EXCEPT !.todo = @ \ {i}, !.got[i] = job.listed[i] \cap files[i]]
    /\ UNCHANGED <<snapshots, runs>> /\ StoreStands

\* -a gives the copy the times of what it copies: the snapshot's directory
\* carries the modification time of IMAGES_DIR.
TakenAt(r) == [at |-> r.at, mtime |-> r.mtime]

\* Exit 24, a file vanished under rsync, is a failure like any other.
PublishImages ==
    /\ At("copy") /\ job.todo = {}
    /\ \/ snapshots' = snapshots \cup {TakenAt(job)} /\ Continue(job)
       \/ job' = NoJob /\ job.got # job.listed /\ UNCHANGED snapshots
    /\ UNCHANGED <<runs>> /\ StoreStands

CopyFails ==
    /\ At("copy") /\ Fault
    /\ \/ snapshots' = snapshots \cup {TakenAt(job)}
          /\ Continue([job EXCEPT !.whole = FALSE, !.todo = {}])
       \/ job' = NoJob /\ UNCHANGED snapshots
    /\ UNCHANGED <<runs, shards, dirTime>>
    /\ UNCHANGED <<rowVars, files, req, render, purgeVars, clock, doomed>>

\* find -mtime +KeepDays over the snapshots' directories.
Rotate ==
    /\ At("rotate")
    /\ snapshots' = {s \in snapshots : clock - s.mtime <= KeepDays}
    /\ Continue([job EXCEPT !.todo = Ids, !.got = NoFiles, !.listed = NoFiles])
    /\ UNCHANGED <<runs>> /\ StoreStands

\* restic reads this run's dump and the image volume itself.
CopyOffBox(i) ==
    /\ At("offbox") /\ i \in job.todo
    /\ job' = [job EXCEPT !.todo = @ \ {i}, !.got[i] = files[i]]
    /\ UNCHANGED <<snapshots, runs>> /\ StoreStands

PublishOffBox ==
    /\ At("offbox") /\ job.todo = {}
    /\ Continue(job)
    /\ UNCHANGED <<snapshots, runs>> /\ StoreStands

\* The sidecar stops: only whole files and directories have their names.
SidecarStops ==
    /\ job # NoJob /\ Fault
    /\ job' = NoJob
    /\ UNCHANGED <<snapshots, runs, shards, dirTime>>
    /\ UNCHANGED <<rowVars, files, req, render, purgeVars, clock, doomed>>

\* The store goes on beside the backup; a file in a new shard touches IMAGES_DIR.
\* A run, which takes minutes, spans at most one tick.
StoreRuns ==
    /\ Next
    /\ clock' # clock /\ job # NoJob => job.at = clock
    /\ shards' = shards \cup {i % Shards : i \in {j \in Ids : files'[j] # {}}}
    /\ dirTime' = IF shards' # shards THEN clock ELSE dirTime
    /\ UNCHANGED backupVars

BackupStep ==
    \/ BeginBackup \/ Dump \/ DumpFails \/ List \/ PublishImages \/ CopyFails
    \/ Rotate \/ PublishOffBox \/ SidecarStops
    \/ \E i \in Ids : \/ Copy(i) \/ CopyOffBox(i)

BackupNext == BackupStep \/ StoreRuns

BackupSpec == BackupInit /\ [][BackupNext]_allVars

-----------------------------------------------------------------------------

\* A run none of whose commands failed restores every capture that is live in
\* its dump and still live now: its image was copied, by rsync and by restic.
\* The dump comes first, and an upload's file is there before its row.
BackupRestores ==
    job # NoJob /\ job.whole /\ job.todo = {} /\ (At("rotate") \/ At("offbox")) =>
        \A i \in job.live \cap Live : i \notin doomed => "original" \in job.got[i]

\* "Local dumps and snapshots older than BACKUP_KEEP_DAYS go" (deploy/README.md):
\* nothing younger does.
RotationSparesTheYoung ==
    [][\A s \in snapshots : s \notin snapshots' => clock - s.at > KeepDays]_allVars
=============================================================================
