------------------------------ MODULE MCBackup ------------------------------
(* An instance of the store and of its backup for TLC.  The store alone is    *)
(* busier than the store beside a backup: an installation without a sidecar   *)
(* runs two requests and four ticks, one with it one request and one tick.    *)
EXTENDS Backup, TLC
CONSTANTS r1, r2
RequestSymmetry == Permutations({r1, r2})

NoSidecar == MaxRuns + 1

InstallInit ==
    /\ Init
    /\ job = NoJob /\ snapshots = {} /\ shards = {} /\ dirTime = 0
    /\ runs \in {0, NoSidecar}

Busy == {r \in Requests : req[r] # Idle}
Retained == {i \in Ids : until[i] \in {created[i] + days : days \in UserChoices}}
\* Bounds on the store beside a backup.
Quiet == clock <= 1 /\ faults <= 1 /\ Retained = {} /\ Cardinality(Busy) <= 1

InstallNext ==
    \/ runs # NoSidecar /\ BackupNext /\ Quiet'
    \/ runs = NoSidecar /\ Next /\ UNCHANGED <<backupVars, shards, dirTime>>

InstallSpec == InstallInit /\ [][InstallNext]_allVars
=============================================================================
