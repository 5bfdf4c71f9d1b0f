--------------------------- MODULE MCCaptureStore ---------------------------
(* An instance of CaptureStore for TLC.                                      *)
EXTENDS CaptureStore

(* A backlog after downtime (purge.ts, the comment on batchSize): captures     *)
(* that expired or soon will, and tombstones with files that a failed unlink   *)
(* or a late render left behind.  Nobody but the purge and renders is active.  *)
BacklogInit ==
  /\ status \in [Ids -> {"live", "tombstone"}]
  /\ created = [i \in Ids |-> 0]
  /\ until \in [Ids -> {Default, Default + 1}]
  /\ deleted = [i \in Ids |-> 0]
  /\ files \in [Ids -> SUBSET Variants]
  /\ \A i \in Ids : IF status[i] = "live" THEN files[i] = {"original"} ELSE until[i] = Default
  /\ req = [r \in Requests |-> Idle]
  /\ render = [i \in Ids |-> NoRender]
  /\ purgePc = "idle" /\ purgeNow = 0 /\ batch = {} /\ batchFull = FALSE /\ lastId = 0
  /\ clock = Default
  /\ faults = 0
  /\ doomed = {}

BacklogSpec == BacklogInit /\ [][Next]_vars /\ Fairness
=============================================================================
