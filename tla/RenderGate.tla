----------------------------- MODULE RenderGate -----------------------------
(***************************************************************************)
(* The render gate of the flat-render pipeline: a concurrency limiter with *)
(* a per-capture single-flight (class RenderGate, server/src/images/       *)
(* flat.ts).  It runs on one JavaScript thread, so its unit of atomicity   *)
(* is the microtask: run() and release() are atomic, but a waiter that     *)
(* release() resolves takes its slot only when its own continuation runs,  *)
(* and other microtasks (another request that calls run()) may come first. *)
(*                                                                         *)
(* phase[k] follows the promise run() stored in `inflight` for key k:      *)
(*   "idle"      no entry in inflight                                      *)
(*   "queued"    acquire() pushed a resolver on `waiters`                  *)
(*   "woken"     release() shifted that resolver; acquire() not resumed    *)
(*   "admitted"  acquire() counted the slot; the job has not started       *)
(*   "running"   job() called and not settled                              *)
(***************************************************************************)
EXTENDS Naturals, Sequences, FiniteSets

CONSTANTS
  Keys,     \* the internal ids of the captures that may be rendered
  Callers,  \* the requests for image.png that may be waiting at one time
  NoKey,    \* a caller that waits for nothing
  Limit     \* the constructor's `limit` (2 in production)

ASSUME GateAssumption ==
  /\ Limit \in Nat \ {0}      \* the constructor throws otherwise
  /\ NoKey \notin Keys
  /\ IsFiniteSet(Keys)

VARIABLES
  phase,    \* where the promise of each key stands, see above
  waiters,  \* the keys whose resolvers are in `waiters`, oldest first
  active,   \* the field `active`
  awaits,   \* awaits[c]: the key whose promise caller c holds, or NoKey
  barged    \* history: some run() took a slot a woken waiter was counting on

vars == <<phase, waiters, active, awaits, barged>>

Phases == {"idle", "queued", "woken", "admitted", "running"}

Holding == {k \in Keys : phase[k] \in {"admitted", "running"}}
Woken   == {k \in Keys : phase[k] = "woken"}
Running == {k \in Keys : phase[k] = "running"}

Init ==
  /\ phase = [k \in Keys |-> "idle"]
  /\ waiters = <<>>
  /\ active = 0
  /\ awaits = [c \in Callers |-> NoKey]
  /\ barged = FALSE

(* run(key) while a render of the key is in flight: share its promise. *)
Join(c, k) ==
  /\ awaits[c] = NoKey
  /\ phase[k] # "idle"
  /\ awaits' = [awaits EXCEPT ![c] = k]
  /\ UNCHANGED <<phase, waiters, active, barged>>

(* run(key) with a slot free: acquire() counts it before it returns. *)
RunNow(c, k) ==
  /\ awaits[c] = NoKey
  /\ phase[k] = "idle"
  /\ active < Limit
  /\ awaits' = [awaits EXCEPT ![c] = k]
  /\ phase' = [phase EXCEPT ![k] = "admitted"]
  /\ active' = active + 1
  /\ barged' = IF active + Cardinality(Woken) >= Limit THEN TRUE ELSE barged
  /\ UNCHANGED waiters

(* run(key) with no slot free: acquire() suspends in `waiters`. *)
RunQueued(c, k) ==
  /\ awaits[c] = NoKey
  /\ phase[k] = "idle"
  /\ active >= Limit
  /\ awaits' = [awaits EXCEPT ![c] = k]
  /\ phase' = [phase EXCEPT ![k] = "queued"]
  /\ waiters' = Append(waiters, k)
  /\ UNCHANGED <<active, barged>>

(* The continuation of a woken acquire(): the slot is counted only now, and *)
(* `active` is not compared with the limit again.                           *)
Resume(k) ==
  /\ phase[k] = "woken"
  /\ phase' = [phase EXCEPT ![k] = "admitted"]
  /\ active' = active + 1
  /\ UNCHANGED <<waiters, awaits, barged>>

(* The then-callback: the job starts. *)
Start(k) ==
  /\ phase[k] = "admitted"
  /\ phase' = [phase EXCEPT ![k] = "running"]
  /\ UNCHANGED <<waiters, active, awaits, barged>>

(* Seeded bugs in the way a job ends.  Settled(k, woken) is the end of k's    *)
(* job that wakes the keys in `woken` and answers all of its callers.         *)
Settled(k, woken) ==
  /\ phase[k] = "running"
  /\ phase' = [j \in Keys |-> IF j = k THEN "idle" ELSE IF j \in woken THEN "woken" ELSE phase[j]]
  /\ awaits' = [c \in Callers |-> IF awaits[c] = k THEN NoKey ELSE awaits[c]]
  /\ UNCHANGED barged

Oldest == IF waiters = <<>> THEN {} ELSE {Head(waiters)}
Shifted == IF waiters = <<>> THEN <<>> ELSE Tail(waiters)

(* .then() instead of .finally(): a job that throws keeps its slot. *)
FinishKeepsSlotOnError(k) ==
  /\ \/ active' = active - 1 /\ Settled(k, Oldest) /\ waiters' = Shifted
     \/ Settled(k, {}) /\ UNCHANGED <<waiters, active>>

(* release() only decrements. *)
FinishWakesNobody(k) == active' = active - 1 /\ Settled(k, {}) /\ UNCHANGED waiters

(* release() resolves every waiter. *)
FinishWakesAll(k) ==
  active' = active - 1 /\ Settled(k, {j \in Keys : phase[j] = "queued"}) /\ waiters' = <<>>

(* Only one of the callers that share the promise is answered. *)
FinishAnswersOne(k) ==
  /\ phase[k] = "running"
  /\ active' = active - 1
  /\ phase' = [j \in Keys |-> IF j = k THEN "idle" ELSE IF j \in Oldest THEN "woken" ELSE phase[j]]
  /\ waiters' = Shifted
  /\ \E c \in Callers : awaits[c] = k /\ awaits' = [awaits EXCEPT ![c] = NoKey]
  /\ UNCHANGED barged

(* The finally-callback, for a job that resolved or threw: the key leaves   *)
(* `inflight`, release() gives the slot back and resolves the oldest waiter,*)
(* and everyone who shared the promise is answered.                         *)
Finish(k) ==
  /\ phase[k] = "running"
  /\ active' = active - 1
  /\ phase' = [j \in Keys |-> IF j = k THEN "idle"
                              ELSE IF waiters # <<>> /\ j = Head(waiters) THEN "woken"
                              ELSE phase[j]]
  /\ waiters' = IF waiters = <<>> THEN waiters ELSE Tail(waiters)
  /\ awaits' = [c \in Callers |-> IF awaits[c] = k THEN NoKey ELSE awaits[c]]
  /\ UNCHANGED barged

Next ==
  \/ \E c \in Callers, k \in Keys : Join(c, k) \/ RunNow(c, k) \/ RunQueued(c, k)
  \/ \E k \in Keys : Resume(k) \/ Start(k) \/ Finish(k)

(* Continuations are microtasks, which the event loop always drains, and a  *)
(* render (one sharp pipeline) either ends or throws.                       *)
Fairness == \A k \in Keys : WF_vars(Resume(k)) /\ WF_vars(Start(k)) /\ WF_vars(Finish(k))

Spec == Init /\ [][Next]_vars /\ Fairness
-----------------------------------------------------------------------------
TypeOK ==
  /\ phase \in [Keys -> Phases]
  /\ waiters \in Seq(Keys)
  /\ active \in Nat
  /\ awaits \in [Callers -> Keys \cup {NoKey}]
  /\ barged \in BOOLEAN

(* The counter is exact: `active` is the number of renders that hold a slot, *)
(* whatever the order of wake-ups, so no slot is ever leaked or freed twice. *)
ActiveIsExact == active = Cardinality(Holding)

(* `waiters` holds each suspended acquire() once and nothing else: no render  *)
(* is woken twice, and none is forgotten.                                     *)
WaitersExact ==
  /\ \A k \in Keys : phase[k] = "queued" <=> \E i \in 1..Len(waiters) : waiters[i] = k
  /\ \A i, j \in 1..Len(waiters) : waiters[i] = waiters[j] => i = j

(* Nobody queues beside an unclaimed slot: while a render is suspended every  *)
(* slot is held or already promised to a woken waiter.                        *)
NoIdleSlot == waiters # <<>> => active + Cardinality(Woken) >= Limit

(* Every call waits for a promise that is in flight, so no caller is left on  *)
(* a render that has already been answered.                                   *)
CallersInFlight == \A c \in Callers : awaits[c] # NoKey => phase[awaits[c]] # "idle"

(* As long as no run() slips between a release() and the continuation it      *)
(* woke, the slots held and promised stay within the limit.                   *)
LimitUnlessBarged == ~barged => active + Cardinality(Woken) <= Limit

(* What the slots owe under every order of continuations: none is leaked,     *)
(* freed twice, left idle beside a waiter, or given out beyond the limit.     *)
SlotsAreKept == ActiveIsExact /\ NoIdleSlot /\ LimitUnlessBarged

-----------------------------------------------------------------------------
(* The gate implements the service the route relies on: a queued, woken or    *)
(* admitted render has been asked for, and one job runs per key.              *)
jobView == [k \in Keys |-> CASE phase[k] = "idle" -> "none"
                             [] phase[k] = "running" -> "running"
                             [] OTHER -> "asked"]

Service == INSTANCE RenderService WITH job <- jobView

ImplementsService == Service!ServiceSpec
=============================================================================
