-------------------------- MODULE RenderGateProofs --------------------------
(***************************************************************************)
(* Proofs about the render gate for any finite set of captures, any set of *)
(* callers and any limit.  The inductive invariant is the conjunction of   *)
(* the gate's own invariants: the counter is exact because each transition *)
(* of a key moves it in or out of Holding by one element, and the bounds   *)
(* on active + Cardinality(Woken) hold because a release only moves a slot *)
(* from one summand to the other while somebody waits.                     *)
(***************************************************************************)
EXTENDS RenderGate, FiniteSetTheorems, TLAPS

IInv ==
  /\ TypeOK
  /\ ActiveIsExact
  /\ WaitersExact
  /\ NoIdleSlot
  /\ CallersInFlight
  /\ LimitUnlessBarged

(* The sets the counters range over are finite, so their sizes are naturals. *)
LEMMA FiniteParts ==
  /\ IsFiniteSet(Holding) /\ Cardinality(Holding) \in Nat
  /\ IsFiniteSet(Woken) /\ Cardinality(Woken) \in Nat
<1>1. Holding \in SUBSET Keys /\ Woken \in SUBSET Keys
  BY DEF Holding, Woken
<1>2. IsFiniteSet(Holding) /\ IsFiniteSet(Woken)
  BY <1>1, FS_Subset, GateAssumption
<1> QED
  BY <1>2, FS_CardinalityType

(* The head of `waiters` is a suspended render, and the rest keeps its order. *)
LEMMA HeadIsQueued ==
  ASSUME TypeOK, WaitersExact, waiters # <<>>
  PROVE  /\ Head(waiters) \in Keys
         /\ phase[Head(waiters)] = "queued"
         /\ Tail(waiters) \in Seq(Keys)
         /\ Len(Tail(waiters)) = Len(waiters) - 1
         /\ \A i \in 1..Len(Tail(waiters)) : Tail(waiters)[i] = waiters[i + 1]
         /\ Head(waiters) = waiters[1]
         /\ Len(waiters) \in Nat \ {0}
<1>1. /\ Head(waiters) \in Keys
      /\ Tail(waiters) \in Seq(Keys)
      /\ Len(Tail(waiters)) = Len(waiters) - 1
      /\ \A i \in 1..Len(Tail(waiters)) : Tail(waiters)[i] = waiters[i + 1]
      /\ Head(waiters) = waiters[1]
      /\ Len(waiters) \in Nat \ {0}
  BY DEF TypeOK
<1>2. 1 \in 1..Len(waiters)
  BY <1>1
<1> QED
  BY <1>1, <1>2 DEF WaitersExact

LEMMA InitEstablishes == Init => IInv
<1> SUFFICES ASSUME Init PROVE IInv
  OBVIOUS
<1>1. Holding = {} /\ Woken = {}
  BY DEF Init, Holding, Woken
<1>2. Cardinality(Holding) = 0 /\ Cardinality(Woken) = 0
  BY <1>1, FS_EmptySet
<1>3. TypeOK
  <2>1. <<>> \in Seq(Keys)
    OBVIOUS
  <2>2. phase \in [Keys -> Phases]
    BY DEF Init, Phases
  <2> QED
    BY <2>1, <2>2 DEF Init, TypeOK
<1>4. WaitersExact
  BY DEF Init, WaitersExact
<1> QED
  BY <1>2, <1>3, <1>4, GateAssumption
  DEF Init, IInv, ActiveIsExact, NoIdleSlot, CallersInFlight, LimitUnlessBarged

LEMMA JoinPreserves ==
  ASSUME IInv, NEW c \in Callers, NEW k \in Keys, Join(c, k)
  PROVE  IInv'
<1>1. Holding' = Holding /\ Woken' = Woken
  BY DEF Join, Holding, Woken
<1>2. TypeOK' /\ WaitersExact' /\ CallersInFlight'
  BY DEF IInv, Join, TypeOK, WaitersExact, CallersInFlight
<1> QED
  BY <1>1, <1>2 DEF IInv, Join, ActiveIsExact, NoIdleSlot, LimitUnlessBarged

LEMMA RunNowPreserves ==
  ASSUME IInv, NEW c \in Callers, NEW k \in Keys, RunNow(c, k)
  PROVE  IInv'
<1> USE GateAssumption
<1>1. Holding' = Holding \cup {k} /\ Woken' = Woken /\ phase' \in [Keys -> Phases]
  <2>1. k \notin Woken
    BY DEF RunNow, Woken
  <2>2. phase' = [phase EXCEPT ![k] = "admitted"] /\ phase \in [Keys -> Phases]
    BY DEF RunNow, IInv, TypeOK
  <2> QED
    BY <2>1, <2>2 DEF Holding, Woken, Phases
<1>2. Cardinality(Holding') = Cardinality(Holding) + 1
  <2>1. k \notin Holding
    BY DEF RunNow, Holding
  <2> QED
    BY <1>1, <2>1, FiniteParts, FS_AddElement
<1>3. TypeOK'
  <2>1. barged' \in BOOLEAN
    <3>1. CASE active + Cardinality(Woken) >= Limit
      BY <3>1 DEF RunNow
    <3>2. CASE ~(active + Cardinality(Woken) >= Limit)
      BY <3>2 DEF RunNow, IInv, TypeOK
    <3> QED
      BY <3>1, <3>2
  <2>2. /\ waiters' \in Seq(Keys)
        /\ active' \in Nat
        /\ awaits' \in [Callers -> Keys \cup {NoKey}]
    BY DEF IInv, RunNow, TypeOK
  <2> QED
    BY <1>1, <2>1, <2>2 DEF TypeOK
<1>4. ActiveIsExact'
  BY <1>2 DEF IInv, RunNow, ActiveIsExact
<1>5. WaitersExact'
  BY DEF IInv, RunNow, WaitersExact, TypeOK
<1>6. NoIdleSlot'
  BY <1>1, FiniteParts DEF IInv, RunNow, NoIdleSlot, TypeOK
<1>7. CallersInFlight'
  BY DEF IInv, RunNow, CallersInFlight, TypeOK
<1>8. LimitUnlessBarged'
  <2>1. CASE active + Cardinality(Woken) >= Limit
    <3>1. barged'
      BY <2>1 DEF RunNow
    <3> QED
      BY <3>1 DEF LimitUnlessBarged
  <2>2. CASE ~(active + Cardinality(Woken) >= Limit)
    <3>1. active' + Cardinality(Woken') <= Limit
      BY <1>1, <2>2, FiniteParts DEF IInv, RunNow, TypeOK
    <3> QED
      BY <3>1 DEF LimitUnlessBarged
  <2> QED
    BY <2>1, <2>2
<1> QED
  BY <1>3, <1>4, <1>5, <1>6, <1>7, <1>8 DEF IInv

LEMMA RunQueuedPreserves ==
  ASSUME IInv, NEW c \in Callers, NEW k \in Keys, RunQueued(c, k)
  PROVE  IInv'
<1> USE GateAssumption
<1>1. Holding' = Holding /\ Woken' = Woken /\ phase' \in [Keys -> Phases]
  <2>1. k \notin Woken /\ k \notin Holding
    BY DEF RunQueued, Woken, Holding
  <2>2. phase' = [phase EXCEPT ![k] = "queued"] /\ phase \in [Keys -> Phases]
    BY DEF RunQueued, IInv, TypeOK
  <2> QED
    BY <2>1, <2>2 DEF Holding, Woken, Phases
<1>2. /\ waiters' \in Seq(Keys)
      /\ Len(waiters') = Len(waiters) + 1
      /\ \A i \in 1..Len(waiters) : waiters'[i] = waiters[i]
      /\ waiters'[Len(waiters) + 1] = k
      /\ Len(waiters) \in Nat
  BY DEF IInv, RunQueued, TypeOK
<1>3. TypeOK'
  BY <1>1, <1>2 DEF IInv, RunQueued, TypeOK
<1>4. ActiveIsExact'
  BY <1>1 DEF IInv, RunQueued, ActiveIsExact
<1>5. WaitersExact'
  <2>1. \A i \in 1..Len(waiters) : waiters[i] # k
    BY DEF IInv, RunQueued, WaitersExact
  <2>2. \A i \in 1..Len(waiters') : i \in 1..Len(waiters) \/ i = Len(waiters) + 1
    BY <1>2
  <2>3. \A i, j \in 1..Len(waiters') : waiters'[i] = waiters'[j] => i = j
    BY <1>2, <2>1, <2>2 DEF IInv, WaitersExact
  <2>4. ASSUME NEW j \in Keys
        PROVE  phase'[j] = "queued" <=> \E i \in 1..Len(waiters') : waiters'[i] = j
    <3>1. CASE j = k
      <4>1. phase'[j] = "queued"
        BY <3>1 DEF IInv, RunQueued, TypeOK
      <4>2. Len(waiters) + 1 \in 1..Len(waiters')
        BY <1>2
      <4> QED
        BY <3>1, <4>1, <4>2, <1>2
    <3>2. CASE j # k
      <4>1. phase'[j] = phase[j]
        BY <3>2 DEF IInv, RunQueued, TypeOK
      <4>2. phase[j] = "queued" <=> \E i \in 1..Len(waiters) : waiters[i] = j
        BY DEF IInv, WaitersExact
      <4>3. 1..Len(waiters) \subseteq 1..Len(waiters')
        BY <1>2
      <4> QED
        BY <3>2, <4>1, <4>2, <4>3, <1>2, <2>2
    <3> QED
      BY <3>1, <3>2
  <2> QED
    BY <2>3, <2>4 DEF WaitersExact
<1>6. NoIdleSlot'
  BY <1>1, FiniteParts DEF IInv, RunQueued, NoIdleSlot, TypeOK
<1>7. CallersInFlight'
  BY DEF IInv, RunQueued, CallersInFlight, TypeOK
<1>8. LimitUnlessBarged'
  BY <1>1 DEF IInv, RunQueued, LimitUnlessBarged
<1> QED
  BY <1>3, <1>4, <1>5, <1>6, <1>7, <1>8 DEF IInv

LEMMA ResumePreserves ==
  ASSUME IInv, NEW k \in Keys, Resume(k)
  PROVE  IInv'
<1> USE GateAssumption
<1>1. Holding' = Holding \cup {k} /\ Woken' = Woken \ {k} /\ phase' \in [Keys -> Phases]
  <2>1. phase' = [phase EXCEPT ![k] = "admitted"] /\ phase \in [Keys -> Phases]
    BY DEF Resume, IInv, TypeOK
  <2> QED
    BY <2>1 DEF Holding, Woken, Phases
<1>2. /\ Cardinality(Holding') = Cardinality(Holding) + 1
      /\ Cardinality(Woken') = Cardinality(Woken) - 1
  <2>1. k \notin Holding /\ k \in Woken
    BY DEF Resume, Holding, Woken
  <2> QED
    BY <1>1, <2>1, FiniteParts, FS_AddElement, FS_RemoveElement
<1>3. TypeOK'
  BY <1>1 DEF IInv, Resume, TypeOK
<1>4. ActiveIsExact'
  BY <1>2 DEF IInv, Resume, ActiveIsExact
<1>5. WaitersExact' /\ CallersInFlight'
  BY DEF IInv, Resume, WaitersExact, CallersInFlight, TypeOK
<1>6. NoIdleSlot' /\ LimitUnlessBarged'
  BY <1>2, FiniteParts DEF IInv, Resume, NoIdleSlot, LimitUnlessBarged, TypeOK
<1> QED
  BY <1>3, <1>4, <1>5, <1>6 DEF IInv

LEMMA StartPreserves ==
  ASSUME IInv, NEW k \in Keys, Start(k)
  PROVE  IInv'
<1>1. Holding' = Holding /\ Woken' = Woken /\ phase' \in [Keys -> Phases]
  <2>1. k \in Holding /\ k \notin Woken
    BY DEF Start, Holding, Woken
  <2>2. phase' = [phase EXCEPT ![k] = "running"] /\ phase \in [Keys -> Phases]
    BY DEF Start, IInv, TypeOK
  <2> QED
    BY <2>1, <2>2 DEF Holding, Woken, Phases
<1>2. TypeOK' /\ WaitersExact' /\ CallersInFlight'
  BY <1>1 DEF IInv, Start, TypeOK, WaitersExact, CallersInFlight
<1> QED
  BY <1>1, <1>2 DEF IInv, Start, ActiveIsExact, NoIdleSlot, LimitUnlessBarged

LEMMA FinishPreserves ==
  ASSUME IInv, NEW k \in Keys, Finish(k)
  PROVE  IInv'
<1> USE GateAssumption
<1>0. TypeOK /\ WaitersExact /\ k \in Holding /\ k \notin Woken
  BY DEF IInv, Finish, Holding, Woken
<1>1. phase' \in [Keys -> Phases] /\ Holding' = Holding \ {k}
  <2>1. waiters # <<>> => phase[Head(waiters)] = "queued"
    BY <1>0, HeadIsQueued
  <2> QED
    BY <2>1 DEF IInv, Finish, TypeOK, Phases, Holding
<1>2. Cardinality(Holding') = Cardinality(Holding) - 1 /\ Cardinality(Holding) > 0
  <2>1. Cardinality(Holding') = Cardinality(Holding) - 1
    BY <1>0, <1>1, FiniteParts, FS_RemoveElement
  <2>2. IsFiniteSet(Holding')
    BY <1>1, FiniteParts, FS_RemoveElement
  <2> QED
    BY <2>1, <2>2, FiniteParts, FS_CardinalityType
<1>3. active' \in Nat /\ ActiveIsExact'
  BY <1>2, FiniteParts DEF IInv, Finish, ActiveIsExact, TypeOK
<1>4. waiters' \in Seq(Keys)
  BY <1>0, HeadIsQueued DEF Finish, TypeOK
<1>5. TypeOK'
  BY <1>1, <1>3, <1>4 DEF IInv, Finish, TypeOK
<1>6. WaitersExact'
  <2>1. CASE waiters = <<>>
    <3>1. waiters' = waiters /\ Len(waiters) = 0
      BY <2>1 DEF Finish
    <3>2. \A j \in Keys : phase[j] # "queued"
      BY <1>0, <3>1 DEF WaitersExact
    <3>3. \A j \in Keys : phase'[j] # "queued"
      BY <2>1, <3>2 DEF Finish
    <3> QED
      BY <3>1, <3>3 DEF WaitersExact
  <2>2. CASE waiters # <<>>
    <3>1. /\ waiters' = Tail(waiters)
          /\ Len(waiters') = Len(waiters) - 1
          /\ Len(waiters) \in Nat \ {0}
          /\ Head(waiters) = waiters[1]
          /\ \A i \in 1..Len(waiters') : waiters'[i] = waiters[i + 1] /\ i + 1 \in 1..Len(waiters)
      BY <1>0, <2>2, HeadIsQueued DEF Finish
    <3>2. \A i, j \in 1..Len(waiters') : waiters'[i] = waiters'[j] => i = j
      BY <1>0, <3>1 DEF WaitersExact
    <3>3. ASSUME NEW j \in Keys
          PROVE  phase'[j] = "queued" <=> \E i \in 1..Len(waiters') : waiters'[i] = j
      <4>1. phase[j] = "queued" <=> \E i \in 1..Len(waiters) : waiters[i] = j
        BY <1>0 DEF WaitersExact
      <4>2. phase'[j] = "queued" <=> phase[j] = "queued" /\ j # Head(waiters)
        BY <2>2 DEF Finish
      <4>3. ASSUME NEW i \in 1..Len(waiters), waiters[i] = j, j # Head(waiters)
            PROVE  i - 1 \in 1..Len(waiters') /\ waiters'[i - 1] = j
        BY <3>1, <4>3
      <4>4. ASSUME NEW i \in 1..Len(waiters'), waiters'[i] = j
            PROVE  j # Head(waiters) /\ \E m \in 1..Len(waiters) : waiters[m] = j
        <5>1. i + 1 \in 1..Len(waiters) /\ waiters[i + 1] = j /\ 1 \in 1..Len(waiters)
          BY <3>1, <4>4
        <5>2. i + 1 # 1
          OBVIOUS
        <5> QED
          BY <1>0, <3>1, <5>1, <5>2 DEF WaitersExact
      <4> QED
        BY <4>1, <4>2, <4>3, <4>4
    <3> QED
      BY <3>2, <3>3 DEF WaitersExact
  <2> QED
    BY <2>1, <2>2
<1>7. NoIdleSlot' /\ LimitUnlessBarged'
  <2>1. CASE waiters = <<>>
    <3>1. Woken' = Woken
      BY <1>0, <2>1 DEF Finish, Woken
    <3> QED
      BY <2>1, <3>1, <1>3, FiniteParts DEF IInv, Finish, NoIdleSlot, LimitUnlessBarged, TypeOK
  <2>2. CASE waiters # <<>>
    <3>1. Head(waiters) \in Keys /\ phase[Head(waiters)] = "queued"
      BY <1>0, <2>2, HeadIsQueued
    <3>2. Woken' = Woken \cup {Head(waiters)} /\ Head(waiters) \notin Woken
      BY <1>0, <2>2, <3>1 DEF Finish, Woken
    <3>3. Cardinality(Woken') = Cardinality(Woken) + 1
      BY <3>2, FiniteParts, FS_AddElement
    <3> QED
      BY <2>2, <3>3, <1>3, FiniteParts DEF IInv, Finish, NoIdleSlot, LimitUnlessBarged, TypeOK
  <2> QED
    BY <2>1, <2>2
<1>8. CallersInFlight'
  <2> SUFFICES ASSUME NEW c \in Callers, awaits'[c] # NoKey
               PROVE  phase'[awaits'[c]] # "idle"
    BY DEF CallersInFlight
  <2>1. awaits'[c] = awaits[c] /\ awaits[c] \in Keys /\ awaits[c] # k
    BY DEF IInv, TypeOK, Finish
  <2>2. phase[awaits[c]] # "idle"
    BY <2>1 DEF IInv, CallersInFlight
  <2> QED
    BY <2>1, <2>2 DEF Finish
<1> QED
  BY <1>3, <1>5, <1>6, <1>7, <1>8 DEF IInv

LEMMA StepPreserves == IInv /\ [Next]_vars => IInv'
<1> SUFFICES ASSUME IInv, [Next]_vars PROVE IInv'
  OBVIOUS
<1>1. ASSUME NEW c \in Callers, NEW k \in Keys, Join(c, k) \/ RunNow(c, k) \/ RunQueued(c, k)
      PROVE  IInv'
  BY <1>1, JoinPreserves, RunNowPreserves, RunQueuedPreserves
<1>2. ASSUME NEW k \in Keys, Resume(k) \/ Start(k) \/ Finish(k)
      PROVE  IInv'
  BY <1>2, ResumePreserves, StartPreserves, FinishPreserves
<1>3. CASE UNCHANGED vars
  <2>1. Holding' = Holding /\ Woken' = Woken
    BY <1>3 DEF vars, Holding, Woken
  <2> QED
    BY <1>3, <2>1 DEF vars, IInv, TypeOK, ActiveIsExact, WaitersExact, NoIdleSlot,
                      CallersInFlight, LimitUnlessBarged
<1> QED
  BY <1>1, <1>2, <1>3 DEF Next

(* The inductive invariant holds of the gate for every set of captures,      *)
(* callers and every limit: the counter is exact, the queue is exact, no     *)
(* render queues beside an unclaimed slot.                                   *)
THEOREM GateInvariant == Spec => []IInv
<1> QED
  BY InitEstablishes, StepPreserves, PTL DEF Spec

(* `active` always equals the number of renders that hold a slot.            *)
THEOREM ActiveExact == Spec => []ActiveIsExact
<1>1. IInv => ActiveIsExact
  BY DEF IInv
<1> QED
  BY <1>1, GateInvariant, PTL

(* No render is suspended while a slot is neither held nor promised.         *)
THEOREM WorkConserving == Spec => []NoIdleSlot
<1>1. IInv => NoIdleSlot
  BY DEF IInv
<1> QED
  BY <1>1, GateInvariant, PTL

(* The limit of flat.ts holds whenever no call has landed between a release  *)
(* and the continuation it woke.                                             *)
THEOREM LimitHolds == Spec => []LimitUnlessBarged
<1>1. IInv => LimitUnlessBarged
  BY DEF IInv
<1> QED
  BY <1>1, GateInvariant, PTL

(* The slots are kept: counted exactly, never idle beside a waiter, and      *)
(* within the limit of flat.ts unless a call barges in.                      *)
THEOREM SlotsKept == Spec => []SlotsAreKept
<1>1. IInv => SlotsAreKept
  BY DEF IInv, SlotsAreKept
<1> QED
  BY <1>1, GateInvariant, PTL
-----------------------------------------------------------------------------
(* Each step of the gate is a step of the service it implements, or leaves   *)
(* the service's state as it was.                                            *)
LEMMA StepRefines ==
  ASSUME IInv, [Next]_vars
  PROVE  [Service!ServiceNext]_(Service!serviceVars)
<1> USE DEF Service!serviceVars
<1>0. phase \in [Keys -> Phases] /\ awaits \in [Callers -> Keys \cup {NoKey}]
  BY DEF IInv, TypeOK
<1>1. ASSUME NEW c \in Callers, NEW k \in Keys, Join(c, k)
      PROVE  Service!Ask(c, k)
  BY <1>0, <1>1 DEF Join, Service!Ask, jobView
<1>2. ASSUME NEW c \in Callers, NEW k \in Keys, RunNow(c, k) \/ RunQueued(c, k)
      PROVE  Service!Ask(c, k)
  BY <1>0, <1>2 DEF RunNow, RunQueued, Service!Ask, jobView
<1>3. ASSUME NEW k \in Keys, Resume(k)
      PROVE  UNCHANGED Service!serviceVars
  BY <1>0, <1>3 DEF Resume, jobView
<1>4. ASSUME NEW k \in Keys, Start(k)
      PROVE  Service!Begin(k)
  BY <1>0, <1>4 DEF Start, Service!Begin, jobView
<1>5. ASSUME NEW k \in Keys, Finish(k)
      PROVE  Service!Answer(k)
  <2>1. waiters # <<>> => phase[Head(waiters)] = "queued" /\ Head(waiters) \in Keys
    BY HeadIsQueued DEF IInv
  <2>2. jobView' = [jobView EXCEPT ![k] = "none"]
    BY <1>0, <1>5, <2>1 DEF Finish, jobView
  <2>3. jobView[k] = "running"
    BY <1>5 DEF Finish, jobView
  <2> QED
    BY <1>5, <2>2, <2>3 DEF Finish, Service!Answer
<1>6. CASE UNCHANGED vars
  BY <1>6 DEF vars, jobView
<1> QED
  BY <1>1, <1>2, <1>3, <1>4, <1>5, <1>6 DEF Next, Service!ServiceNext

(* The gate implements the render service: renders of one capture never      *)
(* overlap and a caller is answered only by the end of the render it joined. *)
THEOREM GateImplementsService == Spec => Service!SafeServiceSpec
<1>1. Init => Service!ServiceInit
  BY DEF Init, Service!ServiceInit, jobView
<1>2. IInv /\ [Next]_vars => [Service!ServiceNext]_(Service!serviceVars)
  BY StepRefines
<1> QED
  BY <1>1, <1>2, GateInvariant, PTL DEF Spec, Service!SafeServiceSpec
=============================================================================
