---------------------------- MODULE GuardProofs ----------------------------
(* Proofs about the guard for any set of addresses and classes, any number   *)
(* of requests in flight and any settings.                                   *)
(*                                                                           *)
(* The argument.  The alerts and the breaker each live in one record that    *)
(* few steps touch: a summary held back has a timer that ends no sooner than *)
(* its window, and a breaker leaves "open" only through breakerGate.  Memory *)
(* and ip_bans disagree only between the two writes of one tripBan or of one *)
(* unban: a key with a single writer at a time is therefore consistent again *)
(* when the writer is done, and two writers at once put the key in "raced".  *)
EXTENDS Guard, WellFoundedInduction, TLAPS

Alerts == [wait : Nat, pending : BOOLEAN, timer : Nat \cup {NoTimer}]
Bans == [strikes : Nat, until : Nat]
RequestPcs == {"idle", "lookup", "select", "upsert", "memory"}

TypeOK ==
    /\ now \in Nat
    /\ row \in [Keys -> Bans] /\ ban \in [Keys -> Bans]
    /\ invalid \in [Keys -> Seq(Nat)]
    /\ breaker \in [state : {"closed", "open", "half_open"}, at : Nat, invalid : Nat]
    /\ hits \in Seq(Nat)
    /\ req \in [Slots -> [pc : RequestPcs, key : Keys \cup {NoKey}, at : Nat, strikes : Nat]]
    /\ \A s \in Slots : /\ req[s].pc # "idle" => req[s].key \in Keys
                        /\ req[s].pc \in {"upsert", "memory"} => req[s].strikes > 0
    /\ lifting \in Keys \cup {NoKey}
    /\ alert \in [Watched -> Alerts]
    /\ raced \subseteq Keys

\* A summary is held back exactly while a timer runs, and the timer does not
\* end before the window does.
Timed(a) == /\ a.pending <=> a.timer # NoTimer
            /\ a.pending => a.timer >= a.wait
AlertsTimed == \A c \in Watched : Timed(alert[c])

\* One writer at a time: a ban being written or an unban, not both.
SoleWriter ==
    \A k \in Keys \ raced :
        /\ \A s, t \in Writers(k) : s = t
        /\ Writers(k) # {} => lifting # k

\* Between its two writes a writer's row is on record.
HalfDone ==
    \A k \in Keys \ raced :
        /\ \A s \in Writers(k) : req[s].pc = "memory" => row[k] = Sentence(req[s])
        /\ lifting = k => row[k] = NoBan

Agree(k) == /\ ban[k] # NoBan => ban[k] = row[k]
            /\ row[k].until > now => ban[k] = row[k]

AgreeOtherwise ==
    \A k \in Keys \ raced :
        lifting # k /\ (\A s \in Writers(k) : req[s].pc # "memory") => Agree(k)

IInv == TypeOK /\ AlertsTimed /\ SoleWriter /\ HalfDone /\ AgreeOtherwise

-----------------------------------------------------------------------------
(* Operators.                                                                *)

LEMMA MinOfTwo ==
    ASSUME NEW a \in Nat, NEW b \in Nat
    PROVE  LET m == Min({a, b}) IN m \in {a, b} /\ m <= a /\ m <= b
<1>1. \E x \in {a, b} : \A y \in {a, b} : x <= y
    BY a <= b \/ b <= a
<1> QED
    BY <1>1 DEF Min

LEMMA MaxOfTwo ==
    ASSUME NEW a \in Int, NEW b \in Int
    PROVE  LET m == Max({a, b}) IN m \in {a, b} /\ m >= a /\ m >= b
<1>1. \E x \in {a, b} : \A y \in {a, b} : x >= y
    BY a <= b \/ b <= a
<1> QED
    BY <1>1 DEF Max

LEMMA MinOfNaturals ==
    ASSUME NEW S \in SUBSET Nat, S # {}
    PROVE  Min(S) \in S
<1>1. PICK m \in S : \A i \in S : ~(<<i, m>> \in OpToRel(<, Nat))
    BY NatLessThanWellFounded, WFMin, Zenon
<1>2. \A i \in S : m <= i
    <2> SUFFICES ASSUME NEW i \in S, i < m PROVE FALSE
        OBVIOUS
    <2>1. <<i, m>> \in OpToRel(<, Nat)
        BY DEF OpToRel
    <2> QED
        BY <1>1, <2>1
<1> QED
    BY <1>2 DEF Min

\* What is left of a window is a window.
LEMMA FromHeadType ==
    ASSUME NEW s \in Seq(Nat), NEW cutoff \in Int
    PROVE  FromHead(s, cutoff) \in Seq(Nat)
<1> DEFINE fresh == {i \in DOMAIN s : s[i] > cutoff}
<1>1. fresh \in SUBSET Nat /\ fresh \subseteq 1..Len(s) /\ Len(s) \in Nat
    OBVIOUS
<1>2. CASE fresh = {}
    BY <1>2 DEF FromHead
<1>3. CASE fresh # {}
    <2>1. Min(fresh) \in 1..Len(s)
        BY <1>1, <1>3, MinOfNaturals
    <2>2. FromHead(s, cutoff) = SubSeq(s, Min(fresh), Len(s))
        BY <1>3 DEF FromHead
    <2> HIDE DEF fresh
    <2>3. PICK m \in 1..Len(s) : m = Min(fresh)
        BY <2>1
    <2>4. SubSeq(s, m, Len(s)) \in Seq(Nat)
        OBVIOUS
    <2> QED
        BY <2>2, <2>3, <2>4
<1> QED
    BY <1>2, <1>3

\* A ban ends at a natural time.
LEMMA SentenceType ==
    ASSUME NEW r, r.at \in Nat, r.strikes \in Nat, r.strikes > 0
    PROVE  Sentence(r) \in Bans
<1> DEFINE i == Min({r.strikes, Len(Ladder)})
<1>1. Len(Ladder) \in Nat /\ Len(Ladder) > 0
    BY GuardAssumption
<1>2. i \in 1..Len(Ladder)
    BY <1>1, MinOfTwo
<1>3. Ladder[i] \in Nat
    BY <1>2, GuardAssumption
<1> HIDE DEF i
<1>4. r.at + Ladder[i] \in Nat
    BY <1>3
<1> QED
    BY <1>4 DEF Sentence, Bans, i

-----------------------------------------------------------------------------
(* The alerts.                                                               *)

LEMMA AlertSent ==
    ASSUME NEW a \in Alerts
    PROVE  /\ Sent(a) \in Alerts /\ Sent(a).wait = AlertInterval
           /\ Sent(a).pending = a.pending /\ Sent(a).timer = a.timer
BY GuardAssumption DEF Sent, Alerts

LEMMA AlertCoalesced ==
    ASSUME NEW a \in Alerts, Timed(a)
    PROVE  LET b == Coalesced(a) IN
           b \in Alerts /\ Timed(b) /\ b.wait = a.wait /\ b.pending
<1> DEFINE timer == IF a.timer = NoTimer THEN a.wait ELSE a.timer
<1>1. timer \in Nat /\ timer # NoTimer /\ timer >= a.wait
    BY DEF Alerts, Timed, NoTimer
<1>2. Coalesced(a) = [a EXCEPT !.pending = TRUE, !.timer = timer]
    BY DEF Coalesced
<1> HIDE DEF timer
<1>3. /\ [a EXCEPT !.pending = TRUE, !.timer = timer] \in Alerts
      /\ [a EXCEPT !.pending = TRUE, !.timer = timer].wait = a.wait
      /\ [a EXCEPT !.pending = TRUE, !.timer = timer].pending
      /\ [a EXCEPT !.pending = TRUE, !.timer = timer].timer = timer
    BY <1>1 DEF Alerts
<1> QED
    BY <1>1, <1>2, <1>3 DEF Timed

\* What onEvent and the flush may do to a class: send, only when its window is
\* over, or hold back, with a timer.
Spaced(a, b) ==
    /\ b.wait > a.wait \/ (a.pending /\ ~b.pending) => a.wait = 0
    /\ b.pending => b.timer # NoTimer

LEMMA OnEventSpaced ==
    ASSUME NEW a \in Alerts, Timed(a)
    PROVE  OnEvent(a) \in Alerts /\ Timed(OnEvent(a)) /\ Spaced(a, OnEvent(a))
<1>1. CASE a.wait = 0 /\ ~a.pending
    <2>1. OnEvent(a) = Sent(a)
        BY <1>1 DEF OnEvent
    <2> QED
        BY <1>1, <2>1, AlertSent DEF Timed, Spaced
<1>2. CASE ~(a.wait = 0 /\ ~a.pending)
    <2>1. OnEvent(a) = Coalesced(a)
        BY <1>2 DEF OnEvent
    <2> QED
        BY <2>1, AlertCoalesced DEF Timed, Spaced, Alerts
<1> QED
    BY <1>1, <1>2

LEMMA SameIsSpaced ==
    ASSUME NEW a \in Alerts, Timed(a)
    PROVE  Spaced(a, a)
BY DEF Alerts, Timed, Spaced

\* What a step does to the alerts as a whole.
AlertsStep ==
    /\ alert' \in [Watched -> Alerts] /\ AlertsTimed'
    /\ \A c \in Watched : Spaced(alert[c], alert'[c])

LEMMA RaiseSteps ==
    ASSUME TypeOK, AlertsTimed, NEW classes, Raise(classes)
    PROVE  AlertsStep
<1> SUFFICES ASSUME NEW c \in Watched
             PROVE  /\ alert'[c] \in Alerts /\ Timed(alert'[c])
                    /\ Spaced(alert[c], alert'[c])
    BY DEF AlertsStep, AlertsTimed, Raise, Timed
<1>1. alert[c] \in Alerts /\ Timed(alert[c])
    BY DEF TypeOK, AlertsTimed
<1>2. alert'[c] = OnEvent(alert[c]) \/ alert'[c] = alert[c]
    BY DEF Raise
<1> QED
    BY <1>1, <1>2, OnEventSpaced, SameIsSpaced

LEMMA FlushSteps ==
    ASSUME TypeOK, AlertsTimed, NEW c \in Watched, Flush(c)
    PROVE  AlertsStep
<1> DEFINE a == alert[c]
           b == [(IF a.pending THEN Sent(a) ELSE a) EXCEPT !.timer = NoTimer, !.pending = FALSE]
<1>1. a \in Alerts /\ Timed(a) /\ a.timer = 0
    BY DEF TypeOK, AlertsTimed, Flush
<1>2. a.pending /\ a.wait = 0
    BY <1>1 DEF Timed, NoTimer, Alerts
<1>3. b \in Alerts /\ b.timer = NoTimer /\ ~b.pending
    BY <1>1, <1>2, AlertSent DEF Alerts
<1>4. alert'[c] = b /\ \A d \in Watched : d # c => alert'[d] = alert[d]
    BY DEF Flush, TypeOK
<1> HIDE DEF b
<1>5. ASSUME NEW d \in Watched
      PROVE  alert'[d] \in Alerts /\ Timed(alert'[d]) /\ Spaced(alert[d], alert'[d])
    <2>1. CASE d = c
        BY <1>2, <1>3, <1>4, <2>1 DEF Timed, Spaced
    <2>2. CASE d # c
        BY <1>4, <2>2, SameIsSpaced DEF TypeOK, AlertsTimed
    <2> QED
        BY <2>1, <2>2
<1> QED
    BY <1>5 DEF AlertsStep, AlertsTimed, Flush, TypeOK, Timed

LEMMA TickSteps ==
    ASSUME TypeOK, AlertsTimed, Tick
    PROVE  AlertsStep
<1> SUFFICES ASSUME NEW c \in Watched
             PROVE  /\ alert'[c] \in Alerts /\ Timed(alert'[c])
                    /\ Spaced(alert[c], alert'[c])
    BY DEF AlertsStep, AlertsTimed, Tick, Timed
<1> DEFINE a == alert[c]
           wait == Max({0, a.wait - 1})
           timer == IF a.timer > 0 THEN a.timer - 1 ELSE a.timer
<1>1. a \in Alerts /\ Timed(a)
    BY DEF TypeOK, AlertsTimed
<1>2. wait \in Nat /\ wait <= a.wait /\ wait \in {0, a.wait - 1}
    <2>1. a.wait \in Nat /\ a.wait - 1 \in Int /\ 0 \in Int
        BY <1>1 DEF Alerts
    <2>2. wait \in {0, a.wait - 1} /\ wait >= 0 /\ wait >= a.wait - 1
        BY <2>1, MaxOfTwo
    <2> HIDE DEF wait, a
    <2> QED
        BY <2>1, <2>2
<1>3. alert'[c] = [a EXCEPT !.wait = wait, !.timer = timer]
    BY DEF Tick
<1>4. /\ timer \in Nat \cup {NoTimer} /\ (timer # NoTimer <=> a.timer # NoTimer)
      /\ a.timer # NoTimer /\ a.timer >= a.wait => timer >= wait
    <2>1. a.timer \in Nat \cup {-1} /\ a.wait \in Nat
        BY <1>1 DEF Alerts, NoTimer
    <2> HIDE DEF wait, a
    <2> QED
        BY <1>2, <2>1 DEF NoTimer
<1> HIDE DEF wait, timer
<1>5. /\ alert'[c] \in Alerts /\ alert'[c].wait = wait /\ alert'[c].timer = timer
      /\ alert'[c].pending = a.pending
    BY <1>1, <1>2, <1>3, <1>4 DEF Alerts
<1> QED
    BY <1>1, <1>2, <1>4, <1>5 DEF Timed, Spaced, Alerts

-----------------------------------------------------------------------------
(* The breaker.                                                              *)

Breakers == [state : {"closed", "open", "half_open"}, at : Nat, invalid : Nat]

\* How one record of the breaker may follow another, a restart aside.
Probes(b, c) ==
    /\ b.state = "open" /\ c.state # "open" => c.state = "half_open" /\ now >= b.at
    /\ b.state = "half_open" /\ c.state = "closed" => now >= b.at + Minute

LEMMA GateProbes ==
    ASSUME TypeOK
    PROVE  Gate \in Breakers /\ Probes(breaker, Gate)
<1> USE GuardAssumption
<1>1. breaker \in Breakers /\ now \in Nat /\ breaker.at \in Nat /\ Minute \in Nat
    BY DEF TypeOK, Breakers
<1>2. CASE breaker.state = "open" /\ now >= breaker.at
    <2>1. Gate = [state |-> "half_open", at |-> now, invalid |-> 0]
        BY <1>2 DEF Gate
    <2> QED
        BY <1>1, <1>2, <2>1 DEF Probes, Breakers
<1>3. CASE breaker.state = "half_open" /\ now - breaker.at >= Minute
    <2>1. Gate = Closed
        BY <1>3 DEF Gate
    <2> QED
        BY <1>1, <1>3, <2>1 DEF Probes, Breakers, Closed
<1>4. CASE /\ ~(breaker.state = "open" /\ now >= breaker.at)
           /\ ~(breaker.state = "half_open" /\ now - breaker.at >= Minute)
    <2>1. Gate = breaker
        BY <1>4 DEF Gate
    <2> QED
        BY <1>1, <2>1 DEF Probes, Breakers
<1> QED
    BY <1>2, <1>3, <1>4

\* What a step does to the breaker and its hits.
BreakerSteps ==
    /\ breaker' \in Breakers /\ hits' \in Seq(Nat)
    /\ Probes(breaker, breaker')

LEMMA PassGateSteps ==
    ASSUME TypeOK, AlertsTimed, PassGate
    PROVE  BreakerSteps /\ AlertsStep
<1>1. hits' \in Seq(Nat)
    BY DEF PassGate, TypeOK
<1>2. AlertsStep
    BY RaiseSteps DEF PassGate
<1> QED
    BY <1>1, <1>2, GateProbes DEF PassGate, BreakerSteps

LEMMA BreakerHitSteps ==
    ASSUME TypeOK, AlertsTimed, NEW t \in Nat, NEW raised, BreakerHit(t, raised)
    PROVE  BreakerSteps /\ AlertsStep
<1> USE GuardAssumption
<1> DEFINE counted == Append(FromHead(hits, t - Minute), t)
           opens == \/ breaker.state = "half_open" /\ breaker.invalid + 1 >= Tolerance
                    \/ breaker.state = "closed" /\ Floods(counted)
<1>1. counted \in Seq(Nat)
    <2>1. t - Minute \in Int
        OBVIOUS
    <2>2. FromHead(hits, t - Minute) \in Seq(Nat)
        BY <2>1, FromHeadType DEF TypeOK
    <2> QED
        BY <2>2
<1>2. /\ breaker' = CASE opens -> Open(t)
                      [] breaker.state = "half_open" /\ ~opens -> [breaker EXCEPT !.invalid = @ + 1]
                      [] OTHER -> breaker
      /\ hits' = CASE opens -> <<>>
                   [] breaker.state = "closed" /\ ~opens -> counted
                   [] OTHER -> hits
      /\ \E classes : Raise(classes)
    BY DEF BreakerHit
<1>3. opens => breaker.state # "open"
    OBVIOUS
<1> HIDE DEF opens, counted
<1>4. hits' \in Seq(Nat)
    BY <1>1, <1>2 DEF TypeOK
<1>5. breaker' \in Breakers /\ Probes(breaker, breaker')
    <2>1. breaker \in Breakers /\ breaker.invalid + 1 \in Nat
        BY DEF TypeOK, Breakers
    <2>2. CASE opens
        <3>1. breaker' = Open(t) /\ t + Cooldown \in Nat
            BY <1>2, <2>2
        <3> QED
            BY <1>3, <2>2, <3>1 DEF Open, Breakers, Probes
    <2>3. CASE ~opens /\ breaker.state = "half_open"
        <3>1. breaker' = [breaker EXCEPT !.invalid = @ + 1]
            BY <1>2, <2>3
        <3>2. breaker' \in Breakers /\ breaker'.state = "half_open"
            BY <2>1, <2>3, <3>1 DEF Breakers
        <3> QED
            BY <2>3, <3>2 DEF Probes
    <2>4. CASE ~opens /\ breaker.state # "half_open"
        <3>1. breaker' = breaker
            BY <1>2, <2>4
        <3> QED
            BY <2>1, <2>4, <3>1 DEF Probes
    <2> QED
        BY <2>2, <2>3, <2>4
<1>6. AlertsStep
    BY <1>2, RaiseSteps
<1> QED
    BY <1>4, <1>5, <1>6 DEF BreakerSteps

LEMMA SteadySteps ==
    ASSUME TypeOK, AlertsTimed
    PROVE  /\ UNCHANGED alert => AlertsStep
           /\ UNCHANGED <<breaker, hits>> => BreakerSteps
<1>1. UNCHANGED alert => AlertsStep
    BY SameIsSpaced DEF AlertsStep, AlertsTimed, TypeOK, Timed
<1>2. UNCHANGED <<breaker, hits>> => BreakerSteps
    BY DEF BreakerSteps, Probes, Breakers, TypeOK
<1> QED
    BY <1>1, <1>2

\* Every step but a restart keeps the breaker's and the alerts' discipline.
LEMMA StepsKeepDiscipline ==
    ASSUME TypeOK, AlertsTimed, [Next]_vars, ~Restart
    PROVE  BreakerSteps /\ AlertsStep
<1> USE SteadySteps
<1>1. ASSUME NEW s \in Slots, NEW k \in Keys, NEW anonymous \in BOOLEAN, Arrive(s, k, anonymous)
      PROVE  BreakerSteps /\ AlertsStep
    BY <1>1, PassGateSteps DEF Arrive
<1>2. ASSUME NEW s \in Slots, Miss(s)
      PROVE  BreakerSteps /\ AlertsStep
    <2>1. CASE BreakerHit(now, {})
        BY <2>1, BreakerHitSteps DEF TypeOK
    <2>2. CASE UNCHANGED <<breaker, hits, alert>>
        BY <2>2
    <2> QED
        BY <1>2, <2>1, <2>2 DEF Miss
<1>3. ASSUME NEW s \in Slots, TripMemory(s)
      PROVE  BreakerSteps /\ AlertsStep
    <2>1. req[s].at \in Nat /\ BreakerHit(req[s].at, {"ban"})
        BY <1>3 DEF TripMemory, TypeOK
    <2> QED
        BY <2>1, BreakerHitSteps
<1>4. ASSUME NEW s \in Slots, Leave(s) \/ TripSelect(s) \/ TripUpsert(s) \/ TripFails(s)
      PROVE  BreakerSteps /\ AlertsStep
    BY <1>4 DEF Leave, TripSelect, TripUpsert, TripFails
<1>5. ASSUME NEW k \in Keys, UnbanDelete(k)
      PROVE  BreakerSteps /\ AlertsStep
    BY <1>5 DEF UnbanDelete
<1>6. CASE Crowd
    BY <1>6, BreakerHitSteps DEF Crowd, TypeOK
<1>7. CASE UnbanForget \/ UNCHANGED vars
    BY <1>7 DEF UnbanForget, vars
<1>8. CASE GuardView
    BY <1>8, PassGateSteps DEF GuardView
<1>9. CASE Tick
    BY <1>9, TickSteps DEF Tick
<1>10. ASSUME NEW c \in Watched, Flush(c)
       PROVE  BreakerSteps /\ AlertsStep
    BY <1>10, FlushSteps DEF Flush
<1> QED
    BY <1>1, <1>2, <1>3, <1>4, <1>5, <1>6, <1>7, <1>8, <1>9, <1>10 DEF Next

-----------------------------------------------------------------------------
(* The bans.                                                                 *)

LEMMA WriterFacts ==
    ASSUME TypeOK, NEW k \in Keys
    PROVE  /\ Writers(k) \subseteq Slots
           /\ \A s \in Slots : s \in Writers(k) <=>
                req[s].key = k /\ req[s].pc \in {"select", "upsert", "memory"}
BY DEF Writers

\* A step that keeps the rows, the bans and who is writing.
LEMMA BansKept ==
    ASSUME IInv, TypeOK', UNCHANGED <<row, ban, lifting, raced>>, now' \in {now, now + 1},
           \A k \in Keys : Writers(k)' = Writers(k),
           \A s \in Slots : req[s].pc \in {"select", "upsert", "memory"} => req'[s] = req[s]
    PROVE  SoleWriter' /\ HalfDone' /\ AgreeOtherwise'
<1> USE DEF IInv
<1>1. \A k \in Keys : \A s \in Writers(k) : s \in Slots /\ req'[s] = req[s]
    BY WriterFacts
<1>2. ASSUME NEW k \in Keys, Agree(k) PROVE Agree(k)'
    <2>1. row[k].until \in Nat /\ now \in Nat
        BY DEF TypeOK, Bans
    <2> QED
        BY <1>2, <2>1 DEF Agree
<1>3. SoleWriter'
    BY DEF SoleWriter
<1>4. HalfDone'
    BY <1>1 DEF HalfDone
<1>5. AgreeOtherwise'
    BY <1>1, <1>2 DEF AgreeOtherwise
<1> QED
    BY <1>3, <1>4, <1>5

LEMMA ArrivePreserves ==
    ASSUME IInv, NEW s \in Slots, NEW k \in Keys, NEW anonymous \in BOOLEAN,
           Arrive(s, k, anonymous)
    PROVE  TypeOK' /\ SoleWriter' /\ HalfDone' /\ AgreeOtherwise'
<1> USE DEF IInv
<1>1. /\ UNCHANGED <<now, row, invalid, lifting, raced>> /\ req[s] = Idle
      /\ req' = req \/ req' = [req EXCEPT ![s] = [Idle EXCEPT !.pc = "lookup", !.key = k]]
    BY DEF Arrive, PassGate
<1>2. BreakerSteps /\ AlertsStep
    BY PassGateSteps, SteadySteps DEF Arrive
<1>3. /\ ban' \in [Keys -> Bans]
      /\ \A j \in Keys : ban'[j] = ban[j] \/ (ban'[j] = NoBan /\ ban[j].until <= now)
    BY DEF Arrive, TypeOK, Bans, NoBan
<1>4. /\ req' \in [Slots -> [pc : RequestPcs, key : Keys \cup {NoKey}, at : Nat, strikes : Nat]]
      /\ \A t \in Slots : req'[t] = req[t] \/ (t = s /\ req'[t].pc = "lookup" /\ req'[t].key = k)
    <2>1. CASE req' = req
        BY <2>1 DEF TypeOK
    <2>2. CASE req' = [req EXCEPT ![s] = [Idle EXCEPT !.pc = "lookup", !.key = k]]
        <3> DEFINE n == [Idle EXCEPT !.pc = "lookup", !.key = k]
        <3>1. /\ n \in [pc : RequestPcs, key : Keys \cup {NoKey}, at : Nat, strikes : Nat]
              /\ n.pc = "lookup" /\ n.key = k
            BY DEF Idle, RequestPcs
        <3> HIDE DEF n
        <3> QED
            BY <2>2, <3>1 DEF TypeOK, n
    <2> QED
        BY <1>1, <2>1, <2>2
<1>5. TypeOK'
    BY <1>1, <1>2, <1>3, <1>4 DEF TypeOK, BreakerSteps, Breakers, AlertsStep, Alerts
<1>6. /\ \A j \in Keys : Writers(j)' = Writers(j)
      /\ \A t \in Slots : req[t].pc \in {"select", "upsert", "memory"} => req'[t] = req[t]
    BY <1>1, <1>4 DEF Writers, Idle
<1>7. \A j \in Keys : \A t \in Writers(j) : req'[t] = req[t]
    BY <1>6 DEF Writers
<1>8. ASSUME NEW j \in Keys, Agree(j) PROVE Agree(j)'
    <2>1. row[j].until \in Nat /\ ban[j].until \in Nat /\ now \in Nat
        BY DEF TypeOK, Bans
    <2> QED
        BY <1>1, <1>3, <1>8, <2>1 DEF Agree
<1>9. SoleWriter' /\ HalfDone' /\ AgreeOtherwise'
    BY <1>1, <1>6, <1>7, <1>8 DEF SoleWriter, HalfDone, AgreeOtherwise
<1> QED
    BY <1>5, <1>9

LEMMA LeavePreserves ==
    ASSUME IInv, NEW s \in Slots, Leave(s)
    PROVE  TypeOK' /\ SoleWriter' /\ HalfDone' /\ AgreeOtherwise'
<1> USE DEF Leave
<1>1. \A t \in Slots : req'[t] = req[t] \/ (t = s /\ req'[t] = Idle)
    BY DEF IInv, TypeOK
<1>2. TypeOK'
    BY <1>1 DEF IInv, TypeOK, Idle, RequestPcs
<1>3. /\ \A j \in Keys : Writers(j)' = Writers(j)
      /\ \A t \in Slots : req[t].pc \in {"select", "upsert", "memory"} => req'[t] = req[t]
    BY <1>1 DEF Writers, Idle
<1> QED
    BY <1>2, <1>3, BansKept

\* The miss that begins a ban is the only writer of its key, or races.
LEMMA MissPreserves ==
    ASSUME IInv, NEW s \in Slots, Miss(s)
    PROVE  TypeOK' /\ SoleWriter' /\ HalfDone' /\ AgreeOtherwise'
<1> USE DEF IInv
<1>1. PICK k \in Keys : k = req[s].key
    BY DEF Miss, TypeOK
<1>2. /\ req[s].pc = "lookup" /\ now \in Nat
      /\ invalid' = [invalid EXCEPT ![k] = Recorded(k)]
      /\ UNCHANGED <<now, row, ban, lifting>>
    BY <1>1 DEF Miss, TypeOK
<1>3. BreakerSteps /\ AlertsStep
    BY BreakerHitSteps, SteadySteps, <1>2 DEF Miss
<1>4. invalid' \in [Keys -> Seq(Nat)]
    <2>1. invalid[k] \in Seq(Nat) /\ now - Window \in Int
        BY <1>2, GuardAssumption DEF TypeOK
    <2>2. Recorded(k) \in Seq(Nat)
        BY <1>2, <2>1, FromHeadType DEF Recorded
    <2> QED
        BY <1>2, <2>2 DEF TypeOK
<1>5. CASE /\ req' = [req EXCEPT ![s].pc = "select", ![s].at = now]
           /\ raced' = IF Writers(k) # {} \/ lifting = k THEN raced \cup {k} ELSE raced
    <2>1. /\ req'[s].pc = "select" /\ req'[s].key = k
          /\ \A t \in Slots : t # s => req'[t] = req[t]
          /\ req' \in [Slots -> [pc : RequestPcs, key : Keys \cup {NoKey}, at : Nat, strikes : Nat]]
        BY <1>1, <1>2, <1>5 DEF TypeOK, RequestPcs
    <2>2. TypeOK'
        BY <1>1, <1>2, <1>3, <1>4, <1>5, <2>1
        DEF TypeOK, BreakerSteps, Breakers, AlertsStep, Alerts
    <2>3. \A j \in Keys \ {k} : Writers(j)' = Writers(j)
        BY <1>1, <2>1 DEF Writers
    <2>4. Writers(k)' = Writers(k) \cup {s} /\ s \notin Writers(k)
        BY <1>1, <1>2, <2>1 DEF Writers
    <2>5. k \notin raced' => k \notin raced /\ Writers(k) = {} /\ lifting # k
        BY <1>5
    <2>6. \A j \in Keys : j # k => (j \in raced' <=> j \in raced)
        BY <1>5
    <2>7. \A j \in Keys : \A t \in Writers(j) : req'[t] = req[t]
        BY <1>2, <2>1 DEF Writers
    <2>8. SoleWriter'
        BY <1>2, <2>3, <2>4, <2>5, <2>6 DEF SoleWriter
    <2>9. HalfDone'
        BY <1>2, <2>1, <2>3, <2>4, <2>5, <2>6, <2>7 DEF HalfDone
    <2>10. \A j \in Keys : Agree(j)' <=> Agree(j)
        BY <1>2 DEF Agree
    <2>11. AgreeOtherwise'
        BY <1>2, <2>1, <2>3, <2>4, <2>5, <2>6, <2>7, <2>10 DEF AgreeOtherwise
    <2> QED
        BY <2>2, <2>8, <2>9, <2>11
<1>6. CASE req' = [req EXCEPT ![s] = Idle] /\ UNCHANGED raced
    <2>1. \A t \in Slots : req'[t] = req[t] \/ (t = s /\ req'[t] = Idle)
        BY <1>6 DEF TypeOK
    <2>2. TypeOK'
        BY <1>2, <1>3, <1>4, <1>6, <2>1
        DEF TypeOK, BreakerSteps, Breakers, AlertsStep, Alerts, Idle, RequestPcs
    <2>3. /\ \A j \in Keys : Writers(j)' = Writers(j)
          /\ \A t \in Slots : req[t].pc \in {"select", "upsert", "memory"} => req'[t] = req[t]
        BY <1>2, <2>1 DEF Writers, Idle
    <2> QED
        BY <1>2, <1>6, <2>2, <2>3, BansKept
<1> QED
    BY <1>1, <1>5, <1>6 DEF Miss

\* A writer goes on, or gives up before it wrote.
LEMMA TripSelectPreserves ==
    ASSUME IInv, NEW s \in Slots, TripSelect(s)
    PROVE  TypeOK' /\ SoleWriter' /\ HalfDone' /\ AgreeOtherwise'
<1> USE DEF IInv, TripSelect
<1>1. PICK k \in Keys : k = req[s].key
    BY DEF TypeOK
<1>2. row[k].strikes + 1 \in Nat /\ row[k].strikes + 1 > 0
    <2>1. row[k] \in Bans
        BY DEF TypeOK
    <2> QED
        BY <2>1 DEF Bans
<1>3. /\ req' \in [Slots -> [pc : RequestPcs, key : Keys \cup {NoKey}, at : Nat, strikes : Nat]]
      /\ req'[s].pc = "upsert" /\ req'[s].key = k /\ req'[s].strikes > 0
      /\ \A t \in Slots : t # s => req'[t] = req[t]
    BY <1>1, <1>2 DEF TypeOK, RequestPcs
<1>4. TypeOK'
    BY <1>1, <1>3 DEF TypeOK
<1>5. \A j \in Keys : Writers(j)' = Writers(j)
    BY <1>1, <1>3 DEF Writers
<1>6. \A j \in Keys : Agree(j)' <=> Agree(j)
    BY DEF Agree
<1>7. SoleWriter'
    BY <1>5 DEF SoleWriter
<1>8. \A j \in Keys : \A t \in Writers(j) :
        (req'[t].pc = "memory" <=> req[t].pc = "memory") /\ (req[t].pc = "memory" => req'[t] = req[t])
    BY <1>3 DEF Writers
<1>9. HalfDone'
    <2> SUFFICES ASSUME NEW j \in Keys \ raced
                 PROVE  /\ \A t \in Writers(j) : req'[t].pc = "memory" => row[j] = Sentence(req'[t])
                        /\ lifting = j => row[j] = NoBan
        BY <1>5 DEF HalfDone
    <2>1. \A t \in Writers(j) : req'[t].pc = "memory" => req[t].pc = "memory" /\ req'[t] = req[t]
        BY <1>8
    <2> QED
        BY <2>1 DEF HalfDone
<1>10. AgreeOtherwise'
    BY <1>5, <1>6, <1>8 DEF AgreeOtherwise
<1> QED
    BY <1>4, <1>7, <1>9, <1>10

LEMMA TripFailsPreserves ==
    ASSUME IInv, NEW s \in Slots, TripFails(s)
    PROVE  TypeOK' /\ SoleWriter' /\ HalfDone' /\ AgreeOtherwise'
<1> USE DEF IInv, TripFails
<1>1. PICK k \in Keys : k = req[s].key
    BY DEF TypeOK
<1>2. \A t \in Slots : (t # s => req'[t] = req[t]) /\ req'[s] = Idle
    BY DEF TypeOK
<1>3. TypeOK'
    BY <1>2 DEF TypeOK, Idle, RequestPcs
<1>4. \A j \in Keys : Writers(j)' = Writers(j) \ {s}
    BY <1>2 DEF Writers, Idle
<1>5. \A j \in Keys : Agree(j)' <=> Agree(j)
    BY DEF Agree
<1>6. SoleWriter'
    BY <1>4 DEF SoleWriter
<1>7. \A j \in Keys : \A t \in Writers(j)' : t \in Writers(j) /\ req'[t] = req[t]
    BY <1>2, <1>4 DEF Writers
<1>8. HalfDone'
    BY <1>7 DEF HalfDone
<1>9. AgreeOtherwise'
    <2> SUFFICES ASSUME NEW j \in Keys \ raced, lifting # j,
                        \A t \in Writers(j)' : req'[t].pc # "memory"
                 PROVE  Agree(j)
        BY <1>5 DEF AgreeOtherwise
    <2>1. \A t \in Writers(j) : req[t].pc # "memory"
        BY <1>4, <1>7
    <2> QED
        BY <2>1 DEF AgreeOtherwise
<1> QED
    BY <1>3, <1>6, <1>8, <1>9

\* The row is written first ...
LEMMA TripUpsertPreserves ==
    ASSUME IInv, NEW s \in Slots, TripUpsert(s)
    PROVE  TypeOK' /\ SoleWriter' /\ HalfDone' /\ AgreeOtherwise'
<1> USE DEF IInv, TripUpsert
<1>1. PICK k \in Keys : k = req[s].key /\ req[s].strikes > 0
    BY DEF TypeOK
<1>2. Sentence(req[s]) \in Bans
    BY <1>1, SentenceType DEF TypeOK
<1>3. /\ row' \in [Keys -> Bans] /\ row'[k] = Sentence(req[s])
      /\ \A j \in Keys : j # k => row'[j] = row[j]
    BY <1>1, <1>2 DEF TypeOK
<1>4. /\ req'[s] = [req[s] EXCEPT !.pc = "memory"]
      /\ \A t \in Slots : t # s => req'[t] = req[t]
    BY DEF TypeOK
<1>5. /\ req' \in [Slots -> [pc : RequestPcs, key : Keys \cup {NoKey}, at : Nat, strikes : Nat]]
      /\ req'[s].pc = "memory" /\ req'[s].key = k /\ req'[s].strikes = req[s].strikes
      /\ req'[s].at = req[s].at
    BY <1>1, <1>4 DEF TypeOK, RequestPcs
<1>6. TypeOK'
    BY <1>1, <1>3, <1>4, <1>5 DEF TypeOK
<1>7. (\A j \in Keys : Writers(j)' = Writers(j)) /\ s \in Writers(k)
    BY <1>1, <1>4, <1>5 DEF Writers
<1>8. SoleWriter'
    BY <1>7 DEF SoleWriter
<1>9. Sentence(req'[s]) = Sentence(req[s])
    BY <1>5 DEF Sentence
<1>10. HalfDone'
    <2> SUFFICES ASSUME NEW j \in Keys \ raced
                 PROVE  /\ \A t \in Writers(j) : req'[t].pc = "memory" => row'[j] = Sentence(req'[t])
                        /\ lifting = j => row'[j] = NoBan
        BY <1>7 DEF HalfDone
    <2>1. CASE j = k
        BY <1>3, <1>7, <1>9, <2>1 DEF SoleWriter
    <2>2. CASE j # k
        <3>1. \A t \in Writers(j) : req'[t] = req[t]
            BY <1>1, <1>4, <2>2 DEF Writers
        <3>2. row'[j] = row[j]
            BY <1>3, <2>2
        <3> QED
            BY <3>1, <3>2 DEF HalfDone
    <2> QED
        BY <2>1, <2>2
<1>11. AgreeOtherwise'
    <2> SUFFICES ASSUME NEW j \in Keys \ raced, lifting # j,
                        \A t \in Writers(j) : req'[t].pc # "memory"
                 PROVE  Agree(j)'
        BY <1>7 DEF AgreeOtherwise
    <2>1. j # k
        BY <1>5, <1>7
    <2>2. \A t \in Writers(j) : req'[t] = req[t]
        BY <1>1, <1>4, <2>1 DEF Writers
    <2> QED
        BY <1>3, <2>1, <2>2 DEF AgreeOtherwise, Agree
<1> QED
    BY <1>6, <1>8, <1>10, <1>11

\* ... and memory second, with the same sentence.
LEMMA TripMemoryPreserves ==
    ASSUME IInv, NEW s \in Slots, TripMemory(s)
    PROVE  TypeOK' /\ SoleWriter' /\ HalfDone' /\ AgreeOtherwise'
<1> USE DEF IInv, TripMemory
<1>1. PICK k \in Keys : k = req[s].key /\ req[s].strikes > 0
    BY DEF TypeOK
<1>2. Sentence(req[s]) \in Bans
    BY <1>1, SentenceType DEF TypeOK
<1>3. /\ ban' \in [Keys -> Bans] /\ ban'[k] = Sentence(req[s])
      /\ \A j \in Keys : j # k => ban'[j] = ban[j]
    BY <1>1, <1>2 DEF TypeOK
<1>4. BreakerSteps /\ AlertsStep
    BY BreakerHitSteps DEF TypeOK
<1>5. \A t \in Slots : (t # s => req'[t] = req[t]) /\ req'[s] = Idle
    BY DEF TypeOK
<1>6. TypeOK'
    <2>1. invalid' \in [Keys -> Seq(Nat)]
        BY DEF Cleared, TypeOK
    <2> QED
        BY <1>3, <1>4, <1>5, <2>1
        DEF TypeOK, BreakerSteps, Breakers, AlertsStep, Alerts, Idle, RequestPcs
<1>7. (\A j \in Keys : Writers(j)' = Writers(j) \ {s}) /\ s \in Writers(k)
    BY <1>1, <1>5 DEF Writers, Idle
<1>8. SoleWriter'
    BY <1>7 DEF SoleWriter
<1>9. \A j \in Keys : \A t \in Writers(j)' : t \in Writers(j) /\ req'[t] = req[t]
    BY <1>5, <1>7 DEF Writers
<1>10. HalfDone'
    BY <1>9 DEF HalfDone
<1>11. AgreeOtherwise'
    <2> SUFFICES ASSUME NEW j \in Keys \ raced, lifting # j,
                        \A t \in Writers(j)' : req'[t].pc # "memory"
                 PROVE  Agree(j)'
        BY DEF AgreeOtherwise
    <2>1. CASE j = k
        <3>1. row[k] = Sentence(req[s])
            BY <1>7, <2>1 DEF HalfDone
        <3> QED
            BY <1>3, <2>1, <3>1 DEF Agree
    <2>2. CASE j # k
        <3>1. s \notin Writers(j)
            BY <1>1, <2>2 DEF Writers
        <3>2. \A t \in Writers(j) : req[t].pc # "memory"
            BY <1>7, <1>9, <3>1
        <3> QED
            BY <1>3, <2>2, <3>2 DEF AgreeOtherwise, Agree
    <2> QED
        BY <2>1, <2>2
<1> QED
    BY <1>6, <1>8, <1>10, <1>11

LEMMA UnbanDeletePreserves ==
    ASSUME IInv, NEW k \in Keys, UnbanDelete(k)
    PROVE  TypeOK' /\ SoleWriter' /\ HalfDone' /\ AgreeOtherwise'
<1> USE DEF IInv, UnbanDelete
<1>1. /\ row' \in [Keys -> Bans] /\ row'[k] = NoBan
      /\ \A j \in Keys : j # k => row'[j] = row[j]
    BY DEF TypeOK, Bans, NoBan
<1>2. TypeOK'
    BY <1>1 DEF TypeOK
<1>3. \A j \in Keys : Writers(j)' = Writers(j)
    BY DEF Writers
<1>4. /\ k \notin raced' => k \notin raced /\ Writers(k) = {}
      /\ \A j \in Keys : j # k => (j \in raced' <=> j \in raced)
      /\ \A j \in Keys : lifting # j
    BY GuardAssumption
<1>5. SoleWriter'
    BY <1>3, <1>4 DEF SoleWriter
<1>6. HalfDone'
    BY <1>1, <1>3, <1>4 DEF HalfDone
<1>7. AgreeOtherwise'
    BY <1>1, <1>3, <1>4 DEF AgreeOtherwise, Agree
<1> QED
    BY <1>2, <1>5, <1>6, <1>7

LEMMA UnbanForgetPreserves ==
    ASSUME IInv, UnbanForget
    PROVE  TypeOK' /\ SoleWriter' /\ HalfDone' /\ AgreeOtherwise'
<1> USE DEF IInv, UnbanForget
<1>1. PICK k \in Keys : k = lifting
    BY DEF TypeOK
<1>2. /\ ban' \in [Keys -> Bans] /\ ban'[k] = NoBan
      /\ \A j \in Keys : j # k => ban'[j] = ban[j]
    BY <1>1 DEF TypeOK, Bans, NoBan
<1>3. TypeOK'
    <2>1. invalid' \in [Keys -> Seq(Nat)]
        BY DEF Cleared, TypeOK
    <2> QED
        BY <1>2, <2>1 DEF TypeOK
<1>4. \A j \in Keys : Writers(j)' = Writers(j)
    BY DEF Writers
<1>5. \A j \in Keys : lifting' # j
    BY GuardAssumption
<1>6. SoleWriter' /\ HalfDone'
    BY <1>4, <1>5 DEF SoleWriter, HalfDone
<1>7. AgreeOtherwise'
    <2> SUFFICES ASSUME NEW j \in Keys \ raced, \A t \in Writers(j) : req[t].pc # "memory"
                 PROVE  Agree(j)'
        BY <1>4 DEF AgreeOtherwise
    <2>1. CASE j = k
        <3>1. row[k] = NoBan /\ row'[k] = row[k]
            BY <1>1, <2>1 DEF HalfDone
        <3> QED
            BY <1>2, <2>1, <3>1 DEF Agree
    <2>2. CASE j # k
        BY <1>1, <1>2, <2>2 DEF AgreeOtherwise, Agree
    <2> QED
        BY <2>1, <2>2
<1> QED
    BY <1>3, <1>6, <1>7

LEMMA RestartPreserves ==
    ASSUME IInv, Restart
    PROVE  IInv'
<1> USE DEF IInv, Restart
<1>1. /\ ban' \in [Keys -> Bans]
      /\ \A j \in Keys : ban'[j] = IF row[j].until > now THEN row[j] ELSE NoBan
    BY DEF LoadBans, TypeOK, Bans, NoBan
<1>2. TypeOK'
    <2>1. alert' \in [Watched -> Alerts]
        BY DEF Quiet, Alerts, NoTimer
    <2>2. /\ req' \in [Slots -> [pc : RequestPcs, key : Keys \cup {NoKey}, at : Nat, strikes : Nat]]
          /\ \A t \in Slots : req'[t].pc = "idle"
        BY DEF Idle, RequestPcs
    <2>3. breaker' \in Breakers /\ hits' \in Seq(Nat) /\ invalid' \in [Keys -> Seq(Nat)]
        BY DEF Closed, Breakers
    <2> QED
        BY <1>1, <2>1, <2>2, <2>3 DEF TypeOK, Breakers
<1>3. AlertsTimed'
    BY DEF AlertsTimed, Timed, Quiet, NoTimer
<1>4. \A j \in Keys : Writers(j)' = {} /\ lifting' # j
    BY GuardAssumption DEF Writers, Idle
<1>5. SoleWriter' /\ HalfDone'
    BY <1>4 DEF SoleWriter, HalfDone
<1>6. AgreeOtherwise'
    BY <1>1 DEF AgreeOtherwise, Agree
<1> QED
    BY <1>2, <1>3, <1>5, <1>6

LEMMA InitEstablishes == Init => IInv
<1> SUFFICES ASSUME Init PROVE IInv
    OBVIOUS
<1> USE DEF Init
<1>1. TypeOK
    <2>1. alert \in [Watched -> Alerts]
        BY DEF Quiet, Alerts, NoTimer
    <2>2. /\ req \in [Slots -> [pc : RequestPcs, key : Keys \cup {NoKey}, at : Nat, strikes : Nat]]
          /\ \A t \in Slots : req[t].pc = "idle"
        BY DEF Idle, RequestPcs
    <2>3. breaker \in Breakers /\ hits \in Seq(Nat) /\ invalid \in [Keys -> Seq(Nat)]
        BY DEF Closed, Breakers
    <2> QED
        BY <2>1, <2>2, <2>3 DEF TypeOK, Breakers, Bans, NoBan
<1>2. AlertsTimed
    BY DEF AlertsTimed, Timed, Quiet, NoTimer
<1>3. \A j \in Keys : Writers(j) = {} /\ lifting # j
    BY GuardAssumption DEF Writers, Idle
<1>4. SoleWriter /\ HalfDone
    BY <1>3 DEF SoleWriter, HalfDone
<1>5. AgreeOtherwise
    BY DEF AgreeOtherwise, Agree
<1> QED
    BY <1>1, <1>2, <1>4, <1>5 DEF IInv

LEMMA StepPreserves == IInv /\ [Next]_vars => IInv'
<1> SUFFICES ASSUME IInv, [Next]_vars PROVE IInv'
    OBVIOUS
<1>1. CASE Restart
    BY <1>1, RestartPreserves
<1>2. CASE ~Restart
    <2>1. BreakerSteps /\ AlertsStep
        BY <1>2, StepsKeepDiscipline DEF IInv
    <2>2. AlertsTimed'
        BY <2>1 DEF AlertsStep
    <2> DEFINE Kept == TypeOK' /\ SoleWriter' /\ HalfDone' /\ AgreeOtherwise'
    <2>3. ASSUME NEW s \in Slots, NEW k \in Keys, NEW anonymous \in BOOLEAN, Arrive(s, k, anonymous)
          PROVE  Kept
        BY <2>3, ArrivePreserves
    <2>4. ASSUME NEW s \in Slots, \/ Leave(s) \/ Miss(s)
                                  \/ TripSelect(s) \/ TripUpsert(s) \/ TripMemory(s) \/ TripFails(s)
          PROVE  Kept
        BY <2>4, LeavePreserves, MissPreserves, TripSelectPreserves, TripUpsertPreserves,
           TripMemoryPreserves, TripFailsPreserves
    <2>5. ASSUME NEW k \in Keys, UnbanDelete(k) PROVE Kept
        BY <2>5, UnbanDeletePreserves
    <2>6. ASSUME UnbanForget PROVE Kept
        BY <2>6, UnbanForgetPreserves
    <2>7. ASSUME Crowd \/ GuardView \/ Tick \/ UNCHANGED vars \/ \E c \in Watched : Flush(c)
          PROVE  Kept
        <3>1. /\ UNCHANGED <<row, ban, lifting, raced, req>> /\ now' \in {now, now + 1}
              /\ now' \in Nat /\ invalid' \in [Keys -> Seq(Nat)]
            <4>1. now \in Nat /\ invalid \in [Keys -> Seq(Nat)]
                BY DEF IInv, TypeOK
            <4>2. CASE Crowd
                <5>1. \A D \in SUBSET Keys : Cleared(D) \in [Keys -> Seq(Nat)]
                    BY <4>1 DEF Cleared
                <5> QED
                    BY <4>1, <4>2, <5>1 DEF Crowd, Evicted
            <4>3. CASE GuardView \/ UNCHANGED vars
                BY <4>1, <4>3 DEF GuardView, vars
            <4>4. CASE Tick
                <5>1. now' = now + 1 /\ UNCHANGED <<row, ban, invalid, req, lifting, raced>>
                    BY <4>4, Zenon DEF Tick
                <5> QED
                    BY <4>1, <5>1
            <4>5. CASE \E c \in Watched : Flush(c)
                BY <4>1, <4>5 DEF Flush
            <4> QED
                BY <2>7, <4>2, <4>3, <4>4, <4>5
        <3>2. TypeOK'
            BY <2>1, <3>1 DEF IInv, TypeOK, BreakerSteps, Breakers, AlertsStep
        <3>3. \A j \in Keys : Writers(j)' = Writers(j)
            BY <3>1 DEF Writers
        <3> QED
            BY <3>1, <3>2, <3>3, BansKept
    <2>8. Kept
        BY <1>2, <2>3, <2>4, <2>5, <2>6, <2>7 DEF Next
    <2> QED
        BY <2>2, <2>8 DEF IInv
<1> QED
    BY <1>1, <1>2

-----------------------------------------------------------------------------
(* Theorems.                                                                 *)

\* The guard keeps its types, and each of its records its own discipline.
THEOREM GuardIsConsistent == Spec => []IInv
BY InitEstablishes, StepPreserves, PTL DEF Spec

\* What is enforced is what is on record, for every key that two writers did
\* not change at once.
THEOREM BansAreOnRecord == Spec => []BansAgree
<1>1. IInv => BansAgree
    BY DEF IInv, AgreeOtherwise, Agree, BansAgree
<1> QED
    BY <1>1, GuardIsConsistent, PTL

\* Lookups come back through half-open only, and only after the cool-down; the
\* breaker closes only after a minute of probing.
THEOREM BreakerProbes == Spec => BreakerProbesBeforeItCloses
<1>1. IInv /\ [Next]_vars =>
        [/\ breaker.state = "open" /\ breaker'.state # "open" =>
                \/ breaker'.state = "half_open" /\ now >= breaker.at
                \/ Restart
         /\ breaker.state = "half_open" /\ breaker'.state = "closed" =>
                \/ now >= breaker.at + Minute
                \/ Restart]_vars
    BY StepsKeepDiscipline DEF IInv, BreakerSteps, Probes
<1> QED
    BY <1>1, GuardIsConsistent, PTL DEF Spec, BreakerProbesBeforeItCloses

\* A class is quiet for its interval after an alert, and nothing held back is
\* forgotten.
THEOREM AlertsKeepTheirDistance == Spec => AlertsAreSpaced
<1>1. IInv /\ [Next]_vars =>
        [\A c \in Watched :
           /\ \/ alert'[c].wait > alert[c].wait
              \/ alert[c].pending /\ ~alert'[c].pending
              => alert[c].wait = 0 \/ Restart
           /\ alert'[c].pending => alert'[c].timer # NoTimer]_vars
    <2> SUFFICES ASSUME IInv, [Next]_vars, NEW c \in Watched
                 PROVE  /\ \/ alert'[c].wait > alert[c].wait
                           \/ alert[c].pending /\ ~alert'[c].pending
                           => alert[c].wait = 0 \/ Restart
                        /\ alert'[c].pending => alert'[c].timer # NoTimer
        OBVIOUS
    <2>1. CASE Restart
        BY <2>1 DEF Restart, Quiet
    <2>2. CASE ~Restart
        BY <2>2, StepsKeepDiscipline DEF IInv, AlertsStep, Spaced
    <2> QED
        BY <2>1, <2>2
<1> QED
    BY <1>1, GuardIsConsistent, PTL DEF Spec, AlertsAreSpaced
=============================================================================
