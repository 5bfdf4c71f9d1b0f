------------------------------- MODULE Guard -------------------------------
(* The guard in front of every route: per-address windows, bans kept in      *)
(* memory and in ip_bans, the circuit breaker, and the alerter that observes *)
(* it.  A handler runs to its next await in one step; each database call     *)
(* and each continuation is a step of its own.  Time is in ticks.            *)
EXTENDS Integers, Sequences, FiniteSetsExt

CONSTANTS
    Keys,           \* the address prefixes followed; others are the crowd
    NoKey,          \* no address
    Slots,          \* requests that can be in flight at once
    Budget,         \* RATE_INVALID_LOOKUP_BUDGET
    BreakerRate,    \* RATE_BREAKER_INVALID_PER_MINUTE
    Minute,         \* ticks in MINUTE_MS
    Window,         \* ticks in the invalid-lookup window
    Cooldown,       \* ticks the breaker stays open
    Ladder,         \* ban lengths in ticks, one per strike
    AlertInterval,  \* ticks between two alerts of a class
    Watched,        \* the alert classes this instance follows
    MaxMisses,      \* bound on the misses a window holds
    MaxStrikes,     \* bound on the strikes of a key
    MaxTime         \* bound: the clock stops here

ASSUME GuardAssumption ==
    /\ NoKey \notin Keys
    /\ {Budget, BreakerRate, Minute, Window, Cooldown,
        AlertInterval} \subseteq Nat \ {0}
    /\ {MaxMisses, MaxStrikes, MaxTime} \subseteq Nat
    /\ Watched \subseteq {"ban", "breaker_opened", "breaker_closed"}
    /\ Ladder \in Seq(Nat \ {0}) /\ Ladder # <<>>

VARIABLES
    now,        \* the injected clock
    row,        \* ip_bans: strikes and bannedUntil of each key, strikes 0 for no row
    ban,        \* Guard.bans, the same record in memory
    invalid,    \* Guard.invalid: the times of each key's misses
    breaker,    \* Guard.breaker
    hits,       \* Guard.breakerHits
    req,        \* the request each slot carries
    lifting,    \* the key the administrator's unban deleted and has yet to forget
    alert,      \* GuardAlerter.state of each class: ticks to the end of its
                \* window, whether a summary is held back, ticks to its timer
    raced       \* history: keys whose row two writers changed at once since start

vars == <<now, row, ban, invalid, breaker, hits, req, lifting, alert,
          raced>>

NoBan == [strikes |-> 0, until |-> 0]
Idle == [pc |-> "idle", key |-> NoKey, at |-> 0, strikes |-> 0]
Closed == [state |-> "closed", at |-> 0, invalid |-> 0]
NoTimer == -1
Quiet == [wait |-> 0, pending |-> FALSE, timer |-> NoTimer]

Init ==
    /\ now = 1 /\ raced = {} /\ lifting = NoKey
    /\ row = [k \in Keys |-> NoBan] /\ ban = row
    /\ invalid = [k \in Keys |-> <<>>]
    /\ breaker = Closed /\ hits = <<>>
    /\ req = [s \in Slots |-> Idle]
    /\ alert = [c \in Watched |-> Quiet]

-----------------------------------------------------------------------------
(* Sliding windows.  The table is bounded: a new key in a full table evicts   *)
(* the stale keys, or else the least recently active tenth.                  *)

FromHead(s, cutoff) ==                  \* shift() while the head is stale
    LET fresh == {i \in DOMAIN s : s[i] > cutoff}
    IN IF fresh = {} THEN <<>> ELSE SubSeq(s, Min(fresh), Len(s))

Recorded(k) == Append(FromHead(invalid[k], now - Window), now)

Activity(k) == IF invalid[k] = <<>> THEN 0 ELSE invalid[k][Len(invalid[k])]

\* The sets an eviction can drop when other addresses fill the table.
Evicted == {D \in SUBSET Keys : \A d \in D, k \in Keys \ D : Activity(d) <= Activity(k)}

Cleared(ks) == [k \in Keys |-> IF k \in ks THEN <<>> ELSE invalid[k]]

-----------------------------------------------------------------------------
(* The alerter: onEvent sends at once or coalesces behind one timer.         *)

Sent(a) == [a EXCEPT !.wait = AlertInterval]
Coalesced(a) ==
    [a EXCEPT !.pending = TRUE, !.timer = IF @ = NoTimer THEN a.wait ELSE @]

OnEventIgnoresPending(a) ==             \* Seeded bug: `&& !st.pending` dropped
    IF a.wait = 0 THEN Sent(a) ELSE Coalesced(a)

OnEvent(a) == IF a.wait = 0 /\ ~a.pending THEN Sent(a) ELSE Coalesced(a)

Raise(classes) ==
    alert' = [c \in Watched |-> IF c \in classes THEN OnEvent(alert[c]) ELSE alert[c]]

\* The trailing summary of a class; the timer may fire late, never early.
Flush(c) ==
    /\ alert[c].timer = 0
    /\ alert' = [alert EXCEPT ![c] = [(IF @.pending THEN Sent(@) ELSE @)
                                        EXCEPT !.timer = NoTimer, !.pending = FALSE]]
    /\ UNCHANGED <<now, row, ban, invalid, breaker, hits, req, lifting, raced>>

-----------------------------------------------------------------------------
(* The breaker.                                                              *)

Tolerance == Max({1, (BreakerRate + 9) \div 10})
Open(t) == [state |-> "open", at |-> t + Cooldown, invalid |-> 0]

\* What breakerGate leaves: a due transition happens on the read.
GateForgetsProbe ==                     \* Seeded bug: half-open closes at once
    CASE breaker.state = "open" /\ now >= breaker.at ->
            [state |-> "half_open", at |-> now, invalid |-> 0]
      [] breaker.state = "half_open" -> Closed
      [] OTHER -> breaker

Gate ==
    CASE breaker.state = "open" /\ now >= breaker.at ->
            [state |-> "half_open", at |-> now, invalid |-> 0]
      [] breaker.state = "half_open" /\ now - breaker.at >= Minute -> Closed
      [] OTHER -> breaker

PassGate ==
    /\ breaker' = Gate
    /\ hits' = IF Gate # breaker /\ Gate = Closed THEN <<>> ELSE hits
    /\ Raise(IF Gate # breaker /\ Gate = Closed THEN {"breaker_closed"} ELSE {})

Floods(counted) == Len(counted) > BreakerRate

\* recordBreakerHit with the time t the handler read before its awaits;
\* `raised` are the events of the same continuation.
BreakerHit(t, raised) ==
    LET counted == Append(FromHead(hits, t - Minute), t)
        opens == \/ breaker.state = "half_open" /\ breaker.invalid + 1 >= Tolerance
                 \/ breaker.state = "closed" /\ Floods(counted)
    IN /\ breaker' = CASE opens -> Open(t)
                       [] breaker.state = "half_open" /\ ~opens -> [breaker EXCEPT !.invalid = @ + 1]
                       [] OTHER -> breaker
       /\ hits' = CASE opens -> <<>>
                    [] breaker.state = "closed" /\ ~opens -> counted
                    [] OTHER -> hits
       /\ Raise(raised \cup IF opens THEN {"breaker_opened"} ELSE {})

-----------------------------------------------------------------------------
(* Requests on the secret routes.                                            *)

Banned(k) == ban[k] # NoBan /\ ban[k].until > now

\* onRequest: the ban, the breaker, the general cap.  A session cookie passes an
\* open breaker; the cap's own table touches nothing else, so its verdict on an
\* anonymous request is left open.
Arrive(s, k, anonymous) ==
    /\ req[s] = Idle
    /\ ban' = IF ban[k].until <= now THEN [ban EXCEPT ![k] = NoBan] ELSE ban
    /\ \/ Banned(k) /\ UNCHANGED <<breaker, hits, req, alert>>
       \/ ~Banned(k) /\ PassGate
          /\ \/ /\ Gate.state # "open" \/ ~anonymous
                /\ req' = [req EXCEPT ![s] = [Idle EXCEPT !.pc = "lookup", !.key = k]]
             \/ anonymous /\ UNCHANGED req
    /\ UNCHANGED <<now, row, invalid, lifting, raced>>

\* The id exists, or the cookie names no live session: nothing is counted.
Leave(s) ==
    /\ req[s].pc = "lookup"
    /\ req' = [req EXCEPT ![s] = Idle]
    /\ UNCHANGED <<now, row, ban, invalid, breaker, hits, lifting, alert, raced>>

\* A miss of an address outside Keys: it reaches the same breaker, and its
\* entry may evict others from the table.
Crowd ==
    /\ \E D \in Evicted : invalid' = Cleared(D)
    /\ BreakerHit(now, {})
    /\ UNCHANGED <<now, row, ban, req, lifting, raced>>

Writers(k) == {s \in Slots : req[s].key = k /\ req[s].pc \in {"select", "upsert", "memory"}}

\* recordInvalidLookup: count the miss; past the budget tripBan begins.
Miss(s) ==
    /\ req[s].pc = "lookup" /\ Len(invalid[req[s].key]) < MaxMisses
    /\ LET k == req[s].key
       IN /\ invalid' = [invalid EXCEPT ![k] = Recorded(k)]
          /\ IF Len(Recorded(k)) > Budget
             THEN /\ req' = [req EXCEPT ![s].pc = "select", ![s].at = now]
                  /\ raced' = IF Writers(k) # {} \/ lifting = k THEN raced \cup {k} ELSE raced
                  /\ UNCHANGED <<breaker, hits, alert>>
             ELSE /\ BreakerHit(now, {})
                  /\ req' = [req EXCEPT ![s] = Idle]
                  /\ UNCHANGED raced
    /\ UNCHANGED <<now, row, ban, lifting>>

\* tripBan reads the strikes; the row is authoritative for them.
TripSelect(s) ==
    /\ req[s].pc = "select" /\ row[req[s].key].strikes < MaxStrikes
    /\ req' = [req EXCEPT ![s].pc = "upsert", ![s].strikes = row[req[s].key].strikes + 1]
    /\ UNCHANGED <<now, row, ban, invalid, breaker, hits, lifting, alert, raced>>

Sentence(r) == [strikes |-> r.strikes,
                until |-> r.at + Ladder[Min({r.strikes, Len(Ladder)})]]

TripUpsert(s) ==
    /\ req[s].pc = "upsert"
    /\ row' = [row EXCEPT ![req[s].key] = Sentence(req[s])]
    /\ req' = [req EXCEPT ![s].pc = "memory"]
    /\ UNCHANGED <<now, ban, invalid, breaker, hits, lifting, alert, raced>>

\* The UPSERT has answered: the ban takes effect, and the miss reaches the
\* breaker with the time it was counted at.
TripMemory(s) ==
    /\ req[s].pc = "memory"
    /\ ban' = [ban EXCEPT ![req[s].key] = Sentence(req[s])]
    /\ invalid' = Cleared({req[s].key})
    /\ BreakerHit(req[s].at, {"ban"})
    /\ req' = [req EXCEPT ![s] = Idle]
    /\ UNCHANGED <<now, row, lifting, raced>>

\* A database error rejects the lookup: no ban, no breaker hit.
TripFails(s) ==
    /\ req[s].pc \in {"select", "upsert"}
    /\ req' = [req EXCEPT ![s] = Idle]
    /\ UNCHANGED <<now, row, ban, invalid, breaker, hits, lifting, alert, raced>>

-----------------------------------------------------------------------------
(* The administrator, the clock and the process.                             *)

\* Unban: the transaction deletes the row (404 when there is none) ...
UnbanDelete(k) ==
    /\ lifting = NoKey /\ row[k] # NoBan
    /\ row' = [row EXCEPT ![k] = NoBan] /\ lifting' = k
    /\ raced' = IF Writers(k) # {} THEN raced \cup {k} ELSE raced
    /\ UNCHANGED <<now, ban, invalid, breaker, hits, req, alert>>

\* ... and its continuation is forgetBan.
UnbanForget ==
    /\ lifting # NoKey
    /\ ban' = [ban EXCEPT ![lifting] = NoBan]
    /\ invalid' = Cleared({lifting})
    /\ lifting' = NoKey
    /\ UNCHANGED <<now, row, breaker, hits, req, alert, raced>>

\* The guard view lets a due breaker transition happen.
GuardView ==
    /\ Gate # breaker /\ PassGate
    /\ UNCHANGED <<now, row, ban, invalid, req, lifting, raced>>

\* A restart: init() loads the active rows; windows, breaker and alerts begin empty.
RestartLoadsExpired ==                  \* Seeded bug: lt for gt
    [k \in Keys |-> IF row[k].until < now THEN row[k] ELSE NoBan]
LoadBans == [k \in Keys |-> IF row[k].until > now THEN row[k] ELSE NoBan]

Restart ==
    /\ raced' = {} /\ lifting' = NoKey
    /\ ban' = LoadBans
    /\ invalid' = [k \in Keys |-> <<>>]
    /\ breaker' = Closed /\ hits' = <<>>
    /\ req' = [s \in Slots |-> Idle]
    /\ alert' = [c \in Watched |-> Quiet]
    /\ UNCHANGED <<now, row>>

Tick ==
    /\ now < MaxTime /\ now' = now + 1
    /\ alert' = [c \in Watched |-> [alert[c] EXCEPT !.wait = Max({0, @ - 1}),
                                        !.timer = IF @ > 0 THEN @ - 1 ELSE @]]
    /\ UNCHANGED <<row, ban, invalid, breaker, hits, req, lifting, raced>>

Next ==
    \/ \E s \in Slots, k \in Keys, anonymous \in BOOLEAN : Arrive(s, k, anonymous)
    \/ \E s \in Slots : \/ Leave(s) \/ Miss(s)
                        \/ TripSelect(s) \/ TripUpsert(s) \/ TripMemory(s) \/ TripFails(s)
    \/ \E k \in Keys : UnbanDelete(k)
    \/ Crowd \/ UnbanForget \/ GuardView \/ Restart \/ Tick
    \/ \E c \in Watched : Flush(c)

Spec == Init /\ [][Next]_vars

-----------------------------------------------------------------------------
(* Properties.                                                               *)

\* Memory and ip_bans tell the same story of every key that two writers did
\* not change at once: the ban that is enforced is the one on record, and an
\* active row is enforced, across restarts, expiry, unbans and failed queries.
BansAgree ==
    \A k \in Keys \ raced :
        Writers(k) = {} /\ lifting # k =>
            /\ ban[k] # NoBan => ban[k] = row[k]
            /\ row[k].until > now => ban[k] = row[k]

\* The breaker leaves "open" only through half-open and only after its
\* cool-down, and closes only after a minute of probing; a restart aside.
BreakerProbesBeforeItCloses ==
    [][/\ breaker.state = "open" /\ breaker'.state # "open" =>
            \/ breaker'.state = "half_open" /\ now >= breaker.at
            \/ Restart
       /\ breaker.state = "half_open" /\ breaker'.state = "closed" =>
            \/ now >= breaker.at + Minute
            \/ Restart]_vars

\* No class sends two alerts within its interval, and a summary held back has
\* a timer that will send it, however events and late timers interleave.
AlertsAreSpaced ==
    [][\A c \in Watched :
         /\ \/ alert'[c].wait > alert[c].wait
            \/ alert[c].pending /\ ~alert'[c].pending
            => alert[c].wait = 0 \/ Restart
         /\ alert'[c].pending => alert'[c].timer # NoTimer]_vars
=============================================================================
