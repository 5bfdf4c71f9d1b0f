--------------------------- MODULE AccountsProofs ---------------------------
(* Proofs about accounts, links and the login throttle for any users, slots, *)
(* sessions and links and any throttle settings.                             *)
(*                                                                           *)
(* The argument.  Entitlement travels along a request: the login that        *)
(* verified, the request that is about to insert its session and the session *)
(* itself all rest on the password of the row, until a change of the row     *)
(* deletes the sessions and overtakes the requests in its one transaction.   *)
(* A link is used where it is consumed, in one conditional UPDATE.  A login  *)
(* is admitted under no lock, so a lock that appears while it runs is the    *)
(* work of a later failure.                                                  *)
(*                                                                           *)
(* Then about the two pages: a list carries the place it was asked for, and  *)
(* a handler that runs alone still owes what it has not refreshed.           *)
EXTENDS Accounts, AccountPages, TLAPS

UserRow == [row : {TRUE}, disabled : BOOLEAN, password : 0..MaxPassword]
UserRows == {None} \cup UserRow
SessionRows ==
    {None} \cup [row : {TRUE}, user : Users, expires : Nat, password : Passwords, stale : BOOLEAN]
LinkRow == [row : {TRUE}, user : Users, consumed : BOOLEAN, expires : Nat, uses : Nat]
LinkRows == {None} \cup LinkRow
Entries == [failures : 0..(MaxFailures + 1), lockedUntil : Nat, last : Nat]
Requests ==
    {Idle} \cup [pc : {"insert"}, user : Users, password : Passwords]
           \cup [pc : {"session"}, user : Users, password : Passwords, stale : BOOLEAN]
           \cup [pc : {"read"}, user : Users, password : Passwords, at : Nat]
           \cup [pc : {"verified"}, user : Users, password : Passwords, at : Nat,
                 stale : BOOLEAN, ok : BOOLEAN]
           \cup [pc : {"consume"}, link : Links, password : Passwords, at : Nat]
           \cup [pc : {"enable"}, user : Users]

TypeOK ==
    /\ now \in Nat /\ registration \in BOOLEAN
    /\ user \in [Users -> UserRows]
    /\ session \in [Sessions -> SessionRows]
    /\ link \in [Links -> LinkRows]
    /\ throttle \in [Users -> Entries]
    /\ req \in [Slots -> Requests]

\* Whoever knows p may act as u.
Entitled(u, p) == Enabled(u) /\ user[u].password = p

\* What a request in flight still rests on.
Rests(r) ==
    /\ r.pc = "session" /\ ~r.stale => Entitled(r.user, r.password)
    /\ r.pc = "verified" /\ r.ok /\ ~r.stale => Entitled(r.user, r.password)
    /\ r.pc = "consume" => Is(link[r.link])
    /\ r.pc = "enable" => Is(user[r.user])

RequestsRest == \A s \in Slots : Rests(req[s])

SessionsRest ==
    \A i \in Sessions : Is(session[i]) /\ ~session[i].stale =>
        Entitled(session[i].user, session[i].password)

\* A login was admitted in the past, and before the failure of any lock.
Admitted(r) ==
    r.pc \in {"read", "verified"} =>
        /\ r.at <= now
        /\ throttle[r.user].lockedUntil > now => r.at <= throttle[r.user].last

LoginsAdmitted == \A s \in Slots : Admitted(req[s])

IInv ==
    /\ TypeOK
    /\ RequestsRest
    /\ SessionsRest
    /\ LinksWorkOnce
    /\ LoginsAdmitted
-----------------------------------------------------------------------------
(* The throttle.                                                             *)

LEMMA MinOfTwo ==
    ASSUME NEW a \in Nat, NEW b \in Nat
    PROVE  Min({a, b}) \in Nat
<1>1. \E x \in {a, b} : \A y \in {a, b} : x <= y
    BY a <= b \/ b <= a
<1> QED
    BY <1>1 DEF Min

\* What live() returns is the entry or no entry, never a longer lock.
LEMMA EntryOf ==
    ASSUME TypeOK, NEW u \in Users
    PROVE  /\ Entry(u) \in {throttle[u], NoEntry}
           /\ Entry(u) \in Entries /\ NoEntry \in Entries /\ NoEntry.lockedUntil = 0
<1>1. NoEntry \in Entries /\ NoEntry.lockedUntil = 0
    BY AccountsAssumption DEF NoEntry, Entries
<1> QED
    BY <1>1 DEF Entry, TypeOK

LEMMA FailedOf ==
    ASSUME TypeOK, NEW u \in Users, throttle[u].failures < MaxFailures
    PROVE  Failed(u) \in Entries /\ Failed(u).last = now
<1> USE AccountsAssumption
<1> DEFINE e == Entry(u)
           n == e.failures + 1
           over == n - FreeAttempts
<1>1. e \in Entries /\ throttle[u] \in Entries
    BY EntryOf DEF TypeOK
<1>2. e.failures \in Nat /\ e.failures < MaxFailures /\ MaxFailures \in Nat /\ e.lockedUntil \in Nat
    <2>1. e.failures \in 0..(MaxFailures + 1) /\ e.lockedUntil \in Nat /\ MaxFailures \in Nat
        BY <1>1 DEF Entries
    <2>2. CASE e = throttle[u]
        BY <2>1, <2>2
    <2>3. CASE e = NoEntry
        BY <2>1, <2>3, <1>1 DEF NoEntry, Entries
    <2> QED
        BY <2>2, <2>3, EntryOf
<1>3. ASSUME over > 0
      PROVE  now + Min({BaseSeconds * 2^(over - 1), MaxSeconds}) \in Nat
    <2>1. over - 1 \in 0..MaxFailures
        BY <1>2, <1>3
    <2>2. 2^(over - 1) \in Nat
        BY <2>1, PowerAssumption
    <2>3. BaseSeconds * 2^(over - 1) \in Nat /\ MaxSeconds \in Nat
        BY <2>2
    <2> HIDE DEF over
    <2> QED
        BY <2>3, MinOfTwo DEF TypeOK
<1>4. (IF over > 0 THEN now + Min({BaseSeconds * 2^(over - 1), MaxSeconds})
       ELSE e.lockedUntil) \in Nat
    BY <1>2, <1>3
<1>5. n \in 0..(MaxFailures + 1) /\ now \in Nat
    BY <1>2 DEF TypeOK
<1>6. Failed(u) = [failures |-> n, last |-> now,
                   lockedUntil |-> IF over > 0
                        THEN now + Min({BaseSeconds * 2^(over - 1), MaxSeconds})
                        ELSE e.lockedUntil]
    BY DEF Failed
<1> HIDE DEF n, over, e
<1> QED
    BY <1>4, <1>5, <1>6 DEF Entries

LEMMA InitEstablishes == Init => IInv
<1> SUFFICES ASSUME Init PROVE IInv
    OBVIOUS
<1> USE AccountsAssumption DEF Init
<1>1. TypeOK
    <2>1. NoEntry \in Entries /\ FailedOnceAt0 \in Entries
        <3>1. Min({BaseSeconds, MaxSeconds}) \in Nat
            BY MinOfTwo
        <3> QED
            BY <3>1 DEF NoEntry, FailedOnceAt0, Entries
    <2>2. req \in [Slots -> Requests]
        BY DEF Requests
    <2> QED
        BY <2>1, <2>2 DEF TypeOK, UserRows, SessionRows, LinkRows
<1>2. RequestsRest /\ LoginsAdmitted
    BY DEF RequestsRest, Rests, LoginsAdmitted, Admitted, Idle
<1>3. SessionsRest /\ LinksWorkOnce
    BY DEF SessionsRest, LinksWorkOnce, Is
<1> QED
    BY <1>1, <1>2, <1>3 DEF IInv

-----------------------------------------------------------------------------
(* Steps that only move one request.                                         *)

rows == <<now, registration, user, session, link>>

LEMMA RowsKept ==
    ASSUME UNCHANGED <<user, link>>
    PROVE  /\ \A u, p : Entitled(u, p)' <=> Entitled(u, p)
           /\ \A r : Rests(r)' <=> Rests(r)
<1>1. \A u, p : Entitled(u, p)' <=> Entitled(u, p)
    BY DEF Entitled, Enabled
<1> QED
    BY <1>1 DEF Rests

\* One slot moves to r; the throttle changes for the user of r at most.
LEMMA RequestMoves ==
    ASSUME IInv, NEW s \in Slots, NEW r \in Requests,
           req' = [req EXCEPT ![s] = r], UNCHANGED rows,
           Rests(r), throttle' \in [Users -> Entries],
           \A t \in Slots : Admitted(req[t])'
    PROVE  IInv'
<1> USE DEF IInv, rows
<1>1. TypeOK'
    BY DEF TypeOK
<1>2. \A t \in Slots : req'[t] = r \/ req'[t] = req[t]
    BY DEF TypeOK
<1>3. RequestsRest'
    BY <1>2, RowsKept DEF RequestsRest
<1>4. SessionsRest' /\ LinksWorkOnce'
    BY RowsKept DEF SessionsRest, LinksWorkOnce
<1>5. LoginsAdmitted'
    BY DEF LoginsAdmitted
<1> QED
    BY <1>1, <1>3, <1>4, <1>5

\* With the throttle unchanged only r itself must have been admitted.
LEMMA RequestMovesAlone ==
    ASSUME IInv, NEW s \in Slots, NEW r \in Requests,
           req' = [req EXCEPT ![s] = r], UNCHANGED <<rows, throttle>>,
           Rests(r), Admitted(r)
    PROVE  IInv'
<1>1. \A t \in Slots : req'[t] = r \/ req'[t] = req[t]
    BY DEF IInv, TypeOK
<1>2. \A t \in Slots : Admitted(req[t])'
    BY <1>1 DEF IInv, LoginsAdmitted, Admitted, rows
<1>3. throttle' \in [Users -> Entries]
    BY DEF IInv, TypeOK
<1> QED
    BY <1>2, <1>3, RequestMoves

LEMMA SignUpPreserves ==
    ASSUME IInv, NEW s \in Slots, NEW u \in Users, NEW p \in Passwords, SignUp(s, u, p)
    PROVE  IInv'
<1> DEFINE r == [pc |-> "insert", user |-> u, password |-> p]
<1>1. r \in Requests /\ Rests(r) /\ Admitted(r)
    BY DEF Requests, Rests, Admitted
<1> QED
    BY <1>1, RequestMovesAlone DEF SignUp, Go, rows

LEMMA SetPasswordPreserves ==
    ASSUME IInv, NEW s \in Slots, NEW l \in Links, NEW p \in Passwords, SetPassword(s, l, p)
    PROVE  IInv'
<1> DEFINE r == [pc |-> "consume", link |-> l, password |-> p, at |-> now]
<1>1. r \in Requests /\ Rests(r) /\ Admitted(r)
    BY DEF Requests, Rests, Admitted, SetPassword, IInv, TypeOK
<1> QED
    BY <1>1, RequestMovesAlone DEF SetPassword, Go, rows

LEMMA EnablePreserves ==
    ASSUME IInv, NEW s \in Slots, NEW u \in Users, Enable(s, u)
    PROVE  IInv'
<1> DEFINE r == [pc |-> "enable", user |-> u]
<1>1. r \in Requests /\ Rests(r) /\ Admitted(r)
    BY DEF Requests, Rests, Admitted, Enable
<1> QED
    BY <1>1, RequestMovesAlone DEF Enable, Go, rows

\* A login is admitted under no lock.
LEMMA LoginPreserves ==
    ASSUME IInv, NEW s \in Slots, NEW u \in Users, NEW p \in Passwords, Login(s, u, p)
    PROVE  IInv'
<1> USE DEF Login, Go, rows
<1> DEFINE r == [pc |-> "read", user |-> u, password |-> p, at |-> now]
<1>1. r \in Requests /\ Rests(r)
    BY DEF Requests, Rests, IInv, TypeOK
<1>2. /\ throttle' \in [Users -> Entries]
      /\ throttle'[u] = Entry(u) /\ ~(Entry(u).lockedUntil > now)
      /\ \A v \in Users : v # u => throttle'[v] = throttle[v]
    BY EntryOf DEF IInv, TypeOK, Locked
<1>3. ASSUME NEW t \in Slots PROVE Admitted(req[t])'
    <2>1. CASE t = s
        <3>1. req'[t] = r
            BY <2>1 DEF IInv, TypeOK
        <3> QED
            BY <1>2, <3>1 DEF Admitted, IInv, TypeOK
    <2>2. CASE t # s
        <3>1. req'[t] = req[t] /\ Admitted(req[t])
            BY <2>2 DEF IInv, TypeOK, LoginsAdmitted
        <3> QED
            BY <1>2, <3>1 DEF Admitted, IInv, TypeOK, Requests
    <2> QED
        BY <2>1, <2>2
<1> QED
    BY <1>1, <1>2, <1>3, RequestMoves

LEMMA LoginReadPreserves ==
    ASSUME IInv, NEW s \in Slots, LoginRead(s)
    PROVE  IInv'
<1> USE DEF LoginRead
<1> DEFINE r == [pc |-> "verified", user |-> req[s].user, password |-> req[s].password,
                 at |-> req[s].at, stale |-> FALSE,
                 ok |-> Enabled(req[s].user) /\ user[req[s].user].password = req[s].password]
<1>1. req[s] \in [pc : {"read"}, user : Users, password : Passwords, at : Nat]
    BY DEF IInv, TypeOK, Requests, Idle
<1>2. r \in Requests
    BY <1>1 DEF Requests
<1>3. Rests(r)
    BY DEF Rests, Entitled
<1>4. Admitted(r)
    BY DEF Admitted, IInv, LoginsAdmitted
<1>5. req' = [req EXCEPT ![s] = r] /\ UNCHANGED <<rows, throttle>>
    BY DEF IInv, TypeOK, rows
<1> QED
    BY <1>2, <1>3, <1>4, <1>5, RequestMovesAlone

LEMMA LoginEndPreserves ==
    ASSUME IInv, NEW s \in Slots, LoginEnd(s)
    PROVE  IInv'
<1> USE DEF LoginEnd
<1> DEFINE r == req[s]
<1>1. r \in [pc : {"verified"}, user : Users, password : Passwords, at : Nat,
             stale : BOOLEAN, ok : BOOLEAN]
    BY DEF IInv, TypeOK, Requests, Idle
<1>2. CASE /\ r.ok /\ throttle' = [throttle EXCEPT ![r.user] = NoEntry]
           /\ req' = [req EXCEPT ![s] = SessionFor(r.user, r.password, r.stale)]
    <2> DEFINE n == SessionFor(r.user, r.password, r.stale)
    <2>1. n \in Requests /\ Rests(n) /\ n.pc = "session"
        BY <1>1, <1>2 DEF SessionFor, Requests, Rests, IInv, RequestsRest
    <2>2. throttle' \in [Users -> Entries]
        BY <1>2, EntryOf, <1>1 DEF IInv, TypeOK
    <2>3. ASSUME NEW t \in Slots PROVE Admitted(req[t])'
        <3>1. req'[t] = n \/ req'[t] = req[t]
            BY <1>2 DEF IInv, TypeOK
        <3>2. \A v \in Users : throttle'[v] = throttle[v] \/ throttle'[v].lockedUntil = 0
            BY <1>1, <1>2, EntryOf DEF IInv, TypeOK
        <3>3. CASE req'[t] = n
            BY <2>1, <3>3 DEF Admitted
        <3>4. CASE req'[t] = req[t]
            <4> SUFFICES ASSUME req[t].pc \in {"read", "verified"}
                         PROVE  /\ req[t].at <= now
                                /\ throttle'[req[t].user].lockedUntil > now =>
                                        req[t].at <= throttle'[req[t].user].last
                BY <3>4 DEF Admitted, rows
            <4>1. req[t].user \in Users
                BY DEF IInv, TypeOK, Requests, Idle
            <4> QED
                BY <3>2, <4>1 DEF Admitted, IInv, LoginsAdmitted, TypeOK
        <3> QED
            BY <3>1, <3>3, <3>4
    <2> QED
        BY <1>2, <2>1, <2>2, <2>3, RequestMoves DEF rows
<1>3. CASE /\ throttle[r.user].failures < MaxFailures
           /\ throttle' = [throttle EXCEPT ![r.user] = Failed(r.user)]
           /\ req' = [req EXCEPT ![s] = Idle]
    <2>1. Idle \in Requests /\ Rests(Idle) /\ Idle.pc = "idle"
        BY DEF Requests, Rests, Idle
    <2>2. /\ throttle' \in [Users -> Entries]
          /\ \A v \in Users : throttle'[v] = throttle[v] \/ throttle'[v].last = now
        BY <1>1, <1>3, FailedOf DEF IInv, TypeOK
    <2>3. ASSUME NEW t \in Slots PROVE Admitted(req[t])'
        <3>1. req'[t] = Idle \/ req'[t] = req[t]
            BY <1>3 DEF IInv, TypeOK
        <3> QED
            BY <2>1, <2>2, <3>1 DEF Admitted, IInv, LoginsAdmitted, TypeOK, Requests
    <2> QED
        BY <1>3, <2>1, <2>2, <2>3, RequestMoves DEF rows
<1> QED
    BY <1>2, <1>3 DEF Done

-----------------------------------------------------------------------------
(* Steps that change the rows.                                               *)

\* Requests and logins are not about sessions.
LEMMA CreateSessionPreserves ==
    ASSUME IInv, NEW s \in Slots, CreateSession(s)
    PROVE  IInv'
<1> USE DEF CreateSession, Done
<1> DEFINE r == req[s]
           n == [row |-> TRUE, user |-> r.user, expires |-> now + SessionTtl,
                 password |-> r.password, stale |-> r.stale]
<1>1. r \in [pc : {"session"}, user : Users, password : Passwords, stale : BOOLEAN]
    BY DEF IInv, TypeOK, Requests, Idle
<1>2. n \in SessionRows /\ (~n.stale => Entitled(n.user, n.password))
    BY <1>1, AccountsAssumption DEF SessionRows, IInv, TypeOK, RequestsRest, Rests
<1>3. PICK i \in Sessions : session' = [session EXCEPT ![i] = n]
    OBVIOUS
<1>4. Idle \in Requests /\ Rests(Idle) /\ Idle.pc = "idle"
    BY DEF Requests, Rests, Idle
<1>5. TypeOK'
    BY <1>2, <1>3, <1>4 DEF IInv, TypeOK
<1>6. \A t \in Slots : req'[t] = Idle \/ req'[t] = req[t]
    BY DEF IInv, TypeOK
<1>7. RequestsRest'
    BY <1>4, <1>6, RowsKept DEF IInv, RequestsRest
<1>8. SessionsRest'
    <2>1. \A j \in Sessions : session'[j] = n \/ session'[j] = session[j]
        BY <1>3 DEF IInv, TypeOK
    <2> QED
        BY <1>2, <2>1, RowsKept DEF IInv, SessionsRest
<1>9. LinksWorkOnce' /\ LoginsAdmitted'
    BY <1>4, <1>6 DEF IInv, LinksWorkOnce, LoginsAdmitted, Admitted
<1> QED
    BY <1>5, <1>7, <1>8, <1>9 DEF IInv

LEMMA UserRowOf ==
    ASSUME NEW p \in 0..MaxPassword
    PROVE  LET x == [row |-> TRUE, disabled |-> FALSE, password |-> p]
           IN x \in UserRow /\ ~x.disabled /\ x.password = p
BY DEF UserRow

LEMMA RowIsThere ==
    ASSUME NEW x, x \in UserRow \/ x \in LinkRow
    PROVE  Is(x) /\ x # None
<1>1. CASE x \in UserRow
    BY <1>1 DEF UserRow, Is, None
<1>2. CASE x \in LinkRow
    BY <1>2 DEF LinkRow, Is, None
<1> QED
    BY <1>1, <1>2

LEMMA ThereIsRow ==
    /\ \A x \in UserRows : Is(x) => x \in UserRow
    /\ \A x \in LinkRows : Is(x) => x \in LinkRow
BY DEF UserRows, LinkRows, Is

LEMMA SessionHasUser ==
    ASSUME TypeOK, NEW i \in Sessions, Is(session[i])
    PROVE  session[i].user \in Users
BY DEF TypeOK, SessionRows, Is

\* Only the row of u changes and stays entitled to what it was: everybody else
\* keeps what he rests on.
LEMMA OthersKeep ==
    ASSUME IInv, NEW u \in Users, \A v \in Users : v # u => user'[v] = user[v]
    PROVE  \A v \in Users : v # u => \A p : (Entitled(v, p)' <=> Entitled(v, p))
BY DEF Entitled, Enabled

LEMMA SignUpInsertPreserves ==
    ASSUME IInv, NEW s \in Slots, SignUpInsert(s)
    PROVE  IInv'
<1> USE DEF SignUpInsert
<1> DEFINE r == req[s]
<1>0. r \in [pc : {"insert"}, user : Users, password : Passwords]
    BY DEF IInv, TypeOK, Requests, Idle
<1>1. PICK u \in Users, p \in Passwords : u = r.user /\ p = r.password
    BY <1>0
<1> DEFINE n == SessionFor(u, p, FALSE)
<1>2. CASE Is(user[u]) /\ Done(s) /\ UNCHANGED user
    <2>1. Idle \in Requests /\ Rests(Idle) /\ Admitted(Idle)
        BY DEF Requests, Rests, Admitted, Idle
    <2> QED
        BY <1>2, <2>1, RequestMovesAlone DEF Done, rows
<1>3. CASE /\ ~Is(user[u])
           /\ user' = [user EXCEPT ![u] = [row |-> TRUE, disabled |-> FALSE,
                                           password |-> p]]
           /\ req' = [req EXCEPT ![s] = n]
    <2>1. /\ n \in Requests /\ n.pc = "session" /\ n.user = u /\ n.password = p
          /\ \A t \in Slots : req'[t] = n \/ req'[t] = req[t]
        BY <1>1, <1>3 DEF SessionFor, Requests, IInv, TypeOK
    <2>2. /\ user'[u] = [row |-> TRUE, disabled |-> FALSE, password |-> p]
          /\ \A v \in Users : v # u => user'[v] = user[v]
        BY <1>1, <1>3 DEF IInv, TypeOK
    <2>3. user'[u] \in UserRows /\ Is(user[u])' /\ Entitled(u, p)'
        <3>1. p \in Passwords /\ p \in 0..MaxPassword
            BY <1>1, AccountsAssumption DEF Passwords
        <3>2. user'[u] \in UserRow /\ ~user'[u].disabled /\ user'[u].password = p
            BY <2>2, <3>1, UserRowOf
        <3> QED
            BY <3>2, RowIsThere DEF Entitled, Enabled, UserRows
    <2>4. TypeOK'
        <3>1. user' \in [Users -> UserRows]
            BY <1>3, <2>2, <2>3 DEF IInv, TypeOK
        <3> QED
            BY <1>3, <2>1, <3>1 DEF IInv, TypeOK
    <2>5. \A q : ~Entitled(u, q)
        BY <1>3 DEF Entitled, Enabled
    <2>6. RequestsRest'
        <3> SUFFICES ASSUME NEW t \in Slots PROVE Rests(req[t])'
            BY DEF RequestsRest
        <3>1. CASE req'[t] = n
            BY <2>1, <2>3, <3>1 DEF Rests
        <3>2. CASE req'[t] = req[t]
            <4>1. req[t].pc \in {"session", "verified", "enable"} => req[t].user \in Users
                BY DEF IInv, TypeOK, Requests, Idle
            <4>2. Rests(req[t])
                BY DEF IInv, RequestsRest
            <4>3. \A v \in Users : Is(user[v]) => Is(user[v])'
                BY <2>2, <2>3 DEF Is
            <4> QED
                BY <1>1, <2>2, <2>5, <3>2, <4>1, <4>2, <4>3, OthersKeep DEF Rests
        <3> QED
            BY <2>1, <3>1, <3>2
    <2>7. SessionsRest'
        BY <1>1, <2>2, <2>5, OthersKeep, SessionHasUser DEF IInv, SessionsRest
    <2>8. LinksWorkOnce' /\ LoginsAdmitted'
        BY <2>1 DEF IInv, LinksWorkOnce, LoginsAdmitted, Admitted
    <2> QED
        BY <2>4, <2>6, <2>7, <2>8 DEF IInv
<1> QED
    BY <1>1, <1>2, <1>3

LEMMA LogoutPreserves ==
    ASSUME IInv, NEW i \in Sessions, Logout(i)
    PROVE  IInv'
<1> USE DEF Logout
<1>1. TypeOK'
    BY DEF IInv, TypeOK, SessionRows
<1>2. SessionsRest'
    <2>1. \A j \in Sessions : session'[j] = None \/ session'[j] = session[j]
        BY DEF IInv, TypeOK
    <2> QED
        BY <2>1, RowsKept DEF IInv, SessionsRest, Is
<1>3. RequestsRest' /\ LinksWorkOnce' /\ LoginsAdmitted'
    BY RowsKept DEF IInv, RequestsRest, LinksWorkOnce, LoginsAdmitted, Admitted
<1> QED
    BY <1>1, <1>2, <1>3 DEF IInv

LEMMA TickPreserves ==
    ASSUME IInv, Tick \/ SetRegistration
    PROVE  IInv'
<1>1. /\ UNCHANGED <<user, session, link, throttle, req>>
      /\ now' \in {now, now + 1} /\ now' \in Nat /\ now \in Nat /\ registration' \in BOOLEAN
    <2>1. registration' \in BOOLEAN
        BY DEF Tick, SetRegistration, IInv, TypeOK
    <2>2. /\ UNCHANGED <<user, session, link, throttle, req>>
          /\ now' \in {now, now + 1} /\ now' \in Nat /\ now \in Nat
        BY DEF Tick, SetRegistration, IInv, TypeOK
    <2> QED
        BY <2>1, <2>2
<1>2. TypeOK' /\ RequestsRest' /\ SessionsRest' /\ LinksWorkOnce'
    BY <1>1, RowsKept DEF IInv, TypeOK, RequestsRest, SessionsRest, LinksWorkOnce
<1>3. ASSUME NEW s \in Slots, req[s].pc \in {"read", "verified"}
      PROVE  Admitted(req[s])'
    <2>1. /\ req[s].user \in Users /\ req[s].at \in Nat
          /\ throttle[req[s].user].lockedUntil \in Nat
        BY <1>3 DEF IInv, TypeOK, Requests, Idle, Entries
    <2> QED
        BY <1>1, <2>1 DEF IInv, LoginsAdmitted, Admitted
<1>4. LoginsAdmitted'
    BY <1>1, <1>3 DEF LoginsAdmitted, Admitted
<1> QED
    BY <1>2, <1>4 DEF IInv

\* The rest on rows of a step that leaves the requests and the passwords alone
\* but writes a link.
LEMMA LinkWritten ==
    ASSUME IInv, NEW l \in Links, NEW u \in Users, link' = [link EXCEPT ![l] = NewLink(u)]
    PROVE  /\ link' \in [Links -> LinkRows] /\ LinksWorkOnce'
           /\ \A m \in Links : Is(link[m]) => Is(link[m])'
<1>1. NewLink(u) \in LinkRows /\ NewLink(u) # None
      /\ NewLink(u).uses = 0 /\ NewLink(u).consumed = FALSE
    <2>1. now + LinkTtl \in Nat
        BY AccountsAssumption DEF IInv, TypeOK
    <2>2. NewLink(u) \in LinkRow /\ NewLink(u).uses = 0 /\ ~NewLink(u).consumed
        BY <2>1 DEF NewLink, LinkRow
    <2> QED
        BY <2>2, RowIsThere DEF NewLink, LinkRows
<1>2. \A m \in Links : link'[m] = NewLink(u) \/ link'[m] = link[m]
    BY DEF IInv, TypeOK
<1> QED
    BY <1>1, <1>2 DEF IInv, TypeOK, LinksWorkOnce, Is

LEMMA IssueLinkPreserves ==
    ASSUME IInv, NEW u \in Users, IssueLink(u)
    PROVE  IInv'
<1> USE DEF IssueLink
<1>1. PICK l \in Links : link' = [link EXCEPT ![l] = NewLink(u)]
    OBVIOUS
<1>2. TypeOK' /\ LinksWorkOnce'
    BY <1>1, LinkWritten DEF IInv, TypeOK
<1>3. \A v, p : Entitled(v, p)' <=> Entitled(v, p)
    BY DEF Entitled, Enabled
<1>4. RequestsRest'
    <2> SUFFICES ASSUME NEW t \in Slots PROVE Rests(req[t])'
        BY DEF RequestsRest
    <2>1. req[t].pc = "consume" => req[t].link \in Links
        BY DEF IInv, TypeOK, Requests, Idle
    <2> QED
        BY <1>1, <1>3, <2>1, LinkWritten DEF IInv, RequestsRest, Rests
<1>5. SessionsRest' /\ LoginsAdmitted'
    BY <1>3 DEF IInv, SessionsRest, LoginsAdmitted, Admitted
<1> QED
    BY <1>2, <1>4, <1>5 DEF IInv

\* Nobody rests on a name that was free.
LEMMA AdminCreatePreserves ==
    ASSUME IInv, NEW u \in Users, AdminCreate(u)
    PROVE  IInv'
<1> USE DEF AdminCreate
<1>1. PICK l \in Links : link' = [link EXCEPT ![l] = NewLink(u)]
    OBVIOUS
<1>2. /\ user'[u] = [row |-> TRUE, disabled |-> FALSE, password |-> 0]
      /\ \A v \in Users : v # u => user'[v] = user[v]
      /\ user'[u] \in UserRows /\ Is(user[u])'
    <2>1. 0 \in 0..MaxPassword
        BY AccountsAssumption
    <2>2. [row |-> TRUE, disabled |-> FALSE, password |-> 0] \in UserRow
        BY <2>1 DEF UserRow
    <2> QED
        BY <2>2, RowIsThere DEF IInv, TypeOK, UserRows
<1>3. TypeOK' /\ LinksWorkOnce'
    BY <1>1, <1>2, LinkWritten DEF IInv, TypeOK
<1>4. \A p : ~Entitled(u, p)
    BY DEF Entitled, Enabled
<1>5. RequestsRest'
    <2> SUFFICES ASSUME NEW t \in Slots PROVE Rests(req[t])'
        BY DEF RequestsRest
    <2>1. /\ req[t].pc = "consume" => req[t].link \in Links
          /\ req[t].pc \in {"session", "verified", "enable"} => req[t].user \in Users
        BY DEF IInv, TypeOK, Requests, Idle
    <2> QED
        BY <1>1, <1>2, <1>4, <2>1, LinkWritten, OthersKeep DEF IInv, RequestsRest, Rests
<1>6. SessionsRest'
    BY <1>2, <1>4, OthersKeep, SessionHasUser DEF IInv, SessionsRest
<1>7. LoginsAdmitted'
    BY DEF IInv, LoginsAdmitted, Admitted
<1> QED
    BY <1>3, <1>5, <1>6, <1>7 DEF IInv

LEMMA EnableCommitPreserves ==
    ASSUME IInv, NEW s \in Slots, EnableCommit(s)
    PROVE  IInv'
<1> USE DEF EnableCommit, Done
<1>1. PICK u \in Users : u = req[s].user /\ Is(user[u])
    BY DEF IInv, TypeOK, Requests, Idle, RequestsRest, Rests
<1>2. /\ user'[u] = [user[u] EXCEPT !.disabled = FALSE]
      /\ \A v \in Users : v # u => user'[v] = user[v]
      /\ user[u] \in UserRow
    BY <1>1, ThereIsRow DEF IInv, TypeOK
<1>3. user'[u] \in UserRows /\ Is(user[u])' /\ user'[u].password = user[u].password
      /\ ~user'[u].disabled
    <2>1. LET x == [user[u] EXCEPT !.disabled = FALSE]
          IN x \in UserRow /\ ~x.disabled /\ x.password = user[u].password
        BY <1>2 DEF UserRow
    <2> QED
        BY <1>2, <2>1, RowIsThere DEF UserRows
<1>4. Idle \in Requests /\ Idle.pc = "idle"
    BY DEF Requests, Idle
<1>5. TypeOK'
    BY <1>2, <1>3, <1>4 DEF IInv, TypeOK
<1>6. \A v \in Users : \A p : Entitled(v, p) => Entitled(v, p)'
    <2> SUFFICES ASSUME NEW v \in Users, NEW p, Entitled(v, p) PROVE Entitled(v, p)'
        OBVIOUS
    <2>1. CASE v = u
        BY <1>3, <2>1 DEF Entitled, Enabled
    <2> QED
        BY <1>1, <1>2, <2>1, OthersKeep
<1>7. \A t \in Slots : req'[t] = Idle \/ req'[t] = req[t]
    BY DEF IInv, TypeOK
<1>8. RequestsRest'
    <2> SUFFICES ASSUME NEW t \in Slots PROVE Rests(req[t])'
        BY DEF RequestsRest
    <2>1. CASE req'[t] = Idle
        BY <1>4, <2>1 DEF Rests
    <2>2. CASE req'[t] = req[t]
        <3>1. req[t].pc \in {"session", "verified", "enable"} => req[t].user \in Users
            BY DEF IInv, TypeOK, Requests, Idle
        <3> QED
            <4>1. \A v \in Users : Is(user[v]) => Is(user[v])'
                BY <1>2, <1>3 DEF Is
            <4> QED
                BY <1>6, <2>2, <3>1, <4>1 DEF IInv, RequestsRest, Rests
    <2> QED
        BY <1>7, <2>1, <2>2
<1>9. SessionsRest'
    BY <1>6 DEF IInv, SessionsRest, TypeOK, SessionRows, Is
<1>10. LinksWorkOnce' /\ LoginsAdmitted'
    BY <1>4, <1>7 DEF IInv, LinksWorkOnce, LoginsAdmitted, Admitted
<1> QED
    BY <1>5, <1>8, <1>9, <1>10 DEF IInv

-----------------------------------------------------------------------------
(* A change of the row of u with its sessions and its requests in one step.  *)

LEMMA RevokedFacts ==
    ASSUME TypeOK, NEW u \in Users
    PROVE  /\ RevokedOf(u) \in [Sessions -> SessionRows]
           /\ \A i \in Sessions : Is(RevokedOf(u)[i]) =>
                RevokedOf(u)[i] = session[i] /\ Is(session[i]) /\ session[i].user # u
BY DEF RevokedOf, TypeOK, SessionRows, Is

LEMMA OvertakenFacts ==
    ASSUME NEW r \in Requests, NEW u \in Users
    PROVE  LET o == Overtaken(r, u) IN
           /\ o \in Requests /\ o.pc = r.pc
           /\ o.pc \in {"session", "verified"} /\ ~o.stale => o = r /\ r.user # u
           /\ o.pc \notin {"session", "verified"} => o = r
           /\ o.pc \in {"read", "verified"} => o.at = r.at /\ o.user = r.user
<1>1. CASE r.pc \in {"verified", "session"} /\ r.user = u
    <2>1. Overtaken(r, u) = [r EXCEPT !.stale = TRUE]
        BY <1>1 DEF Overtaken
    <2>2. CASE r.pc = "verified"
        <3>1. r \in [pc : {"verified"}, user : Users, password : Passwords, at : Nat,
                     stale : BOOLEAN, ok : BOOLEAN]
            BY <2>2 DEF Requests, Idle
        <3> QED
            BY <2>1, <3>1 DEF Requests
    <2>3. CASE r.pc = "session"
        <3>1. r \in [pc : {"session"}, user : Users, password : Passwords, stale : BOOLEAN]
            BY <2>3 DEF Requests, Idle
        <3> QED
            BY <2>1, <3>1 DEF Requests
    <2> QED
        BY <1>1, <2>2, <2>3
<1>2. CASE ~(r.pc \in {"verified", "session"} /\ r.user = u)
    BY <1>2 DEF Overtaken
<1> QED
    BY <1>1, <1>2

\* A request that was not overtaken still rests on what it did.
LEMMA RestsOvertaken ==
    ASSUME IInv, NEW u \in Users, \A v \in Users : v # u => user'[v] = user[v],
           \A v \in Users : Is(user[v]) => Is(user'[v]),
           \A m \in Links : Is(link[m]) => Is(link'[m]),
           NEW t \in Slots, Rests(req[t]), req'[t].pc = req[t].pc,
           req[t].pc \in {"session", "verified"} =>
                req'[t].stale \/ (req'[t] = req[t] /\ req[t].user # u),
           req[t].pc \notin {"session", "verified"} => req'[t] = req[t]
    PROVE  Rests(req[t])'
<1>1. /\ req[t].pc \in {"session", "verified", "enable"} => req[t].user \in Users
      /\ req[t].pc = "consume" => req[t].link \in Links
    BY DEF IInv, TypeOK, Requests, Idle
<1>2. CASE req[t].pc \in {"session", "verified"} /\ req'[t].stale
    BY <1>2 DEF Rests
<1>3. CASE req'[t] = req[t] /\ (req[t].pc \in {"session", "verified"} => req[t].user # u)
    BY <1>1, <1>3, OthersKeep DEF Rests
<1> QED
    BY <1>2, <1>3

LEMMA DisablePreserves ==
    ASSUME IInv, NEW u \in Users, Disable(u)
    PROVE  IInv'
<1> USE DEF Disable
<1>1. /\ user[u] \in UserRow
      /\ user'[u] = [user[u] EXCEPT !.disabled = TRUE]
      /\ \A v \in Users : v # u => user'[v] = user[v]
    BY ThereIsRow DEF IInv, TypeOK, Enabled
<1>2. user'[u] \in UserRows /\ Is(user[u])'
    <2>1. [user[u] EXCEPT !.disabled = TRUE] \in UserRow
        BY <1>1 DEF UserRow
    <2> QED
        BY <1>1, <2>1, RowIsThere DEF UserRows
<1>3. \A t \in Slots : req[t] \in Requests /\ req'[t] = Overtaken(req[t], u)
    BY DEF IInv, TypeOK
<1>4. TypeOK'
    <2>1. user' \in [Users -> UserRows]
        BY <1>1, <1>2 DEF IInv, TypeOK
    <2>2. req' \in [Slots -> Requests]
        BY OvertakenFacts DEF IInv, TypeOK
    <2> QED
        BY <2>1, <2>2, RevokedFacts DEF IInv, TypeOK
<1>5. RequestsRest'
    <2> SUFFICES ASSUME NEW t \in Slots PROVE Rests(req[t])'
        BY DEF RequestsRest
    <2>1. Rests(req[t]) /\ \A v \in Users : Is(user[v]) => Is(user[v])'
        BY <1>1, <1>2 DEF IInv, RequestsRest, Is
    <2>2. /\ req'[t].pc = req[t].pc
          /\ req[t].pc \in {"session", "verified"} =>
                req'[t].stale \/ (req'[t] = req[t] /\ req[t].user # u)
          /\ req[t].pc \notin {"session", "verified"} => req'[t] = req[t]
        BY <1>3, OvertakenFacts
    <2> QED
        BY <1>1, <2>1, <2>2, RestsOvertaken
<1>6. SessionsRest'
    BY <1>1, OthersKeep, RevokedFacts, SessionHasUser DEF IInv, SessionsRest
<1>7. LinksWorkOnce' /\ LoginsAdmitted'
    BY <1>3, OvertakenFacts DEF IInv, LinksWorkOnce, LoginsAdmitted, Admitted
<1> QED
    BY <1>4, <1>5, <1>6, <1>7 DEF IInv

LEMMA ConsumePreserves ==
    ASSUME IInv, NEW s \in Slots, Consume(s)
    PROVE  IInv'
<1> USE DEF Consume
<1>0. /\ req[s] \in [pc : {"consume"}, link : Links, password : Passwords, at : Nat]
      /\ Is(link[req[s].link])
    BY DEF IInv, TypeOK, Requests, Idle, RequestsRest, Rests
<1>1. PICK l \in Links, p \in Passwords : l = req[s].link /\ p = req[s].password /\ Is(link[l])
    BY <1>0
<1>2. link[l] \in LinkRow /\ \E u \in Users : u = link[l].user
    <2>1. link[l] \in LinkRow
        BY <1>1, ThereIsRow DEF IInv, TypeOK
    <2> QED
        BY <2>1 DEF LinkRow
<1>u. PICK u \in Users : u = link[l].user
    BY <1>2
<1> DEFINE n == SessionFor(u, p, FALSE)
<1>3. CASE Done(s) /\ UNCHANGED <<user, session, link>>
    <2>1. Idle \in Requests /\ Rests(Idle) /\ Admitted(Idle)
        BY DEF Requests, Rests, Admitted, Idle
    <2> QED
        BY <1>3, <2>1, RequestMovesAlone DEF Done, rows
<1>4. CASE /\ Consumable(l, req[s].at) /\ Enabled(u)
           /\ link' = [link EXCEPT ![l].consumed = TRUE, ![l].uses = @ + 1]
           /\ user' = [user EXCEPT ![u].password = p]
           /\ session' = RevokedOf(u)
           /\ Overtake(s, n, u)
    <2>1. /\ user[u] \in UserRow
          /\ user'[u] = [user[u] EXCEPT !.password = p]
          /\ ~user[u].disabled
          /\ \A v \in Users : v # u => user'[v] = user[v]
        BY <1>2, <1>4, ThereIsRow DEF IInv, TypeOK, Enabled
    <2>2. user'[u] \in UserRows /\ Is(user[u])' /\ Entitled(u, p)'
        <3>1. p \in 0..MaxPassword
            BY <1>1, AccountsAssumption DEF Passwords
        <3>2. LET x == [user[u] EXCEPT !.password = p]
              IN x \in UserRow /\ ~x.disabled /\ x.password = p
            BY <2>1, <3>1 DEF UserRow
        <3> QED
            BY <2>1, <3>2, RowIsThere DEF UserRows, Entitled, Enabled
    <2>3. /\ n \in Requests /\ n.pc = "session" /\ n.user = u /\ n.password = p
          /\ \A t \in Slots : req[t] \in Requests /\ req'[t] \in {n, Overtaken(req[t], u)}
        BY <1>1, <1>2, <1>4 DEF SessionFor, Requests, Overtake, IInv, TypeOK
    <2>4. /\ link'[l] \in LinkRows /\ Is(link[l])' /\ link'[l].consumed /\ link'[l].uses = 1
          /\ \A m \in Links : m # l => link'[m] = link[m]
        <3>1. ~link[l].consumed /\ link[l].uses = 0
            BY <1>1, <1>4 DEF Consumable, IInv, LinksWorkOnce
        <3>2. /\ link'[l] = [link[l] EXCEPT !.consumed = TRUE, !.uses = @ + 1]
              /\ \A m \in Links : m # l => link'[m] = link[m]
            BY <1>1, <1>4 DEF IInv, TypeOK
        <3>3. [link[l] EXCEPT !.consumed = TRUE, !.uses = 1] \in LinkRow
            BY <1>2 DEF LinkRow
        <3>4. link'[l] = [link[l] EXCEPT !.consumed = TRUE, !.uses = 1]
            BY <1>2, <3>1, <3>2
        <3> QED
            BY <1>2, <3>2, <3>3, <3>4, RowIsThere DEF LinkRow, LinkRows
    <2>5. TypeOK'
        <3>1. user' \in [Users -> UserRows]
            BY <1>4, <2>1, <2>2 DEF IInv, TypeOK
        <3>2. req' \in [Slots -> Requests]
            BY <1>2, <1>4, <2>3, OvertakenFacts DEF Overtake
        <3>3. link' \in [Links -> LinkRows]
            BY <1>4, <2>4 DEF IInv, TypeOK
        <3> QED
            BY <1>2, <1>4, <3>1, <3>2, <3>3, RevokedFacts DEF IInv, TypeOK
    <2>6. RequestsRest'
        <3> SUFFICES ASSUME NEW t \in Slots PROVE Rests(req[t])'
            BY DEF RequestsRest
        <3>1. CASE req'[t] = n
            BY <2>2, <2>3, <3>1 DEF Rests
        <3>2. CASE req'[t] = Overtaken(req[t], u)
            <4> HIDE DEF n
            <4>0. req[t] \in Requests
                BY <2>3
            <4>1. /\ Rests(req[t])
                  /\ \A v \in Users : Is(user[v]) => Is(user[v])'
                  /\ \A m \in Links : Is(link[m]) => Is(link[m])'
                BY <2>1, <2>2, <2>4 DEF IInv, RequestsRest, Is
            <4>2. /\ req'[t].pc = req[t].pc
                  /\ req[t].pc \in {"session", "verified"} =>
                        req'[t].stale \/ (req'[t] = req[t] /\ req[t].user # u)
                  /\ req[t].pc \notin {"session", "verified"} => req'[t] = req[t]
                BY <1>u, <4>0, <3>2, OvertakenFacts
            <4> QED
                BY <1>u, <2>1, <4>1, <4>2, RestsOvertaken
        <3> QED
            BY <2>3, <3>1, <3>2
    <2>7. SessionsRest'
        BY <1>2, <1>4, <2>1, OthersKeep, RevokedFacts, SessionHasUser DEF IInv, SessionsRest
    <2>8. LinksWorkOnce'
        BY <2>4 DEF IInv, LinksWorkOnce, Is
    <2>9. LoginsAdmitted'
        <3> SUFFICES ASSUME NEW t \in Slots PROVE Admitted(req[t])'
            BY DEF LoginsAdmitted
        <3>1. CASE req'[t] = n
            BY <2>3, <3>1 DEF Admitted
        <3>2. CASE req'[t] = Overtaken(req[t], u)
            <4> HIDE DEF n
            <4>0. req[t] \in Requests
                BY <2>3
            <4>1. req'[t].pc \in {"read", "verified"} =>
                    /\ req[t].pc = req'[t].pc
                    /\ req'[t].at = req[t].at /\ req'[t].user = req[t].user
                BY <1>u, <4>0, <3>2, OvertakenFacts
            <4> QED
                BY <4>1 DEF IInv, LoginsAdmitted, Admitted
        <3> QED
            BY <2>3, <3>1, <3>2
    <2> QED
        BY <2>5, <2>6, <2>7, <2>8, <2>9 DEF IInv
<1> QED
    BY <1>1, <1>3, <1>4, <1>u

LEMMA StepPreserves == IInv /\ [Next]_vars => IInv'
<1> SUFFICES ASSUME IInv, [Next]_vars PROVE IInv'
    OBVIOUS
<1>1. CASE \E s \in Slots, u \in Users, p \in Passwords : SignUp(s, u, p) \/ Login(s, u, p)
    BY <1>1, SignUpPreserves, LoginPreserves
<1>2. CASE \E s \in Slots, l \in Links, p \in Passwords : SetPassword(s, l, p)
    BY <1>2, SetPasswordPreserves
<1>3. CASE \E s \in Slots : \/ SignUpInsert(s) \/ LoginRead(s) \/ LoginEnd(s)
                            \/ CreateSession(s) \/ Consume(s) \/ EnableCommit(s)
    BY <1>3, SignUpInsertPreserves, LoginReadPreserves, LoginEndPreserves,
       CreateSessionPreserves, ConsumePreserves, EnableCommitPreserves
<1>4. CASE \E s \in Slots, u \in Users : Enable(s, u)
    BY <1>4, EnablePreserves
<1>5. CASE \E u \in Users : AdminCreate(u) \/ IssueLink(u) \/ Disable(u)
    BY <1>5, AdminCreatePreserves, IssueLinkPreserves, DisablePreserves
<1>6. CASE \E i \in Sessions : Logout(i)
    BY <1>6, LogoutPreserves
<1>7. CASE SetRegistration \/ Tick
    BY <1>7, TickPreserves
<1>8. CASE UNCHANGED vars
    BY <1>8, RowsKept DEF vars, IInv, TypeOK, RequestsRest, SessionsRest, LinksWorkOnce,
       LoginsAdmitted, Admitted
<1> QED
    BY <1>1, <1>2, <1>3, <1>4, <1>5, <1>6, <1>7, <1>8 DEF Next

-----------------------------------------------------------------------------
(* Theorems.                                                                 *)

\* The rows stay well formed and nothing in flight rests on what was changed.
THEOREM AccountsAreConsistent == Spec => []IInv
BY InitEstablishes, StepPreserves, PTL DEF Spec

\* Changing a password or disabling an account ends every session that rested
\* on it, except those whose own request was overtaken.
THEOREM SessionsEndWithTheirTitle == Spec => []SessionsAreEntitled
<1>1. IInv => SessionsAreEntitled
    BY DEF IInv, SessionsRest, Entitled, Enabled, SessionsAreEntitled
<1> QED
    BY <1>1, AccountsAreConsistent, PTL

\* A one-time link sets at most one password.
THEOREM OneLinkOnePassword == Spec => []LinksWorkOnce
<1>1. IInv => LinksWorkOnce
    BY DEF IInv
<1> QED
    BY <1>1, AccountsAreConsistent, PTL

\* No login enters under a lock; those that still run came before it.
THEOREM LocksKeepLoginsOut == Spec => []LockAdmitsNobody
<1>1. IInv => LockAdmitsNobody
    BY DEF IInv, LoginsAdmitted, Admitted, LockAdmitsNobody
<1> QED
    BY <1>1, AccountsAreConsistent, PTL

-----------------------------------------------------------------------------
(* The pages: a list belongs to its heading.                                 *)

(* What is mounted or answered: captures, all of the place in the heading.   *)
Heads(box) == /\ {"of", "rows"} \subseteq DOMAIN box
              /\ \A c \in DOMAIN box.rows : PlaceOf[c] = box.of
IsCall(r) == {"step", "list", "answer"} \subseteq DOMAIN r
CallFits(r) ==
    r # Resting => /\ IsCall(r)
                   /\ (r.step = "listed" /\ r.list = "captures" => Heads(r.answer))
CallsFit == /\ call = [h \in PageHandlers |-> call[h]]
            /\ \A h \in PageHandlers : CallFits(call[h])
ShownFits == /\ shown = [list \in Lists |-> shown[list]]
             /\ (Mounted("captures") => Heads(shown["captures"]))
HeadingInv == CallsFit /\ ShownFits

LEMMA FreshIsCall ==
    ASSUME NEW b, NEW x, NEW then
    PROVE  IsCall(Fresh(b, x, then)) /\ CallFits(Fresh(b, x, then))
BY DEF Fresh, IsCall, CallFits

LEMMA GoesOnFits ==
    ASSUME NEW r, IsCall(r), NEW place, NEW turned
    PROVE  CallFits(GoesOn(r, place, turned))
BY DEF GoesOn, CallFits, IsCall

LEMMA OneCall ==
    ASSUME CallsFit, NEW h \in PageHandlers, NEW r, CallFits(r), call' = [call EXCEPT ![h] = r]
    PROVE  CallsFit'
BY DEF CallsFit

LEMMA ListOfLists == \A x \in Things : ListOf(x) \in Lists
BY DEF ListOf, Lists, Things

LEMMA HeadingStart == PagesInit => HeadingInv
<1> SUFFICES ASSUME PagesInit PROVE HeadingInv
    OBVIOUS
<1>1. CallsFit
    BY DEF PagesInit, CallsFit, CallFits
<1>2. ShownFits
    BY DEF PagesInit, ShownFits, Mounted, Lists
<1> QED
    BY <1>1, <1>2 DEF HeadingInv

LEMMA OpenFits == ASSUME HeadingInv, NEW to, Open(to) PROVE HeadingInv'
<1>1. CallsFit'
    <2>1. CASE open' = "login"
        BY <2>1 DEF Open, CallsFit, HeadingInv
    <2>2. CASE open' # "login"
        <3>1. call' = [h \in PageHandlers |->
                        IF h \in DOMAIN Loads[open']
                        THEN GoesOn(Fresh("look", Nobody, <<Loads[open'][h]>>), wanted, auditPage)
                        ELSE Resting]
            BY <2>2 DEF Open
        <3>2. \A h \in PageHandlers : CallFits(call'[h])
            <4> SUFFICES ASSUME NEW h \in PageHandlers PROVE CallFits(call'[h])
                OBVIOUS
            <4>1. PICK r : r = Fresh("look", Nobody, <<Loads[open'][h]>>)
                OBVIOUS
            <4>2. CallFits(GoesOn(r, wanted, auditPage))
                BY <4>1, FreshIsCall, GoesOnFits
            <4> QED
                BY <3>1, <4>1, <4>2 DEF CallFits
        <3> QED
            BY <3>1, <3>2 DEF CallsFit
    <2> QED
        BY <2>1, <2>2
<1> QED
    BY <1>1 DEF HeadingInv, Open, ShownFits, Mounted, boxVars

LEMMA SameCallsFit == ASSUME CallsFit, call' = call PROVE CallsFit'
BY DEF CallsFit
LEMMA SameShownFits == ASSUME ShownFits, shown' = shown PROVE ShownFits'
BY DEF ShownFits, Mounted

LEMMA StartsFits == ASSUME CallsFit, NEW r, CallFits(r), Starts(r) PROVE CallsFit'
<1>1. PICK h \in PageHandlers \ InFlight :
        call' = [g \in PageHandlers |->
                    IF g = h THEN r
                    ELSE IF g \in InFlight THEN [call[g] EXCEPT !.alone = FALSE] ELSE Resting]
    BY DEF Starts
<1>2. \A g \in PageHandlers : CallFits(call'[g])
    <2> SUFFICES ASSUME NEW g \in PageHandlers PROVE CallFits(call'[g])
        OBVIOUS
    <2>1. CASE g = h
        BY <1>1, <2>1
    <2>2. CASE g # h /\ g \in InFlight
        <3>1. PICK q : q = call[g]
            OBVIOUS
        <3>2. CallFits(q) /\ q # Resting
            BY <2>2, <3>1 DEF CallsFit, InFlight
        <3>3. CallFits([q EXCEPT !.alone = FALSE])
            BY <3>2 DEF CallFits, IsCall
        <3> QED
            BY <1>1, <2>2, <3>1, <3>3
    <2>3. CASE g # h /\ g \notin InFlight
        BY <1>1, <2>3 DEF CallFits
    <2> QED
        BY <2>1, <2>2, <2>3
<1> QED
    BY <1>1, <1>2 DEF CallsFit

LEMMA LooksFits == ASSUME HeadingInv, NEW list, Look(list) PROVE HeadingInv'
<1>1. PICK r, place, turned : r = Fresh("look", Nobody, <<list>>) /\ place = wanted' /\ turned = auditPage'
    OBVIOUS
<1>2. Starts(GoesOn(r, place, turned)) /\ shown' = shown
    BY <1>1 DEF Look, Looks
<1>3. CallFits(GoesOn(r, place, turned))
    BY <1>1, FreshIsCall, GoesOnFits
<1> QED
    BY <1>2, <1>3, StartsFits, SameShownFits DEF HeadingInv

(* A box that is ticked in a row of the list stays a box over the same rows.  *)
LEMMA TickKeepsHeading ==
    ASSUME NEW box, Heads(box), NEW x \in DOMAIN box.rows, NEW to
    PROVE  Heads([box EXCEPT !.rows = [box.rows EXCEPT ![x] = to]])
BY DEF Heads

LEMMA PressFits ==
    ASSUME HeadingInv, NEW b \in Buttons, NEW x \in Things, Press(b, x) PROVE HeadingInv'
<1>1. CallsFit'
    <2>1. PICK r : r = Fresh(b, x, Refreshes(x))
        OBVIOUS
    <2>2. Starts(r) /\ CallFits(r)
        BY <2>1, FreshIsCall DEF Press
    <2> QED
        BY <2>2, StartsFits DEF HeadingInv
<1>2. ShownFits'
    <2>1. CASE b \notin Toggles
        BY <2>1, SameShownFits DEF Press, HeadingInv
    <2>2. CASE b \in Toggles
        <3>1. PICK l \in Lists : l = ListOf(x)
            BY ListOfLists
        <3>2. shown' = [shown EXCEPT ![l].rows[x] = Request[b].to]
            BY <2>2, <3>1 DEF Press
        <3>3. x \in DOMAIN shown[l].rows /\ Mounted(l)
            BY <2>2, <3>1 DEF Press, Offers, TokenForm, TokenRow, UserForm, PersonRow, Checkbox,
                              CaptureRow, BanRow, HasRow, Toggles
        <3>4. CASE l = "captures"
            <4>1. PICK box : box = shown["captures"]
                OBVIOUS
            <4>2. Heads(box)
                BY <3>3, <3>4, <4>1 DEF HeadingInv, ShownFits
            <4>3. Heads([box EXCEPT !.rows = [box.rows EXCEPT ![x] = Request[b].to]])
                BY <3>3, <3>4, <4>1, <4>2, TickKeepsHeading
            <4>4. shown' = [shown EXCEPT !["captures"] =
                                [box EXCEPT !.rows = [box.rows EXCEPT ![x] = Request[b].to]]]
                BY <3>2, <3>4, <4>1
            <4>5. "captures" \in Lists
                BY DEF Lists
            <4> QED
                BY <4>3, <4>4, <4>5 DEF HeadingInv, ShownFits
        <3>5. CASE l # "captures"
            BY <3>2, <3>5 DEF HeadingInv, ShownFits, Mounted, Lists
        <3> QED
            BY <3>4, <3>5
    <2> QED
        BY <2>1, <2>2
<1> QED
    BY <1>1, <1>2 DEF HeadingInv

(* A handler's step that leaves the mounted lists alone.                       *)
LEMMA AnsweredFits ==
    ASSUME NEW r, IsCall(r), NEW good, NEW at, NEW audited
    PROVE  CallFits([[[[[r EXCEPT !.step = "answered"] EXCEPT !.ok = good] EXCEPT !.done = good]
                      EXCEPT !.at = at] EXCEPT !.audited = audited])
BY DEF CallFits, IsCall

LEMMA AtWork ==
    ASSUME HeadingInv, NEW h \in PageHandlers, call[h].step # "none"
    PROVE  call[h] # Resting /\ IsCall(call[h])
BY DEF HeadingInv, CallsFit, CallFits, Resting

LEMMA HandleFits == ASSUME HeadingInv, NEW h \in PageHandlers, Handle(h) PROVE HeadingInv'
<1>1. PICK r : r = call[h]
    OBVIOUS
<1>2. IsCall(r)
    BY <1>1, AtWork DEF Handle
<1>3. PICK good, at, audited :
        call' = [call EXCEPT ![h].step = "answered", ![h].ok = good, ![h].done = good,
                             ![h].at = at, ![h].audited = audited]
    BY DEF Handle
<1>4. call' = [call EXCEPT ![h] =
         [[[[[r EXCEPT !.step = "answered"] EXCEPT !.ok = good] EXCEPT !.done = good]
            EXCEPT !.at = at] EXCEPT !.audited = audited]]
    BY <1>1, <1>3 DEF HeadingInv, CallsFit
<1>5. CallsFit'
    BY <1>2, <1>4, AnsweredFits, OneCall DEF HeadingInv
<1> QED
    BY <1>5, SameShownFits DEF Handle, HeadingInv, boxVars

LEMMA RefuseFits == ASSUME HeadingInv, NEW h \in PageHandlers, Refuse(h) PROVE HeadingInv'
<1>1. PICK r : r = call[h]
    OBVIOUS
<1>2. CallFits([r EXCEPT !.step = "answered"])
    BY <1>1, AtWork DEF Refuse, CallFits, IsCall
<1>3. CallsFit'
    BY <1>1, <1>2, OneCall DEF HeadingInv, Refuse
<1> QED
    BY <1>3, SameShownFits DEF Refuse, HeadingInv, boxVars

LEMMA ToldFits ==
    ASSUME HeadingInv, NEW h \in PageHandlers, call[h].step # "none", NEW good, Told(h, good)
    PROVE  HeadingInv'
<1>1. PICK r : r = call[h]
    OBVIOUS
<1>2. IsCall(r)
    BY <1>1, AtWork
<1>3. PICK q : call' = [call EXCEPT ![h] = q] /\ q \in {GoesOn(r, wanted, auditPage), Resting}
    BY <1>1 DEF Told
<1>4. CallFits(q)
    BY <1>2, <1>3, GoesOnFits DEF CallFits
<1>5. CallsFit'
    BY <1>3, <1>4, OneCall DEF HeadingInv
<1> QED
    BY <1>5, SameShownFits DEF Told, HeadingInv

LEMMA ListingHeads == ASSUME NEW of PROVE Heads(Listing("captures", of))
BY DEF Heads, Listing, Rows, CaptureList

LEMMA ListAnswersFits == ASSUME HeadingInv, NEW h \in PageHandlers, ListAnswers(h) PROVE HeadingInv'
<1>1. PICK r : r = call[h]
    OBVIOUS
<1>2. IsCall(r)
    BY <1>1, AtWork DEF ListAnswers
<1>3. PICK box : box = Listing(r.list, r.of)
    OBVIOUS
<1>4. PICK q : q = [[r EXCEPT !.step = "listed"] EXCEPT !.answer = box]
    OBVIOUS
<1>5. call' = [call EXCEPT ![h] = q]
    BY <1>1, <1>3, <1>4 DEF ListAnswers, HeadingInv, CallsFit
<1>6. IsCall(q) /\ q.list = r.list /\ q.answer = box
    BY <1>2, <1>4 DEF IsCall
<1>7. r.list = "captures" => Heads(box)
    BY <1>3, ListingHeads
<1>8. CallFits(q)
    BY <1>6, <1>7 DEF CallFits
<1>9. CallsFit'
    BY <1>5, <1>8, OneCall DEF HeadingInv
<1> QED
    BY <1>9, SameShownFits DEF ListAnswers, HeadingInv, boxVars

LEMMA MountFits == ASSUME HeadingInv, NEW h \in PageHandlers, Mount(h) PROVE HeadingInv'
<1>1. PICK r : r = call[h]
    OBVIOUS
<1>2. r # Resting /\ IsCall(r) /\ CallFits(r) /\ r.step = "listed"
    BY <1>1, AtWork DEF Mount, HeadingInv, CallsFit
<1>3. PICK q : q = GoesOn(r, wanted, auditPage)
    OBVIOUS
<1>4. CallsFit'
    BY <1>1, <1>2, <1>3, GoesOnFits, OneCall DEF Mount, HeadingInv
<1>5. shown' = [shown EXCEPT ![r.list] = r.answer]
    BY <1>1 DEF Mount
<1>6. ShownFits'
    BY <1>2, <1>5 DEF CallFits, HeadingInv, ShownFits, Mounted, Lists
<1> QED
    BY <1>4, <1>6 DEF HeadingInv

LEMMA ListFailsFits == ASSUME HeadingInv, NEW h \in PageHandlers, ListFails(h) PROVE HeadingInv'
<1>1. PICK r : r = call[h]
    OBVIOUS
<1>2. PICK m : m = [r EXCEPT !.missed = TRUE]
    OBVIOUS
<1>3. IsCall(m)
    BY <1>1, <1>2, AtWork DEF ListFails, IsCall
<1>4. call' = [call EXCEPT ![h] = GoesOn(m, wanted, auditPage)]
    BY <1>1, <1>2 DEF ListFails
<1>5. CallsFit'
    BY <1>3, <1>4, GoesOnFits, OneCall DEF HeadingInv
<1> QED
    BY <1>5, SameShownFits DEF ListFails, HeadingInv, boxVars

LEMMA HeadingNext == HeadingInv /\ [PagesNext]_pagesVars => HeadingInv'
<1> SUFFICES ASSUME HeadingInv, [PagesNext]_pagesVars PROVE HeadingInv'
    OBVIOUS
<1>1. CASE \E to \in {"account", "admin"} : Open(to)
    BY <1>1, OpenFits
<1>2. CASE SignOut
    <2>1. call' = [h \in PageHandlers |-> Resting] /\ shown' = shown
        BY <1>2 DEF SignOut, boxVars
    <2>2. CallsFit'
        BY <2>1 DEF CallsFit, CallFits
    <2> QED
        BY <2>1, <2>2, SameShownFits DEF HeadingInv
<1>3. CASE Elsewhere \/ Hide \/ UNCHANGED pagesVars
    <2>1. call' = call /\ shown' = shown
        BY <1>3 DEF Elsewhere, Hide, pagesVars, boxVars
    <2> QED
        BY <2>1, SameCallsFit, SameShownFits DEF HeadingInv
<1>4. CASE \/ RefreshGuard \/ \E u \in People : LookAtCaptures(u)
           \/ \E n \in {-1, 1} : TurnCaptures(n) \/ TurnAudit(n)
    <2>1. PICK list \in Lists : Look(list)
        BY <1>4 DEF RefreshGuard, LookAtCaptures, TurnCaptures, TurnAudit, Lists
    <2> QED
        BY <2>1, LooksFits
<1>5. CASE \E b \in Buttons : \E x \in Request[b].of : Press(b, x)
    <2>1. PICK b \in Buttons : \E x \in Request[b].of : Press(b, x)
        BY <1>5
    <2>2. \A x \in Request[b].of : x \in Things
        BY DEF Buttons, Request, CreateToken, RevokeToken, SetIndefinite, DeleteCapture, Unban,
               Register, Things
    <2> QED
        BY <2>1, <2>2, PressFits
<1>6. CASE \E u \in People : ResetPassword(u)
    <2>1. PICK u \in People : ResetPassword(u)
        BY <1>6
    <2>2. PICK r : r = Fresh("resetLink", u, <<"audit">>)
        OBVIOUS
    <2>3. Starts(r) /\ CallFits(r) /\ shown' = shown
        BY <2>1, <2>2, FreshIsCall DEF ResetPassword, boxVars
    <2> QED
        BY <2>3, StartsFits, SameShownFits DEF HeadingInv
<1>7. CASE \E h \in PageHandlers : \/ Handle(h) \/ Refuse(h) \/ Answer(h) \/ AnswerIsLost(h)
                                   \/ ListAnswers(h) \/ Mount(h) \/ ListFails(h)
    <2>1. PICK h \in PageHandlers : \/ Handle(h) \/ Refuse(h) \/ Answer(h) \/ AnswerIsLost(h)
                                    \/ ListAnswers(h) \/ Mount(h) \/ ListFails(h)
        BY <1>7
    <2>2. CASE Answer(h) \/ AnswerIsLost(h)
        <3>1. PICK good : call[h].step # "none" /\ Told(h, good)
            BY <2>2 DEF Answer, AnswerIsLost
        <3> QED
            BY <3>1, ToldFits
    <2> QED
        BY <2>1, <2>2, HandleFits, RefuseFits, ListAnswersFits, MountFits, ListFailsFits
<1> QED
    BY <1>1, <1>2, <1>3, <1>4, <1>5, <1>6, <1>7 DEF PagesNext

(* The inductive invariant of the lists.                                       *)
THEOREM ListsFitTheirHeadings == PagesSpec => []HeadingInv
BY HeadingStart, HeadingNext, PTL DEF PagesSpec

(* The administrator's list of captures is that of the user and the page in its *)
(* heading, whoever was clicked while it was on its way (admin.ts).            *)
THEOREM CapturesUnderTheirHeading == PagesSpec => []CapturesAreTheirHeadings
<1>1. HeadingInv => CapturesAreTheirHeadings
    BY DEF HeadingInv, ShownFits, Heads, CapturesAreTheirHeadings
<1> QED
    BY <1>1, ListsFitTheirHeadings, PTL

-----------------------------------------------------------------------------
(* What a handler that is alone in flight owes its user.                      *)

HandlerFields == {"step", "button", "thing", "then", "list", "of", "answer", "ok", "done", "at",
                  "audited", "missed", "alone"}
Own(r) == r # Resting /\ r.button \in Buttons /\ r.alone
(* What it has still to refresh, and what its lists show of its change.        *)
Turn(r) ==
    \/ /\ r.list = ListOf(r.thing)
       /\ r.then = IF open = "admin" THEN <<"audit">> ELSE <<>>
    \/ /\ r.list = "audit" /\ r.then = <<>> /\ open = "admin"
       /\ ~r.missed => shown[ListOf(r.thing)].version >= r.at
Owes(r) ==
    /\ r.thing \in Things /\ r.at \in Nat /\ r.audited \in Nat
    /\ r.at <= version[ListOf(r.thing)] /\ r.audited <= version["audit"]
    /\ r.step \in {"sent", "answered"} =>
         r.then = Refreshes(r.thing) /\ ~r.missed /\ r.ok = r.done
    /\ r.step \in {"asks", "listed"} => (status = "ok" => r.done /\ ~r.missed) /\ Turn(r)
    /\ r.step = "listed" =>
         r.answer.version >= (IF r.list = "audit" THEN r.audited ELSE r.at)
(* What is sent is a change, or asks for a link.                               *)
IsHandler(r) == DOMAIN r = HandlerFields /\ (r.step = "sent" => r.button \in Buttons \cup {"resetLink"})
HandlersAre == /\ call = [h \in PageHandlers |-> call[h]]
               /\ \A h \in PageHandlers : call[h] # Resting => IsHandler(call[h])
OwnCalls == \A h \in PageHandlers : Own(call[h]) =>
                Owes(call[h]) /\ \A g \in PageHandlers \ {h} : call[g] = Resting
PageTypes == /\ version \in [Lists -> Nat] /\ troubles \in Nat
             /\ shown = [list \in Lists |-> shown[list]]
OwnInv == PageTypes /\ HandlersAre /\ OwnCalls

LEMMA ThingsLists == \A x \in Things : ListOf(x) \in Lists \ {"audit"}
BY DEF ListOf, Lists, Things
LEMMA LooksAreNoButtons == "look" \notin Buttons /\ "resetLink" \notin Buttons
BY DEF Buttons, Request

LEMMA OwnStart == PagesInit => OwnInv
<1> SUFFICES ASSUME PagesInit PROVE OwnInv
    OBVIOUS
<1>1. PageTypes
    BY DEF PagesInit, PageTypes
<1>2. HandlersAre /\ OwnCalls
    BY DEF PagesInit, HandlersAre, OwnCalls, Own
<1> QED
    BY <1>1, <1>2 DEF OwnInv

(* A handler that goes on asks for the next of its lists.                      *)
Started(r, b, x, then) ==
    /\ DOMAIN r = HandlerFields /\ r # Resting
    /\ r.step = "sent" /\ r.button = b /\ r.thing = x /\ r.then = then
    /\ r.ok = r.done /\ r.at = 0 /\ r.audited = 0 /\ ~r.missed
    /\ (r.alone => InFlight = {})
LEMMA FreshFields ==
    ASSUME NEW b, NEW x, NEW then PROVE Started(Fresh(b, x, then), b, x, then)
BY DEF Started, Fresh, HandlerFields, Resting

SameButton(q, r) == q.button = r.button /\ q.thing = r.thing /\ q.alone = r.alone
SameChange(q, r) == q.done = r.done /\ q.at = r.at /\ q.audited = r.audited /\ q.missed = r.missed
LEMMA GoesOnFields ==
    ASSUME NEW r, DOMAIN r = HandlerFields, NEW place, NEW turned, r.then # <<>>,
           NEW q, q = GoesOn(r, place, turned)
    PROVE  /\ DOMAIN q = HandlerFields /\ q # Resting
           /\ SameButton(q, r) /\ SameChange(q, r)
           /\ q.step = "asks" /\ q.list = Head(r.then) /\ q.then = Tail(r.then)
<1>1. q = [r EXCEPT !.step = "asks", !.list = Head(r.then), !.then = Tail(r.then),
                    !.of = Asked(Head(r.then), place, turned)]
    BY DEF GoesOn
<1>2. PICK l, t, o : l = Head(r.then) /\ t = Tail(r.then) /\ o = Asked(Head(r.then), place, turned)
    OBVIOUS
<1>3. q = [[[[r EXCEPT !.step = "asks"] EXCEPT !.list = l] EXCEPT !.then = t] EXCEPT !.of = o]
    BY <1>1, <1>2
<1> HIDE <1>1
<1>4. DOMAIN q = HandlerFields /\ q.step = "asks" /\ q.list = l /\ q.then = t
    BY <1>3 DEF HandlerFields
<1>5. SameButton(q, r) /\ SameChange(q, r)
    BY <1>3 DEF HandlerFields, SameButton, SameChange
<1> QED
    BY <1>2, <1>4, <1>5 DEF Resting

(* Steps that start a handler: those in flight are alone no more.              *)
LEMMA StartsOwn ==
    ASSUME OwnInv, NEW r, IsHandler(r), r # Resting, r.alone => InFlight = {},
           Own(r) => Owes(r)', Starts(r)
    PROVE  HandlersAre' /\ OwnCalls'
<1>1. PICK h \in PageHandlers \ InFlight :
        call' = [g \in PageHandlers |->
                    IF g = h THEN r
                    ELSE IF g \in InFlight THEN [call[g] EXCEPT !.alone = FALSE] ELSE Resting]
    BY DEF Starts
<1>2. \A g \in InFlight : LET q == [call[g] EXCEPT !.alone = FALSE]
                          IN IsHandler(q) /\ ~q.alone
    BY DEF OwnInv, HandlersAre, InFlight, HandlerFields, IsHandler
<1>3. HandlersAre'
    BY <1>1, <1>2 DEF HandlersAre
<1>4. \A g \in PageHandlers \ {h} : ~Own(call'[g])
    BY <1>1, <1>2 DEF Own
<1>5. call'[h] = r
    BY <1>1
<1>6. Own(r) => \A g \in PageHandlers \ {h} : call'[g] = Resting
    BY <1>1 DEF Own
<1>7. OwnCalls'
    <2> SUFFICES ASSUME NEW g \in PageHandlers, Own(call'[g])
                 PROVE  Owes(call[g])' /\ \A f \in PageHandlers \ {g} : call'[f] = Resting
        BY DEF OwnCalls, Own
    <2>1. g = h
        BY <1>4
    <2>2. call[g]' = r
        BY <1>5, <2>1
    <2>3. Own(r)
        BY <1>5, <2>1
    <2>4. Owes(call[g])'
        BY <2>2, <2>3 DEF Owes, Turn
    <2> QED
        BY <1>6, <2>1, <2>3, <2>4
<1> QED
    BY <1>3, <1>7

(* A step of one handler: if it is alone, there is no other.                    *)
LEMMA OneOwn ==
    ASSUME OwnInv, NEW h \in PageHandlers, call[h] # Resting, NEW q,
           call' = [call EXCEPT ![h] = q], q # Resting => IsHandler(q),
           Own(q) => Own(call[h]) /\ Owes(q)'
    PROVE  HandlersAre' /\ OwnCalls'
<1>1. /\ call'[h] = q /\ \A g \in PageHandlers \ {h} : call'[g] = call[g]
      /\ call' = [g \in PageHandlers |-> call'[g]]
    BY DEF OwnInv, HandlersAre
<1>2. HandlersAre'
    BY <1>1 DEF OwnInv, HandlersAre
<1>3. \A g \in PageHandlers \ {h} : ~Own(call[g])
    BY DEF OwnInv, OwnCalls
<1>4. OwnCalls'
    <2> SUFFICES ASSUME NEW g \in PageHandlers, Own(call'[g])
                 PROVE  Owes(call[g])' /\ \A f \in PageHandlers \ {g} : call'[f] = Resting
        BY DEF OwnCalls, Own
    <2>1. g = h
        BY <1>1, <1>3
    <2>2. call[g]' = q
        BY <1>1, <2>1
    <2>3. Own(q)
        BY <1>1, <2>1
    <2>4. Owes(call[g])'
        BY <2>2, <2>3 DEF Owes, Turn
    <2> QED
        BY <1>1, <2>1, <2>3, <2>4 DEF OwnInv, OwnCalls
<1> QED
    BY <1>2, <1>4

(* Versions only grow.                                                         *)
Later == version' \in [Lists -> Nat] /\ \A list \in Lists : version'[list] >= version[list]
LEMMA CommitsGrow ==
    ASSUME PageTypes, NEW b, NEW x \in Things, Commit(b, x) PROVE Later
<1>1. PICK l \in Lists \ {"audit"} : l = ListOf(x)
    BY ThingsLists
<1>2. PICK n \in Nat : n = IF x \in Tokens THEN version["audit"] ELSE version["audit"] + 1
    BY DEF PageTypes, Lists
<1>3. version' = [[version EXCEPT ![l] = version[l] + 1] EXCEPT !["audit"] = n]
    BY <1>1, <1>2 DEF Commit
<1> QED
    BY <1>1, <1>2, <1>3 DEF PageTypes, Later, Lists
LEMMA LinksGrow == ASSUME PageTypes, CommitLink PROVE Later
BY DEF PageTypes, CommitLink, Later, Lists
LEMMA SameIsLater == ASSUME PageTypes, version' = version PROVE Later
BY DEF PageTypes, Later

LEMMA OthersOwn ==
    ASSUME OwnInv, Later, call' = call, UNCHANGED <<open, shown, status>>
    PROVE  HandlersAre' /\ OwnCalls'
<1>1. HandlersAre'
    BY DEF OwnInv, HandlersAre
<1>2. OwnCalls'
    <2> SUFFICES ASSUME NEW g \in PageHandlers, Own(call'[g])
                 PROVE  Owes(call[g])' /\ \A f \in PageHandlers \ {g} : call'[f] = Resting
        BY DEF OwnCalls, Own
    <2>1. PICK r : r = call[g]
        OBVIOUS
    <2>2. Owes(r) /\ \A f \in PageHandlers \ {g} : call[f] = Resting
        BY <2>1 DEF OwnInv, OwnCalls
    <2>3. /\ r.at <= version'[ListOf(r.thing)] /\ r.audited <= version'["audit"]
        <3>1. PICK l \in Lists : l = ListOf(r.thing)
            BY <2>2, ThingsLists DEF Owes
        <3> QED
            BY <2>2, <3>1 DEF Owes, Later, OwnInv, PageTypes, Lists
    <2>4. Owes(r)'
        BY <2>2, <2>3 DEF Owes, Turn, Refreshes
    <2>5. call[g]' = r
        BY <2>1
    <2>6. Owes(call[g])'
        BY <2>4, <2>5 DEF Owes, Turn
    <2> QED
        BY <2>2, <2>6
<1> QED
    BY <1>1, <1>2

(* Steps of a handler.                                                         *)
LEMMA AtWorkOwn ==
    ASSUME OwnInv, NEW h \in PageHandlers, call[h].step # "none"
    PROVE  call[h] # Resting /\ IsHandler(call[h]) /\ (Own(call[h]) => Owes(call[h]))
BY DEF OwnInv, HandlersAre, OwnCalls, Resting

AnsweredWith(r, good, at, audited) ==
    [[[[[r EXCEPT !.step = "answered"] EXCEPT !.ok = good] EXCEPT !.done = good]
        EXCEPT !.at = at] EXCEPT !.audited = audited]
LEMMA AnsweredFields ==
    ASSUME NEW r, IsHandler(r), NEW good, NEW at, NEW audited,
           NEW q, q = AnsweredWith(r, good, at, audited)
    PROVE  /\ IsHandler(q) /\ SameButton(q, r) /\ q.then = r.then
           /\ q.missed = r.missed /\ q.step = "answered" /\ q.ok = good /\ q.done = good
           /\ q.at = at /\ q.audited = audited
BY DEF HandlerFields, SameButton, IsHandler, AnsweredWith

LEMMA ButtonsAreAboutThings == \A b \in Buttons : Request[b].of \subseteq Things
BY DEF Buttons, Request, CreateToken, RevokeToken, SetIndefinite, DeleteCapture, Unban, Register, Things

LEMMA HandleOwn ==
    ASSUME OwnInv, NEW h \in PageHandlers, Handle(h) PROVE HandlersAre' /\ OwnCalls' /\ Later
<1>1. PICK r : r = call[h]
    OBVIOUS
<1>2. r # Resting /\ IsHandler(r) /\ (Own(r) => Owes(r)) /\ r.step = "sent"
    BY <1>1, AtWorkOwn DEF Handle
<1>3. PICK good : /\ IF ~good THEN UNCHANGED serverVars
                     ELSE IF r.button = "resetLink" THEN CommitLink /\ IssuesLink(r.thing)
                          ELSE Commit(r.button, r.thing) /\ Accepts(r.button, r.thing)
                  /\ call' = [call EXCEPT ![h].step = "answered", ![h].ok = good,
                        ![h].done = good, ![h].at = version'[ListOf(r.thing)],
                        ![h].audited = version'["audit"]]
    BY <1>1 DEF Handle
<1>4. Later
    <2>1. CASE ~good
        BY <1>3, <2>1, SameIsLater DEF serverVars, OwnInv
    <2>2. CASE good /\ r.button = "resetLink"
        BY <1>3, <2>2, LinksGrow DEF OwnInv
    <2>3. CASE good /\ r.button # "resetLink"
        <3>1. r.thing \in Things
            BY <1>2, <1>3, <2>3, ButtonsAreAboutThings DEF Accepts, IsHandler
        <3> QED
            BY <1>3, <2>3, <3>1, CommitsGrow DEF OwnInv
    <2> QED
        BY <2>1, <2>2, <2>3
<1>5. PICK at, audited : at = version'[ListOf(r.thing)] /\ audited = version'["audit"]
    OBVIOUS
<1>6. PICK q : q = AnsweredWith(r, good, at, audited)
    OBVIOUS
<1>7. call' = [call EXCEPT ![h] = q]
    BY <1>1, <1>3, <1>5, <1>6 DEF OwnInv, HandlersAre, AnsweredWith
<1>8. /\ IsHandler(q) /\ SameButton(q, r) /\ q.then = r.then
      /\ q.missed = r.missed /\ q.step = "answered" /\ q.ok = good /\ q.done = good
      /\ q.at = at /\ q.audited = audited
    BY <1>2, <1>6, AnsweredFields
<1>9. ASSUME Own(q) PROVE Own(r) /\ Owes(q)'
    <2>1. Own(r) /\ Owes(r)
        BY <1>2, <1>8, <1>9 DEF Own, SameButton
    <2>2. PICK l \in Lists : l = ListOf(r.thing)
        BY <2>1, ThingsLists DEF Owes
    <2>3. at \in Nat /\ audited \in Nat
        BY <1>4, <1>5, <2>2 DEF Later, Lists
    <2>4. Refreshes(q.thing)' = Refreshes(r.thing)
        BY <1>8 DEF Refreshes, Handle, SameButton
    <2> QED
        BY <1>2, <1>5, <1>8, <2>1, <2>3, <2>4 DEF Owes, SameButton
<1> QED
    BY <1>1, <1>2, <1>4, <1>7, <1>8, <1>9, OneOwn

LEMMA RefuseOwn ==
    ASSUME OwnInv, NEW h \in PageHandlers, Refuse(h) PROVE HandlersAre' /\ OwnCalls'
<1>1. PICK r : r = call[h]
    OBVIOUS
<1>2. r # Resting /\ IsHandler(r) /\ (Own(r) => Owes(r)) /\ r.step = "sent"
    BY <1>1, AtWorkOwn DEF Refuse
<1>3. PICK q : q = [r EXCEPT !.step = "answered"]
    OBVIOUS
<1>4. /\ IsHandler(q) /\ SameButton(q, r) /\ SameChange(q, r)
      /\ q.then = r.then /\ q.ok = r.ok /\ q.step = "answered"
    BY <1>2, <1>3 DEF IsHandler, HandlerFields, SameButton, SameChange
<1>5. ASSUME Own(q) PROVE Own(r) /\ Owes(q)'
    <2>1. Own(r) /\ Owes(r)
        BY <1>2, <1>4, <1>5 DEF Own, SameButton
    <2>2. Refreshes(q.thing)' = Refreshes(r.thing)
        BY <1>4 DEF Refreshes, Refuse, SameButton
    <2> QED
        BY <1>2, <1>4, <2>1, <2>2 DEF Owes, SameButton, SameChange, Refuse, serverVars
<1> QED
    BY <1>1, <1>2, <1>3, <1>4, <1>5, OneOwn DEF Refuse

LEMMA RefreshesSomething == ASSUME NEW x PROVE Refreshes(x) # <<>>
BY DEF Refreshes
LEMMA FirstRefreshed ==
    ASSUME NEW x
    PROVE  /\ Head(Refreshes(x)) = ListOf(x)
           /\ Tail(Refreshes(x)) = IF open = "admin" THEN <<"audit">> ELSE <<>>
BY DEF Refreshes

LEMMA ToldOwn ==
    ASSUME OwnInv, NEW h \in PageHandlers, call[h].step = "answered", NEW good,
           good = call[h].ok \/ good = FALSE, Told(h, good), version' = version
    PROVE  HandlersAre' /\ OwnCalls'
<1>1. PICK r : r = call[h]
    OBVIOUS
<1>2. r # Resting /\ IsHandler(r) /\ (Own(r) => Owes(r)) /\ r.step = "answered"
    BY <1>1, AtWorkOwn
<1>3. PICK q : /\ q = (IF good \/ open = "admin" THEN GoesOn(r, wanted, auditPage) ELSE Resting)
               /\ call' = [call EXCEPT ![h] = q]
    BY <1>1 DEF Told
<1>4. q # Resting => IsHandler(q)
    <2>1. CASE r.then = <<>>
        BY <1>3, <2>1 DEF GoesOn
    <2>2. CASE r.then # <<>>
        BY <1>2, <1>3, <2>2, GoesOnFields DEF IsHandler
    <2> QED
        BY <2>1, <2>2
<1>5. ASSUME Own(q) PROVE Own(r) /\ Owes(q)'
    <2>1. q = GoesOn(r, wanted, auditPage) /\ r.then # <<>>
        BY <1>3, <1>5 DEF Own, GoesOn
    <2>2. /\ SameButton(q, r) /\ SameChange(q, r)
          /\ q.step = "asks" /\ q.list = Head(r.then) /\ q.then = Tail(r.then)
        BY <1>2, <2>1, GoesOnFields DEF IsHandler
    <2>3. Own(r) /\ Owes(r)
        BY <1>2, <1>5, <2>2 DEF Own, SameButton
    <2>4. q.list = ListOf(r.thing) /\ q.then = IF open = "admin" THEN <<"audit">> ELSE <<>>
        BY <1>2, <2>2, <2>3, FirstRefreshed DEF Owes
    <2>5. status' = "ok" => r.done /\ ~r.missed
        BY <1>1, <1>2, <2>3 DEF Told, Owes
    <2>6. Turn(q)'
        BY <2>2, <2>4 DEF Turn, Told, SameButton
    <2> QED
        BY <1>2, <2>2, <2>3, <2>5, <2>6 DEF Owes, SameButton, SameChange
<1> QED
    BY <1>1, <1>2, <1>3, <1>4, <1>5, OneOwn

LEMMA ListAnswersOwn ==
    ASSUME OwnInv, NEW h \in PageHandlers, ListAnswers(h) PROVE HandlersAre' /\ OwnCalls'
<1>1. PICK r : r = call[h]
    OBVIOUS
<1>2. r # Resting /\ IsHandler(r) /\ (Own(r) => Owes(r)) /\ r.step = "asks"
    BY <1>1, AtWorkOwn DEF ListAnswers
<1>3. PICK box : box = Listing(r.list, r.of)
    OBVIOUS
<1>4. box.version = version[r.list]
    BY <1>3 DEF Listing
<1>5. PICK q : q = [[r EXCEPT !.step = "listed"] EXCEPT !.answer = box]
    OBVIOUS
<1>6. call' = [call EXCEPT ![h] = q]
    BY <1>1, <1>3, <1>5 DEF ListAnswers, OwnInv, HandlersAre
<1>7. /\ IsHandler(q) /\ SameButton(q, r) /\ SameChange(q, r)
      /\ q.then = r.then /\ q.list = r.list /\ q.step = "listed" /\ q.answer = box
    BY <1>2, <1>5 DEF IsHandler, HandlerFields, SameButton, SameChange
<1>8. ASSUME Own(q) PROVE Own(r) /\ Owes(q)'
    <2>1. Own(r) /\ Owes(r)
        BY <1>2, <1>7, <1>8 DEF Own, SameButton
    <2>2. Turn(r) /\ (status = "ok" => r.done /\ ~r.missed)
        BY <1>2, <2>1 DEF Owes
    <2>3. Turn(q)'
        BY <1>7, <2>2 DEF Turn, ListAnswers, boxVars, SameButton, SameChange
    <2>4. ListOf(r.thing) # "audit"
        BY <2>1, ThingsLists DEF Owes
    <2>5. q.answer.version >= (IF q.list = "audit" THEN q.audited ELSE q.at)
        BY <1>4, <1>7, <2>1, <2>2, <2>4 DEF Owes, Turn, SameChange, OwnInv, PageTypes
    <2> QED
        BY <1>2, <1>7, <2>1, <2>2, <2>3, <2>5
           DEF Owes, ListAnswers, serverVars, boxVars, SameButton, SameChange
<1> QED
    BY <1>1, <1>2, <1>6, <1>7, <1>8, OneOwn

LEMMA MountOwn ==
    ASSUME OwnInv, NEW h \in PageHandlers, Mount(h) PROVE HandlersAre' /\ OwnCalls'
<1>1. PICK r : r = call[h]
    OBVIOUS
<1>2. r # Resting /\ IsHandler(r) /\ (Own(r) => Owes(r)) /\ r.step = "listed"
    BY <1>1, AtWorkOwn DEF Mount
<1>3. PICK q : q = GoesOn(r, wanted, auditPage)
    OBVIOUS
<1>4. call' = [call EXCEPT ![h] = q] /\ shown' = [shown EXCEPT ![r.list] = r.answer]
    BY <1>1, <1>3 DEF Mount
<1>5. q # Resting => IsHandler(q)
    <2>1. CASE r.then = <<>>
        BY <1>3, <2>1 DEF GoesOn
    <2>2. CASE r.then # <<>>
        BY <1>2, <1>3, <2>2, GoesOnFields DEF IsHandler
    <2> QED
        BY <2>1, <2>2
<1>6. ASSUME Own(q) PROVE Own(r) /\ Owes(q)'
    <2>1. r.then # <<>>
        BY <1>3, <1>6 DEF Own, GoesOn
    <2>2. /\ SameButton(q, r) /\ SameChange(q, r)
          /\ q.step = "asks" /\ q.list = Head(r.then) /\ q.then = Tail(r.then)
        BY <1>2, <1>3, <2>1, GoesOnFields DEF IsHandler
    <2>3. Own(r) /\ Owes(r)
        BY <1>2, <1>6, <2>2 DEF Own, SameButton
    <2>4. /\ r.list = ListOf(r.thing) /\ r.then = <<"audit">> /\ open = "admin"
          /\ (status = "ok" => r.done /\ ~r.missed)
        BY <1>2, <2>1, <2>3 DEF Owes, Turn
    <2>5. PICK l \in Lists \ {"audit"} : l = ListOf(r.thing)
        BY <2>3, ThingsLists DEF Owes
    <2>6. shown'[l] = r.answer /\ r.answer.version >= r.at
        BY <1>2, <1>4, <2>3, <2>4, <2>5 DEF Owes, OwnInv, PageTypes
    <2>7. q.list = "audit" /\ q.then = <<>>
        BY <2>2, <2>4
    <2>8. Turn(q)'
        BY <2>2, <2>4, <2>5, <2>6, <2>7 DEF Turn, Mount, SameButton, SameChange
    <2> QED
        BY <1>2, <2>2, <2>3, <2>4, <2>8 DEF Owes, Mount, serverVars, SameButton, SameChange
<1> QED
    BY <1>1, <1>2, <1>4, <1>5, <1>6, OneOwn

LEMMA ListFailsOwn ==
    ASSUME OwnInv, NEW h \in PageHandlers, ListFails(h) PROVE HandlersAre' /\ OwnCalls'
<1>1. PICK r : r = call[h]
    OBVIOUS
<1>2. /\ r # Resting /\ IsHandler(r) /\ (Own(r) => Owes(r))
      /\ r.step \in {"asks", "listed"}
    BY <1>1, AtWorkOwn DEF ListFails
<1>3. PICK m : m = [r EXCEPT !.missed = TRUE]
    OBVIOUS
<1>4. /\ DOMAIN m = HandlerFields /\ SameButton(m, r) /\ m.then = r.then /\ m.missed = TRUE
      /\ m.at = r.at /\ m.audited = r.audited
    BY <1>2, <1>3 DEF IsHandler, HandlerFields, SameButton
<1>5. PICK q : q = GoesOn(m, wanted, auditPage)
    OBVIOUS
<1>6. call' = [call EXCEPT ![h] = q]
    BY <1>1, <1>3, <1>5 DEF ListFails
<1>7. q # Resting => IsHandler(q)
    <2>1. CASE m.then = <<>>
        BY <1>5, <2>1 DEF GoesOn
    <2>2. CASE m.then # <<>>
        BY <1>4, <1>5, <2>2, GoesOnFields DEF IsHandler
    <2> QED
        BY <2>1, <2>2
<1>8. ASSUME Own(q) PROVE Own(r) /\ Owes(q)'
    <2>1. m.then # <<>>
        BY <1>5, <1>8 DEF Own, GoesOn
    <2>2. /\ SameButton(q, m) /\ SameChange(q, m)
          /\ q.step = "asks" /\ q.list = Head(m.then) /\ q.then = Tail(m.then)
        BY <1>4, <1>5, <2>1, GoesOnFields
    <2>3. Own(r) /\ Owes(r)
        BY <1>2, <1>4, <1>8, <2>2 DEF Own, SameButton
    <2>4. r.then = <<"audit">> /\ open = "admin"
        BY <1>2, <1>4, <2>1, <2>3 DEF Owes, Turn
    <2>5. q.list = "audit" /\ q.then = <<>>
        BY <1>4, <2>2, <2>4
    <2>6. Turn(q)'
        BY <1>4, <2>2, <2>4, <2>5 DEF Turn, ListFails, SameChange
    <2>7. status' # "ok" /\ version' = version
        BY DEF ListFails, serverVars
    <2> QED
        BY <1>4, <2>2, <2>3, <2>6, <2>7 DEF Owes, SameButton, SameChange
<1> QED
    BY <1>1, <1>2, <1>6, <1>7, <1>8, OneOwn

(* Before a page is open nothing is mounted and nothing runs.                  *)
AtHome == open = "none" => /\ \A h \in PageHandlers : call[h] = Resting
                           /\ \A list \in Lists : ~Mounted(list)
LEMMA OpensAPage == ASSUME NEW to \in {"account", "admin"}, Open(to) PROVE open = "none" /\ open' # "none"
BY DEF Open, PageFor

LEMMA ShownInLists ==
    ASSUME NEW x \in Things, HasRow(x) PROVE \E list \in Lists : Mounted(list)
BY ThingsLists DEF HasRow

LEMMA HomeStart == PagesInit => AtHome
BY DEF PagesInit, AtHome, Mounted

LEMMA HomeLasts == AtHome /\ [PagesNext]_pagesVars => AtHome'
<1> SUFFICES ASSUME AtHome, [PagesNext]_pagesVars, open' = "none" PROVE AtHome'
    BY DEF AtHome
<1>1. CASE \E to \in {"account", "admin"} : Open(to)
    BY <1>1, OpensAPage
<1>2. CASE SignOut
    BY <1>2 DEF SignOut
<1>3. CASE Elsewhere \/ Hide \/ UNCHANGED pagesVars
    BY <1>3 DEF Elsewhere, Hide, pagesVars, boxVars, AtHome, Mounted
<1>4. CASE RefreshGuard \/ \E n \in {-1, 1} : TurnCaptures(n) \/ TurnAudit(n)
    BY <1>4 DEF RefreshGuard, TurnCaptures, TurnAudit, Look, AtHome, Lists
<1>5. CASE \E u \in People : ResetPassword(u) \/ LookAtCaptures(u)
    <2>1. PICK u \in People : HasRow(u) /\ open' = open
        BY <1>5 DEF ResetPassword, LookAtCaptures, Look
    <2>2. \E list \in Lists : Mounted(list)
        BY <2>1, ShownInLists DEF Things
    <2> QED
        BY <2>1, <2>2 DEF AtHome
<1>6. CASE \E b \in Buttons : \E x \in Request[b].of : Press(b, x)
    <2>1. PICK b \in Buttons : \E x \in Request[b].of : Press(b, x)
        BY <1>6
    <2>2. PICK x \in Things : Press(b, x)
        BY <2>1, ButtonsAreAboutThings
    <2>3. open' = open /\ (open = "account" \/ Mounted("users") \/ HasRow(x))
        BY <2>2 DEF Press, Offers, TokenForm, TokenRow, UserForm, PersonRow, Checkbox, CaptureRow,
                    BanRow
    <2>4. \E list \in Lists : Mounted(list)
        BY <2>3, ShownInLists DEF Lists
    <2> QED
        BY <2>3, <2>4 DEF AtHome
<1>7. CASE \E h \in PageHandlers : \/ Handle(h) \/ Refuse(h) \/ Answer(h) \/ AnswerIsLost(h)
                                   \/ ListAnswers(h) \/ Mount(h) \/ ListFails(h)
    BY <1>7 DEF Handle, Refuse, Answer, AnswerIsLost, Told, ListAnswers, Mount, ListFails, AtHome,
                Resting
<1> QED
    BY <1>1, <1>2, <1>3, <1>4, <1>5, <1>6, <1>7 DEF PagesNext

(* Steps of the user.                                                          *)
LEMMA LookIsHandler ==
    ASSUME NEW list, NEW place, NEW turned, NEW r,
           r = GoesOn(Fresh("look", Nobody, <<list>>), place, turned)
    PROVE  IsHandler(r) /\ r # Resting /\ r.button = "look" /\ (r.alone => InFlight = {})
<1>1. PICK f : f = Fresh("look", Nobody, <<list>>)
    OBVIOUS
<1>2. Started(f, "look", Nobody, <<list>>)
    BY <1>1, FreshFields
<1>3. DOMAIN r = HandlerFields /\ r # Resting /\ SameButton(r, f) /\ r.step = "asks"
    <2>1. DOMAIN f = HandlerFields /\ f.then # <<>>
        BY <1>2 DEF Started
    <2> QED
        BY <1>1, <2>1, GoesOnFields
<1> QED
    BY <1>2, <1>3 DEF Started, IsHandler, SameButton

LEMMA LookOwn == ASSUME OwnInv, NEW list, Look(list) PROVE HandlersAre' /\ OwnCalls'
<1>1. PICK r, place, turned :
        place = wanted' /\ turned = auditPage' /\ r = GoesOn(Fresh("look", Nobody, <<list>>), place, turned)
    OBVIOUS
<1>2. Starts(r)
    BY <1>1 DEF Look, Looks
<1>3. IsHandler(r) /\ r # Resting /\ r.button = "look" /\ (r.alone => InFlight = {})
    BY <1>1, LookIsHandler
<1>4. ~Own(r)
    BY <1>3, LooksAreNoButtons DEF Own
<1> QED
    BY <1>2, <1>3, <1>4, StartsOwn

LEMMA ResetOwn == ASSUME OwnInv, NEW u, ResetPassword(u) PROVE HandlersAre' /\ OwnCalls'
<1>1. PICK r : r = Fresh("resetLink", u, <<"audit">>)
    OBVIOUS
<1>2. Starts(r)
    BY <1>1 DEF ResetPassword
<1>3. Started(r, "resetLink", u, <<"audit">>)
    BY <1>1, FreshFields
<1>4. IsHandler(r) /\ r # Resting /\ (r.alone => InFlight = {}) /\ ~Own(r)
    BY <1>3, LooksAreNoButtons DEF Started, Own, IsHandler
<1> QED
    BY <1>2, <1>4, StartsOwn

LEMMA PressOwn ==
    ASSUME OwnInv, NEW b \in Buttons, NEW x \in Things, Press(b, x) PROVE HandlersAre' /\ OwnCalls'
<1>1. PICK r : r = Fresh(b, x, Refreshes(x))
    OBVIOUS
<1>2. Starts(r) /\ UNCHANGED <<version, open>>
    BY <1>1 DEF Press, serverVars
<1>3. /\ IsHandler(r) /\ r # Resting /\ (r.alone => InFlight = {})
      /\ r.step = "sent" /\ r.thing = x /\ r.then = Refreshes(x)
      /\ r.ok = r.done /\ r.at = 0 /\ r.audited = 0 /\ ~r.missed
    <2>1. Started(r, b, x, Refreshes(x))
        BY <1>1, FreshFields
    <2> QED
        BY <2>1 DEF Started, IsHandler
<1>4. version[ListOf(x)] \in Nat /\ version["audit"] \in Nat
    BY ThingsLists DEF OwnInv, PageTypes, Lists
<1>5. Refreshes(r.thing)' = Refreshes(x)
    BY <1>2, <1>3 DEF Refreshes
<1>6. Owes(r)'
    BY <1>2, <1>3, <1>4, <1>5 DEF Owes
<1> QED
    BY <1>2, <1>3, <1>6, StartsOwn

LEMMA OpenOwn ==
    ASSUME OwnInv, AtHome, NEW to \in {"account", "admin"}, Open(to) PROVE HandlersAre' /\ OwnCalls'
<1>1. CASE open' = "login"
    <2>1. call' = call /\ \A h \in PageHandlers : call[h] = Resting
        BY <1>1, OpensAPage DEF Open, AtHome
    <2> QED
        BY <2>1 DEF OwnInv, HandlersAre, OwnCalls, Own
<1>2. CASE open' # "login"
    <2>1. call' = [h \in PageHandlers |->
                    IF h \in DOMAIN Loads[open']
                    THEN GoesOn(Fresh("look", Nobody, <<Loads[open'][h]>>), wanted, auditPage)
                    ELSE Resting]
        BY <1>2 DEF Open
    <2>2. \A h \in PageHandlers : (call'[h] # Resting => IsHandler(call'[h])) /\ ~Own(call'[h])
        <3> SUFFICES ASSUME NEW h \in PageHandlers
                     PROVE  (call'[h] # Resting => IsHandler(call'[h])) /\ ~Own(call'[h])
            OBVIOUS
        <3>1. CASE h \in DOMAIN Loads[open']
            <4>1. PICK list : list = Loads[open'][h]
                OBVIOUS
            <4>2. PICK r : r = GoesOn(Fresh("look", Nobody, <<list>>), wanted, auditPage)
                OBVIOUS
            <4>3. call'[h] = r
                BY <2>1, <3>1, <4>1, <4>2
            <4>4. IsHandler(r) /\ ~Own(r)
                BY <4>2, LookIsHandler, LooksAreNoButtons DEF Own
            <4> QED
                BY <4>3, <4>4
        <3>2. CASE h \notin DOMAIN Loads[open']
            BY <2>1, <3>2 DEF Own
        <3> QED
            BY <3>1, <3>2
    <2> QED
        BY <2>1, <2>2 DEF HandlersAre, OwnCalls, Own
<1> QED
    BY <1>1, <1>2

LEMMA PageTypesLast == OwnInv /\ [PagesNext]_pagesVars => PageTypes'
<1> SUFFICES ASSUME OwnInv, [PagesNext]_pagesVars PROVE PageTypes'
    OBVIOUS
<1>1. troubles' \in Nat
    <2>1. Trouble \/ troubles' = troubles
        BY DEF PagesNext, pagesVars, Open, SignOut, Elsewhere, Hide, RefreshGuard, Look, Press,
               ResetPassword, LookAtCaptures, TurnCaptures, TurnAudit, Handle, Refuse, Answer,
               AnswerIsLost, ListAnswers, Mount, ListFails
    <2> QED
        BY <2>1 DEF OwnInv, PageTypes, Trouble
<1>2. shown' = [list \in Lists |-> shown'[list]]
    BY DEF OwnInv, PageTypes, PagesNext, pagesVars, Open, SignOut, Elsewhere, Hide, RefreshGuard, Look,
           Press, ResetPassword, LookAtCaptures, TurnCaptures, TurnAudit, Handle, Refuse, Answer,
           AnswerIsLost, Told, ListAnswers, Mount, ListFails, boxVars
<1>3. version' \in [Lists -> Nat]
    <2>1. CASE \E h \in PageHandlers : Handle(h)
        BY <2>1, HandleOwn DEF Later
    <2>2. CASE Elsewhere
        <3>1. PICK b \in Buttons, x \in Contested : Accepts(b, x) /\ Commit(b, x)
            BY <2>2 DEF Elsewhere
        <3>2. x \in Things
            BY <3>1, ButtonsAreAboutThings DEF Accepts
        <3> QED
            BY <3>1, <3>2, CommitsGrow DEF OwnInv, Later
    <2>3. CASE version' = version
        BY <2>3 DEF OwnInv, PageTypes
    <2> QED
        BY <2>1, <2>2, <2>3
           DEF PagesNext, pagesVars, serverVars, Open, SignOut, Hide, RefreshGuard, Look, Press,
               ResetPassword, LookAtCaptures, TurnCaptures, TurnAudit, Refuse, Answer, AnswerIsLost,
               Told, ListAnswers, Mount, ListFails
<1> QED
    BY <1>1, <1>2, <1>3 DEF PageTypes

OwnInvs == OwnInv /\ AtHome
LEMMA OwnNext == OwnInvs /\ [PagesNext]_pagesVars => OwnInvs'
<1> SUFFICES ASSUME OwnInv, AtHome, [PagesNext]_pagesVars PROVE HandlersAre' /\ OwnCalls'
    BY PageTypesLast, HomeLasts DEF OwnInvs, OwnInv
<1>1. CASE \E to \in {"account", "admin"} : Open(to)
    BY <1>1, OpenOwn
<1>2. CASE SignOut
    <2>1. call' = [h \in PageHandlers |-> Resting]
        BY <1>2 DEF SignOut
    <2> QED
        BY <2>1 DEF HandlersAre, OwnCalls, Own
<1>3. CASE Elsewhere \/ Hide \/ UNCHANGED pagesVars
    <2>1. Later
        <3>1. CASE Elsewhere
            <4>1. PICK b \in Buttons, x \in Contested : Accepts(b, x) /\ Commit(b, x)
                BY <3>1 DEF Elsewhere
            <4>2. x \in Things
                BY <4>1, ButtonsAreAboutThings DEF Accepts
            <4> QED
                BY <4>1, <4>2, CommitsGrow DEF OwnInv
        <3>2. CASE Hide \/ UNCHANGED pagesVars
            BY <3>2, SameIsLater DEF Hide, pagesVars, serverVars, OwnInv
        <3> QED
            BY <1>3, <3>1, <3>2
    <2>2. call' = call /\ UNCHANGED <<open, shown, status>>
        BY <1>3 DEF Elsewhere, Hide, pagesVars, boxVars
    <2> QED
        BY <2>1, <2>2, OthersOwn
<1>4. CASE \/ RefreshGuard \/ \E u \in People : LookAtCaptures(u)
           \/ \E n \in {-1, 1} : TurnCaptures(n) \/ TurnAudit(n)
    <2>1. PICK list \in Lists : Look(list)
        BY <1>4 DEF RefreshGuard, LookAtCaptures, TurnCaptures, TurnAudit, Lists
    <2> QED
        BY <2>1, LookOwn
<1>5. CASE \E b \in Buttons : \E x \in Request[b].of : Press(b, x)
    <2>1. PICK b \in Buttons : \E x \in Request[b].of : Press(b, x)
        BY <1>5
    <2>2. PICK x \in Things : Press(b, x)
        BY <2>1, ButtonsAreAboutThings
    <2> QED
        BY <2>2, PressOwn
<1>6. CASE \E u \in People : ResetPassword(u)
    BY <1>6, ResetOwn
<1>7. ASSUME NEW h \in PageHandlers, \/ Handle(h) \/ Refuse(h) \/ Answer(h) \/ AnswerIsLost(h)
                                     \/ ListAnswers(h) \/ Mount(h) \/ ListFails(h)
      PROVE  HandlersAre' /\ OwnCalls'
    <2>1. CASE Answer(h) \/ AnswerIsLost(h)
        <3>1. PICK good : /\ call[h].step = "answered" /\ (good = call[h].ok \/ good = FALSE)
                          /\ Told(h, good) /\ version' = version
            BY <2>1 DEF Answer, AnswerIsLost, Told, serverVars
        <3> QED
            BY <3>1, ToldOwn
    <2> QED
        BY <1>7, <2>1, HandleOwn, RefuseOwn, ListAnswersOwn, MountOwn, ListFailsOwn
<1> QED
    BY <1>1, <1>2, <1>3, <1>4, <1>5, <1>6, <1>7 DEF PagesNext

(* A handler is through when its change failed on the account page, or with the *)
(* last of its lists; no other step ends one.                                 *)
LEMMA StartsEndNothing ==
    ASSUME OwnInv, NEW r, r # Resting, Starts(r), NEW h \in PageHandlers, call[h] # Resting
    PROVE  call'[h] # Resting
<1>1. PICK f \in PageHandlers \ InFlight :
        call' = [g \in PageHandlers |->
                    IF g = f THEN r
                    ELSE IF g \in InFlight THEN [call[g] EXCEPT !.alone = FALSE] ELSE Resting]
    BY DEF Starts
<1>2. h \in InFlight /\ DOMAIN call[h] = HandlerFields
    BY DEF InFlight, OwnInv, HandlersAre, IsHandler
<1>3. PICK q : q = [call[h] EXCEPT !.alone = FALSE]
    OBVIOUS
<1>4. "button" \in DOMAIN q
    BY <1>2, <1>3 DEF HandlerFields
<1>5. q # Resting
    BY <1>4 DEF Resting
<1> QED
    BY <1>1, <1>2, <1>3, <1>5

Ends(h) == call[h] # Resting /\ call'[h] = Resting /\ open' = open
LEMMA EndsBy ==
    ASSUME OwnInv, [PagesNext]_pagesVars, NEW h \in PageHandlers, Ends(h)
    PROVE  \/ Answer(h) \/ AnswerIsLost(h) \/ Mount(h) \/ ListFails(h)
<1>1. CASE \E to \in {"account", "admin"} : Open(to)
    BY <1>1, OpensAPage DEF Ends
<1>2. CASE SignOut
    BY <1>2 DEF SignOut, Ends
<1>3. CASE Elsewhere \/ Hide \/ UNCHANGED pagesVars
    BY <1>3 DEF Elsewhere, Hide, pagesVars, Ends
<1>4. CASE \/ RefreshGuard \/ \E u \in People : LookAtCaptures(u)
           \/ \E n \in {-1, 1} : TurnCaptures(n) \/ TurnAudit(n)
    <2>1. PICK list \in Lists : Look(list)
        BY <1>4 DEF RefreshGuard, LookAtCaptures, TurnCaptures, TurnAudit, Lists
    <2>2. PICK r, place, turned :
            place = wanted' /\ turned = auditPage' /\ r = GoesOn(Fresh("look", Nobody, <<list>>), place, turned)
        OBVIOUS
    <2>3. Starts(r) /\ r # Resting
        BY <2>1, <2>2, LookIsHandler DEF Look, Looks
    <2> QED
        BY <2>3, StartsEndNothing DEF Ends
<1>5. CASE \/ \E b \in Buttons : \E x \in Request[b].of : Press(b, x)
           \/ \E u \in People : ResetPassword(u)
    <2>1. PICK b, x, then : Starts(Fresh(b, x, then))
        BY <1>5 DEF Press, ResetPassword
    <2>2. Fresh(b, x, then) # Resting
        BY FreshFields DEF Started
    <2> QED
        BY <2>1, <2>2, StartsEndNothing DEF Ends
<1>6. ASSUME NEW g \in PageHandlers, \/ Handle(g) \/ Refuse(g) \/ ListAnswers(g)
                                     \/ Answer(g) \/ AnswerIsLost(g) \/ Mount(g) \/ ListFails(g)
      PROVE  \/ Answer(h) \/ AnswerIsLost(h) \/ Mount(h) \/ ListFails(h)
    <2>1. PICK q : call' = [call EXCEPT ![g] = q]
        BY <1>6 DEF Handle, Refuse, ListAnswers, Answer, AnswerIsLost, Told, Mount, ListFails
    <2>2. g = h
        BY <2>1 DEF Ends, OwnInv, HandlersAre
    <2>3. IsHandler(call[h])
        BY DEF Ends, OwnInv, HandlersAre
    <2>4. PICK r : r = call[h]
        OBVIOUS
    <2>5. ASSUME Handle(h) \/ Refuse(h) \/ ListAnswers(h) PROVE FALSE
        <3>1. call'[h].step \in {"answered", "listed"}
            BY <2>3, <2>5 DEF Handle, Refuse, ListAnswers, OwnInv, HandlersAre, IsHandler, HandlerFields
        <3> QED
            BY <3>1 DEF Ends, Resting
    <2> QED
        BY <1>6, <2>2, <2>5
<1> QED
    BY <1>1, <1>2, <1>3, <1>4, <1>5, <1>6 DEF PagesNext

LEMMA NothingLeft ==
    ASSUME OwnInv, NEW h \in PageHandlers, call'[h] = Resting, NEW r, DOMAIN r = HandlerFields,
           NEW place, NEW turned, call' = [call EXCEPT ![h] = GoesOn(r, place, turned)]
    PROVE  r.then = <<>>
<1>1. GoesOn(r, place, turned) = Resting
    BY DEF OwnInv, HandlersAre
<1>2. PICK q : q = GoesOn(r, place, turned)
    OBVIOUS
<1> QED
    BY <1>1, <1>2, GoesOnFields

LEMMA EndsTell ==
    ASSUME OwnInv, [PagesNext]_pagesVars, NEW h \in PageHandlers PROVE TellsTheTruth(h)
<1>1. PICK r : r = call[h]
    OBVIOUS
<1>2. SUFFICES ASSUME Ends(h), Own(r)
               PROVE  /\ (status' = "ok" => r.done /\ Shows(r))
                      /\ (open = "admin" /\ r.done /\ ~Missed(r) => Shows(r))
    BY <1>1 DEF TellsTheTruth, Ends, Own
<1>3. IsHandler(r) /\ Owes(r)
    BY <1>1, <1>2 DEF OwnInv, HandlersAre, OwnCalls, Own
<1>4. ASSUME Answer(h) \/ AnswerIsLost(h) PROVE status' # "ok" /\ open # "admin"
    <2>1. PICK good : Told(h, good) /\ r.step = "answered"
        BY <1>1, <1>4 DEF Answer, AnswerIsLost
    <2>2. r.then # <<>>
        BY <1>3, <2>1, RefreshesSomething DEF Owes
    <2>3. ASSUME good \/ open = "admin" PROVE FALSE
        <3>1. call' = [call EXCEPT ![h] = GoesOn(r, wanted, auditPage)]
            BY <1>1, <2>1, <2>3 DEF Told
        <3> QED
            BY <1>2, <1>3, <2>2, <3>1, NothingLeft DEF Ends, IsHandler
    <2> QED
        BY <2>1, <2>3 DEF Told
<1>5. CASE Mount(h)
    <2>1. /\ r.step = "listed" /\ shown' = [shown EXCEPT ![r.list] = r.answer] /\ status' = status
          /\ call' = [call EXCEPT ![h] = GoesOn(r, wanted, auditPage)]
        BY <1>1, <1>5 DEF Mount
    <2>2. r.then = <<>>
        BY <1>2, <1>3, <2>1, NothingLeft DEF Ends, IsHandler
    <2>3. /\ (status = "ok" => r.done /\ ~r.missed) /\ Turn(r)
          /\ r.answer.version >= (IF r.list = "audit" THEN r.audited ELSE r.at)
        BY <1>3, <2>1 DEF Owes
    <2>4. PICK l \in Lists \ {"audit"} : l = ListOf(r.thing)
        BY <1>3, ThingsLists DEF Owes
    <2>5. CASE r.list = l
        <3>1. open # "admin"
            BY <2>2, <2>3, <2>4, <2>5 DEF Turn
        <3>2. shown'[l].version >= r.at
            BY <2>1, <2>3, <2>4, <2>5 DEF OwnInv, PageTypes
        <3> QED
            BY <2>1, <2>3, <2>4, <3>1, <3>2 DEF Shows
    <2>6. CASE r.list # l
        <3>1. r.list = "audit" /\ (~r.missed => shown[l].version >= r.at)
            BY <2>3, <2>4, <2>6 DEF Turn
        <3>2. shown'["audit"].version >= r.audited /\ shown'[l] = shown[l]
            BY <2>1, <2>3, <2>4, <3>1 DEF OwnInv, PageTypes, Lists
        <3> QED
            BY <2>1, <2>3, <2>4, <3>1, <3>2 DEF Shows, Missed
    <2> QED
        BY <2>5, <2>6
<1>6. CASE ListFails(h)
    <2>1. status' # "ok" /\ r.step # "answered" /\ troubles' # troubles
        BY <1>1, <1>6 DEF ListFails, Trouble, OwnInv, PageTypes
    <2> QED
        BY <2>1 DEF Missed
<1> QED
    BY <1>2, <1>4, <1>5, <1>6, EndsBy

(* The inductive invariant of a handler that is alone.                         *)
THEOREM HandlersPayWhatTheyOwe == PagesSpec => []OwnInvs
<1>1. PagesInit => OwnInvs
    BY OwnStart, HomeStart DEF OwnInvs
<1> QED
    BY <1>1, OwnNext, PTL DEF PagesSpec

(* What the pages tell of a change is true, and the administrator sees a change *)
(* and its audit row even when the answer to it was lost (account.ts, admin.ts). *)
THEOREM OwnChangesAreShown == PagesSpec => OwnChangeIsShown
<1>1. OwnInvs /\ [PagesNext]_pagesVars => [\A h \in PageHandlers : TellsTheTruth(h)]_pagesVars
    BY EndsTell DEF OwnInvs
<1> QED
    BY <1>1, HandlersPayWhatTheyOwe, PTL DEF PagesSpec, OwnChangeIsShown
=============================================================================
