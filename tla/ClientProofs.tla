---------------------------- MODULE ClientProofs ----------------------------
(***************************************************************************)
(* Proofs about what runs on the user's side: the Linux client, for any    *)
(* number of processes and requests, and the extension's region overlay,   *)
(* for any page.  Of the client, two arguments that share only the program *)
(* counters; of the overlay, one.                                          *)
(*                                                                         *)
(* The gate.  The owner of the bus name is the resident, so there is one   *)
(* at a time; it is at work on at most one request, for which its gate is  *)
(* shut, until it takes the one result that request sent.  A queue holds a *)
(* request once, so taking it cannot start a capture twice.                *)
(*                                                                         *)
(* The settings.  A command that nobody ran beside is alone at the files,  *)
(* so what it read of the config is still there when it writes, and each   *)
(* of its steps leaves what the next one needs; a command that was         *)
(* disturbed, or died after its first write, is on record in torn.         *)
(*                                                                         *)
(* The overlay.  Everything a scan reads is of an element of the page and  *)
(* has edges, and so has every candidate of an index, however the page     *)
(* changed under the walk.  What a press arms has passed the guards where  *)
(* it was shown; what a release takes has passed them again where it is    *)
(* now, or is what was armed.  In the viewport, and a device pixel or more *)
(* from edge to edge, it is not empty in the snapshot.                     *)
(***************************************************************************)
EXTENDS LinuxClient, RegionOverlay, FiniteSetTheorems, SequenceTheorems, TLAPS

(* The gate.                                                                 *)

Places == {"off", "serving", "forwarding", "filing", "loading", "loop", "opening", "leaving",
           "closing", "alone", "gone", "pinging", "storing", "deleting", "asking", "saving",
           "switching", "reading", "noting"}
AskPlaces == {"new", "asked", "queued", "sent", "told", "shown", "lost"} \cup Running
Commands == [do : {"capture"}, req : Requests] \cup [do : {"openLast", "quit"}]
Results == [req : Requests, page : BOOLEAN]
Asks == [at : AskPlaces, by : Launches \cup {None}]

GateTypes ==
    /\ pc \in [Launches -> Places] /\ owner \in Launches \cup {None}
    /\ queue \in [Launches -> Seq(Commands)]
    /\ busy \in [Launches -> BOOLEAN]
    /\ done \in [Launches -> Seq(Results)]
    /\ ask \in [Requests -> Asks]

(* From taking the name to giving it up with the process. *)
Resident == {"loading", "leaving", "closing"} \cup InLoop

OwnerServes == \A p \in Launches : owner = p <=> pc[p] \in Resident

(* A request is with a process that is there for it, and nowhere before it was *)
(* made or after it was answered.                                              *)
AsksBelong ==
    \A q \in Requests :
        \/ ask[q].by = None /\ ask[q].at \in {"new", "told", "shown", "lost"}
        \/ /\ ask[q].by \in Launches
           /\ \/ pc[ask[q].by] \in Resident /\ ask[q].at \in {"queued", "sent"} \cup Running
              \/ pc[ask[q].by] = "alone" /\ ask[q].at \in {"asked"} \cup Running

(* Each process works on one request, those still in its queue aside, and a    *)
(* resident that does has shut its gate.                                       *)
AtWork(p, q) == ask[q].by = p /\ ask[q].at # "queued"

OneAtWork ==
    \A p \in Launches :
        /\ \A q, r \in Requests : AtWork(p, q) /\ AtWork(p, r) => q = r
        /\ pc[p] \in Resident /\ (\E q \in Requests : AtWork(p, q)) => busy[p]

(* A queue holds each of its requests once. *)
QueueHolds ==
    \A p \in Launches : \A k \in 1..Len(queue[p]) :
        queue[p][k].do = "capture" =>
            /\ ask[queue[p][k].req] = [at |-> "queued", by |-> p]
            /\ \A j \in 1..Len(queue[p]) :
                  queue[p][j].do = "capture" /\ queue[p][j].req = queue[p][k].req => j = k

(* The gate opens for the one result there is. *)
ResultsSent ==
    \A p \in Launches : done[p] # <<>> =>
        Len(done[p]) = 1 /\ ask[done[p][1].req] = [at |-> "sent", by |-> p]

GateInv == GateTypes /\ OwnerServes /\ AsksBelong /\ OneAtWork /\ QueueHolds /\ ResultsSent

(* The settings.                                                             *)

OnOrOff == BOOLEAN \cup {None}
Drafts == [store : Stores \cup {None}, autostart : OnOrOff, prev : Configs \cup {None},
           undisturbed : BOOLEAN]

SettingsTypes ==
    /\ pc \in [Launches -> Places]
    /\ config \in Configs \cup {None, Unreadable}
    /\ tokens \in SUBSET Stores
    /\ entry \in BOOLEAN
    /\ draft \in [Launches -> Drafts]
    /\ torn \in {{}, {"autostart"}, Settings}

StoreChosen ==
    \A p \in Launches : pc[p] \in {"storing", "deleting", "asking", "saving"} =>
        draft[p].store \in Stores

(* Undisturbed is alone. *)
UndisturbedAlone == \A p \in AtSettings : draft[p].undisturbed => AtSettings = {p}

(* What is owed of the files while nobody is at them. *)
StoreNamed == "token" \notin torn /\ config # None => config # Unreadable /\ config.store \in tokens
ChoiceNoted == torn = {} /\ config # None => config.autostart \in {None, entry}

(* What an undisturbed command has at each of its steps. *)
Midway(p) ==
    /\ pc[p] \in {"pinging", "storing", "switching"} => StoreNamed /\ ChoiceNoted
    /\ pc[p] \in {"pinging", "storing", "deleting", "asking"} =>
        draft[p].prev = config /\ ChoiceNoted
    /\ pc[p] \in {"deleting", "asking", "saving"} => draft[p].store \in tokens
    /\ pc[p] = "saving" => (torn = {} => draft[p].autostart \in {None, entry})
    /\ pc[p] \in {"reading", "noting"} => StoreNamed /\ draft[p].autostart = entry
    /\ pc[p] = "noting" => draft[p].prev = config

CommandsInOrder ==
    /\ AtSettings = {} => StoreNamed /\ ChoiceNoted
    /\ \A p \in AtSettings : draft[p].undisturbed => Midway(p)

SettingsInv == SettingsTypes /\ StoreChosen /\ UndisturbedAlone /\ CommandsInOrder

-----------------------------------------------------------------------------
(* Moves.                                                                    *)

LEMMA Moved ==
    ASSUME NEW p \in Launches, NEW from, NEW to \in Places, pc \in [Launches -> Places],
           Move(p, from, to)
    PROVE  /\ pc' \in [Launches -> Places] /\ pc[p] = from /\ pc'[p] = to
           /\ \A o \in Launches : o # p => pc'[o] = pc[o]
BY DEF Move

(* Who is resident and who works alone is as before. *)
SameRoles ==
    /\ pc' \in [Launches -> Places]
    /\ \A p \in Launches : /\ pc'[p] \in Resident <=> pc[p] \in Resident
                           /\ pc'[p] = "alone" <=> pc[p] = "alone"

LEMMA SameRolesAfter ==
    ASSUME NEW p \in Launches, NEW from, NEW to \in Places, pc \in [Launches -> Places],
           Move(p, from, to),
           from \in Resident <=> to \in Resident, from = "alone" <=> to = "alone"
    PROVE  SameRoles
BY Moved DEF SameRoles

LEMMA RolesUntouched == pc \in [Launches -> Places] /\ UNCHANGED pc => SameRoles
BY DEF SameRoles

LEMMA GateKept ==
    ASSUME GateInv, SameRoles, UNCHANGED <<owner, queue, busy, done, ask>>
    PROVE  GateInv'
BY DEF GateInv, SameRoles, GateTypes, OwnerServes, AsksBelong, OneAtWork, AtWork, QueueHolds,
   ResultsSent

LEMMA GateInitEstablishes == Init => GateInv
BY ClientAssumption DEF Init, GateInv, GateTypes, OwnerServes, AsksBelong, OneAtWork, AtWork,
   QueueHolds, ResultsSent, Places, Asks, AskPlaces, Resident, InLoop
-----------------------------------------------------------------------------
(* The gate, step by step.                                                   *)

LEMMA StartsAreMoves ==
    ASSUME NEW p \in Launches, NEW to, Starts(p, to)
    PROVE  Move(p, "off", to)
BY DEF Starts

LEMMA LaunchKeepsGate ==
    ASSUME GateInv, NEW p \in Launches, Launch(p)
    PROVE  GateInv'
<1>1. PICK role \in {"serving", "forwarding", "filing"} : Starts(p, role)
    BY DEF Launch
<1>2. SameRoles
    BY <1>1, StartsAreMoves, SameRolesAfter DEF GateInv, GateTypes, Places, Resident, InLoop
<1> QED
    BY <1>2, GateKept DEF Launch, resident

(* Whoever gets the name was the only one to want it. *)
LEMMA ServeKeepsGate ==
    ASSUME GateInv, NEW p \in Launches, Serve(p)
    PROVE  GateInv'
<1>1. CASE Move(p, "serving", "gone") /\ UNCHANGED owner
    <2>1. SameRoles
        BY <1>1, SameRolesAfter DEF GateInv, GateTypes, Places, Resident, InLoop
    <2> QED
        BY <1>1, <2>1, GateKept DEF Serve
<1>2. CASE MayServe(p) /\ Move(p, "serving", "loading") /\ owner' = p
    <2>1. /\ pc' \in [Launches -> Places] /\ pc[p] = "serving" /\ pc'[p] = "loading"
          /\ \A o \in Launches : o # p => pc'[o] = pc[o]
        BY <1>2, Moved DEF GateInv, GateTypes, Places
    <2>2. \A o \in Launches : pc[o] \notin Resident
        BY <1>2, ClientAssumption DEF MayServe, GateInv, OwnerServes
    <2>3. OwnerServes'
        BY <1>2, <2>1, <2>2 DEF OwnerServes, Resident
    <2>4. \A q \in Requests : ask[q].by # p
        BY <2>1, ClientAssumption DEF GateInv, AsksBelong, Resident, InLoop
    <2>5. UNCHANGED <<queue, busy, done, ask>>
        BY DEF Serve
    <2>6. AsksBelong'
        BY <2>1, <2>4, <2>5 DEF GateInv, AsksBelong
    <2>7. OneAtWork'
        BY <2>1, <2>4, <2>5 DEF GateInv, OneAtWork, AtWork
    <2> QED
        BY <1>2, <2>1, <2>3, <2>5, <2>6, <2>7 DEF GateInv, GateTypes, QueueHolds, ResultsSent
<1> QED
    BY <1>1, <1>2 DEF Serve

LEMMA LoopKeepsGate ==
    ASSUME GateInv, NEW p \in Launches,
           LoadSession(p) \/ LastOpened(p) \/ Signalled(p) \/ Close(p)
    PROVE  GateInv'
<1>1. SameRoles
    BY SameRolesAfter
    DEF GateInv, GateTypes, Places, Resident, InLoop, LoadSession, LastOpened, Signalled, Close
<1> QED
    BY <1>1, GateKept DEF LoadSession, LastOpened, Signalled, Close, resident

(* A request that nobody has yet is queued with a resident. *)
LEMMA SendKeepsGate ==
    ASSUME GateInv, NEW p \in Launches, NEW q \in Requests, New(q), pc[p] \in Resident,
           Send(p, q), SameRoles, UNCHANGED <<owner, busy, done>>
    PROVE  GateInv'
<1>1. ask[q].by = None /\ ask[q].at = "new"
    BY ClientAssumption DEF New, At, GateInv, AsksBelong, Running
<1> DEFINE c == [do |-> "capture", req |-> q]
<1>2. c \in Commands /\ c.do = "capture" /\ c.req = q
    BY DEF Commands
<1>3. /\ queue \in [Launches -> Seq(Commands)] /\ queue[p] \in Seq(Commands)
      /\ queue' = [queue EXCEPT ![p] = Append(@, c)]
    BY DEF Send, GateInv, GateTypes
<1> HIDE DEF c
<1>4. /\ queue' \in [Launches -> Seq(Commands)]
      /\ queue'[p] = Append(queue[p], c)
      /\ \A o \in Launches : o # p => queue'[o] = queue[o]
    BY <1>2, <1>3
<1>5. /\ ask' \in [Requests -> Asks] /\ ask'[q] = [at |-> "queued", by |-> p]
      /\ \A r \in Requests : r # q => ask'[r] = ask[r]
    BY DEF Send, GateInv, GateTypes, Asks, AskPlaces
<1>6. GateTypes'
    BY <1>4, <1>5 DEF GateInv, GateTypes, SameRoles
<1>7. OwnerServes'
    BY DEF GateInv, OwnerServes, SameRoles
<1>8. AsksBelong'
    BY <1>5, ClientAssumption DEF GateInv, AsksBelong, SameRoles
<1>9. OneAtWork'
    BY <1>5, <1>1 DEF GateInv, OneAtWork, AtWork, SameRoles
<1>10. \A o \in Launches : \A k \in 1..Len(queue[o]) :
          queue[o][k].do = "capture" => queue[o][k].req # q
    <2> SUFFICES ASSUME NEW o \in Launches, NEW k \in 1..Len(queue[o]),
                        queue[o][k].do = "capture", queue[o][k].req = q
                 PROVE  FALSE
        OBVIOUS
    <2>1. ask[queue[o][k].req] = [at |-> "queued", by |-> o]
        BY DEF GateInv, QueueHolds
    <2> QED
        BY <1>1, <2>1
<1>11. QueueHolds'
    <2> SUFFICES ASSUME NEW o \in Launches, NEW k \in 1..Len(queue'[o]),
                        queue'[o][k].do = "capture"
                 PROVE  /\ ask'[queue'[o][k].req] = [at |-> "queued", by |-> o]
                        /\ \A j \in 1..Len(queue'[o]) :
                             queue'[o][j].do = "capture"
                             /\ queue'[o][j].req = queue'[o][k].req => j = k
        BY DEF QueueHolds
    <2>1. queue[o] \in Seq(Commands) /\ \A j \in 1..Len(queue[o]) : queue[o][j] \in Commands
        BY <1>3
    <2>2. ASSUME NEW d \in Commands, d.do = "capture" PROVE d.req \in Requests
        BY <2>2 DEF Commands
    <2>3. CASE o # p
        <3>1. queue'[o] = queue[o] /\ k \in 1..Len(queue[o]) /\ queue[o][k].do = "capture"
            BY <1>4, <2>3
        <3>2. /\ ask[queue[o][k].req] = [at |-> "queued", by |-> o]
              /\ \A j \in 1..Len(queue[o]) :
                    queue[o][j].do = "capture" /\ queue[o][j].req = queue[o][k].req => j = k
            BY <3>1 DEF GateInv, QueueHolds
        <3>3. queue[o][k].req \in Requests /\ queue[o][k].req # q
            BY <1>10, <2>1, <2>2, <3>1
        <3> QED
            BY <1>5, <3>1, <3>2, <3>3
    <2>4. CASE o = p
        <3>1. /\ Len(queue'[p]) = Len(queue[p]) + 1 /\ Len(queue[p]) \in Nat
              /\ queue'[p][Len(queue[p]) + 1] = c
              /\ \A j \in 1..Len(queue[p]) : queue'[p][j] = queue[p][j]
            BY <1>2, <1>3, <1>4
        <3>2. CASE k = Len(queue[p]) + 1
            BY <1>2, <1>5, <1>10, <2>4, <3>1, <3>2
        <3>3. CASE k # Len(queue[p]) + 1
            <4>1. k \in 1..Len(queue[p]) /\ queue[p][k].do = "capture" /\ queue'[p][k] = queue[p][k]
                BY <2>4, <3>1, <3>3
            <4>2. queue[p][k].req # q /\ queue[p][k].req \in Requests
                BY <1>10, <2>1, <2>2, <2>4, <4>1
            <4>3. ask'[queue[p][k].req] = [at |-> "queued", by |-> p]
                BY <1>5, <4>1, <4>2 DEF GateInv, QueueHolds
            <4>4. \A j \in 1..Len(queue[p]) :
                    queue[p][j].do = "capture" /\ queue[p][j].req = queue[p][k].req => j = k
                BY <4>1 DEF GateInv, QueueHolds
            <4>5. ASSUME NEW j \in 1..Len(queue'[p]), queue'[p][j].do = "capture",
                         queue'[p][j].req = queue[p][k].req
                  PROVE  j = k
                <5>1. j # Len(queue[p]) + 1
                    BY <1>2, <3>1, <4>2, <4>5
                <5>2. j \in 1..Len(queue[p]) /\ queue'[p][j] = queue[p][j]
                    BY <3>1, <4>5, <5>1
                <5> QED
                    BY <4>4, <4>5, <5>2
            <4> QED
                BY <2>4, <4>1, <4>3, <4>5
        <3> QED
            BY <3>2, <3>3
    <2> QED
        BY <2>3, <2>4
<1>12. ResultsSent'
    <2> SUFFICES ASSUME NEW o \in Launches, done[o] # <<>>
                 PROVE  Len(done[o]) = 1 /\ ask'[done[o][1].req] = [at |-> "sent", by |-> o]
        BY DEF ResultsSent
    <2>1. Len(done[o]) = 1 /\ ask[done[o][1].req] = [at |-> "sent", by |-> o]
        BY DEF GateInv, ResultsSent
    <2>2. done[o][1] \in Results
        BY <2>1 DEF GateInv, GateTypes
    <2>3. done[o][1].req \in Requests /\ done[o][1].req # q
        BY <1>1, <2>1, <2>2 DEF Results
    <2> QED
        BY <1>5, <2>1, <2>3
<1> QED
    BY <1>6, <1>7, <1>8, <1>9, <1>11, <1>12 DEF GateInv

(* What is queued and what is sent is about requests. *)
LEMMA QueuedRequest ==
    ASSUME GateTypes, NEW p \in Launches, NEW k \in 1..Len(queue[p]),
           queue[p][k].do = "capture"
    PROVE  queue[p][k].req \in Requests
<1>1. queue[p][k] \in Commands
    BY DEF GateTypes
<1> QED
    BY <1>1 DEF Commands

LEMMA ResultsOne ==
    ASSUME GateInv, NEW p \in Launches, done[p] # <<>>
    PROVE  /\ Len(done[p]) = 1 /\ done[p][1] = Head(done[p]) /\ Tail(done[p]) = <<>>
           /\ Head(done[p]) \in Results /\ Head(done[p]).req \in Requests
           /\ ask[Head(done[p]).req] = [at |-> "sent", by |-> p]
<1>1. Len(done[p]) = 1 /\ ask[done[p][1].req] = [at |-> "sent", by |-> p]
    BY DEF GateInv, ResultsSent
<1>2. done[p] \in Seq(Results)
    BY DEF GateInv, GateTypes
<1>3. done[p][1] = Head(done[p]) /\ Tail(done[p]) = <<>> /\ Head(done[p]) \in Results
    <2>1. Head(done[p]) \in Results /\ done[p][1] = Head(done[p])
        BY <1>1, <1>2
    <2>2. Tail(done[p]) \in Seq(Results) /\ Len(Tail(done[p])) = 0
        BY <1>1, <1>2
    <2>3. Tail(done[p]) = <<>>
        BY <2>2, EmptySeq
    <2> QED
        BY <2>1, <2>3
<1> QED
    BY <1>1, <1>3 DEF Results

LEMMA QueueKept ==
    ASSUME GateInv, UNCHANGED queue,
           \A q \in Requests : ask[q].at = "queued" => ask'[q] = ask[q]
    PROVE  QueueHolds'
<1> SUFFICES ASSUME NEW p \in Launches, NEW k \in 1..Len(queue[p]), queue[p][k].do = "capture"
             PROVE  /\ ask'[queue[p][k].req] = [at |-> "queued", by |-> p]
                    /\ \A j \in 1..Len(queue[p]) :
                         queue[p][j].do = "capture" /\ queue[p][j].req = queue[p][k].req => j = k
    BY DEF QueueHolds
<1>1. /\ ask[queue[p][k].req] = [at |-> "queued", by |-> p]
      /\ \A j \in 1..Len(queue[p]) :
            queue[p][j].do = "capture" /\ queue[p][j].req = queue[p][k].req => j = k
    BY DEF GateInv, QueueHolds
<1>2. queue[p][k].req \in Requests
    BY QueuedRequest DEF GateInv
<1> QED
    BY <1>1, <1>2

LEMMA ResultsKept ==
    ASSUME GateInv, UNCHANGED done,
           \A q \in Requests : ask[q].at = "sent" => ask'[q] = ask[q]
    PROVE  ResultsSent'
<1> SUFFICES ASSUME NEW p \in Launches, done[p] # <<>>
             PROVE  Len(done[p]) = 1 /\ ask'[done[p][1].req] = [at |-> "sent", by |-> p]
    BY DEF ResultsSent
<1> QED
    BY ResultsOne

(* A command that takes its request itself works on that one alone. *)
LEMMA TakesItselfKeepsGate ==
    ASSUME GateInv, NEW p \in Launches, NEW q \in Requests, New(q),
           NEW from \in {"forwarding", "filing"}, Move(p, from, "alone"),
           NEW where \in {"asked", "uploading"},
           ask' = [ask EXCEPT ![q] = [at |-> where, by |-> p]],
           UNCHANGED <<owner, queue, busy, done>>
    PROVE  GateInv'
<1>1. /\ pc' \in [Launches -> Places] /\ pc[p] = from /\ pc'[p] = "alone"
      /\ \A o \in Launches : o # p => pc'[o] = pc[o]
    BY Moved DEF GateInv, GateTypes, Places
<1>2. ask[q].by = None /\ ask[q].at = "new"
    BY ClientAssumption DEF New, At, GateInv, AsksBelong, Running
<1>3. /\ ask' \in [Requests -> Asks] /\ ask'[q] = [at |-> where, by |-> p]
      /\ \A r \in Requests : r # q => ask'[r] = ask[r]
    BY DEF GateInv, GateTypes, Asks, AskPlaces, Running
<1>4. \A r \in Requests : ask[r].by # p
    BY <1>1, ClientAssumption DEF GateInv, AsksBelong, Resident, InLoop
<1>5. GateTypes'
    BY <1>1, <1>3 DEF GateInv, GateTypes
<1>6. OwnerServes'
    BY <1>1 DEF GateInv, OwnerServes, Resident, InLoop
<1>7. AsksBelong'
    BY <1>1, <1>3, <1>4 DEF GateInv, AsksBelong, Running
<1>8. OneAtWork'
    BY <1>1, <1>2, <1>3, <1>4 DEF GateInv, OneAtWork, AtWork, Resident, InLoop
<1>9. QueueHolds' /\ ResultsSent'
    BY <1>2, <1>3, QueueKept, ResultsKept
<1> QED
    BY <1>5, <1>6, <1>7, <1>8, <1>9 DEF GateInv

LEMMA ForwardKeepsGate ==
    ASSUME GateInv, NEW p \in Launches, NEW q \in Requests, Forward(p, q)
    PROVE  GateInv'
<1>1. CASE /\ owner = None /\ Move(p, "forwarding", "alone")
           /\ ask' = [ask EXCEPT ![q] = [at |-> "asked", by |-> p]] /\ UNCHANGED queue
    BY <1>1, TakesItselfKeepsGate DEF Forward
<1>2. ASSUME Move(p, "forwarding", "gone") PROVE SameRoles
    BY <1>2, SameRolesAfter DEF GateInv, GateTypes, Places, Resident, InLoop
<1>3. CASE /\ owner # None /\ Listening(owner) /\ Move(p, "forwarding", "gone")
           /\ Send(owner, q)
    <2>1. PICK o \in Launches : o = owner
        BY <1>3 DEF GateInv, GateTypes
    <2>2. o \in Launches /\ pc[o] \in Resident
        BY <1>3, <2>1 DEF GateInv, OwnerServes
    <2> QED
        BY <1>2, <1>3, <2>1, <2>2, SendKeepsGate DEF Forward
<1>4. CASE Move(p, "forwarding", "gone") /\ UNCHANGED <<queue, ask>>
    BY <1>2, <1>4, GateKept DEF Forward
<1> QED
    BY <1>1, <1>3, <1>4 DEF Forward

LEMMA ShortcutKeepsGate ==
    ASSUME GateInv, NEW p \in Launches, NEW q \in Requests, Shortcut(p, q)
    PROVE  GateInv'
<1>1. pc[p] \in Resident /\ SameRoles
    BY RolesUntouched DEF Shortcut, Resident, GateInv, GateTypes
<1> QED
    BY <1>1, SendKeepsGate DEF Shortcut

LEMMA UploadFileKeepsGate ==
    ASSUME GateInv, NEW p \in Launches, NEW q \in Requests, UploadFile(p, q)
    PROVE  GateInv'
BY TakesItselfKeepsGate DEF UploadFile, resident

LEMMA TrayKeepsGate ==
    ASSUME GateInv, NEW p \in Launches, Tray(p)
    PROVE  GateInv'
<1>1. PICK d \in {"openLast", "quit"} : queue' = [queue EXCEPT ![p] = Append(@, [do |-> d])]
    BY DEF Tray
<1> DEFINE c == [do |-> d]
<1>2. c \in Commands /\ c.do # "capture"
    BY DEF Commands
<1>3. queue[p] = <<>> /\ queue \in [Launches -> Seq(Commands)]
    BY DEF Tray, GateInv, GateTypes
<1>4. queue' = [queue EXCEPT ![p] = Append(@, c)]
    BY <1>1
<1> HIDE DEF c
<1>5. /\ queue' \in [Launches -> Seq(Commands)]
      /\ Len(queue'[p]) = 1 /\ queue'[p][1] = c
      /\ \A o \in Launches : o # p => queue'[o] = queue[o]
    BY <1>2, <1>3, <1>4
<1>6. QueueHolds'
    <2> SUFFICES ASSUME NEW o \in Launches, NEW k \in 1..Len(queue'[o]),
                        queue'[o][k].do = "capture"
                 PROVE  o # p
        BY <1>5 DEF GateInv, QueueHolds, Tray
    <2> QED
        BY <1>2, <1>5
<1> QED
    BY <1>5, <1>6 DEF Tray, GateInv, GateTypes, OwnerServes, AsksBelong, OneAtWork, AtWork, ResultsSent

(* Taking the first command leaves the requests behind it queued. *)
LEMMA QueueTaken ==
    ASSUME GateInv, NEW p \in Launches, queue[p] # <<>>,
           queue' = [queue EXCEPT ![p] = Tail(@)],
           \A q \in Requests :
             ask[q].at = "queued" /\ ~(Head(queue[p]).do = "capture" /\ Head(queue[p]).req = q)
               => ask'[q] = ask[q]
    PROVE  queue' \in [Launches -> Seq(Commands)] /\ QueueHolds'
<1>1. queue \in [Launches -> Seq(Commands)] /\ queue[p] \in Seq(Commands)
    BY DEF GateInv, GateTypes
<1>2. /\ Tail(queue[p]) \in Seq(Commands) /\ Head(queue[p]) = queue[p][1]
      /\ Len(queue[p]) \in Nat /\ Len(queue[p]) >= 1 /\ Len(Tail(queue[p])) = Len(queue[p]) - 1
      /\ \A k \in 1..Len(queue[p]) - 1 : Tail(queue[p])[k] = queue[p][k + 1]
    BY <1>1
<1>3. /\ queue' \in [Launches -> Seq(Commands)] /\ queue'[p] = Tail(queue[p])
      /\ \A o \in Launches : o # p => queue'[o] = queue[o]
    BY <1>1, <1>2
<1>4. QueueHolds'
    <2> SUFFICES ASSUME NEW o \in Launches, NEW k \in 1..Len(queue'[o]),
                        queue'[o][k].do = "capture"
                 PROVE  /\ ask'[queue'[o][k].req] = [at |-> "queued", by |-> o]
                        /\ \A j \in 1..Len(queue'[o]) :
                             queue'[o][j].do = "capture"
                             /\ queue'[o][j].req = queue'[o][k].req => j = k
        BY DEF QueueHolds
    <2>1. ASSUME NEW m \in 1..Len(queue[o]), queue[o][m].do = "capture"
          PROVE  /\ queue[o][m].req \in Requests
                 /\ ask[queue[o][m].req] = [at |-> "queued", by |-> o]
                 /\ \A j \in 1..Len(queue[o]) :
                      queue[o][j].do = "capture" /\ queue[o][j].req = queue[o][m].req => j = m
        BY <2>1, QueuedRequest DEF GateInv, QueueHolds
    <2>2. CASE o # p
        <3>1. queue'[o] = queue[o] /\ k \in 1..Len(queue[o]) /\ queue[o][k].do = "capture"
            BY <1>3, <2>2
        <3>2. queue[o][k].req # Head(queue[p]).req \/ Head(queue[p]).do # "capture"
            <4> SUFFICES ASSUME queue[p][1].do = "capture", queue[o][k].req = queue[p][1].req
                         PROVE  FALSE
                BY <1>2
            <4>1. 1 \in 1..Len(queue[p])
                BY <1>2
            <4>2. ask[queue[p][1].req] = [at |-> "queued", by |-> p]
                BY <4>1 DEF GateInv, QueueHolds
            <4>3. ask[queue[o][k].req] = [at |-> "queued", by |-> o]
                BY <2>1, <3>1
            <4> QED
                BY <2>2, <4>2, <4>3
        <3>3. ask'[queue[o][k].req] = ask[queue[o][k].req]
            <4>1. queue[o][k].req \in Requests /\ ask[queue[o][k].req].at = "queued"
                BY <2>1, <3>1
            <4> QED
                BY <3>2, <4>1
        <3> QED
            BY <2>1, <3>1, <3>3
    <2>3. CASE o = p
        <3>1. k + 1 \in 1..Len(queue[p]) /\ queue'[p][k] = queue[p][k + 1]
            BY <1>2, <1>3, <2>3
        <3>2. queue[p][k + 1].do = "capture"
            BY <2>3, <3>1
        <3>3. /\ queue[p][k + 1].req \in Requests
              /\ ask[queue[p][k + 1].req] = [at |-> "queued", by |-> p]
              /\ \A j \in 1..Len(queue[p]) :
                   queue[p][j].do = "capture" /\ queue[p][j].req = queue[p][k + 1].req => j = k + 1
            BY <2>1, <2>3, <3>1, <3>2
        <3>4. ~(queue[p][1].do = "capture" /\ queue[p][1].req = queue[p][k + 1].req)
            <4>1. 1 \in 1..Len(queue[p]) /\ k \in Nat \ {0}
                BY <1>2
            <4> QED
                BY <3>3, <4>1
        <3>5. ask'[queue[p][k + 1].req] = [at |-> "queued", by |-> p]
            BY <1>2, <3>3, <3>4
        <3>6. ASSUME NEW j \in 1..Len(queue'[p]), queue'[p][j].do = "capture",
                     queue'[p][j].req = queue[p][k + 1].req
              PROVE  j = k
            <4>1. j + 1 \in 1..Len(queue[p]) /\ queue'[p][j] = queue[p][j + 1] /\ j \in Nat
                BY <1>2, <1>3, <3>6
            <4>2. j + 1 = k + 1
                BY <3>3, <3>6, <4>1
            <4> QED
                BY <4>1, <4>2
        <3> QED
            BY <2>3, <3>1, <3>5, <3>6
    <2> QED
        BY <2>2, <2>3
<1> QED
    BY <1>3, <1>4

(* A capture begins when its resident works on nothing. *)
LEMMA ReceiveKeepsGate ==
    ASSUME GateInv, NEW p \in Launches, Receive(p)
    PROVE  GateInv'
<1>1. /\ pc[p] = "loop" /\ queue[p] # <<>> /\ queue' = [queue EXCEPT ![p] = Tail(@)]
      /\ UNCHANGED <<owner, done>>
    BY DEF Receive, Takes
<1> DEFINE c == Head(queue[p])
<1>2. c \in Commands /\ c = queue[p][1] /\ 1 \in 1..Len(queue[p])
    BY <1>1 DEF GateInv, GateTypes
<1>3. CASE c.do # "capture"
    <2>1. UNCHANGED <<busy, ask>> /\ (Move(p, "loop", "leaving") \/ Move(p, "loop", "opening"))
        BY <1>3 DEF Receive
    <2>2. SameRoles
        BY <2>1, SameRolesAfter DEF GateInv, GateTypes, Places, Resident, InLoop
    <2>3. queue' \in [Launches -> Seq(Commands)] /\ QueueHolds'
        BY <1>1, <2>1, QueueTaken
    <2> QED
        BY <1>1, <2>1, <2>2, <2>3
        DEF GateInv, SameRoles, GateTypes, OwnerServes, AsksBelong, OneAtWork, AtWork, ResultsSent
<1>4. CASE c.do = "capture"
    <2>1. Begin(p, c.req) /\ UNCHANGED pc
        BY <1>4 DEF Receive
    <2>2. c.req \in Requests /\ ask[c.req] = [at |-> "queued", by |-> p]
        BY <1>2, <1>4, QueuedRequest DEF GateInv, QueueHolds
    <2>3. PICK q \in Requests : q = c.req
        BY <2>2
    <2>4. PICK x \in Asks : /\ ask' = [ask EXCEPT ![q] = x]
                            /\ \/ x = Over("told") /\ UNCHANGED busy
                               \/ /\ x = [at |-> "capturing", by |-> p] /\ ~busy[p]
                                  /\ busy' = [busy EXCEPT ![p] = TRUE]
        <3>1. CASE busy[p] \/ p \notin session
            <4>1. Over("told") \in Asks
                BY DEF Over, Asks, AskPlaces
            <4>2. ask' = [ask EXCEPT ![q] = Over("told")] /\ UNCHANGED busy
                BY <2>1, <2>3, <3>1 DEF Begin
            <4> QED
                BY <4>1, <4>2
        <3>2. CASE ~(busy[p] \/ p \notin session)
            <4>1. [at |-> "capturing", by |-> p] \in Asks
                BY DEF Asks, AskPlaces, Running
            <4>2. /\ busy' = [busy EXCEPT ![p] = TRUE] /\ ask' = [ask EXCEPT ![q].at = "capturing"]
                BY <2>1, <2>3, <3>2 DEF Begin
            <4>3. [ask[q] EXCEPT !.at = "capturing"] = [at |-> "capturing", by |-> p]
                BY <2>2, <2>3
            <4> QED
                BY <3>2, <4>1, <4>2, <4>3
        <3> QED
            BY <3>1, <3>2
    <2>5. /\ ask' \in [Requests -> Asks] /\ ask'[q] = x
          /\ \A r \in Requests : r # q => ask'[r] = ask[r]
          /\ busy' \in [Launches -> BOOLEAN]
          /\ \A o \in Launches : o # p => busy'[o] = busy[o]
          /\ busy[p] => busy'[p]
        BY <2>4 DEF GateInv, GateTypes
    <2>6. queue' \in [Launches -> Seq(Commands)] /\ QueueHolds'
        BY <1>1, <1>4, <2>3, <2>5, QueueTaken
    <2>7. GateTypes' /\ OwnerServes'
        BY <1>1, <2>1, <2>5, <2>6 DEF GateInv, GateTypes, OwnerServes
    <2>8. \/ x.by = None /\ x.at = "told"
          \/ x.by = p /\ x.at = "capturing" /\ ~busy[p] /\ busy'[p] = TRUE
        BY <2>4 DEF Over, GateInv, GateTypes
    <2>9. AsksBelong'
        <3>1. ask'[q].at = "capturing" => pc'[p] \in Resident /\ ask'[q].at \in Running
            BY <1>1, <2>1 DEF Resident, InLoop, Running
        <3>2. \A r \in Requests : r # q => ask'[r] = ask[r] /\ pc' = pc
            BY <2>1, <2>5
        <3> QED
            BY <2>5, <2>8, <3>1, <3>2 DEF GateInv, AsksBelong
    <2>10. OneAtWork'
        <3>1. pc[p] \in Resident
            BY <1>1 DEF Resident, InLoop
        <3>2. ~busy[p] => \A r \in Requests : ~AtWork(p, r)
            BY <3>1 DEF GateInv, OneAtWork
        <3>3. \A o \in Launches, r \in Requests :
                AtWork(o, r)' => AtWork(o, r) \/ (o = p /\ r = q /\ ~busy[p] /\ busy'[p])
            BY <2>5, <2>8, ClientAssumption DEF AtWork
        <3> QED
            BY <2>1, <2>5, <3>2, <3>3 DEF GateInv, OneAtWork
    <2>11. ResultsSent'
        BY <1>1, <2>2, <2>3, <2>5, ResultsKept
    <2> QED
        BY <2>6, <2>7, <2>9, <2>10, <2>11 DEF GateInv
<1> QED
    BY <1>3, <1>4

(* The result is of the request at work: the gate opens on none. *)
LEMMA ReceiveDoneKeepsGate ==
    ASSUME GateInv, NEW p \in Launches, ReceiveDone(p)
    PROVE  GateInv'
<1>1. /\ pc[p] = "loop" /\ done[p] # <<>> /\ done' = [done EXCEPT ![p] = Tail(@)]
      /\ busy' = [busy EXCEPT ![p] = FALSE] /\ UNCHANGED <<pc, owner, queue>>
    BY DEF ReceiveDone
<1>2. /\ Tail(done[p]) = <<>> /\ Head(done[p]).req \in Requests
      /\ ask[Head(done[p]).req] = [at |-> "sent", by |-> p]
    BY <1>1, ResultsOne
<1>3. PICK q \in Requests : q = Head(done[p]).req
    BY <1>2
<1>4. PICK how \in {"shown", "told"} : ask' = [ask EXCEPT ![q] = Over(how)]
    BY <1>3 DEF ReceiveDone
<1>5. /\ ask' \in [Requests -> Asks] /\ ask'[q].at = how /\ ask'[q].by = None
      /\ \A r \in Requests : r # q => ask'[r] = ask[r]
    BY <1>4 DEF GateInv, GateTypes, Over, Asks, AskPlaces
<1>6. /\ done' \in [Launches -> Seq(Results)] /\ done'[p] = <<>>
      /\ \A o \in Launches : o # p => done'[o] = done[o]
      /\ busy' \in [Launches -> BOOLEAN] /\ \A o \in Launches : o # p => busy'[o] = busy[o]
    BY <1>1, <1>2 DEF GateInv, GateTypes
<1>7. GateTypes' /\ OwnerServes'
    BY <1>1, <1>5, <1>6 DEF GateInv, GateTypes, OwnerServes
<1>8. AsksBelong'
    BY <1>1, <1>5 DEF GateInv, AsksBelong
<1>9. OneAtWork'
    <2>1. AtWork(p, q)
        BY <1>2, <1>3 DEF AtWork
    <2>2. \A r \in Requests : ~AtWork(p, r)'
        BY <1>5, <2>1, ClientAssumption DEF GateInv, OneAtWork, AtWork
    <2>3. \A o \in Launches, r \in Requests : AtWork(o, r)' => AtWork(o, r)
        BY <1>5, ClientAssumption DEF AtWork
    <2> QED
        BY <1>1, <1>6, <2>2, <2>3 DEF GateInv, OneAtWork
<1>10. QueueHolds'
    BY <1>1, <1>2, <1>3, <1>5, QueueKept
<1>11. ResultsSent'
    <2> SUFFICES ASSUME NEW o \in Launches, done'[o] # <<>>
                 PROVE  Len(done'[o]) = 1 /\ ask'[done'[o][1].req] = [at |-> "sent", by |-> o]
        BY DEF ResultsSent
    <2>1. o # p /\ done'[o] = done[o] /\ done[o] # <<>>
        BY <1>6
    <2>2. /\ Len(done[o]) = 1 /\ done[o][1].req \in Requests
          /\ ask[done[o][1].req] = [at |-> "sent", by |-> o]
        BY <2>1, ResultsOne
    <2>3. done[o][1].req # q
        BY <1>2, <1>3, <2>1, <2>2
    <2> QED
        BY <1>5, <2>1, <2>2, <2>3
<1> QED
    BY <1>7, <1>8, <1>9, <1>10, <1>11 DEF GateInv

(* What a process had goes with it. *)
LEMMA EndKeepsGate ==
    ASSUME GateInv, NEW p \in Launches, Exit(p) \/ Killed(p)
    PROVE  GateInv'
<1>1. /\ Ended(p) /\ pc[p] \in Resident \cup {"alone"}
    BY DEF Exit, Killed, Resident, InLoop
<1>2. /\ pc' \in [Launches -> Places] /\ pc'[p] = "gone"
      /\ \A o \in Launches : o # p => pc'[o] = pc[o]
    BY <1>1 DEF Ended, GateInv, GateTypes, Places
<1>3. /\ ask' \in [Requests -> Asks]
      /\ \A q \in Requests : /\ ask[q].by = p => ask'[q].by = None /\ ask'[q].at = "lost"
                             /\ ask[q].by # p => ask'[q] = ask[q]
    <2>1. /\ Over("lost") \in Asks /\ Over("lost").by = None /\ Over("lost").at = "lost"
          /\ ask' = [q \in Requests |-> IF ask[q].by = p THEN Over("lost") ELSE ask[q]]
        BY <1>1 DEF Over, Asks, AskPlaces, Ended
    <2> QED
        BY <2>1 DEF GateInv, GateTypes
<1>4. /\ queue' = [queue EXCEPT ![p] = <<>>] /\ done' = [done EXCEPT ![p] = <<>>]
      /\ busy' = [busy EXCEPT ![p] = FALSE] /\ owner' = IF owner = p THEN None ELSE owner
    BY <1>1 DEF Ended
<1>5. /\ queue' \in [Launches -> Seq(Commands)] /\ Len(queue'[p]) = 0
      /\ done' \in [Launches -> Seq(Results)] /\ done'[p] = <<>>
      /\ busy' \in [Launches -> BOOLEAN]
      /\ \A o \in Launches : o # p => /\ queue'[o] = queue[o] /\ done'[o] = done[o]
                                      /\ busy'[o] = busy[o]
    BY <1>4 DEF GateInv, GateTypes
<1>6. GateTypes'
    BY <1>2, <1>3, <1>4, <1>5 DEF GateInv, GateTypes
<1>7. OwnerServes'
    BY <1>1, <1>2, <1>4, ClientAssumption DEF GateInv, OwnerServes, Resident, InLoop
<1>8. AsksBelong'
    BY <1>2, <1>3 DEF GateInv, AsksBelong
<1>9. OneAtWork'
    <2>1. \A o \in Launches, q \in Requests : AtWork(o, q)' => o # p /\ AtWork(o, q)
        BY <1>3, ClientAssumption DEF AtWork
    <2> QED
        BY <1>2, <1>5, <2>1 DEF GateInv, OneAtWork
<1>10. QueueHolds'
    <2> SUFFICES ASSUME NEW o \in Launches, NEW k \in 1..Len(queue'[o]),
                        queue'[o][k].do = "capture"
                 PROVE  /\ ask'[queue'[o][k].req] = [at |-> "queued", by |-> o]
                        /\ \A j \in 1..Len(queue'[o]) :
                             queue'[o][j].do = "capture"
                             /\ queue'[o][j].req = queue'[o][k].req => j = k
        BY DEF QueueHolds
    <2>1. o # p /\ queue'[o] = queue[o]
        BY <1>5
    <2>2. /\ ask[queue[o][k].req] = [at |-> "queued", by |-> o]
          /\ \A j \in 1..Len(queue[o]) :
                queue[o][j].do = "capture" /\ queue[o][j].req = queue[o][k].req => j = k
        BY <2>1 DEF GateInv, QueueHolds
    <2>3. queue[o][k].req \in Requests
        BY <2>1, QueuedRequest DEF GateInv
    <2> QED
        BY <1>3, <2>1, <2>2, <2>3
<1>11. ResultsSent'
    <2> SUFFICES ASSUME NEW o \in Launches, done'[o] # <<>>
                 PROVE  Len(done'[o]) = 1 /\ ask'[done'[o][1].req] = [at |-> "sent", by |-> o]
        BY DEF ResultsSent
    <2>1. o # p /\ done'[o] = done[o] /\ done[o] # <<>>
        BY <1>5
    <2>2. /\ Len(done[o]) = 1 /\ done[o][1].req \in Requests
          /\ ask[done[o][1].req] = [at |-> "sent", by |-> o]
        BY <2>1, ResultsOne
    <2> QED
        BY <1>3, <2>1, <2>2
<1> QED
    BY <1>6, <1>7, <1>8, <1>9, <1>10, <1>11 DEF GateInv
-----------------------------------------------------------------------------
(* A capture, step by step.                                                  *)

(* Whoever has a request that runs. *)
LEMMA Runner ==
    ASSUME GateInv, NEW q \in Requests, ask[q].at \in Running \cup {"asked"}
    PROVE  /\ ask[q].by \in Launches /\ AtWork(ask[q].by, q)
           /\ ask[q] = [at |-> ask[q].at, by |-> ask[q].by]
           /\ pc[ask[q].by] \in Resident \cup {"alone"}
           /\ ask[q].at \in Running \/ pc[ask[q].by] = "alone"
BY DEF GateInv, GateTypes, Asks, AsksBelong, AtWork, Running, Resident, InLoop

LEMMA GoesToKeepsGate ==
    ASSUME GateInv, NEW q \in Requests, ask[q].at \in Running \cup {"asked"},
           NEW where \in Running, GoesTo(q, where), UNCHANGED <<owner, queue, busy>>
    PROVE  GateInv'
<1>1. /\ ask[q].by \in Launches /\ AtWork(ask[q].by, q)
      /\ pc[ask[q].by] \in Resident \cup {"alone"}
    BY Runner
<1>2. /\ ask' \in [Requests -> Asks] /\ ask'[q].at = where /\ ask'[q].by = ask[q].by
      /\ \A r \in Requests : r # q => ask'[r] = ask[r]
      /\ UNCHANGED <<pc, done>>
    BY DEF GoesTo, GateInv, GateTypes, Asks, AskPlaces
<1>3. GateTypes' /\ OwnerServes'
    BY <1>2 DEF GateInv, GateTypes, OwnerServes
<1>4. AsksBelong'
    BY <1>1, <1>2 DEF GateInv, AsksBelong
<1>5. OneAtWork'
    <2>1. \A o \in Launches, r \in Requests : AtWork(o, r)' => AtWork(o, r)
        BY <1>1, <1>2 DEF AtWork
    <2> QED
        BY <1>2, <2>1 DEF GateInv, OneAtWork
<1>6. QueueHolds' /\ ResultsSent'
    BY <1>2, QueueKept, ResultsKept DEF Running
<1> QED
    BY <1>3, <1>4, <1>5, <1>6 DEF GateInv

(* A command on its own ends with its request; a resident's task sends a       *)
(* result, the only one, since the resident works on nothing else.             *)
LEMMA EndsKeepsGate ==
    ASSUME GateInv, NEW q \in Requests, ask[q].at \in Running \cup {"asked"},
           NEW shown \in BOOLEAN, Ends(q, shown), UNCHANGED <<owner, queue, busy>>
    PROVE  GateInv'
<1>1. /\ ask[q].by \in Launches /\ AtWork(ask[q].by, q)
      /\ pc[ask[q].by] \in Resident \cup {"alone"}
      /\ ask[q].at \in Running \/ pc[ask[q].by] = "alone"
    BY Runner
<1>2. PICK p \in Launches : p = ask[q].by
    BY <1>1
<1>3. CASE pc[p] = "alone"
    <2>1. PICK how \in {"shown", "told"} : ask' = [ask EXCEPT ![q] = Over(how)]
        BY <1>2, <1>3 DEF Ends
    <2>2. /\ ask' \in [Requests -> Asks] /\ ask'[q].at = how /\ ask'[q].by = None
          /\ \A r \in Requests : r # q => ask'[r] = ask[r]
        BY <2>1 DEF GateInv, GateTypes, Over, Asks, AskPlaces
    <2>3. /\ pc' \in [Launches -> Places] /\ pc'[p] = "gone" /\ UNCHANGED done
          /\ \A o \in Launches : o # p => pc'[o] = pc[o]
        BY <1>2, <1>3 DEF Ends, GateInv, GateTypes, Places
    <2>4. GateTypes'
        BY <2>2, <2>3 DEF GateInv, GateTypes
    <2>5. OwnerServes'
        BY <1>3, <2>3 DEF GateInv, OwnerServes, Resident, InLoop
    <2>6. \A r \in Requests : r # q => ask[r].by # p
        <3>1. \A r \in Requests : ask[r].by = p => AtWork(p, r)
            BY <1>3 DEF GateInv, AsksBelong, AtWork, Resident, InLoop, Running
        <3> QED
            BY <1>1, <1>2, <3>1 DEF GateInv, OneAtWork
    <2>7. AsksBelong'
        BY <2>2, <2>3, <2>6 DEF GateInv, AsksBelong
    <2>8. OneAtWork'
        <3>1. \A o \in Launches, r \in Requests : AtWork(o, r)' => o # p /\ AtWork(o, r)
            BY <2>2, <2>6, ClientAssumption DEF AtWork
        <3> QED
            BY <2>3, <3>1 DEF GateInv, OneAtWork
    <2>9. QueueHolds' /\ ResultsSent'
        BY <2>2, <2>3, QueueKept, ResultsKept DEF Running
    <2> QED
        BY <2>4, <2>5, <2>7, <2>8, <2>9 DEF GateInv
<1>4. CASE pc[p] # "alone"
    <2> DEFINE d == [req |-> q, page |-> shown]
    <2>1. d \in Results /\ d.req = q
        BY DEF Results
    <2>2. /\ done' = [done EXCEPT ![p] = Append(@, d)]
          /\ ask' = [ask EXCEPT ![q].at = "sent"] /\ UNCHANGED pc
        BY <1>2, <1>4 DEF Ends
    <2> HIDE DEF d
    <2>3. /\ ask' \in [Requests -> Asks] /\ ask'[q] = [at |-> "sent", by |-> p]
          /\ \A r \in Requests : r # q => ask'[r] = ask[r]
        BY <1>2, <2>2, Runner DEF GateInv, GateTypes, Asks, AskPlaces
    <2>4. done[p] = <<>>
        <3> SUFFICES ASSUME done[p] # <<>> PROVE FALSE
            OBVIOUS
        <3>1. /\ Head(done[p]).req \in Requests
              /\ ask[Head(done[p]).req] = [at |-> "sent", by |-> p]
            BY ResultsOne
        <3>2. AtWork(p, Head(done[p]).req)
            BY <3>1 DEF AtWork
        <3>3. Head(done[p]).req = q
            BY <1>1, <1>2, <3>1, <3>2 DEF GateInv, OneAtWork
        <3>4. ask[q].at = "sent"
            BY <3>1, <3>3
        <3> QED
            BY <1>1, <1>2, <1>4, <3>4 DEF Running
    <2>5. /\ done' \in [Launches -> Seq(Results)] /\ Len(done'[p]) = 1 /\ done'[p][1] = d
          /\ \A o \in Launches : o # p => done'[o] = done[o]
        BY <2>1, <2>2, <2>4 DEF GateInv, GateTypes
    <2>6. GateTypes' /\ OwnerServes'
        BY <2>2, <2>3, <2>5 DEF GateInv, GateTypes, OwnerServes
    <2>7. AsksBelong'
        BY <1>1, <1>2, <1>4, <2>2, <2>3 DEF GateInv, AsksBelong
    <2>8. OneAtWork'
        <3>1. \A o \in Launches, r \in Requests : AtWork(o, r)' => AtWork(o, r)
            BY <1>1, <1>2, <2>3 DEF AtWork
        <3> QED
            BY <2>2, <3>1 DEF GateInv, OneAtWork
    <2>9. QueueHolds'
        BY <2>3, QueueKept DEF Running
    <2>10. ResultsSent'
        <3> SUFFICES ASSUME NEW o \in Launches, done'[o] # <<>>
                     PROVE  Len(done'[o]) = 1 /\ ask'[done'[o][1].req] = [at |-> "sent", by |-> o]
            BY DEF ResultsSent
        <3>1. CASE o = p
            BY <2>1, <2>3, <2>5, <3>1
        <3>2. CASE o # p
            <4>1. done'[o] = done[o] /\ done[o] # <<>>
                BY <2>5, <3>2
            <4>2. /\ Len(done[o]) = 1 /\ done[o][1].req \in Requests
                  /\ ask[done[o][1].req] = [at |-> "sent", by |-> o]
                BY <4>1, ResultsOne
            <4> QED
                BY <1>1, <2>3, <3>2, <4>1, <4>2, <1>2
        <3> QED
            BY <3>1, <3>2
    <2> QED
        BY <2>6, <2>7, <2>8, <2>9, <2>10 DEF GateInv
<1> QED
    BY <1>3, <1>4

LEMMA CaptureKeepsGate ==
    ASSUME GateInv, NEW q \in Requests, Kwin(q) \/ Portal(q) \/ Upload(q) \/ OpenPage(q)
    PROVE  GateInv'
<1>1. ask[q].at \in Running /\ UNCHANGED <<owner, queue, busy>>
    BY DEF Kwin, Portal, Upload, OpenPage, At, Running, InTask
<1>2. \/ \E shown \in BOOLEAN : Ends(q, shown)
      \/ \E where \in Running : GoesTo(q, where)
    BY DEF Kwin, KwinTakes, Portal, PortalTakes, Upload, ServerAnswers, OpenPage, Finish, Running
<1> QED
    BY <1>1, <1>2, EndsKeepsGate, GoesToKeepsGate

LEMMA AloneKeepsGate ==
    ASSUME GateInv, NEW p \in Launches, NEW q \in Requests, Alone(p, q)
    PROVE  GateInv'
<1>1. ask[q].at = "asked" /\ UNCHANGED <<owner, queue, busy>>
    BY DEF Alone, At, InTask
<1>2. Ends(q, FALSE) \/ GoesTo(q, "capturing")
    BY DEF Alone
<1> QED
    BY <1>1, <1>2, EndsKeepsGate, GoesToKeepsGate DEF Running
-----------------------------------------------------------------------------
(* The settings commands keep away from the gate. *)
LEMMA SettingsKeepGate ==
    ASSUME GateInv, NEW p \in Launches,
           \/ Configure(p) \/ Ping(p) \/ StoreToken(p) \/ DeleteOther(p) \/ AskAutostart(p)
           \/ SaveConfig(p) \/ SwitchAutostart(p) \/ SwitchEntry(p) \/ ReadConfig(p)
           \/ NoteAutostart(p) \/ SettingsDie(p)
    PROVE  GateInv'
<1>1. UNCHANGED <<owner, queue, busy, done, ask>>
    BY DEF Configure, Ping, StoreToken, DeleteOther, AskAutostart, SaveConfig, SwitchAutostart,
       SwitchEntry, ReadConfig, NoteAutostart, SettingsDie, InSettings
<1>2. SameRoles
    <2>1. PICK from \in Places, to \in Places :
            /\ Move(p, from, to)
            /\ from \notin Resident \cup {"alone"} /\ to \notin Resident \cup {"alone"}
        <3>1. CASE SettingsDie(p)
            <4>1. Move(p, pc[p], "gone")
                BY <3>1 DEF SettingsDie, Move
            <4>2. pc[p] \in Places \ (Resident \cup {"alone"})
                BY <3>1 DEF SettingsDie, AtSettings, Places, Resident, InLoop
            <4> QED
                BY <4>1, <4>2 DEF Places, Resident, InLoop
        <3>2. CASE ~SettingsDie(p)
            BY <3>2 DEF Configure, Ping, StoreToken, DeleteOther, AskAutostart, SaveConfig,
               SwitchAutostart, SwitchEntry, ReadConfig, NoteAutostart, Starts, Places, Resident,
               InLoop
        <3> QED
            BY <3>1, <3>2
    <2> QED
        BY <2>1, SameRolesAfter DEF GateInv, GateTypes
<1> QED
    BY <1>1, <1>2, GateKept

LEMMA GateInductive == GateInv /\ [Next]_vars => GateInv'
<1> SUFFICES ASSUME GateInv, [Next]_vars PROVE GateInv'
    OBVIOUS
<1>1. ASSUME NEW p \in Launches,
             \/ Launch(p) \/ Serve(p) \/ LoadSession(p) \/ Tray(p) \/ Receive(p) \/ LastOpened(p)
             \/ ReceiveDone(p) \/ Signalled(p) \/ Close(p) \/ Exit(p) \/ Killed(p)
      PROVE  GateInv'
    BY <1>1, LaunchKeepsGate, ServeKeepsGate, LoopKeepsGate, TrayKeepsGate, ReceiveKeepsGate,
       ReceiveDoneKeepsGate, EndKeepsGate
<1>2. ASSUME NEW p \in Launches,
             \/ Configure(p) \/ Ping(p) \/ StoreToken(p) \/ DeleteOther(p) \/ AskAutostart(p)
             \/ SaveConfig(p) \/ SwitchAutostart(p) \/ SwitchEntry(p) \/ ReadConfig(p)
             \/ NoteAutostart(p) \/ SettingsDie(p)
      PROVE  GateInv'
    BY <1>2, SettingsKeepGate
<1>3. ASSUME NEW p \in Launches, NEW q \in Requests,
             Shortcut(p, q) \/ Forward(p, q) \/ Alone(p, q) \/ UploadFile(p, q)
      PROVE  GateInv'
    BY <1>3, ShortcutKeepsGate, ForwardKeepsGate, AloneKeepsGate, UploadFileKeepsGate
<1>4. ASSUME NEW q \in Requests, Kwin(q) \/ Portal(q) \/ Upload(q) \/ OpenPage(q)
      PROVE  GateInv'
    BY <1>4, CaptureKeepsGate
<1>5. CASE UNCHANGED vars
    <2>1. SameRoles /\ UNCHANGED <<owner, queue, busy, done, ask>>
        BY <1>5, RolesUntouched DEF vars, GateInv, GateTypes
    <2> QED
        BY <2>1, GateKept
<1>6. SettingsRuns \subseteq Launches
    BY ClientAssumption
<1> QED
    BY <1>1, <1>2, <1>3, <1>4, <1>5, <1>6 DEF Next

(* Whoever is resident is the owner, and works on one request at most. *)
LEMMA GateImplies == GateInv => ResidentsCaptureOneAtATime
<1> SUFFICES ASSUME GateInv PROVE ResidentsCaptureOneAtATime
    OBVIOUS
<1> DEFINE S == {q \in UnderWay : pc[ask[q].by] \in {"leaving", "closing"} \cup InLoop}
<1>1. ASSUME NEW q \in S, NEW r \in S PROVE q = r
    <2>1. /\ q \in Requests /\ r \in Requests
          /\ ask[q].at \in Running /\ ask[r].at \in Running
          /\ pc[ask[q].by] \in Resident /\ pc[ask[r].by] \in Resident
        BY <1>1 DEF UnderWay, Resident
    <2>2. /\ ask[q].by \in Launches /\ AtWork(ask[q].by, q)
          /\ ask[r].by \in Launches /\ AtWork(ask[r].by, r)
        BY <2>1, Runner
    <2>3. ask[q].by = ask[r].by
        BY <2>1, <2>2 DEF GateInv, OwnerServes
    <2> QED
        BY <2>1, <2>2, <2>3 DEF GateInv, OneAtWork
<1>2. CASE S = {}
    BY <1>2, FS_EmptySet DEF ResidentsCaptureOneAtATime
<1>3. ASSUME NEW q \in S PROVE ResidentsCaptureOneAtATime
    <2>1. S = {q}
        BY <1>1, <1>3
    <2>2. Cardinality(S) = 1
        BY <2>1, FS_Singleton
    <2> QED
        BY <2>2 DEF ResidentsCaptureOneAtATime
<1> QED
    BY <1>2, <1>3

(* The gate's part of the client holds in every reachable state. *)
THEOREM ClientKeepsItsGate == Spec => []GateInv
BY GateInitEstablishes, GateInductive, PTL DEF Spec

(* One gate for the tray, the shortcuts and what is forwarded: residents run   *)
(* one capture between them, whoever asks and however they come and go.        *)
THEOREM OneCaptureAtATime == Spec => []ResidentsCaptureOneAtATime
BY ClientKeepsItsGate, GateImplies, PTL

-----------------------------------------------------------------------------
(* The settings: what every step of a command has in common.                 *)

SettingsPlaces == {"pinging", "storing", "deleting", "asking", "saving",
                   "switching", "reading", "noting"}

LEMMA AtSettingsIs == AtSettings = {p \in Launches : pc[p] \in SettingsPlaces}
BY DEF AtSettings, SettingsPlaces

LEMMA NoDraftFacts ==
    /\ NoDraft \in Drafts /\ NoDraft.undisturbed = FALSE /\ NoDraft.prev = None
BY DEF NoDraft, Drafts, OnOrOff

LEMMA SettingsInitEstablishes == Init => SettingsInv
<1> SUFFICES ASSUME Init PROVE SettingsInv
    OBVIOUS
<1>1. SettingsTypes
    BY NoDraftFacts DEF Init, SettingsTypes, Places
<1>2. AtSettings = {}
    BY DEF Init, AtSettings
<1>3. StoreChosen
    BY DEF Init, StoreChosen
<1>4. UndisturbedAlone /\ CommandsInOrder
    BY <1>2 DEF Init, UndisturbedAlone, CommandsInOrder, StoreNamed, ChoiceNoted
<1> QED
    BY <1>1, <1>3, <1>4 DEF SettingsInv

(* Steps of captures and residents. *)
LEMMA SettingsKept ==
    ASSUME SettingsInv, UNCHANGED settings, pc' \in [Launches -> Places],
           \A p \in Launches : pc'[p] = pc[p] \/ {pc[p], pc'[p]} \cap SettingsPlaces = {}
    PROVE  SettingsInv'
<1>1. AtSettings' = AtSettings
    BY DEF AtSettings, SettingsPlaces
<1>2. \A p \in Launches : pc'[p] \in SettingsPlaces => pc'[p] = pc[p]
    OBVIOUS
<1>3. UNCHANGED <<config, tokens, entry, draft, torn>>
    BY DEF settings
<1>4. \A p \in AtSettings : Midway(p) => Midway(p)'
    <2>1. \A p \in AtSettings : pc'[p] = pc[p]
        BY <1>1, <1>2 DEF AtSettings, SettingsPlaces
    <2> QED
        BY <1>3, <2>1 DEF Midway, StoreNamed, ChoiceNoted
<1>5. StoreChosen'
    BY <1>2, <1>3 DEF SettingsInv, StoreChosen, SettingsPlaces
<1>6. SettingsTypes' /\ UndisturbedAlone'
    BY <1>1, <1>3 DEF SettingsInv, SettingsTypes, UndisturbedAlone
<1>7. CommandsInOrder'
    BY <1>1, <1>3, <1>4 DEF SettingsInv, CommandsInOrder, StoreNamed, ChoiceNoted
<1> QED
    BY <1>5, <1>6, <1>7 DEF SettingsInv

(* A command begins, and disturbs whichever is at work. *)
LEMMA CommandBegins ==
    ASSUME SettingsInv, NEW p \in Launches, NEW to \in {"pinging", "switching"},
           Move(p, "off", to), NEW d \in Drafts, Undisturbed(p, d),
           to = "pinging" => d.prev = config,
           UNCHANGED <<config, tokens, entry, torn>>
    PROVE  SettingsInv'
<1>1. /\ pc' \in [Launches -> Places] /\ pc[p] = "off" /\ pc'[p] = to
      /\ \A o \in Launches : o # p => pc'[o] = pc[o]
    BY Moved DEF SettingsInv, SettingsTypes, Places
<1>2. /\ draft' \in [Launches -> Drafts]
      /\ draft'[p].undisturbed = (AtSettings = {}) /\ draft'[p].prev = d.prev
      /\ \A o \in Launches : o # p => /\ draft'[o].undisturbed = FALSE
                                      /\ draft'[o].store = draft[o].store
    <2>1. \A o \in Launches : draft[o] \in Drafts
        BY DEF SettingsInv, SettingsTypes
    <2>2. [d EXCEPT !.undisturbed = AtSettings = {}] \in Drafts
        BY DEF Drafts
    <2>3. ASSUME NEW e \in Drafts
          PROVE  /\ [e EXCEPT !.undisturbed = FALSE] \in Drafts
                 /\ [e EXCEPT !.undisturbed = FALSE].undisturbed = FALSE
                 /\ [e EXCEPT !.undisturbed = FALSE].store = e.store
        BY DEF Drafts
    <2>4. /\ [d EXCEPT !.undisturbed = AtSettings = {}].undisturbed = (AtSettings = {})
          /\ [d EXCEPT !.undisturbed = AtSettings = {}].prev = d.prev
        BY DEF Drafts
    <2> QED
        BY <2>1, <2>2, <2>3, <2>4 DEF Undisturbed
<1>3. AtSettings' = AtSettings \cup {p} /\ p \notin AtSettings
    BY <1>1 DEF AtSettings
<1>4. SettingsTypes'
    BY <1>1, <1>2 DEF SettingsInv, SettingsTypes
<1>5. StoreChosen'
    BY <1>1, <1>2 DEF SettingsInv, StoreChosen
<1>6. UndisturbedAlone'
    BY <1>2, <1>3 DEF UndisturbedAlone, AtSettings
<1>7. CommandsInOrder'
    <2> SUFFICES ASSUME AtSettings = {} PROVE Midway(p)'
        BY <1>2, <1>3 DEF CommandsInOrder, AtSettings
    <2>1. StoreNamed' /\ ChoiceNoted'
        BY DEF SettingsInv, CommandsInOrder, StoreNamed, ChoiceNoted
    <2> QED
        BY <1>1, <1>2, <2>1 DEF Midway
<1> QED
    BY <1>4, <1>5, <1>6, <1>7 DEF SettingsInv

(* One step within a command: it is up to that command alone. *)
LEMMA CommandGoesOn ==
    ASSUME SettingsInv, NEW p \in Launches, NEW from \in SettingsPlaces, NEW to \in SettingsPlaces,
           Move(p, from, to),
           NEW d \in Drafts, draft' = [draft EXCEPT ![p] = d],
           d.undisturbed = draft[p].undisturbed,
           to \in {"storing", "deleting", "asking", "saving"} => d.store \in Stores,
           tokens' \in SUBSET Stores, entry' \in BOOLEAN, UNCHANGED <<config, torn>>,
           draft[p].undisturbed => Midway(p)'
    PROVE  SettingsInv'
<1>1. /\ pc' \in [Launches -> Places] /\ pc[p] = from /\ pc'[p] = to
      /\ \A o \in Launches : o # p => pc'[o] = pc[o]
    BY Moved DEF SettingsInv, SettingsTypes, Places, SettingsPlaces
<1>2. /\ draft' \in [Launches -> Drafts] /\ draft'[p] = d
      /\ \A o \in Launches : o # p => draft'[o] = draft[o]
    BY DEF SettingsInv, SettingsTypes
<1>3. AtSettings' = AtSettings /\ p \in AtSettings
    BY <1>1 DEF AtSettings, SettingsPlaces
<1>4. SettingsTypes'
    BY <1>1, <1>2 DEF SettingsInv, SettingsTypes
<1>5. StoreChosen'
    BY <1>1, <1>2 DEF SettingsInv, StoreChosen
<1>6. UndisturbedAlone'
    BY <1>2, <1>3 DEF SettingsInv, UndisturbedAlone, AtSettings
<1>7. CommandsInOrder'
    <2> SUFFICES ASSUME NEW o \in AtSettings, draft'[o].undisturbed PROVE Midway(o)'
        BY <1>3 DEF CommandsInOrder
    <2>1. o = p
        BY <1>2, <1>3 DEF SettingsInv, UndisturbedAlone, AtSettings
    <2> QED
        BY <1>2, <2>1
<1> QED
    BY <1>4, <1>5, <1>6, <1>7 DEF SettingsInv

(* A command ends: undisturbed, with the files in order, or on record in torn. *)
LEMMA CommandEnds ==
    ASSUME SettingsInv, NEW p \in AtSettings, pc' = [pc EXCEPT ![p] = "gone"],
           draft' = [draft EXCEPT ![p] = NoDraft],
           config' \in Configs \cup {None, Unreadable}, tokens' \in SUBSET Stores,
           UNCHANGED entry, torn' \in {{}, {"autostart"}, Settings},
           draft[p].undisturbed => StoreNamed' /\ ChoiceNoted',
           ~draft[p].undisturbed => torn' = Settings
    PROVE  SettingsInv'
<1>1. /\ p \in Launches
      /\ pc' \in [Launches -> Places] /\ pc'[p] = "gone"
      /\ \A o \in Launches : o # p => pc'[o] = pc[o]
    BY DEF SettingsInv, SettingsTypes, Places, AtSettings
<1>2. /\ draft' \in [Launches -> Drafts]
      /\ \A o \in Launches : o # p => draft'[o] = draft[o]
    BY <1>1, NoDraftFacts DEF SettingsInv, SettingsTypes
<1>3. AtSettings' = AtSettings \ {p}
    BY <1>1 DEF AtSettings
<1>4. SettingsTypes'
    BY <1>1, <1>2 DEF SettingsInv, SettingsTypes
<1>5. StoreChosen'
    BY <1>1, <1>2 DEF SettingsInv, StoreChosen
<1>6. \A o \in AtSettings' : ~draft'[o].undisturbed
    BY <1>2, <1>3 DEF SettingsInv, UndisturbedAlone, AtSettings
<1>7. UndisturbedAlone'
    BY <1>6 DEF UndisturbedAlone
<1>8. StoreNamed' /\ ChoiceNoted'
    BY DEF StoreNamed, ChoiceNoted, Settings
<1>9. CommandsInOrder'
    BY <1>6, <1>8 DEF CommandsInOrder
<1> QED
    BY <1>4, <1>5, <1>7, <1>9 DEF SettingsInv

-----------------------------------------------------------------------------
(* The settings, step by step.                                               *)

LEMMA ConfigurePreserves ==
    ASSUME SettingsInv, NEW p \in Launches, Configure(p)
    PROVE  SettingsInv'
<1>1. CASE ~Loads /\ Starts(p, "gone") /\ UNCHANGED draft
    <2>1. Move(p, "off", "gone") /\ UNCHANGED settings
        BY <1>1, StartsAreMoves DEF Configure, settings
    <2>2. /\ pc' \in [Launches -> Places] /\ pc[p] = "off" /\ pc'[p] = "gone"
          /\ \A o \in Launches : o # p => pc'[o] = pc[o]
        BY <2>1, Moved DEF SettingsInv, SettingsTypes, Places
    <2> QED
        BY <2>1, <2>2, SettingsKept DEF SettingsPlaces
<1>2. CASE /\ Loads /\ Starts(p, "pinging")
           /\ Undisturbed(p, [NoDraft EXCEPT !.prev = config])
    <2> DEFINE d == [NoDraft EXCEPT !.prev = config]
    <2>1. config \in Configs \cup {None}
        BY <1>2 DEF Loads, SettingsInv, SettingsTypes
    <2>2. d \in Drafts /\ d.prev = config
        BY <2>1 DEF NoDraft, Drafts, OnOrOff
    <2>3. Undisturbed(p, d)
        BY <1>2
    <2>4. UNCHANGED <<config, tokens, entry, torn>>
        BY DEF Configure
    <2> HIDE DEF d
    <2> QED
        BY <1>2, <2>2, <2>3, <2>4, StartsAreMoves, CommandBegins
<1> QED
    BY <1>1, <1>2 DEF Configure

LEMMA SwitchAutostartPreserves ==
    ASSUME SettingsInv, NEW p \in Launches, SwitchAutostart(p)
    PROVE  SettingsInv'
BY StartsAreMoves, CommandBegins, NoDraftFacts DEF SwitchAutostart

(* A command's own draft. *)
LEMMA DraftOf == ASSUME SettingsInv, NEW p \in Launches PROVE draft[p] \in Drafts
BY DEF SettingsInv, SettingsTypes

LEMMA DraftStore ==
    ASSUME NEW d \in Drafts, NEW s \in Stores
    PROVE  /\ [d EXCEPT !.store = s] \in Drafts /\ [d EXCEPT !.store = s].store = s
           /\ [d EXCEPT !.store = s].prev = d.prev
           /\ [d EXCEPT !.store = s].undisturbed = d.undisturbed
BY DEF Drafts

LEMMA DraftChoice ==
    ASSUME NEW d \in Drafts, NEW a \in OnOrOff
    PROVE  /\ [d EXCEPT !.autostart = a] \in Drafts /\ [d EXCEPT !.autostart = a].autostart = a
           /\ [d EXCEPT !.autostart = a].prev = d.prev /\ [d EXCEPT !.autostart = a].store = d.store
           /\ [d EXCEPT !.autostart = a].undisturbed = d.undisturbed
BY DEF Drafts

LEMMA DraftPrev ==
    ASSUME NEW d \in Drafts, NEW c \in Configs \cup {None}
    PROVE  /\ [d EXCEPT !.prev = c] \in Drafts /\ [d EXCEPT !.prev = c].prev = c
           /\ [d EXCEPT !.prev = c].autostart = d.autostart /\ [d EXCEPT !.prev = c].store = d.store
           /\ [d EXCEPT !.prev = c].undisturbed = d.undisturbed
BY DEF Drafts

(* What an undisturbed command knows at its step. *)
LEMMA KnownMidway ==
    ASSUME SettingsInv, NEW p \in AtSettings, draft[p].undisturbed
    PROVE  Midway(p)
BY DEF SettingsInv, CommandsInOrder

LEMMA MoveIsSettings ==
    ASSUME SettingsInv, NEW p \in Launches, NEW from \in SettingsPlaces, NEW to,
           Move(p, from, to)
    PROVE  p \in AtSettings /\ pc[p] = from /\ pc' = [pc EXCEPT ![p] = to] /\ pc'[p] = to
BY AtSettingsIs DEF Move, SettingsInv, SettingsTypes

LEMMA PingPreserves ==
    ASSUME SettingsInv, NEW p \in Launches, Ping(p)
    PROVE  SettingsInv'
<1>1. PICK s \in Stores : draft' = [draft EXCEPT ![p].store = s]
    BY DEF Ping
<1> DEFINE d == [draft[p] EXCEPT !.store = s]
<1>2. /\ d \in Drafts /\ d.store = s /\ d.prev = draft[p].prev
      /\ d.undisturbed = draft[p].undisturbed
    BY DraftOf, DraftStore
<1>3. draft' = [draft EXCEPT ![p] = d] /\ draft'[p] = d
    BY <1>1 DEF SettingsInv, SettingsTypes
<1> HIDE DEF d
<1>4. Move(p, "pinging", "storing") /\ UNCHANGED <<config, tokens, entry, torn>>
    BY DEF Ping
<1>5. p \in AtSettings /\ pc[p] = "pinging" /\ pc'[p] = "storing"
    BY <1>4, MoveIsSettings DEF SettingsPlaces
<1>6. ASSUME draft[p].undisturbed PROVE Midway(p)'
    <2>1. StoreNamed /\ ChoiceNoted /\ draft[p].prev = config
        BY <1>5, <1>6, KnownMidway DEF Midway
    <2> QED
        BY <1>2, <1>3, <1>4, <1>5, <2>1 DEF Midway, StoreNamed, ChoiceNoted
<1>7. tokens \in SUBSET Stores /\ entry \in BOOLEAN
    BY DEF SettingsInv, SettingsTypes
<1> QED
    BY <1>2, <1>3, <1>4, <1>6, <1>7, CommandGoesOn DEF SettingsPlaces

LEMMA StoreTokenPreserves ==
    ASSUME SettingsInv, NEW p \in Launches, StoreToken(p)
    PROVE  SettingsInv'
<1>1. Move(p, "storing", "deleting") /\ UNCHANGED <<config, entry, draft, torn>>
    BY DEF StoreToken
<1>2. p \in AtSettings /\ pc[p] = "storing" /\ pc'[p] = "deleting"
    BY <1>1, MoveIsSettings DEF SettingsPlaces
<1>3. draft[p] \in Drafts /\ draft' = [draft EXCEPT ![p] = draft[p]] /\ draft[p].store \in Stores
    BY <1>1, <1>2, DraftOf DEF SettingsInv, SettingsTypes, StoreChosen
<1>4. tokens' \in SUBSET Stores /\ draft[p].store \in tokens'
    BY <1>3 DEF StoreToken, Stores, SettingsInv, SettingsTypes
<1>5. ASSUME draft[p].undisturbed PROVE Midway(p)'
    <2>1. ChoiceNoted /\ draft[p].prev = config
        BY <1>2, <1>5, KnownMidway DEF Midway
    <2> QED
        BY <1>1, <1>2, <1>4, <2>1 DEF Midway, ChoiceNoted
<1>6. entry' \in BOOLEAN
    BY <1>1 DEF SettingsInv, SettingsTypes
<1> QED
    BY <1>1, <1>3, <1>4, <1>5, <1>6, CommandGoesOn DEF SettingsPlaces

(* What is deleted is another store's copy. *)
LEMMA DeleteOtherPreserves ==
    ASSUME SettingsInv, NEW p \in Launches, DeleteOther(p)
    PROVE  SettingsInv'
<1>1. Move(p, "deleting", "asking") /\ UNCHANGED <<config, entry, draft, torn>>
    BY DEF DeleteOther
<1>2. p \in AtSettings /\ pc[p] = "deleting" /\ pc'[p] = "asking"
    BY <1>1, MoveIsSettings DEF SettingsPlaces
<1>3. draft[p] \in Drafts /\ draft' = [draft EXCEPT ![p] = draft[p]] /\ draft[p].store \in Stores
    BY <1>1, <1>2, DraftOf DEF SettingsInv, SettingsTypes, StoreChosen
<1>4. /\ tokens' \in SUBSET Stores
      /\ draft[p].store \in tokens => draft[p].store \in tokens'
    BY DEF DeleteOther, StaleStore, SettingsInv, SettingsTypes
<1>5. ASSUME draft[p].undisturbed PROVE Midway(p)'
    <2>1. ChoiceNoted /\ draft[p].prev = config /\ draft[p].store \in tokens
        BY <1>2, <1>5, KnownMidway DEF Midway
    <2> QED
        BY <1>1, <1>2, <1>4, <2>1 DEF Midway, ChoiceNoted
<1>6. entry' \in BOOLEAN
    BY <1>1 DEF SettingsInv, SettingsTypes
<1> QED
    BY <1>1, <1>3, <1>4, <1>5, <1>6, CommandGoesOn DEF SettingsPlaces

(* The choice made is the entry's, or the one the config had before. *)
LEMMA AskAutostartPreserves ==
    ASSUME SettingsInv, NEW p \in Launches, AskAutostart(p)
    PROVE  SettingsInv'
<1>1. Move(p, "asking", "saving") /\ UNCHANGED <<config, tokens, torn>>
    BY DEF AskAutostart
<1>2. p \in AtSettings /\ pc[p] = "asking" /\ pc'[p] = "saving"
    BY <1>1, MoveIsSettings DEF SettingsPlaces
<1> DEFINE before == IF draft[p].prev = None THEN None ELSE draft[p].prev.autostart
<1>3. draft[p] \in Drafts /\ before \in OnOrOff /\ draft[p].store \in Stores
    <2>1. draft[p] \in Drafts /\ draft[p].prev \in Configs \cup {None}
        BY DraftOf DEF Drafts
    <2>2. before \in OnOrOff
        BY <2>1 DEF Configs, OnOrOff
    <2> QED
        BY <1>2, <2>1, <2>2 DEF SettingsInv, StoreChosen
<1>4. PICK a \in OnOrOff : /\ draft' = [draft EXCEPT ![p].autostart = a]
                           /\ entry' \in BOOLEAN
                           /\ entry' = a \/ (a = before /\ entry' = entry)
    <2>1. entry \in BOOLEAN
        BY DEF SettingsInv, SettingsTypes
    <2>2. \/ \E choice \in BOOLEAN : SetEntry(p, choice, before)
          \/ draft' = [draft EXCEPT ![p].autostart = before] /\ UNCHANGED entry
        BY DEF AskAutostart
    <2>3. \/ \E choice \in BOOLEAN : entry' = choice /\ draft' = [draft EXCEPT ![p].autostart = choice]
          \/ draft' = [draft EXCEPT ![p].autostart = before] /\ UNCHANGED entry
        BY <2>2 DEF SetEntry
    <2>4. BOOLEAN \subseteq OnOrOff
        BY DEF OnOrOff
    <2> HIDE DEF before
    <2> QED
        BY <1>3, <2>1, <2>3, <2>4
<1> DEFINE d == [draft[p] EXCEPT !.autostart = a]
<1>5. /\ d \in Drafts /\ d.autostart = a /\ d.store = draft[p].store
      /\ d.undisturbed = draft[p].undisturbed
    BY <1>3, DraftChoice
<1>6. draft' = [draft EXCEPT ![p] = d] /\ draft'[p] = d
    BY <1>4 DEF SettingsInv, SettingsTypes
<1> HIDE DEF d
<1>7. ASSUME draft[p].undisturbed PROVE Midway(p)'
    <2>1. ChoiceNoted /\ draft[p].prev = config /\ draft[p].store \in tokens
        BY <1>2, <1>7, KnownMidway DEF Midway
    <2>2. torn = {} => a \in {None, entry'}
        BY <1>4, <2>1 DEF ChoiceNoted
    <2> QED
        BY <1>1, <1>2, <1>5, <1>6, <2>1, <2>2 DEF Midway
<1>8. tokens' \in SUBSET Stores
    BY <1>1 DEF SettingsInv, SettingsTypes
<1> QED
    BY <1>1, <1>3, <1>4, <1>5, <1>6, <1>7, <1>8, CommandGoesOn DEF SettingsPlaces

LEMMA SaveConfigPreserves ==
    ASSUME SettingsInv, NEW p \in Launches, SaveConfig(p)
    PROVE  SettingsInv'
<1>1. /\ Move(p, "saving", "gone") /\ UNCHANGED <<tokens, entry>>
      /\ config' = [store |-> draft[p].store, autostart |-> draft[p].autostart]
      /\ torn' = Overlap(p) \cup (IF draft[p].autostart = entry THEN {} ELSE torn \ {"token"})
      /\ draft' = [draft EXCEPT ![p] = NoDraft]
    BY DEF SaveConfig
<1>2. p \in AtSettings /\ pc[p] = "saving" /\ pc' = [pc EXCEPT ![p] = "gone"]
    BY <1>1, MoveIsSettings DEF SettingsPlaces
<1>3. draft[p].store \in Stores /\ draft[p].autostart \in OnOrOff
    BY <1>2, DraftOf DEF SettingsInv, StoreChosen, Drafts
<1>4. /\ config' \in Configs /\ config'.store = draft[p].store
      /\ config'.autostart = draft[p].autostart /\ config' # Unreadable
    BY <1>1, <1>3, ClientAssumption DEF Configs, OnOrOff
<1>5. torn \in {{}, {"autostart"}, Settings} /\ tokens' \in SUBSET Stores
    BY <1>1 DEF SettingsInv, SettingsTypes
<1>6. torn \ {"token"} \in {{}, {"autostart"}}
    BY <1>5 DEF Settings
<1>7. ASSUME draft[p].undisturbed
      PROVE  /\ torn' \in {{}, {"autostart"}, Settings}
             /\ StoreNamed' /\ ChoiceNoted'
    <2>1. draft[p].store \in tokens /\ (torn = {} => draft[p].autostart \in {None, entry})
        BY <1>2, <1>7, KnownMidway DEF Midway
    <2>2. torn' = IF draft[p].autostart = entry THEN {} ELSE torn \ {"token"}
        BY <1>1, <1>7 DEF Overlap
    <2>3. StoreNamed'
        BY <1>1, <1>4, <2>1 DEF StoreNamed
    <2>4. ChoiceNoted'
        <3>1. CASE draft[p].autostart = entry
            BY <1>1, <1>4, <3>1 DEF ChoiceNoted
        <3>2. CASE draft[p].autostart # entry
            <4>1. ASSUME torn' = {} PROVE draft[p].autostart = None
                <5>1. "token" \notin torn \/ torn = {"token"}
                    BY <2>2, <3>2, <4>1
                <5>2. torn = {}
                    BY <1>5, <2>2, <3>2, <4>1 DEF Settings
                <5> QED
                    BY <2>1, <3>2, <5>2
            <4> QED
                BY <1>4, <4>1 DEF ChoiceNoted
        <3> QED
            BY <3>1, <3>2
    <2> QED
        BY <1>6, <2>2, <2>3, <2>4
<1>8. ~draft[p].undisturbed => torn' = Settings
    BY <1>1, <1>6 DEF Overlap, Settings
<1> QED
    BY <1>1, <1>2, <1>4, <1>5, <1>7, <1>8, CommandEnds

LEMMA SwitchEntryPreserves ==
    ASSUME SettingsInv, NEW p \in Launches, SwitchEntry(p)
    PROVE  SettingsInv'
<1>1. Move(p, "switching", "reading") /\ UNCHANGED <<config, tokens, torn>>
    BY DEF SwitchEntry
<1>2. p \in AtSettings /\ pc[p] = "switching" /\ pc'[p] = "reading"
    BY <1>1, MoveIsSettings DEF SettingsPlaces
<1>3. PICK a \in BOOLEAN : entry' = a /\ draft' = [draft EXCEPT ![p].autostart = a]
    BY DEF SwitchEntry
<1> DEFINE d == [draft[p] EXCEPT !.autostart = a]
<1>4. /\ d \in Drafts /\ d.autostart = a /\ d.undisturbed = draft[p].undisturbed
    BY DraftOf, DraftChoice DEF OnOrOff
<1>5. draft' = [draft EXCEPT ![p] = d] /\ draft'[p] = d
    BY <1>3 DEF SettingsInv, SettingsTypes
<1> HIDE DEF d
<1>6. ASSUME draft[p].undisturbed PROVE Midway(p)'
    <2>1. StoreNamed
        BY <1>2, <1>6, KnownMidway DEF Midway
    <2> QED
        BY <1>1, <1>2, <1>3, <1>4, <1>5, <2>1 DEF Midway, StoreNamed
<1>7. tokens' \in SUBSET Stores
    BY <1>1 DEF SettingsInv, SettingsTypes
<1> QED
    BY <1>1, <1>3, <1>4, <1>5, <1>6, <1>7, CommandGoesOn DEF SettingsPlaces

LEMMA ReadConfigPreserves ==
    ASSUME SettingsInv, NEW p \in Launches, ReadConfig(p)
    PROVE  SettingsInv'
<1>1. /\ Move(p, "reading", "noting") /\ UNCHANGED <<config, tokens, entry, torn>>
      /\ draft' = [draft EXCEPT ![p].prev = config]
    BY DEF ReadConfig
<1>2. p \in AtSettings /\ pc[p] = "reading" /\ pc'[p] = "noting"
    BY <1>1, MoveIsSettings DEF SettingsPlaces
<1>3. config \in Configs \cup {None}
    BY DEF ReadConfig, Loads, SettingsInv, SettingsTypes
<1> DEFINE d == [draft[p] EXCEPT !.prev = config]
<1>4. /\ d \in Drafts /\ d.prev = config /\ d.autostart = draft[p].autostart
      /\ d.undisturbed = draft[p].undisturbed
    BY <1>3, DraftOf, DraftPrev
<1>5. draft' = [draft EXCEPT ![p] = d] /\ draft'[p] = d
    BY <1>1 DEF SettingsInv, SettingsTypes
<1> HIDE DEF d
<1>6. ASSUME draft[p].undisturbed PROVE Midway(p)'
    <2>1. StoreNamed /\ draft[p].autostart = entry
        BY <1>2, <1>6, KnownMidway DEF Midway
    <2> QED
        BY <1>1, <1>2, <1>4, <1>5, <2>1 DEF Midway, StoreNamed
<1>7. tokens' \in SUBSET Stores /\ entry' \in BOOLEAN
    BY <1>1 DEF SettingsInv, SettingsTypes
<1> QED
    BY <1>1, <1>4, <1>5, <1>6, <1>7, CommandGoesOn DEF SettingsPlaces

(* The config written back is the one it read, the choice the entry's. *)
LEMMA NoteAutostartPreserves ==
    ASSUME SettingsInv, NEW p \in Launches, NoteAutostart(p)
    PROVE  SettingsInv'
<1>1. /\ Move(p, "noting", "gone") /\ UNCHANGED <<tokens, entry>>
      /\ config' = IF draft[p].prev = None THEN config
                   ELSE [draft[p].prev EXCEPT !.autostart = draft[p].autostart]
      /\ torn' = torn \cup Overlap(p) /\ draft' = [draft EXCEPT ![p] = NoDraft]
    BY DEF NoteAutostart
<1>2. p \in AtSettings /\ pc[p] = "noting" /\ pc' = [pc EXCEPT ![p] = "gone"]
    BY <1>1, MoveIsSettings DEF SettingsPlaces
<1>3. draft[p].prev \in Configs \cup {None} /\ draft[p].autostart \in OnOrOff
    BY DraftOf DEF Drafts
<1>4. ASSUME draft[p].prev # None
      PROVE  /\ config' \in Configs /\ config' # Unreadable
             /\ config'.store = draft[p].prev.store /\ config'.autostart = draft[p].autostart
    <2>1. draft[p].prev \in Configs
        BY <1>3, <1>4
    <2>2. config' = [draft[p].prev EXCEPT !.autostart = draft[p].autostart]
        BY <1>1, <1>4
    <2>3. /\ config' \in Configs
          /\ config'.store = draft[p].prev.store /\ config'.autostart = draft[p].autostart
        BY <1>3, <2>1, <2>2 DEF Configs, OnOrOff
    <2> QED
        BY <2>3, ClientAssumption
<1>5. config \in Configs \cup {None, Unreadable} /\ tokens' \in SUBSET Stores
    BY <1>1 DEF SettingsInv, SettingsTypes
<1>6. config' \in Configs \cup {None, Unreadable}
    BY <1>1, <1>4, <1>5
<1>7. torn \in {{}, {"autostart"}, Settings}
    BY DEF SettingsInv, SettingsTypes
<1>8. ASSUME draft[p].undisturbed
      PROVE  torn' = torn /\ StoreNamed' /\ ChoiceNoted'
    <2>1. StoreNamed /\ draft[p].autostart = entry /\ draft[p].prev = config
        BY <1>2, <1>8, KnownMidway DEF Midway
    <2>2. torn' = torn
        BY <1>1, <1>8 DEF Overlap
    <2>3. CASE draft[p].prev = None
        <3>1. config' = None
            BY <1>1, <2>1, <2>3
        <3> QED
            BY <2>2, <3>1 DEF StoreNamed, ChoiceNoted
    <2>4. CASE draft[p].prev # None
        BY <1>1, <1>4, <2>1, <2>2, <2>4 DEF StoreNamed, ChoiceNoted
    <2> QED
        BY <2>2, <2>3, <2>4
<1>9. ~draft[p].undisturbed => torn' = Settings
    BY <1>1, <1>7 DEF Overlap, Settings
<1> QED
    BY <1>1, <1>2, <1>6, <1>5, <1>7, <1>8, <1>9, CommandEnds

(* Nothing was written yet, or it goes on record. *)
LEMMA SettingsDiePreserves ==
    ASSUME SettingsInv, NEW p \in Launches, SettingsDie(p)
    PROVE  SettingsInv'
<1>1. /\ p \in AtSettings /\ pc' = [pc EXCEPT ![p] = "gone"]
      /\ tokens' \in {tokens} \cup TokenCut(p)
      /\ config' \in {config} \cup ConfigCut(p)
      /\ torn' = torn \cup Overlap(p) \cup
                 IF tokens' = tokens /\ pc[p] \in {"pinging", "storing", "switching"} THEN {}
                 ELSE Settings
      /\ draft' = [draft EXCEPT ![p] = NoDraft] /\ UNCHANGED entry
    BY DEF SettingsDie
<1>2. config' \in Configs \cup {None, Unreadable} /\ tokens' \in SUBSET Stores
    BY <1>1 DEF ConfigCut, TokenCut, SettingsInv, SettingsTypes
<1>3. torn \in {{}, {"autostart"}, Settings}
    BY DEF SettingsInv, SettingsTypes
<1>4. torn' \in {torn, Settings}
    BY <1>1, <1>3 DEF Overlap, Settings
<1>5. ~draft[p].undisturbed => torn' = Settings
    BY <1>1, <1>3 DEF Overlap, Settings
<1>6. ASSUME draft[p].undisturbed PROVE StoreNamed' /\ ChoiceNoted'
    <2>1. CASE tokens' = tokens /\ pc[p] \in {"pinging", "storing", "switching"}
        <3>1. StoreNamed /\ ChoiceNoted
            BY <1>1, <1>6, <2>1, KnownMidway DEF Midway
        <3>2. config' = config
            BY <1>1, <2>1 DEF ConfigCut
        <3>3. torn' = torn
            BY <1>1, <1>6, <2>1 DEF Overlap
        <3> QED
            BY <1>1, <2>1, <3>1, <3>2, <3>3 DEF StoreNamed, ChoiceNoted
    <2>2. CASE ~(tokens' = tokens /\ pc[p] \in {"pinging", "storing", "switching"})
        <3>1. "token" \in torn'
            BY <1>1, <2>2 DEF Settings
        <3> QED
            BY <3>1 DEF StoreNamed, ChoiceNoted
    <2> QED
        BY <2>1, <2>2
<1> QED
    BY <1>1, <1>2, <1>3, <1>4, <1>5, <1>6, CommandEnds

(* Nothing else touches the settings or comes between their steps. *)
LEMMA OthersKeepSettings ==
    ASSUME SettingsInv, NEW p \in Launches,
           \/ Launch(p) \/ Serve(p) \/ LoadSession(p) \/ Tray(p) \/ Receive(p) \/ LastOpened(p)
           \/ ReceiveDone(p) \/ Signalled(p) \/ Close(p) \/ Exit(p) \/ Killed(p)
           \/ \E q \in Requests : Shortcut(p, q) \/ Forward(p, q) \/ UploadFile(p, q)
    PROVE  SettingsInv'
<1>1. UNCHANGED settings
    BY DEF Launch, Serve, LoadSession, Tray, Receive, LastOpened, ReceiveDone, Signalled, Close,
       Exit, Killed, Ended, Shortcut, Forward, UploadFile
<1>2. pc' = pc \/ \E from \in Places \ SettingsPlaces, to \in Places \ SettingsPlaces :
                    Move(p, from, to)
    <2>1. CASE Exit(p) \/ Killed(p)
        <3>1. Move(p, pc[p], "gone")
            BY <2>1 DEF Exit, Killed, Ended, Move
        <3>2. pc[p] \in Places \ SettingsPlaces
            BY <2>1 DEF Exit, Killed, InLoop, Places, SettingsPlaces
        <3> QED
            BY <3>1, <3>2 DEF Places, SettingsPlaces
    <2>2. CASE Launch(p)
        <3>1. PICK role \in {"serving", "forwarding", "filing"} : Move(p, "off", role)
            BY <2>2, StartsAreMoves DEF Launch
        <3> QED
            BY <3>1 DEF Places, SettingsPlaces
    <2>3. CASE Serve(p) \/ LoadSession(p) \/ Tray(p) \/ LastOpened(p) \/ ReceiveDone(p)
               \/ Signalled(p) \/ Close(p)
        BY <2>3 DEF Serve, LoadSession, Tray, LastOpened, ReceiveDone, Signalled, Close, Places,
           SettingsPlaces
    <2>4. CASE Receive(p)
        BY <2>4 DEF Receive, Places, SettingsPlaces
    <2>5. CASE \E q \in Requests : Shortcut(p, q) \/ Forward(p, q) \/ UploadFile(p, q)
        BY <2>5 DEF Shortcut, Forward, UploadFile, Places, SettingsPlaces
    <2> QED
        BY <2>1, <2>2, <2>3, <2>4, <2>5
<1>3. pc \in [Launches -> Places]
    BY DEF SettingsInv, SettingsTypes
<1> QED
    BY <1>1, <1>2, <1>3, SettingsKept, Moved

LEMMA CapturesKeepSettings ==
    ASSUME SettingsInv, NEW q \in Requests,
           \/ Kwin(q) \/ Portal(q) \/ Upload(q) \/ OpenPage(q)
           \/ \E p \in Launches : Alone(p, q)
    PROVE  SettingsInv'
<1>1. UNCHANGED settings
    BY DEF Kwin, Portal, Upload, OpenPage, Alone, InTask
<1>2. (\E shown \in BOOLEAN : Ends(q, shown)) \/ \E where \in Running : GoesTo(q, where)
    BY DEF Kwin, KwinTakes, Portal, PortalTakes, Upload, ServerAnswers, OpenPage, Alone, Finish,
       Running
<1>3. UNCHANGED pc \/ (pc[ask[q].by] = "alone" /\ pc' = [pc EXCEPT ![ask[q].by] = "gone"])
    BY <1>2 DEF Ends, GoesTo
<1>4. pc \in [Launches -> Places]
    BY DEF SettingsInv, SettingsTypes
<1>5. pc' \in [Launches -> Places]
    BY <1>3, <1>4 DEF Places
<1>6. \A o \in Launches : pc'[o] = pc[o] \/ {pc[o], pc'[o]} \cap SettingsPlaces = {}
    BY <1>3, <1>4 DEF SettingsPlaces
<1> QED
    BY <1>1, <1>5, <1>6, SettingsKept
-----------------------------------------------------------------------------
LEMMA SettingsInductive == SettingsInv /\ [Next]_vars => SettingsInv'
<1> SUFFICES ASSUME SettingsInv, [Next]_vars PROVE SettingsInv'
    OBVIOUS
<1>1. ASSUME NEW p \in Launches,
             \/ Launch(p) \/ Serve(p) \/ LoadSession(p) \/ Tray(p) \/ Receive(p) \/ LastOpened(p)
             \/ ReceiveDone(p) \/ Signalled(p) \/ Close(p) \/ Exit(p) \/ Killed(p)
      PROVE  SettingsInv'
    BY <1>1, OthersKeepSettings
<1>2. ASSUME NEW p \in Launches, NEW q \in Requests,
             Shortcut(p, q) \/ Forward(p, q) \/ UploadFile(p, q)
      PROVE  SettingsInv'
    BY <1>2, OthersKeepSettings
<1>3. ASSUME NEW p \in Launches, NEW q \in Requests, Alone(p, q)
      PROVE  SettingsInv'
    BY <1>3, CapturesKeepSettings
<1>4. ASSUME NEW q \in Requests, Kwin(q) \/ Portal(q) \/ Upload(q) \/ OpenPage(q)
      PROVE  SettingsInv'
    BY <1>4, CapturesKeepSettings
<1>5. ASSUME NEW p \in Launches,
             \/ Configure(p) \/ Ping(p) \/ StoreToken(p) \/ DeleteOther(p) \/ AskAutostart(p)
             \/ SaveConfig(p) \/ SwitchAutostart(p) \/ SwitchEntry(p) \/ ReadConfig(p)
             \/ NoteAutostart(p) \/ SettingsDie(p)
      PROVE  SettingsInv'
    BY <1>5, ConfigurePreserves, PingPreserves, StoreTokenPreserves, DeleteOtherPreserves,
       AskAutostartPreserves, SaveConfigPreserves, SwitchAutostartPreserves,
       SwitchEntryPreserves, ReadConfigPreserves, NoteAutostartPreserves, SettingsDiePreserves
<1>6. CASE UNCHANGED vars
    BY <1>6, SettingsKept DEF vars, settings, SettingsInv, SettingsTypes
<1>7. SettingsRuns \subseteq Launches
    BY ClientAssumption
<1> QED
    BY <1>1, <1>2, <1>3, <1>4, <1>5, <1>6, <1>7 DEF Next

(* The settings' part of the client holds in every reachable state. *)
THEOREM ClientKeepsItsSettings == Spec => []SettingsInv
BY SettingsInitEstablishes, SettingsInductive, PTL DEF Spec

(* A config names a store that holds a token, and an autostart choice that the *)
(* entry agrees with, once the commands since the last that went wrong have    *)
(* run to their end one by one.                                                *)
THEOREM SettingsHoldOnceSaved == Spec => []SavedSettingsHold
<1>1. SettingsInv => SavedSettingsHold
    BY DEF SettingsInv, SettingsTypes, CommandsInOrder, SavedSettingsHold, StoreNamed, ChoiceNoted
<1> QED
    BY <1>1, ClientKeepsItsSettings, PTL
-----------------------------------------------------------------------------
(* A finite set of numbers has a greatest one: of the sets of what is above a  *)
(* member one is the least.                                                    *)
LEMMA GreatestOf ==
    ASSUME NEW S \in SUBSET Int, IsFiniteSet(S), S # {}
    PROVE  \E m \in S : \A n \in S : m >= n
<1> DEFINE Above(n) == {k \in S : n < k}
           Aboves == {Above(n) : n \in S}
           Strict == StrictSubsetOrdering(S)
<1>1. IsWellFoundedOn(Strict, SUBSET S)
    BY FS_StrictSubsetOrderingWellFounded, FS_FiniteSubsetsOfFinite
<1>2. Aboves \subseteq SUBSET S /\ Aboves # {}
    OBVIOUS
<1>3. PICK T \in Aboves : \A U \in Aboves : ~(<<U, T>> \in Strict)
    <2> HIDE DEF Aboves, Strict
    <2> QED
        BY <1>1, <1>2, WFMin
<1>4. PICK m \in S : T = Above(m)
    OBVIOUS
<1>5. \A n \in S : m >= n
    <2> SUFFICES ASSUME NEW n \in S, m < n PROVE FALSE
        OBVIOUS
    <2>1. Above(n) \in Aboves /\ Above(n) \subseteq S /\ Above(m) \subseteq S
        OBVIOUS
    <2>2. Above(n) \subseteq Above(m)
        <3> SUFFICES ASSUME NEW k \in S, n < k PROVE m < k
            OBVIOUS
        <3>1. k \in Int /\ n \in Int /\ m \in Int
            OBVIOUS
        <3> QED
            BY <3>1
    <2>3. n \in Above(m) /\ n \notin Above(n)
        OBVIOUS
    <2> HIDE DEF Above
    <2>4. <<Above(n), Above(m)>> \in Strict
        BY <2>1, <2>2, <2>3 DEF StrictSubsetOrdering
    <2> QED
        BY <1>3, <1>4, <2>1, <2>4
<1> QED
    BY <1>5

(* And a least one, the opposite of the greatest of the opposites.             *)
LEMMA LeastOfFinite ==
    ASSUME NEW S \in SUBSET Int, IsFiniteSet(S), S # {}
    PROVE  \E m \in S : \A n \in S : m <= n
<1> DEFINE Opposites == {-n : n \in S}
<1>1. IsFiniteSet(Opposites)
    <2>1. PICK f : f = [n \in S |-> -n]
        OBVIOUS
    <2>2. f \in Surjection(S, Opposites)
        BY <2>1 DEF Surjection
    <2> QED
        BY <2>2, FS_Surjection
<1>2. Opposites \in SUBSET Int /\ Opposites # {}
    <2>1. \A n \in S : -n \in Int
        OBVIOUS
    <2> QED
        BY <2>1
<1>3. PICK k \in Opposites : \A n \in Opposites : k >= n
    <2> HIDE DEF Opposites
    <2> QED
        BY <1>1, <1>2, GreatestOf
<1>4. PICK m \in S : k = -m
    OBVIOUS
<1>5. \A n \in S : -m >= -n
    BY <1>3, <1>4
<1>6. \A n \in S : m <= n
    <2> SUFFICES ASSUME NEW n \in S PROVE m <= n
        OBVIOUS
    <2>1. m \in Int /\ n \in Int /\ -m >= -n
        BY <1>5
    <2> QED
        BY <2>1
<1> QED
    BY <1>6

(* A set of natural numbers has a least one, finite or not.                    *)
LEMMA LeastOf ==
    ASSUME NEW S \in SUBSET Nat, S # {}
    PROVE  \E m \in S : \A n \in S : m <= n
<1>1. PICK top \in S : TRUE
    OBVIOUS
<1>2. PICK Low : Low = S \cap 0..top
    OBVIOUS
<1>3. IsFiniteSet(Low)
    <2>1. IsFiniteSet(0..top)
        BY FS_Interval
    <2> QED
        BY <1>2, <2>1, FS_Subset
<1>4. top \in Low /\ Low \in SUBSET Int
    BY <1>2
<1>5. PICK m \in Low : \A n \in Low : m <= n
    BY <1>3, <1>4, LeastOfFinite
<1>6. \A n \in S : m <= n
    <2> SUFFICES ASSUME NEW n \in S PROVE m <= n
        OBVIOUS
    <2>1. CASE n <= top
        <3>1. n \in Low
            BY <1>2, <2>1
        <3> QED
            BY <1>5, <3>1
    <2>2. CASE n > top
        <3>1. m \in Int /\ n \in Int /\ m <= top
            BY <1>2
        <3> QED
            BY <2>2, <3>1
    <2> QED
        BY <2>1, <2>2
<1> QED
    BY <1>2, <1>6

(* From one number to the next.                                                *)
LEMMA NumbersFollow ==
    ASSUME NEW S, 0 \in S, \A n \in Nat : n \in S => n + 1 \in S
    PROVE  \A n \in Nat : n \in S
<1> SUFFICES ASSUME NEW k \in Nat, k \notin S PROVE FALSE
    OBVIOUS
<1>1. PICK T : T = {n \in Nat : n \notin S}
    OBVIOUS
<1>2. PICK m \in T : \A n \in T : m <= n
    BY <1>1, LeastOf
<1>3. m \in Nat /\ m # 0
    BY <1>1, <1>2
<1>4. m - 1 \in Nat /\ (m - 1) + 1 = m
    BY <1>3
<1>5. m - 1 \notin T
    BY <1>2, <1>3, <1>4
<1> QED
    BY <1>1, <1>4, <1>5

LEMMA GreatestIsMax ==
    ASSUME NEW S \in SUBSET Int, IsFiniteSet(S), S # {}
    PROVE  Max(S) \in S /\ \A n \in S : Max(S) >= n
<1>1. \E m \in S : \A n \in S : m >= n
    BY GreatestOf
<1> QED
    BY <1>1, Zenon DEF Max

LEMMA LeastIsMin ==
    ASSUME NEW S \in SUBSET Int, IsFiniteSet(S), S # {}
    PROVE  Min(S) \in S /\ \A n \in S : Min(S) <= n
<1>1. \E m \in S : \A n \in S : m <= n
    BY LeastOfFinite
<1> QED
    BY <1>1, Zenon DEF Min

LEMMA OfTwo ==
    ASSUME NEW a \in Int, NEW b \in Int
    PROVE  /\ Max({a, b}) = IF a >= b THEN a ELSE b
           /\ Min({a, b}) = IF a <= b THEN a ELSE b
<1>1. \E x \in {a, b} : \A y \in {a, b} : x >= y
    BY a <= b \/ b <= a
<1>2. \E x \in {a, b} : \A y \in {a, b} : x <= y
    BY a <= b \/ b <= a
<1>3. Max({a, b}) \in {a, b} /\ \A y \in {a, b} : Max({a, b}) >= y
    BY <1>1, Zenon DEF Max
<1>4. Min({a, b}) \in {a, b} /\ \A y \in {a, b} : Min({a, b}) <= y
    BY <1>2, Zenon DEF Min
<1> QED
    BY <1>3, <1>4

-----------------------------------------------------------------------------
(* Boxes of whole pixels.                                                      *)

IntBox(b) == b.lo \in Int /\ b.hi \in Int

LEMMA ShiftedFits ==
    ASSUME NEW b, IntBox(b), NEW d \in Int
    PROVE  IntBox(Shifted(b, d)) /\ Shifted(b, d).lo = b.lo + d /\ Shifted(b, d).hi = b.hi + d
BY DEF IntBox, Shifted

LEMMA CutFits ==
    ASSUME NEW a, NEW b, IntBox(a), IntBox(b)
    PROVE  IntBox(Cut(a, b)) /\ b.lo <= Cut(a, b).lo /\ Cut(a, b).hi <= b.hi
<1>1. PICK l \in Int, h \in Int, m \in Int, n \in Int :
          a.lo = l /\ a.hi = h /\ b.lo = m /\ b.hi = n
    BY DEF IntBox
<1>2. Max({l, m}) = IF l >= m THEN l ELSE m
    BY OfTwo
<1>3. Min({h, n}) = IF h <= n THEN h ELSE n
    BY OfTwo
<1> QED
    BY <1>1, <1>2, <1>3 DEF IntBox, Cut

LEMMA BoundsFit ==
    ASSUME NEW d, \A e \in Elements : Measured(d[e]), NEW y \in Int, NEW e \in Elements
    PROVE  IntBox(Bounds(d, y, e)) /\ IntBox(PaddingBox(d, y, e))
<1>1. /\ d[e].box.lo \in Int /\ d[e].box.hi \in Int
      /\ d[e].borders[1].width \in Int /\ d[e].borders[2].width \in Int
    BY DEF Measured
<1>2. -y \in Int
    OBVIOUS
<1>3. IntBox(d[e].box) /\ IntBox(Shifted(d[e].box, -y))
    BY <1>1, <1>2, ShiftedFits DEF IntBox
<1>4. IntBox(Bounds(d, y, e))
    BY <1>3 DEF Bounds, IntBox
<1>5. PICK b : b = Bounds(d, y, e)
    OBVIOUS
<1>6. IntBox([lo |-> b.lo + d[e].borders[1].width, hi |-> b.hi - d[e].borders[2].width])
    BY <1>1, <1>4, <1>5 DEF IntBox
<1>7. IntBox(PaddingBox(d, y, e))
    BY <1>4, <1>5, <1>6 DEF PaddingBox
<1> QED
    BY <1>4, <1>7

LEMMA ClippersAreRead ==
    ASSUME NEW e, NEW part
    PROVE  Clippers(e, part) \subseteq {d \in Elements : part[d].full}
BY DEF Clippers

(* Whatever clips it, what is seen of a box has edges.                         *)
LEMMA ClippedFits ==
    ASSUME NEW e, NEW box, IntBox(box), NEW part,
           \A a \in Elements : part[a].full => IntBox(part[a].clip)
    PROVE  IntBox(Clipped(e, box, part))
<1>1. PICK Ds : Ds = Clippers(e, part)
    OBVIOUS
<1>2. Ds \subseteq Elements /\ \A a \in Ds : IntBox(part[a].clip)
    BY <1>1, ClippersAreRead
<1>3. IsFiniteSet(Ds)
    BY <1>2, ScanAssumption, FS_Subset
<1> DEFINE Clips == {part[a].clip : a \in Ds}
           Los == {c.lo : c \in Clips}
           His == {c.hi : c \in Clips}
<1>4. IsFiniteSet(Clips) /\ \A c \in Clips : IntBox(c)
    <2>1. PICK f : f = [a \in Ds |-> part[a].clip]
        OBVIOUS
    <2>2. f \in Surjection(Ds, Clips)
        BY <2>1 DEF Surjection
    <2>3. IsFiniteSet(Clips)
        BY <1>3, <2>2, FS_Surjection
    <2> QED
        BY <1>2, <2>3
<1> HIDE DEF Clips
<1>5. IsFiniteSet(Los) /\ IsFiniteSet(His)
    <2>1. PICK f : f = [c \in Clips |-> c.lo]
        OBVIOUS
    <2>2. PICK g : g = [c \in Clips |-> c.hi]
        OBVIOUS
    <2>3. f \in Surjection(Clips, Los) /\ g \in Surjection(Clips, His)
        BY <2>1, <2>2 DEF Surjection
    <2> HIDE DEF Los, His
    <2> QED
        BY <1>4, <2>3, FS_Surjection
<1>6. Los \in SUBSET Int /\ His \in SUBSET Int
    BY <1>4 DEF IntBox
<1> HIDE DEF Los, His
<1>7. Max({box.lo} \cup Los) \in Int
    <2>1. PICK S : S = Los \cup {box.lo}
        OBVIOUS
    <2>2. S \in SUBSET Int /\ S # {}
        BY <1>6, <2>1 DEF IntBox
    <2>3. IsFiniteSet(S)
        BY <1>5, <2>1, FS_AddElement
    <2>4. {box.lo} \cup Los = S
        BY <2>1
    <2> QED
        BY <2>2, <2>3, <2>4, GreatestIsMax
<1>8. Min({box.hi} \cup His) \in Int
    <2>1. PICK S : S = His \cup {box.hi}
        OBVIOUS
    <2>2. S \in SUBSET Int /\ S # {}
        BY <1>6, <2>1 DEF IntBox
    <2>3. IsFiniteSet(S)
        BY <1>5, <2>1, FS_AddElement
    <2>4. {box.hi} \cup His = S
        BY <2>1
    <2> QED
        BY <2>2, <2>3, <2>4, LeastIsMin
<1> QED
    BY <1>1, <1>7, <1>8 DEF Clipped, Clips, Los, His, IntBox
-----------------------------------------------------------------------------
(* The scan: what the walk has read, whatever the page looked like.            *)

Entries == {"node", "kind", "anchored", "depth", "box", "rect"}
Depths == -1..Cardinality(Elements)

IndexFits(idx) ==
    \A c \in idx : /\ DOMAIN c = Entries /\ c.node \in Elements /\ c.depth \in Depths
                   /\ IntBox(c.box) /\ IntBox(c.rect)

\* What was read in full has a box and a padding box.
PartFits(p) ==
    p.full => {"full", "kind", "box", "clip"} \subseteq DOMAIN p /\ IntBox(p.box) /\ IntBox(p.clip)

ScanFields == {"status", "index", "cache", "live", "stack", "part", "pending", "version"}
ScanFits(s) ==
    /\ DOMAIN s = ScanFields /\ DOMAIN s.part = Elements /\ DOMAIN s.pending = Elements
    /\ \A e \in Elements : PartFits(s.part[e]) /\ s.pending[e].kids \in Seq(Elements)
    /\ IndexFits(s.index)

\* The frames to visit are of elements.
StackFits(stack) == \E F : stack \in Seq(F) /\ \A f \in F : f.node \in Elements

LEMMA DepthFits == ASSUME NEW e \in Elements PROVE DepthOf(e) \in Depths
<1>1. IsFiniteSet(Elements) /\ OnPath[e] \in SUBSET Elements
    BY ScanAssumption, TreeAssumption
<1>2. /\ IsFiniteSet(OnPath[e]) /\ Cardinality(OnPath[e]) <= Cardinality(Elements)
    BY <1>1, FS_Subset
<1>3. Cardinality(OnPath[e]) \in Nat /\ Cardinality(Elements) \in Nat
    BY <1>1, <1>2, FS_CardinalityType
<1> QED
    BY <1>2, <1>3 DEF DepthOf, Depths

(* A candidate is what was read of an element, cut by what was read of others. *)
LEMMA AdmittedFits ==
    ASSUME NEW s, ScanFits(s), NEW es \in SUBSET Elements, \A e \in es : s.part[e].full
    PROVE  /\ ScanFits(Admitted(s, es)) /\ Admitted(s, es).stack = s.stack
           /\ Admitted(s, es).part = s.part /\ Admitted(s, es).pending = s.pending
<1> DEFINE Entry(e) == [node |-> e, kind |-> s.part[e].kind, anchored |-> s.part[e].anchored,
                        depth |-> DepthOf(e), box |-> s.part[e].box,
                        rect |-> Clipped(e, s.part[e].box, s.part)]
<1>1. ASSUME NEW e \in es
      PROVE  /\ DOMAIN Entry(e) = Entries /\ Entry(e).node \in Elements
             /\ Entry(e).depth \in Depths /\ IntBox(Entry(e).box) /\ IntBox(Entry(e).rect)
    <2>1. \A a \in Elements : s.part[a].full => IntBox(s.part[a].clip) /\ IntBox(s.part[a].box)
        BY DEF ScanFits, PartFits
    <2>2. e \in Elements /\ IntBox(s.part[e].box)
        BY <2>1
    <2>3. IntBox(Clipped(e, s.part[e].box, s.part))
        <3>1. PICK box : box = s.part[e].box
            OBVIOUS
        <3>2. PICK part : part = s.part
            OBVIOUS
        <3>3. IntBox(box) /\ \A a \in Elements : part[a].full => IntBox(part[a].clip)
            BY <2>1, <2>2, <3>1, <3>2
        <3>4. IntBox(Clipped(e, box, part))
            BY <3>3, ClippedFits
        <3> QED
            BY <3>1, <3>2, <3>4
    <2>4. DepthOf(e) \in Depths
        BY <2>2, DepthFits
    <2>5. PICK rect : rect = Clipped(e, s.part[e].box, s.part)
        OBVIOUS
    <2> QED
        BY <2>2, <2>3, <2>4 DEF Entries
<1> DEFINE Fresh == {c \in {Entry(e) : e \in es} : Size(c.rect) >= Floor(c.kind)}
<1>2. IndexFits(Fresh)
    <2> SUFFICES ASSUME NEW e \in es
                 PROVE  /\ DOMAIN Entry(e) = Entries /\ Entry(e).node \in Elements
                        /\ Entry(e).depth \in Depths /\ IntBox(Entry(e).box) /\ IntBox(Entry(e).rect)
        BY DEF IndexFits
    <2> QED
        BY <1>1
<1>3. PICK more : more = Fresh
    OBVIOUS
<1>4. Admitted(s, es) = [s EXCEPT !.index = @ \cup more]
    BY <1>3 DEF Admitted
<1> HIDE DEF Fresh
<1>5. /\ DOMAIN Admitted(s, es) = ScanFields /\ Admitted(s, es).index = s.index \cup more
      /\ Admitted(s, es).part = s.part /\ Admitted(s, es).pending = s.pending
      /\ Admitted(s, es).stack = s.stack
    BY <1>4 DEF ScanFits, ScanFields
<1>6. IndexFits(s.index \cup more)
    BY <1>2, <1>3 DEF IndexFits, ScanFits
<1> QED
    BY <1>5, <1>6 DEF ScanFits

LEMMA NamedFits ==
    ASSUME NEW s, ScanFits(s), NEW es \in SUBSET Elements, \A e \in es : s.part[e].full, NEW kind
    PROVE  /\ ScanFits(Named(s, es, kind)) /\ Named(s, es, kind).stack = s.stack
           /\ Named(s, es, kind).pending = s.pending
           /\ \A e \in Elements : s.part[e].full => Named(s, es, kind).part[e].full
<1>1. PICK part : part = [e \in Elements |->
                             IF e \in es THEN [s.part[e] EXCEPT !.kind = kind] ELSE s.part[e]]
    OBVIOUS
<1>2. Named(s, es, kind) = [s EXCEPT !.part = part]
    BY <1>1 DEF Named
<1>3. /\ DOMAIN Named(s, es, kind) = ScanFields /\ Named(s, es, kind).part = part
      /\ Named(s, es, kind).index = s.index /\ Named(s, es, kind).stack = s.stack
      /\ Named(s, es, kind).pending = s.pending
    BY <1>2 DEF ScanFits, ScanFields
<1>4. ASSUME NEW e \in Elements PROVE PartFits(part[e]) /\ (s.part[e].full => part[e].full)
    <2>1. PICK old : old = s.part[e]
        OBVIOUS
    <2>2. PartFits(old)
        BY <2>1 DEF ScanFits
    <2>3. CASE e \in es
        <3>1. part[e] = [old EXCEPT !.kind = kind]
            BY <1>1, <2>1, <2>3
        <3>2. old.full
            BY <2>1, <2>3
        <3>3. {"full", "kind", "box", "clip"} \subseteq DOMAIN old /\ IntBox(old.box) /\ IntBox(old.clip)
            BY <2>2, <3>2 DEF PartFits
        <3>4. /\ DOMAIN part[e] = DOMAIN old /\ part[e].full = old.full
              /\ part[e].box = old.box /\ part[e].clip = old.clip
            BY <3>1, <3>3
        <3> QED
            BY <3>2, <3>3, <3>4 DEF PartFits
    <2>4. CASE e \notin es
        BY <1>1, <2>1, <2>2, <2>4
    <2> QED
        BY <2>3, <2>4
<1>5. DOMAIN part = Elements
    BY <1>1
<1> QED
    BY <1>3, <1>4, <1>5 DEF ScanFits

(* A parent is judged by what was read of its children.                        *)
LEMMA JudgedFits ==
    ASSUME NEW s, ScanFits(s), NEW parent \in Elements
    PROVE  ScanFits(Judged(s, parent)) /\ Judged(s, parent).stack = s.stack
<1>1. PICK kids : kids = s.pending[parent].kids
    OBVIOUS
<1>2. PICK repeating : repeating = {kids[i] : i \in Repeating([i \in DOMAIN kids |-> s.part[kids[i]].box])}
    OBVIOUS
<1>3. PICK items : items = {k \in repeating : s.part[k].full /\ s.part[k].kind = "none"}
    OBVIOUS
<1>4. PICK s0 : s0 = Named(s, items, "item")
    OBVIOUS
<1>5. PICK s1 : s1 = Admitted(s0, items)
    OBVIOUS
<1>6. PICK set : set = IF Cardinality(repeating) >= MinSiblings /\ s.part[parent].full
                          /\ s.part[parent].kind = "none"
                       THEN {parent} ELSE {}
    OBVIOUS
<1>7. PICK s2 : s2 = Named(s1, set, "set")
    OBVIOUS
<1>8. Judged(s, parent) = Admitted(s2, set)
    BY <1>1, <1>2, <1>3, <1>4, <1>5, <1>6, <1>7, Zenon DEF Judged
<1>9. items \in SUBSET Elements /\ \A e \in items : s.part[e].full
    <2>1. kids \in Seq(Elements)
        BY <1>1 DEF ScanFits
    <2>2. \A i \in DOMAIN kids : kids[i] \in Elements
        BY <2>1, ElementOfSeq, LenProperties
    <2>3. \A i \in Repeating([i \in DOMAIN kids |-> s.part[kids[i]].box]) : i \in DOMAIN kids
        BY DEF Repeating
    <2>4. repeating \subseteq Elements
        BY <1>2, <2>2, <2>3
    <2> QED
        BY <1>3, <2>4
<1>10. /\ ScanFits(s0) /\ s0.stack = s.stack /\ \A e \in Elements : s.part[e].full => s0.part[e].full
    BY <1>4, <1>9, NamedFits
<1>11. \A e \in items : s0.part[e].full
    BY <1>9, <1>10
<1>12. ScanFits(s1) /\ s1.stack = s.stack /\ s1.part = s0.part
    BY <1>5, <1>9, <1>10, <1>11, AdmittedFits
<1>13. set \in SUBSET Elements /\ \A e \in set : s1.part[e].full
    BY <1>6, <1>10, <1>12
<1>14. /\ ScanFits(s2) /\ s2.stack = s.stack /\ \A e \in Elements : s1.part[e].full => s2.part[e].full
    BY <1>7, <1>12, <1>13, NamedFits
<1>15. \A e \in set : s2.part[e].full
    BY <1>13, <1>14
<1> QED
    BY <1>8, <1>13, <1>14, <1>15, AdmittedFits

LEMMA ChildDoneFits ==
    ASSUME NEW s, ScanFits(s), NEW parent \in Elements \cup {NoElement},
           NEW child \in Elements \cup {NoElement}
    PROVE  ScanFits(ChildDone(s, parent, child)) /\ ChildDone(s, parent, child).stack = s.stack
<1>1. CASE parent = NoElement \/ (parent # NoElement /\ s.pending[parent].left = 0)
    BY <1>1 DEF ChildDone
<1>2. CASE ~(parent = NoElement \/ (parent # NoElement /\ s.pending[parent].left = 0))
    <2>1. PICK kids : kids = IF child = NoElement THEN <<>> ELSE <<child>>
        OBVIOUS
    <2>2. PICK mine : mine = [left |-> s.pending[parent].left - 1, kids |-> s.pending[parent].kids \o kids]
        OBVIOUS
    <2>3. PICK pending : pending = [s.pending EXCEPT ![parent] = mine]
        OBVIOUS
    <2>4. PICK s1 : s1 = [s EXCEPT !.pending = pending]
        OBVIOUS
    <2>5. parent \in Elements /\ DOMAIN s = ScanFields /\ DOMAIN s.pending = Elements
        BY <1>2 DEF ScanFits
    <2>6. s1 = [s EXCEPT !.pending[parent] = [left |-> @.left - 1, kids |-> @.kids \o kids]]
        BY <2>2, <2>3, <2>4
    <2>7. ScanFits(s1) /\ s1.stack = s.stack
        <3>1. kids \in Seq(Elements)
            <4>1. CASE child = NoElement
                BY <2>1, <4>1, EmptySeq
            <4>2. CASE child # NoElement
                <5>1. child \in Elements
                    BY <4>2
                <5> QED
                    BY <2>1, <4>2, <5>1
            <4> QED
                BY <4>1, <4>2
        <3>2. mine.kids \in Seq(Elements)
            <4>1. s.pending[parent].kids \in Seq(Elements)
                BY <2>5 DEF ScanFits
            <4> QED
                BY <2>2, <3>1, <4>1, ConcatProperties
        <3>3. /\ DOMAIN s1 = ScanFields /\ s1.pending = pending /\ s1.part = s.part
              /\ s1.index = s.index /\ s1.stack = s.stack
            BY <2>4, <2>5 DEF ScanFields
        <3>4. DOMAIN pending = Elements /\ \A e \in Elements : pending[e].kids \in Seq(Elements)
            BY <2>3, <2>5, <3>2 DEF ScanFits
        <3> QED
            BY <3>3, <3>4 DEF ScanFits
    <2>8. ChildDone(s, parent, child) = IF s1.pending[parent].left > 0 THEN s1 ELSE Judged(s1, parent)
        BY <1>2, <2>1, <2>6, Zenon DEF ChildDone
    <2>9. ScanFits(Judged(s1, parent)) /\ Judged(s1, parent).stack = s.stack
        BY <2>5, <2>7, JudgedFits
    <2> QED
        BY <2>7, <2>8, <2>9
<1> QED
    BY <1>1, <1>2
-----------------------------------------------------------------------------
(* Only: what it keeps is of the sequence.                                     *)

\* The functions whose last value Only is.
Filters(f, n, seq, S) ==
    f = [i \in 0..n |-> IF i = 0 THEN <<>>
                        ELSE IF seq[i] \in S THEN Append(f[i - 1], seq[i]) ELSE f[i - 1]]

\* There is one, so the CHOOSE behind Only finds it.
LEMMA FilterExists ==
    ASSUME NEW seq, NEW S
    PROVE  \A n \in Nat : \E f : Filters(f, n, seq, S)
<1> DEFINE Ns == {n \in Nat : \E f : Filters(f, n, seq, S)}
<1>1. 0 \in Ns
    <2>1. PICK f : f = [i \in 0..0 |-> <<>>]
        OBVIOUS
    <2>2. Filters(f, 0, seq, S)
        BY <2>1 DEF Filters
    <2> QED
        BY <2>2
<1>2. \A n \in Nat : n \in Ns => n + 1 \in Ns
    <2> SUFFICES ASSUME NEW n \in Nat, n \in Ns PROVE n + 1 \in Ns
        OBVIOUS
    <2>1. PICK f : Filters(f, n, seq, S)
        OBVIOUS
    <2>2. PICK end : end = IF seq[n + 1] \in S THEN Append(f[n], seq[n + 1]) ELSE f[n]
        OBVIOUS
    <2>3. PICK g : g = [i \in 0..(n + 1) |-> IF i = n + 1 THEN end ELSE f[i]]
        OBVIOUS
    <2>4. \A i \in 0..(n + 1) : g[i] = IF i = 0 THEN <<>>
              ELSE IF seq[i] \in S THEN Append(g[i - 1], seq[i]) ELSE g[i - 1]
        <3> SUFFICES ASSUME NEW i \in 0..(n + 1)
                     PROVE  g[i] = IF i = 0 THEN <<>>
                              ELSE IF seq[i] \in S THEN Append(g[i - 1], seq[i]) ELSE g[i - 1]
            OBVIOUS
        <3>1. CASE i = n + 1
            <4>1. i # 0 /\ i - 1 = n /\ n \in 0..(n + 1) /\ n # n + 1
                BY <3>1
            <4>2. g[i - 1] = f[n] /\ g[i] = end
                BY <2>3, <3>1, <4>1
            <4> QED
                BY <2>2, <3>1, <4>1, <4>2
        <3>2. CASE i \in 0..n
            <4>1. i # n + 1 /\ (i # 0 => i - 1 \in 0..(n + 1) /\ i - 1 # n + 1)
                BY <3>2
            <4>2. g[i] = f[i] /\ (i # 0 => g[i - 1] = f[i - 1])
                BY <2>3, <4>1
            <4>3. f[i] = IF i = 0 THEN <<>>
                         ELSE IF seq[i] \in S THEN Append(f[i - 1], seq[i]) ELSE f[i - 1]
                BY <2>1, <3>2 DEF Filters
            <4> QED
                BY <4>2, <4>3
        <3> QED
            BY <3>1, <3>2
    <2>5. Filters(g, n + 1, seq, S)
        BY <2>3, <2>4 DEF Filters
    <2> QED
        BY <2>5
<1> HIDE DEF Ns
<1>3. \A n \in Nat : n \in Ns
    BY <1>1, <1>2, NumbersFollow
<1> QED
    BY <1>3 DEF Ns

LEMMA OnlyFits ==
    ASSUME NEW T, NEW seq \in Seq(T), NEW S
    PROVE  Only(seq, S) \in Seq(T)
<1>1. PICK n \in Nat : n = Len(seq)
    BY LenProperties
<1>2. \E f : Filters(f, n, seq, S)
    BY FilterExists
<1>3. PICK f : f = CHOOSE g : Filters(g, n, seq, S)
    OBVIOUS
<1>4. Filters(f, n, seq, S)
    BY <1>2, <1>3, Zenon
<1>5. Only(seq, S) = f[n]
    BY <1>1, <1>3 DEF Only, Filters
<1> DEFINE Ns == {i \in Nat : i <= n => f[i] \in Seq(T)}
<1>6. \A i \in 0..n : f[i] = IF i = 0 THEN <<>>
          ELSE IF seq[i] \in S THEN Append(f[i - 1], seq[i]) ELSE f[i - 1]
    BY <1>4 DEF Filters
<1>7. 0 \in Ns
    <2>1. 0 \in 0..n
        OBVIOUS
    <2>2. f[0] = <<>>
        BY <1>6, <2>1
    <2>3. f[0] \in Seq(T)
        BY <2>2, EmptySeq
    <2> QED
        BY <2>3
<1>8. \A i \in Nat : i \in Ns => i + 1 \in Ns
    <2> SUFFICES ASSUME NEW i \in Nat, i \in Ns, i + 1 <= n PROVE f[i + 1] \in Seq(T)
        OBVIOUS
    <2>1. i + 1 \in 0..n /\ i + 1 # 0 /\ (i + 1) - 1 = i /\ i + 1 \in 1..n
        OBVIOUS
    <2>2. f[i] \in Seq(T) /\ seq[i + 1] \in T
        BY <1>1, <2>1, ElementOfSeq
    <2>3. f[i + 1] = IF seq[i + 1] \in S THEN Append(f[i], seq[i + 1]) ELSE f[i]
        BY <1>6, <2>1
    <2>4. Append(f[i], seq[i + 1]) \in Seq(T)
        BY <2>2, AppendProperties
    <2> QED
        BY <2>2, <2>3, <2>4
<1>9. n \in Ns
    <2> HIDE DEF Ns
    <2> QED
        BY <1>7, <1>8, NumbersFollow
<1> QED
    BY <1>5, <1>9

LEMMA KidsFit ==
    ASSUME NEW d, NEW e \in Elements
    PROVE  Kids(d, e) \in Seq(Elements)
<1>1. ChildrenOf[e] \in Seq(Elements)
    BY ScanAssumption
<1>2. <<>> \in Seq(Elements)
    BY EmptySeq
<1> QED
    BY <1>1, <1>2, OnlyFits DEF Kids

LEMMA ParentsFit == ASSUME NEW e \in Elements PROVE ParentOf[e] \in Elements \cup {NoElement}
<1>1. CASE e = Root
    BY <1>1 DEF ParentOf
<1>2. CASE e # Root
    <2>1. \E p \in Elements : e \in ToSet(ChildrenOf[p])
        BY <1>2, TreeAssumption
    <2>2. ParentOf[e] = CHOOSE p \in Elements : e \in ToSet(ChildrenOf[p])
        BY <1>2 DEF ParentOf
    <2> QED
        BY <2>1, <2>2
<1> QED
    BY <1>1, <1>2
-----------------------------------------------------------------------------
(* The walk: what a visit leaves.                                              *)

DomFits(d) == DOMAIN d = Elements /\ \A e \in Elements : Measured(d[e])

\* A part put in the place of the node's.
LEMMA PartPut ==
    ASSUME NEW s, ScanFits(s), NEW e \in Elements, NEW p, PartFits(p)
    PROVE  /\ ScanFits([s EXCEPT !.part[e] = p])
           /\ [s EXCEPT !.part[e] = p].stack = s.stack
<1>1. PICK part : part = [s.part EXCEPT ![e] = p]
    OBVIOUS
<1>2. PICK t : t = [s EXCEPT !.part = part]
    OBVIOUS
<1>3. t = [s EXCEPT !.part[e] = p]
    BY <1>1, <1>2
<1>4. /\ DOMAIN t = ScanFields /\ t.part = part /\ t.index = s.index /\ t.stack = s.stack
      /\ t.pending = s.pending
    BY <1>2 DEF ScanFits, ScanFields
<1>5. DOMAIN part = Elements /\ \A a \in Elements : PartFits(part[a])
    BY <1>1 DEF ScanFits
<1>6. ScanFits(t)
    BY <1>4, <1>5 DEF ScanFits
<1> QED
    BY <1>3, <1>4, <1>6

LEMMA RecordedFits ==
    ASSUME NEW s, ScanFits(s), NEW frame, frame.node \in Elements, NEW d, DomFits(d),
           NEW y \in Int, NEW style
    PROVE  /\ ScanFits(Recorded(s, frame, d, y, style))
           /\ Recorded(s, frame, d, y, style).stack = s.stack
           /\ Recorded(s, frame, d, y, style).part[frame.node].full
<1>1. PICK e \in Elements : e = frame.node
    OBVIOUS
<1>2. PICK shift \in Int : shift = IF frame.anchored \/ style.position = "fixed" THEN 0 ELSE y
    OBVIOUS
<1>3. PICK p : p =
            [known |-> TRUE, full |-> TRUE, kind |-> KindOf(style, frame.behind),
             flow |-> Traits(style).flow, positioned |-> Traits(style).positioned,
             clips |-> Traits(style).clips, anchored |-> frame.anchored \/ style.position = "fixed",
             box |-> Shifted(Bounds(d, y, e), shift), clip |-> Shifted(PaddingBox(d, y, e), shift)]
    OBVIOUS
<1>4. IntBox(Bounds(d, y, e)) /\ IntBox(PaddingBox(d, y, e))
    BY BoundsFit DEF DomFits
<1>5. IntBox(Shifted(Bounds(d, y, e), shift)) /\ IntBox(Shifted(PaddingBox(d, y, e), shift))
    BY <1>4, ShiftedFits
<1>6. PartFits(p) /\ p.full
    <2>1. PICK box : box = Shifted(Bounds(d, y, e), shift)
        OBVIOUS
    <2>2. PICK clip : clip = Shifted(PaddingBox(d, y, e), shift)
        OBVIOUS
    <2>3. p.box = box /\ p.clip = clip /\ p.full
        BY <1>3, <2>1, <2>2
    <2>4. {"full", "kind", "box", "clip"} \subseteq DOMAIN p
        BY <1>3
    <2> QED
        BY <1>5, <2>1, <2>2, <2>3, <2>4 DEF PartFits
<1>7. Recorded(s, frame, d, y, style) = [s EXCEPT !.part[e] = p]
    BY <1>1, <1>2, <1>3, Zenon DEF Recorded
<1>8. [s EXCEPT !.part[e] = p].part[e] = p
    BY DEF ScanFits, ScanFields
<1> QED
    BY <1>1, <1>6, <1>7, <1>8, PartPut

LEMMA PeekedFits ==
    ASSUME NEW s, ScanFits(s), NEW frame, frame.node \in Elements, NEW d, NEW y
    PROVE  ScanFits(Peeked(s, frame, d, y)) /\ Peeked(s, frame, d, y).stack = s.stack
<1>1. PICK e \in Elements : e = frame.node
    OBVIOUS
<1>2. PICK p : p = [known |-> TRUE, full |-> FALSE, anchored |-> frame.anchored,
                    box |-> Shifted(Bounds(d, y, e), IF frame.anchored THEN 0 ELSE y)]
    OBVIOUS
<1>3. PartFits(p)
    BY <1>2 DEF PartFits
<1>4. Peeked(s, frame, d, y) = [s EXCEPT !.part[e] = p]
    BY <1>1, <1>2, Zenon DEF Peeked
<1> QED
    BY <1>3, <1>4, PartPut

LEMMA StacksGrow ==
    ASSUME NEW F, NEW stack \in Seq(F), \A f \in F : f.node \in Elements,
           NEW G, NEW frames \in Seq(G), \A f \in G : f.node \in Elements
    PROVE  StackFits(stack \o Reverse(frames))
<1>1. PICK H : H = F \cup G
    OBVIOUS
<1>2. PICK back : back = Reverse(frames)
    OBVIOUS
<1>3. PICK n \in Nat : n = Len(frames)
    BY LenProperties
<1>4. back = [i \in 1..n |-> frames[(n - i) + 1]]
    BY <1>2, <1>3 DEF Reverse
<1>5. \A i \in 1..n : frames[(n - i) + 1] \in G
    <2> SUFFICES ASSUME NEW i \in 1..n PROVE frames[(n - i) + 1] \in G
        OBVIOUS
    <2>1. PICK j : j = (n - i) + 1
        OBVIOUS
    <2>2. j \in 1..n
        BY <2>1
    <2>3. frames[j] \in G
        BY <1>3, <2>2, ElementOfSeq
    <2> QED
        BY <2>1, <2>3
<1>6. back \in [1..n -> H]
    BY <1>1, <1>4, <1>5
<1>7. back \in Seq(H)
    BY <1>6, SeqDef
<1>8. stack \in Seq(H)
    <2>1. PICK m \in Nat : m = Len(stack)
        BY LenProperties
    <2>2. stack \in [1..m -> F]
        BY <2>1, LenProperties
    <2>3. stack \in [1..m -> H]
        BY <1>1, <2>2
    <2> QED
        BY <2>3, SeqDef
<1>9. stack \o back \in Seq(H)
    BY <1>7, <1>8, ConcatProperties
<1>10. \A f \in H : f.node \in Elements
    BY <1>1
<1> QED
    BY <1>2, <1>9, <1>10 DEF StackFits

LEMMA DescendedFits ==
    ASSUME NEW s, ScanFits(s), NEW F, s.stack \in Seq(F), \A f \in F : f.node \in Elements,
           NEW frame, frame.node \in Elements, NEW style, NEW kids \in Seq(Elements)
    PROVE  /\ ScanFits(Descended(s, frame, style, kids))
           /\ StackFits(Descended(s, frame, style, kids).stack)
<1>1. PICK e \in Elements : e = frame.node
    OBVIOUS
<1>2. PICK frames : frames = [i \in DOMAIN kids |->
                     [node |-> kids[i], behind |-> Behind(style, frame.behind),
                      anchored |-> frame.anchored \/ style.position = "fixed"]]
    OBVIOUS
<1>3. PICK wait : wait = IF style.layout /\ Len(kids) >= MinSiblings
                         THEN [left |-> Len(kids), kids |-> <<>>] ELSE NoPending
    OBVIOUS
<1>4. PICK s2 : s2 = [s EXCEPT !.cache[e] = style, !.stack = @ \o Reverse(frames), !.pending[e] = wait]
    OBVIOUS
<1>5. Descended(s, frame, style, kids) = s2
    BY <1>1, <1>2, <1>3, <1>4, Zenon DEF Descended
<1>6. PICK pending : pending = [s.pending EXCEPT ![e] = wait]
    OBVIOUS
<1>7. wait.kids \in Seq(Elements)
    BY <1>3, EmptySeq DEF NoPending
<1>8. /\ DOMAIN s2 = ScanFields /\ s2.index = s.index /\ s2.part = s.part
      /\ s2.pending = pending /\ s2.stack = s.stack \o Reverse(frames)
    BY <1>4, <1>6 DEF ScanFits, ScanFields
<1>9. DOMAIN pending = Elements /\ \A a \in Elements : pending[a].kids \in Seq(Elements)
    BY <1>6, <1>7 DEF ScanFits
<1>10. ScanFits(s2)
    BY <1>8, <1>9 DEF ScanFits
<1>11. PICK G : G = {frames[i] : i \in DOMAIN kids}
    OBVIOUS
<1>12. frames \in Seq(G)
    <2>1. PICK n \in Nat : n = Len(kids)
        BY LenProperties
    <2>2. DOMAIN kids = 1..n
        BY <2>1, LenProperties
    <2>3. frames \in [1..n -> G]
        BY <1>2, <1>11, <2>2
    <2> QED
        BY <2>3, SeqDef
<1>13. \A f \in G : f.node \in Elements
    <2>1. \A i \in DOMAIN kids : kids[i] \in Elements
        BY LenProperties, ElementOfSeq
    <2>2. \A i \in DOMAIN kids : frames[i].node = kids[i]
        BY <1>2
    <2> QED
        BY <1>11, <2>1, <2>2
<1>14. StackFits(s.stack \o Reverse(frames))
    BY <1>12, <1>13, StacksGrow
<1> QED
    BY <1>5, <1>8, <1>10, <1>14

(* A visit reads one element and leaves the frames of its children.            *)
LEMMA VisitFits ==
    ASSUME NEW s, ScanFits(s), NEW F, s.stack \in Seq(F), \A f \in F : f.node \in Elements,
           s.stack # <<>>, NEW d, DomFits(d), NEW y \in Int
    PROVE  ScanFits(Visit(s, d, y)) /\ StackFits(Visit(s, d, y).stack)
<1>1. PICK frame : frame = Last(s.stack)
    OBVIOUS
<1>2. PICK rest : rest = Front(s.stack)
    OBVIOUS
<1>3. rest \in Seq(F) /\ frame.node \in Elements
    <2>1. PICK stack \in Seq(F) : stack = s.stack
        OBVIOUS
    <2>2. PICK n \in Nat : n = Len(stack)
        BY LenProperties
    <2>3. n # 0
        BY <2>1, <2>2, EmptySeq
    <2>4. stack[n] \in F
        <3>1. n \in 1..Len(stack)
            BY <2>2, <2>3
        <3> QED
            BY <3>1, ElementOfSeq
    <2>5. frame = stack[n]
        BY <1>1, <2>1, <2>2 DEF Last
    <2>6. rest = SubSeq(stack, 1, n - 1)
        BY <1>2, <2>1, <2>2 DEF Front
    <2>7. SubSeq(stack, 1, n - 1) \in Seq(F)
        <3>1. \A i \in 1..(n - 1) : i \in 1..Len(stack)
            BY <2>2
        <3>2. \A i \in 1..(n - 1) : stack[i] \in F
            BY <3>1, ElementOfSeq
        <3> QED
            BY <2>2, <2>3, <3>1, <3>2, SubSeqProperties
    <2> QED
        BY <2>4, <2>5, <2>6, <2>7
<1>4. PICK e \in Elements : e = frame.node
    BY <1>3
<1>5. PICK s1 : s1 = [s EXCEPT !.stack = Front(@)]
    OBVIOUS
<1>6. ScanFits(s1) /\ s1.stack = rest
    <2>1. s1 = [s EXCEPT !.stack = rest]
        BY <1>2, <1>5
    <2>2. /\ DOMAIN s1 = ScanFields /\ s1.index = s.index /\ s1.part = s.part
          /\ s1.pending = s.pending /\ s1.stack = rest
        BY <2>1 DEF ScanFits, ScanFields
    <2> QED
        BY <2>2 DEF ScanFits
<1>7. PICK style : style = StaticPart(s.cache, d, e)
    OBVIOUS
<1>8. PICK kids \in Seq(Elements) : kids = Kids(d, e)
    BY KidsFit
<1>9. PICK s2 : s2 = Descended(s1, frame, style, kids)
    OBVIOUS
<1>12. PICK read : read = Recorded(s2, frame, d, y, style)
    OBVIOUS
<1>14. ScanFits(s2) /\ StackFits(s2.stack)
    BY <1>3, <1>6, <1>9, DescendedFits
<1>15. /\ ScanFits(read) /\ read.stack = s2.stack /\ read.part[e].full
    BY <1>4, <1>12, <1>14, RecordedFits
<1>16. ParentOf[e] \in Elements \cup {NoElement} /\ e \in Elements \cup {NoElement}
    BY ParentsFit
<1>17. StackFits(rest)
    BY <1>3 DEF StackFits
<1>18. CASE OffScreen(Bounds(d, y, e))
    <2>1. PICK peeked : peeked = Peeked(s1, frame, d, y)
        OBVIOUS
    <2>2. ScanFits(peeked) /\ peeked.stack = rest
        BY <1>3, <1>6, <2>1, PeekedFits
    <2>3. Visit(s, d, y) = ChildDone(peeked, ParentOf[e], e)
        BY <1>1, <1>4, <1>5, <1>18, <2>1, Zenon DEF Visit
    <2>4. /\ ScanFits(ChildDone(peeked, ParentOf[e], e))
          /\ ChildDone(peeked, ParentOf[e], e).stack = rest
        <3>1. PICK parent \in Elements \cup {NoElement} : parent = ParentOf[e]
            BY <1>16
        <3> QED
            BY <1>16, <2>2, <3>1, ChildDoneFits
    <2> QED
        BY <1>17, <2>3, <2>4
<1>19. CASE ~OffScreen(Bounds(d, y, e)) /\ ~style.shown
    <2>1. PICK hidden : hidden = [s1 EXCEPT !.cache[e] = style]
        OBVIOUS
    <2>2. ScanFits(hidden) /\ hidden.stack = rest
        <3>1. /\ DOMAIN hidden = ScanFields /\ hidden.index = s1.index /\ hidden.part = s1.part
              /\ hidden.pending = s1.pending /\ hidden.stack = s1.stack
            BY <1>6, <2>1 DEF ScanFits, ScanFields
        <3> QED
            BY <1>6, <3>1 DEF ScanFits
    <2>3. Visit(s, d, y) = ChildDone(hidden, ParentOf[e], NoElement)
        BY <1>1, <1>4, <1>5, <1>7, <1>19, <2>1, Zenon DEF Visit, Skipped
    <2>4. /\ ScanFits(ChildDone(hidden, ParentOf[e], NoElement))
          /\ ChildDone(hidden, ParentOf[e], NoElement).stack = rest
        <3>1. PICK parent \in Elements \cup {NoElement} : parent = ParentOf[e]
            BY <1>16
        <3>2. PICK none \in Elements \cup {NoElement} : none = NoElement
            OBVIOUS
        <3> QED
            BY <2>2, <3>1, <3>2, ChildDoneFits
    <2> QED
        BY <1>17, <2>3, <2>4
<1>20. CASE ~OffScreen(Bounds(d, y, e)) /\ style.shown
    <2>1. PICK told : told = IF read.part[e].kind = "none" THEN read ELSE Admitted(read, {e})
        OBVIOUS
    <2>2. Visit(s, d, y) = ChildDone(told, ParentOf[e], e)
        BY <1>1, <1>4, <1>5, <1>7, <1>8, <1>9, <1>12, <1>20, <2>1, Zenon DEF Visit
    <2>3. ScanFits(told) /\ told.stack = s2.stack
        BY <1>15, <2>1, AdmittedFits
    <2>4. /\ ScanFits(ChildDone(told, ParentOf[e], e))
          /\ ChildDone(told, ParentOf[e], e).stack = s2.stack
        <3>1. PICK parent \in Elements \cup {NoElement} : parent = ParentOf[e]
            BY <1>16
        <3> QED
            BY <1>16, <2>3, <3>1, ChildDoneFits
    <2> QED
        BY <1>14, <2>2, <2>4
<1> QED
    BY <1>18, <1>19, <1>20

LEMMA StepFits ==
    ASSUME NEW s, ScanFits(s), StackFits(s.stack), s.stack # <<>>, s.status = "running",
           NEW d, DomFits(d), NEW y \in Int
    PROVE  /\ ScanFits(Step(s, d, y)) /\ StackFits(Step(s, d, y).stack)
           /\ Step(s, d, y).status # "done" => Step(s, d, y).stack # <<>>
<1>1. PICK v : v = Visit(s, d, y)
    OBVIOUS
<1>2. ScanFits(v) /\ StackFits(v.stack)
    <2>1. PICK F : s.stack \in Seq(F) /\ \A f \in F : f.node \in Elements
        BY DEF StackFits
    <2> QED
        BY <1>1, <2>1, VisitFits
<1>3. PICK w : w = [v EXCEPT !.status = "done"]
    OBVIOUS
<1>4. /\ DOMAIN w = ScanFields /\ w.index = v.index /\ w.part = v.part
      /\ w.pending = v.pending /\ w.stack = v.stack /\ w.status = "done"
    BY <1>2, <1>3 DEF ScanFits, ScanFields
<1>5. ScanFits(w)
    BY <1>2, <1>4 DEF ScanFits
<1>6. Step(s, d, y) = IF v.stack = <<>> THEN w ELSE v
    BY <1>1, <1>3 DEF Step
<1> QED
    BY <1>2, <1>4, <1>5, <1>6
-----------------------------------------------------------------------------
(* What a press takes.                                                         *)

\* A candidate as it may be captured: in the viewport, and around the pointer.
Capturable(c, x) ==
    /\ c.node \in Elements /\ IntBox(c.rect) /\ 0 <= c.rect.lo /\ c.rect.hi <= Viewport
    /\ PassesGuards(c.rect, c.kind) /\ Within(c.rect, x)

LEMMA FloorsAre ==
    ASSUME NEW kind
    PROVE  Floor(kind) \in Nat \ {0} /\ Floor(kind) * Scale >= 4
BY ScanAssumption, OverlayAssumption DEF Floor

(* Of candidates with a size the least there is, deepest first.                *)
LEMMA SmallestIs ==
    ASSUME NEW cs, cs # {},
           \A c \in cs : IntBox(c.rect) /\ Size(c.rect) \in Nat /\ c.depth \in Depths
    PROVE  \E c \in cs : \A d \in cs : ~SmallerThan(d, c)
<1>1. PICK Sizes : Sizes = {Size(c.rect) : c \in cs}
    OBVIOUS
<1>2. PICK least \in Sizes : \A n \in Sizes : least <= n
    <2>1. Sizes \in SUBSET Nat /\ Sizes # {}
        BY <1>1
    <2> QED
        BY <2>1, LeastOf
<1>3. PICK Small : Small = {c \in cs : Size(c.rect) = least}
    OBVIOUS
<1>4. PICK Deep : Deep = {c.depth : c \in Small}
    OBVIOUS
<1>5. PICK deepest \in Deep : \A n \in Deep : deepest >= n
    <2>1. Cardinality(Elements) \in Nat
        BY ScanAssumption, FS_CardinalityType
    <2>2. IsFiniteSet(Depths) /\ Depths \subseteq Int
        BY <2>1, FS_Interval DEF Depths
    <2>3. Deep \in SUBSET Depths
        BY <1>3, <1>4
    <2>4. IsFiniteSet(Deep)
        BY <2>2, <2>3, FS_Subset
    <2>5. Deep # {}
        BY <1>1, <1>2, <1>3, <1>4
    <2> QED
        BY <2>2, <2>3, <2>4, <2>5, GreatestOf
<1>6. PICK c \in Small : c.depth = deepest
    BY <1>4
<1>7. \A d \in cs : ~SmallerThan(d, c)
    <2> SUFFICES ASSUME NEW d \in cs, SmallerThan(d, c) PROVE FALSE
        OBVIOUS
    <2>1. PICK m \in Nat : m = Size(c.rect)
        BY <1>3
    <2>2. PICK n \in Nat : n = Size(d.rect)
        OBVIOUS
    <2>3. m = least /\ m <= n
        BY <1>1, <1>2, <1>3, <2>1, <2>2
    <2>4. n = m /\ d.depth > c.depth
        <3>1. n < m \/ (n = m /\ d.depth > c.depth)
            BY <2>1, <2>2 DEF SmallerThan
        <3> QED
            BY <2>3, <3>1
    <2>5. d.depth \in Deep
        BY <1>3, <1>4, <2>2, <2>3, <2>4
    <2>6. c.depth >= d.depth /\ c.depth \in Int /\ d.depth \in Int
        BY <1>3, <1>5, <1>6, <2>5, ScanAssumption, FS_CardinalityType DEF Depths
    <2> QED
        BY <2>4, <2>6
<1> QED
    BY <1>3, <1>7

(* What a point resolves to is one of the candidates that may be captured.     *)
LEMMA ResolvedIsCapturable ==
    ASSUME NEW x \in Int, NEW cands,
           \A c \in cands : /\ c.node \in Elements /\ c.depth \in Depths /\ IntBox(c.rect)
                            /\ 0 <= c.rect.lo /\ c.rect.hi <= Viewport,
           NEW c \in ResolveHover(cands, x)
    PROVE  Capturable(c, x)
<1>1. PICK eligible : eligible = {e \in cands : PassesGuards(e.rect, e.kind) /\ Within(e.rect, x)}
    OBVIOUS
<1>2. PICK first : first = CHOOSE e \in eligible : \A d \in eligible : ~SmallerThan(d, e)
    OBVIOUS
<1>3. PICK promoted : promoted = {e \in eligible : e # first /\ NearOwnEdge(e, x)}
    OBVIOUS
<1>4. ResolveHover(cands, x) =
          IF eligible = {} THEN {}
          ELSE IF promoted # {} THEN {CHOOSE e \in promoted : \A d \in promoted : ~SmallerThan(d, e)}
          ELSE {first}
    BY <1>1, <1>2, <1>3, Zenon DEF ResolveHover
<1>5. \A e \in eligible : IntBox(e.rect) /\ Size(e.rect) \in Nat /\ e.depth \in Depths
    <2> SUFFICES ASSUME NEW e \in eligible
                 PROVE  IntBox(e.rect) /\ Size(e.rect) \in Nat /\ e.depth \in Depths
        OBVIOUS
    <2>1. e \in cands /\ Size(e.rect) >= Floor(e.kind)
        BY <1>1 DEF PassesGuards
    <2>2. IntBox(e.rect) /\ e.depth \in Depths
        BY <2>1
    <2>3. PICK n : n = Size(e.rect)
        OBVIOUS
    <2>4. n \in Int
        BY <2>2, <2>3 DEF IntBox, Size
    <2>5. PICK least \in Nat : least = Floor(e.kind)
        BY FloorsAre
    <2>6. n >= least
        BY <2>1, <2>3, <2>5
    <2>7. n \in Nat
        BY <2>4, <2>5, <2>6
    <2> QED
        BY <2>2, <2>3, <2>7
<1>6. c \in eligible
    <2>1. CASE promoted # {}
        <3>1. promoted \subseteq eligible
            BY <1>3
        <3>2. \E e \in promoted : \A d \in promoted : ~SmallerThan(d, e)
            BY <1>5, <2>1, <3>1, SmallestIs
        <3>3. (CHOOSE e \in promoted : \A d \in promoted : ~SmallerThan(d, e)) \in promoted
            BY <3>2, Zenon
        <3> QED
            BY <1>4, <2>1, <3>1, <3>3
    <2>2. CASE promoted = {} /\ eligible # {}
        <3>1. \E e \in eligible : \A d \in eligible : ~SmallerThan(d, e)
            BY <1>5, <2>2, SmallestIs
        <3>2. first \in eligible
            BY <1>2, <3>1, Zenon
        <3> QED
            BY <1>4, <2>2, <3>2
    <2> QED
        BY <1>4, <2>1, <2>2
<1> QED
    BY <1>1, <1>6 DEF Capturable

LEMMA SuggestedIsCapturable ==
    ASSUME NEW idx, IndexFits(idx), scroll \in Int, NEW x \in Int, NEW c \in SuggestAt(idx, x)
    PROVE  Capturable(c, x)
<1>1. PICK live : live = {e \in Containing(idx, x, scroll) : e.node \in OnPath[Max(Under(x))]}
    OBVIOUS
<1>2. PICK cands : cands = {InViewport(e, scroll) : e \in live}
    OBVIOUS
<1>3. c \in ResolveHover(cands, x)
    BY <1>1, <1>2 DEF SuggestAt
<1>4. live \subseteq idx
    BY <1>1 DEF Containing, Near
<1>5. ASSUME NEW e \in idx
      PROVE  LET i == InViewport(e, scroll)
             IN  /\ i.node \in Elements /\ i.depth \in Depths /\ IntBox(i.rect)
                 /\ 0 <= i.rect.lo /\ i.rect.hi <= Viewport
    <2>1. PICK d \in Int : d = IF e.anchored THEN 0 ELSE -scroll
        OBVIOUS
    <2>2. PICK rect : rect = Cut(Shifted(e.rect, d), [lo |-> 0, hi |-> Viewport])
        OBVIOUS
    <2>3. PICK box : box = Shifted(e.box, d)
        OBVIOUS
    <2>4. InViewport(e, scroll) = [e EXCEPT !.rect = rect, !.box = box]
        BY <2>1, <2>2, <2>3, Zenon DEF InViewport
    <2>5. /\ DOMAIN e = Entries /\ e.node \in Elements /\ e.depth \in Depths /\ IntBox(e.rect)
        BY DEF IndexFits
    <2>6. /\ InViewport(e, scroll).node = e.node /\ InViewport(e, scroll).depth = e.depth
          /\ InViewport(e, scroll).rect = rect
        BY <2>4, <2>5 DEF Entries
    <2>7. IntBox(rect) /\ 0 <= rect.lo /\ rect.hi <= Viewport
        <3>1. PICK screen : screen = [lo |-> 0, hi |-> Viewport]
            OBVIOUS
        <3>2. IntBox(screen) /\ screen.lo = 0 /\ screen.hi = Viewport
            BY <3>1, ScanAssumption DEF IntBox
        <3>3. PICK shifted : shifted = Shifted(e.rect, d)
            OBVIOUS
        <3>4. IntBox(shifted)
            BY <2>5, <3>3, ShiftedFits
        <3> QED
            BY <2>2, <3>1, <3>2, <3>3, <3>4, CutFits
    <2> QED
        BY <2>5, <2>6, <2>7
<1>6. \A i \in cands : /\ i.node \in Elements /\ i.depth \in Depths /\ IntBox(i.rect)
                       /\ 0 <= i.rect.lo /\ i.rect.hi <= Viewport
    BY <1>2, <1>4, <1>5
<1> QED
    BY <1>3, <1>6, ResolvedIsCapturable

LEMMA SnapIsInt ==
    ASSUME NEW idx, IndexFits(idx), scroll \in Int, NEW x \in Int
    PROVE  SnapTo(idx, x, scroll) \in Int
<1>1. PICK edges : edges = EdgesNear(idx, x, scroll)
    OBVIOUS
<1>2. edges \subseteq Int
    <2>1. PICK rects : rects =
              {Shifted(c.rect, -scroll) : c \in Near(idx, FALSE, [lo |-> (x + scroll) - SnapDistance,
                                                                  hi |-> (x + scroll) + SnapDistance + 1])}
              \cup {c.rect : c \in Near(idx, TRUE, [lo |-> x - SnapDistance, hi |-> x + SnapDistance + 1])}
        OBVIOUS
    <2>2. edges \subseteq UNION {{r.lo, r.hi} : r \in rects}
        BY <1>1, <2>1, Zenon DEF EdgesNear
    <2>3. \A anchored, rect : Near(idx, anchored, rect) \subseteq idx
        BY DEF Near
    <2>4. PICK d \in Int : d = -scroll
        OBVIOUS
    <2>5. \A c \in idx : IntBox(c.rect) /\ IntBox(Shifted(c.rect, d))
        <3> SUFFICES ASSUME NEW c \in idx PROVE IntBox(c.rect) /\ IntBox(Shifted(c.rect, d))
            OBVIOUS
        <3>1. IntBox(c.rect)
            BY DEF IndexFits
        <3> QED
            BY <3>1, ShiftedFits
    <2>6. \A r \in rects : IntBox(r)
        BY <2>1, <2>3, <2>4, <2>5
    <2>7. \A r \in rects : r.lo \in Int /\ r.hi \in Int
        BY <2>6 DEF IntBox
    <2> QED
        BY <2>2, <2>7
<1>3. PICK far : far = [b \in edges |-> Max({b - x, x - b})]
    OBVIOUS
<1>4. ASSUME edges # {} PROVE \E b \in edges : \A d \in edges : far[b] <= far[d]
    <2>1. PICK Fars : Fars = {far[b] : b \in edges}
        OBVIOUS
    <2>2. \A b \in edges : far[b] \in Nat
        <3> SUFFICES ASSUME NEW b \in edges PROVE far[b] \in Nat
            OBVIOUS
        <3>1. PICK m \in Int : m = b - x
            BY <1>2
        <3>2. PICK n \in Int : n = x - b
            BY <1>2
        <3>3. Max({m, n}) = IF m >= n THEN m ELSE n
            BY OfTwo
        <3>4. n = -m
            BY <1>2, <3>1, <3>2
        <3> QED
            BY <1>3, <3>1, <3>2, <3>3, <3>4
    <2>3. Fars \in SUBSET Nat /\ Fars # {}
        BY <1>4, <2>1, <2>2
    <2>4. PICK m \in Fars : \A n \in Fars : m <= n
        BY <2>3, LeastOf
    <2> QED
        BY <2>1, <2>4
<1>5. \A b \in edges : far[b] = Max({b - x, x - b})
    BY <1>3
<1>6. ASSUME edges # {}
      PROVE  (CHOOSE b \in edges : \A d \in edges : Max({b - x, x - b}) <= Max({d - x, x - d})) \in edges
    <2>1. \E b \in edges : \A d \in edges : Max({b - x, x - b}) <= Max({d - x, x - d})
        BY <1>4, <1>5, <1>6, Zenon
    <2> QED
        BY <2>1, Zenon
<1>7. SnapTo(idx, x, scroll) =
          IF edges = {} THEN x
          ELSE CHOOSE b \in edges : \A d \in edges : Max({b - x, x - b}) <= Max({d - x, x - d})
    BY <1>1 DEF SnapTo
<1>8. CASE edges = {}
    BY <1>7, <1>8
<1>9. CASE edges # {}
    BY <1>2, <1>6, <1>7, <1>9
<1> QED
    BY <1>8, <1>9

(* Where an element is now has edges, in the viewport.                         *)
LEMMA LiveRectFits ==
    ASSUME DomFits(dom), scroll \in Int, NEW e \in Elements
    PROVE  IntBox(LiveRect(e)) /\ 0 <= LiveRect(e).lo /\ LiveRect(e).hi <= Viewport
<1>1. PICK part : part = LiveParts
    OBVIOUS
<1>2. \A a \in Elements : part[a].full => IntBox(part[a].clip)
    <2> SUFFICES ASSUME NEW a \in Elements PROVE IntBox(part[a].clip)
        OBVIOUS
    <2>1. PICK clip : clip = PaddingBox(dom, scroll, a)
        OBVIOUS
    <2>2. part[a].clip = clip
        BY <1>1, <2>1 DEF LiveParts
    <2>3. IntBox(clip)
        BY <2>1, BoundsFit DEF DomFits
    <2> QED
        BY <2>2, <2>3
<1>3. PICK box : box = Bounds(dom, scroll, e)
    OBVIOUS
<1>4. IntBox(box)
    BY <1>3, BoundsFit DEF DomFits
<1>5. PICK seen : seen = Clipped(e, box, part)
    OBVIOUS
<1>6. IntBox(seen)
    BY <1>2, <1>4, <1>5, ClippedFits
<1>7. PICK screen : screen = [lo |-> 0, hi |-> Viewport]
    OBVIOUS
<1>8. IntBox(screen) /\ screen.lo = 0 /\ screen.hi = Viewport
    BY <1>7, ScanAssumption DEF IntBox
<1>9. LiveRect(e) = Cut(seen, screen)
    BY <1>1, <1>3, <1>5, <1>7 DEF LiveRect
<1> QED
    BY <1>6, <1>8, <1>9, CutFits

LEMMA CaptureRectFits ==
    ASSUME DomFits(dom), scroll \in Int, NEW x \in Int, NEW c, Capturable(c, x)
    PROVE  LET r == CaptureRect(c, x)
           IN  /\ IntBox(r) /\ 0 <= r.lo /\ r.hi <= Viewport
               /\ PassesGuards(r, c.kind) /\ Within(r, x)
<1>1. PICK e \in Elements : e = c.node
    BY DEF Capturable
<1>2. IntBox(LiveRect(e)) /\ 0 <= LiveRect(e).lo /\ LiveRect(e).hi <= Viewport
    BY LiveRectFits
<1>3. CASE PassesGuards(LiveRect(e), c.kind) /\ Within(LiveRect(e), x)
    BY <1>1, <1>2, <1>3 DEF CaptureRect
<1>4. CASE ~(PassesGuards(LiveRect(e), c.kind) /\ Within(LiveRect(e), x))
    <2>1. CaptureRect(c, x) = c.rect
        BY <1>1, <1>4 DEF CaptureRect
    <2> QED
        BY <2>1 DEF Capturable
<1> QED
    BY <1>3, <1>4
-----------------------------------------------------------------------------
(* What a selection is in device pixels.                                       *)

(* CSS pixels in device pixels, by the product alone. *)
LEMMA PxOf ==
    ASSUME NEW c \in Int
    PROVE  \E z \in Int : z = c * Scale /\ Px(c) \in Int /\ 4 * Px(c) <= z + 2 /\ z <= 4 * Px(c) + 1
<1>1. PICK s \in Nat : s = Scale
    BY GeometryAssumption
<1>2. PICK z \in Int : z = c * s
    OBVIOUS
<1>3. 2 * c * s = 2 * z
    BY <1>2
<1>4. Px(c) = (2 * z + 4) \div 8
    BY <1>1, <1>3 DEF Px
<1> QED
    BY <1>1, <1>2, <1>4

LEMMA PxGrows ==
    ASSUME NEW a \in Int, NEW b \in Int, NEW least \in Nat, a + least <= b
    PROVE  Px(a) \in Int /\ Px(b) \in Int /\ Px(a) <= Px(b) /\ (least * Scale >= 4 => Px(a) < Px(b))
<1>1. PICK s \in Nat : s = Scale
    BY GeometryAssumption
<1>2. PICK z \in Int : z = a * s /\ Px(a) \in Int /\ 4 * Px(a) <= z + 2 /\ z <= 4 * Px(a) + 1
    BY <1>1, PxOf
<1>3. PICK w \in Int : w = b * s /\ Px(b) \in Int /\ 4 * Px(b) <= w + 2 /\ w <= 4 * Px(b) + 1
    BY <1>1, PxOf
<1>4. PICK l \in Int : l = least * s /\ l >= 0
    BY <1>1
<1>5. w >= z + l
    <2>1. PICK d \in Nat : d = b - (a + least)
        OBVIOUS
    <2>2. PICK k \in Int : k = d * s /\ k >= 0
        BY <1>1
    <2>3. b = a + least + d
        BY <2>1
    <2>4. (a + least + d) * s = z + l + k
        BY <1>1, <1>2, <1>4, <2>1, <2>2
    <2> QED
        BY <1>3, <2>2, <2>3, <2>4
<1>6. PICK p \in Int : p = Px(a)
    BY <1>2
<1>7. PICK q \in Int : q = Px(b)
    BY <1>3
<1>8. p <= q /\ (l >= 4 => p < q)
    BY <1>2, <1>3, <1>4, <1>5, <1>6, <1>7
<1> QED
    BY <1>1, <1>4, <1>6, <1>7, <1>8

LEMMA ClampedIs ==
    ASSUME NEW v \in Int, NEW high \in Nat
    PROVE  /\ Clamped(v, high) \in 0..high
           /\ 0 <= v /\ v <= high => Clamped(v, high) = v
<1>1. Max({0, v}) = IF 0 >= v THEN 0 ELSE v
    BY OfTwo
<1>2. PICK m \in Nat : m = Max({0, v})
    BY <1>1
<1>3. Min({high, m}) = IF high <= m THEN high ELSE m
    BY OfTwo
<1> QED
    BY <1>1, <1>2, <1>3 DEF Clamped

LEMMA SideHasPixels ==
    ASSUME NEW a \in Int, NEW b \in Int, 0 <= a, b <= Viewport,
           NEW least \in Nat, a + least <= b, least * Scale >= 4
    PROVE  PhysicalSide([at |-> a, len |-> b - a], Px(Viewport)).len > 0
<1>1. Viewport \in Int /\ 0 \in Int /\ 0 \in Nat
    BY ScanAssumption
<1>2. PICK p \in Int, q \in Int : p = Px(a) /\ q = Px(b) /\ p < q
    BY PxGrows
<1>3. PICK high \in Int : high = Px(Viewport) /\ q <= high
    BY <1>1, <1>2, PxGrows
<1>4. 0 <= p
    <2>1. PICK z \in Int : z = a * Scale /\ z <= 4 * p + 1
        BY <1>2, PxOf
    <2>2. z >= 0
        BY <2>1, GeometryAssumption
    <2> QED
        BY <2>1, <2>2
<1>5. high \in Nat /\ p <= high /\ 0 <= q
    BY <1>2, <1>3, <1>4
<1>6. Clamped(p, high) = p /\ Clamped(q, high) = q
    BY <1>2, <1>3, <1>4, <1>5, ClampedIs
<1>7. PICK side : side = [at |-> a, len |-> b - a]
    OBVIOUS
<1>8. side.at = a /\ side.at + side.len = b
    BY <1>7
<1>9. PhysicalSide(side, high).len = q - p
    BY <1>2, <1>6, <1>8 DEF PhysicalSide
<1> QED
    BY <1>2, <1>3, <1>7, <1>9

(* A drag is in the viewport, and as long as it must be.                       *)
LEMMA DragFits ==
    ASSUME NEW a \in Int, NEW b \in Int, NEW d, d = DragSide(a, b, Viewport), IsDrag(d, d)
    PROVE  d.at \in Int /\ d.len \in Int /\ 0 <= d.at /\ d.at + d.len <= Viewport /\ d.len >= MinRegion
<1>1. PICK v \in Nat : v = Viewport
    BY ScanAssumption
<1>2. PICK p \in 0..v : p = Clamped(a, v)
    BY ClampedIs
<1>3. PICK q \in 0..v : q = Clamped(b, v)
    BY ClampedIs
<1>4. Min({p, q}) = (IF p <= q THEN p ELSE q) /\ Max({p, q}) = IF p >= q THEN p ELSE q
    BY OfTwo
<1>5. d.at = Min({p, q}) /\ d.len = Max({p, q}) - Min({p, q})
    BY <1>1, <1>2, <1>3 DEF DragSide
<1>6. d.len >= MinRegion
    BY DEF IsDrag
<1> QED
    BY <1>1, <1>4, <1>5, <1>6
-----------------------------------------------------------------------------
(* The invariant: the walk, the index it serves and the press are in step.     *)

PressFields == {"down", "start", "anchor", "armed"}

\* What a press armed could be captured when it was armed, from where it began.
PressFits ==
    /\ DOMAIN press = PressFields /\ press.start \in Int /\ press.anchor \in Int
    /\ \A c \in press.armed : Capturable(c, press.start)

WalkFits == Scanning => ScanFits(scan) /\ StackFits(scan.stack) /\ scan.stack # <<>>

OverlayInv ==
    /\ DomFits(dom) /\ scroll \in Int
    /\ WalkFits
    /\ IndexFits(served)
    /\ press.down => PressFits
    /\ SelectionIsCapturable

LEMMA NewScanFits ==
    ASSUME NEW styles, NEW live, NEW v
    PROVE  LET s == NewScan(styles, live, v)
           IN ScanFits(s) /\ StackFits(s.stack) /\ s.stack # <<>>
<1>1. PICK frame : frame = [node |-> Root, behind |-> Canvas, anchored |-> FALSE]
    OBVIOUS
<1>2. PICK stack : stack = <<frame>>
    OBVIOUS
<1>3. stack \in Seq({frame}) /\ stack # <<>> /\ frame.node \in Elements
    BY <1>1, <1>2, TreeAssumption
<1>4. StackFits(stack)
    BY <1>3 DEF StackFits
<1>5. PICK part : part = [e \in Elements |-> NoPart]
    OBVIOUS
<1>6. PICK pending : pending = [e \in Elements |-> NoPending]
    OBVIOUS
<1>7. PICK s : s = [status |-> "running", index |-> {}, cache |-> styles, live |-> live,
                    stack |-> stack, part |-> part, pending |-> pending, version |-> v]
    OBVIOUS
<1>8. s = NewScan(styles, live, v)
    BY <1>1, <1>2, <1>5, <1>6, <1>7, Zenon DEF NewScan
<1>9. DOMAIN s = ScanFields /\ s.part = part /\ s.pending = pending /\ s.index = {} /\ s.stack = stack
    BY <1>7 DEF ScanFields
<1>10. \A e \in Elements : PartFits(part[e]) /\ pending[e].kids \in Seq(Elements)
    BY <1>5, <1>6, EmptySeq DEF PartFits, NoPart, NoPending
<1>11. ScanFits(s)
    BY <1>5, <1>6, <1>9, <1>10 DEF ScanFits, IndexFits
<1> QED
    BY <1>3, <1>4, <1>8, <1>9, <1>11

LEMMA NoScanStops == ASSUME scan' = NoScan PROVE WalkFits'
BY DEF WalkFits, Scanning, NoScan

LEMMA OverlayStarts == OverlayInit => OverlayInv
<1> SUFFICES ASSUME OverlayInit PROVE OverlayInv
    OBVIOUS
<1>1. DomFits(dom)
    BY OverlayAssumption DEF OverlayInit, DomFits
<1>2. scroll \in Int /\ IndexFits(served)
    BY OverlayAssumption DEF OverlayInit, IndexFits
<1>3. WalkFits
    BY NewScanFits DEF OverlayInit, WalkFits
<1>4. ~press.down /\ SelectionIsCapturable
    BY DEF OverlayInit, NoPress, SelectionIsCapturable
<1> QED
    BY <1>1, <1>2, <1>3, <1>4 DEF OverlayInv

(* What a step leaves alone stays as it was.                                   *)
LEMMA WalkKept == ASSUME WalkFits, UNCHANGED scan PROVE WalkFits'
BY DEF WalkFits, Scanning

LEMMA PressKept == ASSUME press.down => PressFits, UNCHANGED press PROVE (press.down => PressFits)'
BY DEF PressFits

LEMMA SelectionKept == ASSUME SelectionIsCapturable, UNCHANGED result PROVE SelectionIsCapturable'
BY DEF SelectionIsCapturable

-----------------------------------------------------------------------------
(* The steps of the scan and of the page.                                      *)

LEMMA ScanFrameFits == ASSUME OverlayInv, ScanFrame PROVE OverlayInv'
<1>1. PICK s : /\ s = Step(scan, dom, scroll)
               /\ IF s.status = "done" THEN Completes(s, "done") /\ pointer' = HoverSoon
                  ELSE /\ scan' = s /\ cache' = s.cache
                       /\ served' = IF s.live THEN s.index ELSE served
                       /\ records' = IF s.live THEN s.part ELSE records
                       /\ UNCHANGED <<rescan, scanned, version, pointer>>
    BY DEF ScanFrame
<1>2. scan.status = "running" /\ ScanFits(scan) /\ StackFits(scan.stack) /\ scan.stack # <<>>
    BY DEF ScanFrame, Scanning, OverlayInv, WalkFits
<1>3. ScanFits(s) /\ StackFits(s.stack) /\ (s.status # "done" => s.stack # <<>>)
    BY <1>1, <1>2, StepFits DEF OverlayInv
<1>4. UNCHANGED <<dom, scroll, press, result>>
    BY DEF ScanFrame, page
<1>5. WalkFits' /\ IndexFits(served)'
    <2>1. IndexFits(s.index)
        BY <1>3 DEF ScanFits
    <2>2. CASE s.status = "done"
        <3>1. scan' = NoScan /\ served' = s.index
            BY <1>1, <2>2 DEF Completes
        <3> QED
            BY <2>1, <3>1, NoScanStops
    <2>3. CASE s.status # "done"
        <3>1. scan' = s /\ (served' = s.index \/ served' = served)
            BY <1>1, <2>3
        <3> QED
            BY <1>3, <2>1, <2>3, <3>1 DEF WalkFits, OverlayInv
    <2> QED
        BY <2>2, <2>3
<1> QED
    BY <1>4, <1>5, PressKept, SelectionKept DEF OverlayInv

LEMMA ScanGivesUpFits == ASSUME OverlayInv, ScanGivesUp PROVE OverlayInv'
<1>1. scan' = NoScan /\ served' = scan.index /\ UNCHANGED <<dom, scroll, press, result>>
    BY DEF ScanGivesUp, Completes
<1>2. IndexFits(scan.index)
    BY DEF ScanGivesUp, OverlayInv, WalkFits, ScanFits
<1> QED
    BY <1>1, <1>2, NoScanStops, PressKept, SelectionKept DEF OverlayInv

LEMMA RescanStartsFits == ASSUME OverlayInv, RescanStarts PROVE OverlayInv'
<1>1. PICK fresh : scan' = NewScan(fresh, served = {}, changes)
    BY DEF RescanStarts
<1>2. UNCHANGED <<dom, scroll, served, press, result>>
    BY DEF RescanStarts, page, input
<1>3. WalkFits'
    BY <1>1, NewScanFits DEF WalkFits
<1> QED
    BY <1>2, <1>3, PressKept, SelectionKept DEF OverlayInv

\* A change of one element leaves the page measured.
LEMMA ChangedDomFits ==
    ASSUME DomFits(dom), NEW c \in Changes, dom' = [dom EXCEPT ![c[1]] = c[2]]
    PROVE  DomFits(dom)'
<1>1. c[1] \in Elements /\ Measured(c[2])
    BY OverlayAssumption
<1>2. \A e \in Elements : dom'[e] = dom[e] \/ dom'[e] = c[2]
    BY DEF DomFits
<1>3. DOMAIN dom' = Elements
    BY DEF DomFits
<1>4. \A e \in Elements : Measured(dom'[e])
    BY <1>1, <1>2 DEF DomFits
<1> QED
    BY <1>3, <1>4 DEF DomFits

LEMMA PageChangesFit ==
    ASSUME OverlayInv, NEW c \in Changes, Mutates(c) \/ PageRestyles(c)
    PROVE  OverlayInv'
<1>1. dom' = [dom EXCEPT ![c[1]] = c[2]] /\ UNCHANGED <<scroll, scan, served, press, result>>
    BY DEF Mutates, PageRestyles, input
<1>2. DomFits(dom)'
    BY <1>1, ChangedDomFits DEF OverlayInv
<1> QED
    BY <1>1, <1>2, WalkKept, PressKept, SelectionKept DEF OverlayInv

LEMMA PageScrollsFits ==
    ASSUME OverlayInv, NEW y \in Scrolls, PageScrolls(y)
    PROVE  OverlayInv'
<1>1. scroll' = y /\ UNCHANGED <<dom, scan, served, press, result>>
    BY DEF PageScrolls
<1>2. y \in Int
    BY OverlayAssumption
<1> QED
    BY <1>1, <1>2, WalkKept, PressKept, SelectionKept DEF OverlayInv

LEMMA HoverFrameFits == ASSUME OverlayInv, HoverFrame PROVE OverlayInv'
<1>1. UNCHANGED <<dom, scroll, scan, served, press, result>>
    BY DEF HoverFrame, page, index
<1> QED
    BY <1>1, WalkKept, PressKept, SelectionKept DEF OverlayInv
-----------------------------------------------------------------------------
(* The steps of the pointer and of the keys.                                   *)

LEMMA PointerDownFits ==
    ASSUME OverlayInv, NEW x \in Points, NEW alt \in BOOLEAN, PointerDown(x, alt)
    PROVE  OverlayInv'
<1>1. x \in Int
    BY OverlayAssumption
<1>2. PICK armed : /\ armed = SuggestAt(served, x)
                   /\ press' = [down |-> TRUE, start |-> x, anchor |-> Snapped(served, x, alt),
                                armed |-> armed]
    BY DEF PointerDown
<1>3. UNCHANGED <<dom, scroll, scan, served, result>>
    BY DEF PointerDown, page, index
<1>4. \A c \in armed : Capturable(c, x)
    BY <1>1, <1>2, SuggestedIsCapturable DEF OverlayInv
<1>5. PICK anchor \in Int : anchor = Snapped(served, x, alt)
    BY <1>1, SnapIsInt DEF OverlayInv, Snapped
<1>6. /\ DOMAIN press' = PressFields /\ press'.start = x /\ press'.anchor = anchor
      /\ press'.armed = armed
    BY <1>2, <1>5 DEF PressFields
<1>7. PressFits'
    BY <1>1, <1>4, <1>5, <1>6 DEF PressFits
<1> QED
    BY <1>3, <1>7, WalkKept, SelectionKept DEF OverlayInv

LEMMA PointerMoveFits ==
    ASSUME OverlayInv, NEW x \in Points, PointerMove(x)
    PROVE  OverlayInv'
<1>1. UNCHANGED <<dom, scroll, scan, served, result>>
    BY DEF PointerMove, page, index
<1>2. (press.down => PressFits)'
    <2>1. CASE UNCHANGED press
        BY <2>1, PressKept DEF OverlayInv
    <2>2. CASE press.down /\ press' = [press EXCEPT !.armed = {}]
        <3>1. PressFits
            BY <2>2 DEF OverlayInv
        <3>2. /\ DOMAIN press' = PressFields /\ press'.start = press.start
              /\ press'.anchor = press.anchor /\ press'.armed = {}
            BY <2>2, <3>1 DEF PressFits, PressFields
        <3> QED
            BY <3>1, <3>2 DEF PressFits
    <2> QED
        BY <2>1, <2>2 DEF PointerMove
<1> QED
    BY <1>1, <1>2, WalkKept, SelectionKept DEF OverlayInv

\* With the overlay go the scan and the press.
LEMMA FinishesFits ==
    ASSUME OverlayInv, NEW r, Finishes(r), SelectionIsCapturable'
    PROVE  OverlayInv'
<1>1. scan' = NoScan /\ press' = NoPress /\ UNCHANGED <<dom, scroll, served>>
    BY DEF Finishes, page
<1>2. ~press'.down
    BY <1>1 DEF NoPress
<1> QED
    BY <1>1, <1>2, NoScanStops DEF OverlayInv

LEMMA ClickFits ==
    ASSUME OverlayInv, press.down, press.armed # {}, NEW c, c = CHOOSE d \in press.armed : TRUE,
           Finishes([kind |-> "click", of |-> c.kind, at |-> press.start,
                     rect |-> CaptureRect(c, press.start)])
    PROVE  SelectionIsCapturable'
<1>1. PICK x \in Int : x = press.start
    BY DEF OverlayInv, PressFits
<1>2. Capturable(c, x)
    BY <1>1 DEF OverlayInv, PressFits
<1>3. PICK r : r = CaptureRect(c, x)
    OBVIOUS
<1>4. /\ IntBox(r) /\ 0 <= r.lo /\ r.hi <= Viewport /\ PassesGuards(r, c.kind) /\ Within(r, x)
    BY <1>2, <1>3, CaptureRectFits DEF OverlayInv
<1>5. PICK kind : kind = c.kind
    OBVIOUS
<1>6. PICK a \in Int, b \in Int : a = r.lo /\ b = r.hi
    BY <1>4 DEF IntBox
<1>7. PICK least \in Nat : least = Floor(kind) /\ least * Scale >= 4
    BY FloorsAre
<1>8. a + least <= b /\ 0 <= a /\ b <= Viewport /\ Size(r) = b - a
    BY <1>4, <1>5, <1>6, <1>7 DEF PassesGuards, Size
<1>9. PhysicalSide([at |-> a, len |-> b - a], Px(Viewport)).len > 0
    BY <1>7, <1>8, SideHasPixels
<1>10. result' = [kind |-> "click", of |-> kind, at |-> x, rect |-> r]
    BY <1>1, <1>3, <1>5 DEF Finishes
<1>11. result'.kind = "click" /\ result'.of = kind /\ result'.at = x /\ result'.rect = r
    BY <1>10
<1> QED
    BY <1>4, <1>5, <1>6, <1>8, <1>9, <1>11 DEF SelectionIsCapturable

LEMMA DragEndFits ==
    ASSUME OverlayInv, press.down, NEW x \in Points, NEW alt \in BOOLEAN,
           NEW drag, drag = DragSide(press.anchor, Snapped(served, x, alt), Viewport),
           IsDrag(drag, drag),
           Finishes([kind |-> "drag", rect |-> [lo |-> drag.at, hi |-> drag.at + drag.len]])
    PROVE  SelectionIsCapturable'
<1>1. PICK from \in Int : from = press.anchor
    BY DEF OverlayInv, PressFits
<1>2. x \in Int
    BY OverlayAssumption
<1>3. PICK to \in Int : to = Snapped(served, x, alt)
    BY <1>2, SnapIsInt DEF OverlayInv, Snapped
<1>4. /\ drag.at \in Int /\ drag.len \in Int /\ 0 <= drag.at
      /\ drag.at + drag.len <= Viewport /\ drag.len >= MinRegion
    BY <1>1, <1>3, DragFits
<1>5. PICK a \in Int, l \in Int : a = drag.at /\ l = drag.len
    BY <1>4
<1>6. PICK b \in Int : b = a + l
    OBVIOUS
<1>7. PICK least \in Nat : least = MinRegion /\ least * Scale >= 4
    BY GeometryAssumption, OverlayAssumption
<1>8. 0 <= a /\ b <= Viewport /\ a + least <= b /\ b - a >= MinRegion
    BY <1>4, <1>5, <1>6, <1>7
<1>9. PhysicalSide([at |-> a, len |-> b - a], Px(Viewport)).len > 0
    BY <1>7, <1>8, SideHasPixels
<1>10. PICK r : r = [lo |-> a, hi |-> b]
    OBVIOUS
<1>11. r.lo = a /\ r.hi = b /\ Size(r) = b - a
    BY <1>10 DEF Size
<1>12. result' = [kind |-> "drag", rect |-> r]
    BY <1>5, <1>6, <1>10 DEF Finishes
<1>13. result'.kind = "drag" /\ result'.rect = r
    BY <1>12
<1> QED
    BY <1>8, <1>9, <1>11, <1>13 DEF SelectionIsCapturable

LEMMA PointerUpFits ==
    ASSUME OverlayInv, NEW x \in Points, NEW alt \in BOOLEAN, PointerUp(x, alt)
    PROVE  OverlayInv'
<1>1. PICK drag : drag = DragSide(press.anchor, Snapped(served, x, alt), Viewport)
    OBVIOUS
<1>2. press.down
    BY DEF PointerUp
<1>3. CASE press.armed # {} /\ InSlop(press.start, x)
    <2>1. PICK c : c = CHOOSE d \in press.armed : TRUE
        OBVIOUS
    <2>2. Finishes([kind |-> "click", of |-> c.kind, at |-> press.start,
                    rect |-> CaptureRect(c, press.start)])
        BY <1>3, <2>1 DEF PointerUp
    <2>3. SelectionIsCapturable'
        BY <1>2, <1>3, <2>1, <2>2, ClickFits
    <2> QED
        BY <2>2, <2>3, FinishesFits
<1>4. CASE (press.armed = {} \/ ~InSlop(press.start, x)) /\ IsDrag(drag, drag)
    <2>1. Finishes([kind |-> "drag", rect |-> [lo |-> drag.at, hi |-> drag.at + drag.len]])
        BY <1>1, <1>4 DEF PointerUp
    <2>2. SelectionIsCapturable'
        BY <1>1, <1>2, <1>4, <2>1, DragEndFits
    <2> QED
        BY <2>1, <2>2, FinishesFits
<1>5. CASE (press.armed = {} \/ ~InSlop(press.start, x)) /\ ~IsDrag(drag, drag)
    <2>1. press' = NoPress /\ UNCHANGED <<dom, scroll, scan, served, result>>
        BY <1>1, <1>5 DEF PointerUp, page, index
    <2>2. ~press'.down
        BY <2>1 DEF NoPress
    <2> QED
        BY <2>1, <2>2, WalkKept, SelectionKept DEF OverlayInv
<1> QED
    BY <1>3, <1>4, <1>5

LEMMA PointerCancelFits == ASSUME OverlayInv, PointerCancel PROVE OverlayInv'
<1>1. press' = NoPress /\ UNCHANGED <<dom, scroll, scan, served, result>>
    BY DEF PointerCancel, page, index
<1>2. ~press'.down
    BY <1>1 DEF NoPress
<1> QED
    BY <1>1, <1>2, WalkKept, SelectionKept DEF OverlayInv

LEMMA PointerLeaveFits == ASSUME OverlayInv, PointerLeave PROVE OverlayInv'
<1>1. UNCHANGED <<dom, scroll, scan, served, press, result>>
    BY DEF PointerLeave, page, index
<1> QED
    BY <1>1, WalkKept, PressKept, SelectionKept DEF OverlayInv

LEMMA EscapeFits == ASSUME OverlayInv, Escape PROVE OverlayInv'
<1>1. Finishes([kind |-> "cancelled"])
    BY DEF Escape
<1>2. SelectionIsCapturable'
    BY <1>1 DEF Finishes, SelectionIsCapturable
<1> QED
    BY <1>1, <1>2, FinishesFits

LEMMA OverlayKept == ASSUME OverlayInv, [OverlayNext]_overlayVars PROVE OverlayInv'
<1>1. CASE UNCHANGED overlayVars
    <2>1. UNCHANGED <<dom, scroll, scan, served, press, result>>
        BY <1>1 DEF overlayVars
    <2> QED
        BY <2>1, WalkKept, PressKept, SelectionKept DEF OverlayInv
<1>2. CASE OverlayNext
    <2>1. CASE ScanFrame
        BY <2>1, ScanFrameFits
    <2>2. CASE ScanGivesUp
        BY <2>2, ScanGivesUpFits
    <2>3. CASE RescanStarts
        BY <2>3, RescanStartsFits
    <2>4. CASE HoverFrame
        BY <2>4, HoverFrameFits
    <2>5. ASSUME NEW c \in Changes, Mutates(c) \/ PageRestyles(c) PROVE OverlayInv'
        BY <2>5, PageChangesFit
    <2>6. ASSUME NEW y \in Scrolls, PageScrolls(y) PROVE OverlayInv'
        BY <2>6, PageScrollsFits
    <2>7. ASSUME NEW x \in Points, PointerMove(x) PROVE OverlayInv'
        BY <2>7, PointerMoveFits
    <2>8. ASSUME NEW x \in Points, NEW alt \in BOOLEAN, PointerDown(x, alt) PROVE OverlayInv'
        BY <2>8, PointerDownFits
    <2>9. ASSUME NEW x \in Points, NEW alt \in BOOLEAN, PointerUp(x, alt) PROVE OverlayInv'
        BY <2>9, PointerUpFits
    <2>10. CASE PointerCancel
        BY <2>10, PointerCancelFits
    <2>11. CASE PointerLeave
        BY <2>11, PointerLeaveFits
    <2>12. CASE Escape
        BY <2>12, EscapeFits
    <2> QED
        BY <1>2, <2>1, <2>2, <2>3, <2>4, <2>5, <2>6, <2>7, <2>8, <2>9, <2>10, <2>11, <2>12
           DEF OverlayNext
<1> QED
    BY <1>1, <1>2

(* What the overlay resolves with can be cut from the snapshot: the suggested  *)
(* element where it is now or where it was shown, or the dragged rectangle, in *)
(* the viewport and not empty in device pixels, whatever the page does between *)
(* the scan, the press and the release.                                        *)
THEOREM SelectionsAreCapturable == OverlaySpec => []SelectionIsCapturable
<1>1. OverlayInv => SelectionIsCapturable
    BY DEF OverlayInv
<1> QED
    BY OverlayStarts, OverlayKept, <1>1, PTL DEF OverlaySpec
=============================================================================
