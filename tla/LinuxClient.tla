---------------------------- MODULE LinuxClient ----------------------------
(* The Linux client: processes that share a bus name, a config file, two     *)
(* token stores and the autostart entry.  The owner of the name is resident, *)
(* with a command queue and a gate for one capture at a time; a --capture    *)
(* command hands its request to it or captures by itself; --configure and    *)
(* --autostart change what the next session loads.  The desktop (KWin, the   *)
(* portals, the keyring) and the server answer as they like.                 *)
EXTENDS Naturals, FiniteSets, Sequences

CONSTANTS
    Launches,       \* runs of the binary, numbered from 1 as they start
    SettingsRuns,   \* bound: those that may be --configure or --autostart
    Requests,       \* captures asked for, numbered alike
    Mode,           \* what each one is of
    None,
    Unreadable      \* a config file that was written half

Stores == {"keyring", "file"}
Configs == [store : Stores, autostart : BOOLEAN \cup {None}]

ASSUME ClientAssumption ==
    /\ SettingsRuns \subseteq Launches
    /\ Launches \subseteq Nat \ {0} /\ Requests \subseteq Nat \ {0}
    /\ None \notin Launches /\ Unreadable \notin Configs \cup {None}
    /\ Mode \in [Requests -> {"full", "region", "window"}]

VARIABLES
    pc,         \* where each process is
    owner,      \* who owns the bus name
    queue,      \* commands sent to a resident and not yet received
    session,    \* which residents loaded a token
    busy,       \* the resident's gate
    done,       \* results its tasks sent
    last,       \* last_page: the request whose page "Open last capture" opens
    ask,        \* each request: who has it and how far it is
    config,     \* the config file: the store it names and the autostart choice
    tokens,     \* which stores hold a token
    entry,      \* there is an autostart entry
    draft,      \* a settings command: the config it read, its choices
    torn        \* history: the settings that commands left half done, by dying or
                \* by running beside one another, since they were last set

vars == <<pc, owner, queue, session, busy, done, last, ask,
          config, tokens, entry, draft, torn>>
resident == <<owner, queue, busy, done, last>>
settings == <<config, tokens, entry, draft, torn>>

NoDraft == [store |-> None, autostart |-> None, prev |-> None, undisturbed |-> FALSE]

Init ==
    /\ pc = [p \in Launches |-> "off"]
    /\ owner = None
    /\ queue = [p \in Launches |-> <<>>] /\ done = [p \in Launches |-> <<>>]
    /\ session = {}
    /\ busy = [p \in Launches |-> FALSE]
    /\ last = [p \in Launches |-> None]
    /\ ask = [q \in Requests |-> [at |-> "new", by |-> None]]
    /\ config = None /\ tokens = {} /\ entry = FALSE
    /\ draft = [p \in Launches |-> NoDraft]
    /\ torn = {}

At(q, where) == ask[q].at = where
Over(how) == [at |-> how, by |-> None]
Move(p, from, to) == pc[p] = from /\ pc' = [pc EXCEPT ![p] = to]
Starts(p, to) == (\A o \in Launches : o < p => pc[o] # "off") /\ Move(p, "off", to)
New(q) == At(q, "new") /\ \A r \in Requests : r < q => ~At(r, "new")

\* A run of the binary: resident, --capture, --upload-file.
Launch(p) ==
    /\ \E role \in {"serving", "forwarding", "filing"} : Starts(p, role)
    /\ UNCHANGED <<resident, session, ask, settings>>

\* config::load, which fails on a file that makes no config.
Loads == config # Unreadable

\* secrets::load; the keyring may be locked or away.
TokenIn(store) == store \in tokens

\* load_session.
CanLoad == Loads /\ config # None /\ TokenIn(config.store)

-----------------------------------------------------------------------------
(* The bus name, and the control interface behind it.                        *)

\* Seeded bug: the name is asked for with a place in the queue, taken for the name.
MayServeQueued(p) == TRUE

\* DoNotQueue: refused while another owns it.
MayServe(p) == owner = None

\* ipc::serve, unless the bus cannot be reached.
Serve(p) ==
    /\ \/ MayServe(p) /\ Move(p, "serving", "loading") /\ owner' = p
       \/ Move(p, "serving", "gone") /\ UNCHANGED owner
    /\ UNCHANGED <<queue, busy, done, last, session, ask, settings>>

\* The session is loaded once, for the life of the process; then the tray icon
\* and the shortcuts, with or without success.
LoadSession(p) ==
    /\ Move(p, "loading", "loop")
    /\ session' \in {session} \cup (IF CanLoad THEN {session \cup {p}} ELSE {})
    /\ UNCHANGED <<resident, ask, settings>>

InLoop == {"loop", "opening"}
Listening(p) == pc[p] \in {"loading", "leaving"} \cup InLoop    \* its receiver is alive

Send(p, q) ==
    /\ queue' = [queue EXCEPT ![p] = Append(@, [do |-> "capture", req |-> q])]
    /\ ask' = [ask EXCEPT ![q] = [at |-> "queued", by |-> p]]

\* ipc::forward: to the owner, or by itself when there is none; an owner that
\* is shutting down answers with an error, which ends the command.
Forward(p, q) ==
    /\ New(q)
    /\ \/ owner = None /\ Move(p, "forwarding", "alone")
          /\ ask' = [ask EXCEPT ![q] = [at |-> "asked", by |-> p]] /\ UNCHANGED queue
       \/ owner # None /\ Listening(owner) /\ Move(p, "forwarding", "gone")
          /\ Send(owner, q)
       \/ owner # None /\ ~Listening(owner) /\ Move(p, "forwarding", "gone")
          /\ UNCHANGED <<queue, ask>>
    /\ UNCHANGED <<owner, busy, done, last, session, settings>>

\* A shortcut, as long as the portal's session lives, or an item of a tray menu
\* that may have been opened before the gate closed.
Shortcut(p, q) ==
    /\ pc[p] \in InLoop /\ New(q) /\ Send(p, q)
    /\ UNCHANGED <<pc, owner, busy, done, last, session, settings>>

\* The menu's other items; Quit is on the bus as well.
Tray(p) ==
    /\ pc[p] \in InLoop /\ queue[p] = <<>>
    /\ \E c \in {"openLast", "quit"} :
         /\ c = "openLast" => last[p] # None
         /\ queue' = [queue EXCEPT ![p] = Append(@, [do |-> c])]
    /\ UNCHANGED <<pc, owner, busy, done, last, session, ask, settings>>

-----------------------------------------------------------------------------
(* The resident's loop.                                                      *)

\* Seeded bug: a capture asked for meanwhile waits for the gate.
TakesWhenIdle(p) == queue[p] # <<>> /\ (Head(queue[p]).do = "capture" => ~busy[p])

Takes(p) == queue[p] # <<>>

\* Command::Capture: told no while one runs or nothing is configured.
Begin(p, q) ==
    IF busy[p] \/ p \notin session
    THEN ask' = [ask EXCEPT ![q] = Over("told")] /\ UNCHANGED busy
    ELSE /\ busy' = [busy EXCEPT ![p] = TRUE]
         /\ ask' = [ask EXCEPT ![q].at = "capturing"]

\* Open last capture waits for the OpenURI portal inside the loop.
Receive(p) ==
    /\ pc[p] = "loop" /\ Takes(p)
    /\ queue' = [queue EXCEPT ![p] = Tail(@)]
    /\ LET c == Head(queue[p])
       IN \/ c.do = "capture" /\ Begin(p, c.req) /\ UNCHANGED pc
          \/ c.do = "quit" /\ Move(p, "loop", "leaving") /\ UNCHANGED <<busy, ask>>
          \/ c.do = "openLast" /\ Move(p, "loop", "opening") /\ UNCHANGED <<busy, ask>>
    /\ UNCHANGED <<owner, done, last, session, settings>>

\* The portal answered, or refused: one of two notifications.
LastOpened(p) ==
    /\ Move(p, "opening", "loop")
    /\ UNCHANGED <<resident, session, ask, settings>>

\* done_rx: the gate opens.
ReceiveDone(p) ==
    /\ pc[p] = "loop" /\ done[p] # <<>>
    /\ done' = [done EXCEPT ![p] = Tail(@)]
    /\ busy' = [busy EXCEPT ![p] = FALSE]
    /\ LET d == Head(done[p])
       IN /\ ask' = [ask EXCEPT ![d.req] = Over(IF d.page THEN "shown" ELSE "told")]
          /\ last' = [last EXCEPT ![p] = IF d.page THEN d.req ELSE @]
    /\ UNCHANGED <<pc, owner, queue, session, settings>>

\* ctrl_c and sigterm.
Signalled(p) ==
    /\ Move(p, "loop", "leaving")
    /\ UNCHANGED <<resident, session, ask, settings>>

\* resident() returns: nobody receives any more.
Close(p) ==
    /\ Move(p, "leaving", "closing")
    /\ UNCHANGED <<resident, session, ask, settings>>

Running == {"capturing", "portal", "uploading", "shown to"}

\* The process ends: what ran and what was queued is gone with the name, which
\* a running task's connection held until now.
Ended(p) ==
    /\ pc' = [pc EXCEPT ![p] = "gone"]
    /\ owner' = IF owner = p THEN None ELSE owner
    /\ ask' = [q \in Requests |-> IF ask[q].by = p THEN Over("lost") ELSE ask[q]]
    /\ queue' = [queue EXCEPT ![p] = <<>>] /\ done' = [done EXCEPT ![p] = <<>>]
    /\ busy' = [busy EXCEPT ![p] = FALSE] /\ last' = [last EXCEPT ![p] = None]
    /\ session' = session \ {p}
    /\ UNCHANGED settings

\* At the end of main, or killed.
Exit(p) == pc[p] = "closing" /\ Ended(p)
Killed(p) == pc[p] \in {"loading", "alone"} \cup InLoop /\ Ended(p)

-----------------------------------------------------------------------------
(* run_capture, in the resident's task or in a command of its own.           *)

Ends(q, page) ==
    LET p == ask[q].by
    IN IF pc[p] = "alone"
       THEN /\ pc' = [pc EXCEPT ![p] = "gone"] /\ UNCHANGED done
            /\ ask' = [ask EXCEPT ![q] = Over(IF page THEN "shown" ELSE "told")]
       ELSE /\ done' = [done EXCEPT ![p] = Append(@, [req |-> q, page |-> page])]
            /\ ask' = [ask EXCEPT ![q].at = "sent"] /\ UNCHANGED pc

GoesTo(q, where) == ask' = [ask EXCEPT ![q].at = where] /\ UNCHANGED <<pc, done>>

\* finish: unreadable or over the caps, or a PNG to upload.
Finish(q) == Ends(q, FALSE) \/ GoesTo(q, "uploading")

InTask == <<owner, queue, busy, last, session, settings>>

\* kwin::capture: cancelled in the picker, or a picture.
KwinTakes(q) == (Mode[q] = "window" /\ Ends(q, FALSE)) \/ Finish(q)

\* A window or a screen is KWin's, when it is on the bus.  Refused, gone, a reply
\* without a plausible size, too few pixels or a format unknown: the portal,
\* which has the regions anyway.
Kwin(q) ==
    /\ At(q, "capturing")
    /\ (Mode[q] # "region" /\ KwinTakes(q)) \/ GoesTo(q, "portal")
    /\ UNCHANGED InTask

\* portal::screenshot: cancelled or refused, or a file, which is read, removed
\* when it is fresh and nothing is in the way, and looked at.
PortalTakes(q) == Ends(q, FALSE) \/ Finish(q)

Portal(q) ==
    /\ At(q, "portal") /\ PortalTakes(q)
    /\ UNCHANGED InTask

\* The server: 401, failures, no answer and answers out of form; a page.
ServerAnswers(q) == Ends(q, FALSE) \/ GoesTo(q, "shown to")

\* upload_png: too big is told as well.
Upload(q) ==
    /\ At(q, "uploading") /\ ServerAnswers(q)
    /\ UNCHANGED InTask

\* open_page: the browser opens it, or a notification says it is uploaded.
OpenPage(q) ==
    /\ At(q, "shown to") /\ Ends(q, TRUE)
    /\ UNCHANGED InTask

\* A command on its own: no session ends it.
Alone(p, q) ==
    /\ pc[p] = "alone" /\ At(q, "asked") /\ ask[q].by = p
    /\ (CanLoad /\ GoesTo(q, "capturing")) \/ Ends(q, FALSE)
    /\ UNCHANGED InTask

\* --upload-file asks nobody.
UploadFile(p, q) ==
    /\ New(q) /\ Move(p, "filing", "alone")
    /\ CanLoad /\ ask' = [ask EXCEPT ![q] = [at |-> "uploading", by |-> p]]
    /\ UNCHANGED <<resident, session, settings>>

-----------------------------------------------------------------------------
(* --configure and --autostart.                                              *)

AtSettings == {p \in Launches : pc[p] \in {"pinging", "storing", "deleting", "asking", "saving",
                                           "switching", "reading", "noting"}}
InSettings == <<owner, queue, busy, done, last, session, ask>>

Settings == {"token", "autostart"}
Overlap(p) == IF draft[p].undisturbed THEN {} ELSE Settings

Undisturbed(p, d) ==
    draft' = [o \in Launches |->
        IF o # p THEN [draft[o] EXCEPT !.undisturbed = FALSE]
        ELSE [d EXCEPT !.undisturbed = AtSettings = {}]]

\* The config is loaded first; one that cannot be read ends the command.
Configure(p) ==
    /\ \/ Loads /\ Starts(p, "pinging")
          /\ Undisturbed(p, [NoDraft EXCEPT !.prev = config])
       \/ ~Loads /\ Starts(p, "gone") /\ UNCHANGED draft
    /\ UNCHANGED <<config, tokens, entry, torn, InSettings>>

\* Prompts, a ping that must be answered 204, and the choice of a store.
Ping(p) ==
    /\ Move(p, "pinging", "storing")
    /\ \E s \in Stores : draft' = [draft EXCEPT ![p].store = s]
    /\ UNCHANGED <<config, tokens, entry, torn, InSettings>>

\* secrets::store; the keyring's also drops the file.
StoreToken(p) ==
    /\ Move(p, "storing", "deleting")
    /\ tokens' = IF draft[p].store = "keyring" THEN {"keyring"} ELSE tokens \cup {"file"}
    /\ UNCHANGED <<config, entry, draft, torn, InSettings>>

\* Seeded bug: whatever the previous config named is deleted, the new store too.
StaleStoreAny(d) == IF d.prev = None THEN {} ELSE {d.prev.store}

\* Switching stores must not leave a copy behind in the other one.
StaleStore(d) == IF d.prev = None THEN {} ELSE {d.prev.store} \ {d.store}

\* secrets::delete, whose failure is only logged.
DeleteOther(p) ==
    /\ Move(p, "deleting", "asking")
    /\ tokens' \in {tokens \ StaleStore(draft[p]), tokens}
    /\ UNCHANGED <<config, entry, draft, torn, InSettings>>

\* autostart::set, through the portal or by the file; what it noted when it
\* could do neither is what the config said before.
SetEntry(p, choice, otherwise) ==
    \/ /\ entry' = choice
       /\ draft' = [draft EXCEPT ![p].autostart = choice]
    \/ /\ draft' = [draft EXCEPT ![p].autostart = otherwise]
       /\ UNCHANGED entry

\* The question after autostart; a run without questions leaves it as it is.
AskAutostart(p) ==
    /\ Move(p, "asking", "saving")
    /\ LET d == draft[p]
           before == IF d.prev = None THEN None ELSE d.prev.autostart
       IN \/ \E choice \in BOOLEAN : SetEntry(p, choice, before)
          \/ draft' = [draft EXCEPT ![p].autostart = before] /\ UNCHANGED entry
    /\ UNCHANGED <<config, tokens, torn, InSettings>>

SaveConfig(p) ==
    /\ Move(p, "saving", "gone")
    /\ config' = [store |-> draft[p].store, autostart |-> draft[p].autostart]
    /\ torn' = Overlap(p) \cup (IF draft[p].autostart = entry THEN {} ELSE torn \ {"token"})
    /\ draft' = [draft EXCEPT ![p] = NoDraft]
    /\ UNCHANGED <<tokens, entry, InSettings>>

\* --autostart on and off: the entry, whose failure ends the command, ...
SwitchAutostart(p) ==
    /\ Starts(p, "switching")
    /\ Undisturbed(p, NoDraft)
    /\ UNCHANGED <<config, tokens, entry, torn, InSettings>>

SwitchEntry(p) ==
    /\ Move(p, "switching", "reading")
    /\ \E choice \in BOOLEAN : entry' = choice /\ draft' = [draft EXCEPT ![p].autostart = choice]
    /\ UNCHANGED <<config, tokens, torn, InSettings>>

\* ... then the config as it is now, if there is one, ...
ReadConfig(p) ==
    /\ Loads /\ Move(p, "reading", "noting")
    /\ draft' = [draft EXCEPT ![p].prev = config]
    /\ UNCHANGED <<config, tokens, entry, torn, InSettings>>

\* ... written back with the choice.
NoteAutostart(p) ==
    /\ Move(p, "noting", "gone")
    /\ config' = IF draft[p].prev = None THEN config
                 ELSE [draft[p].prev EXCEPT !.autostart = draft[p].autostart]
    /\ torn' = torn \cup Overlap(p)
    /\ draft' = [draft EXCEPT ![p] = NoDraft]
    /\ UNCHANGED <<tokens, entry, InSettings>>

\* What a write that is cut short leaves: both files are truncated first.
TokenCut(p) == IF pc[p] = "storing" /\ draft[p].store = "file" THEN {tokens \ {"file"}} ELSE {}
ConfigCut(p) ==
    IF pc[p] = "saving" \/ (pc[p] = "noting" /\ draft[p].prev # None) THEN {Unreadable} ELSE {}

\* An error, or the terminal's interrupt, at any step.
SettingsDie(p) ==
    /\ p \in AtSettings /\ pc' = [pc EXCEPT ![p] = "gone"]
    /\ tokens' \in {tokens} \cup TokenCut(p)
    /\ config' \in {config} \cup ConfigCut(p)
    /\ torn' = torn \cup Overlap(p) \cup
               IF tokens' = tokens /\ pc[p] \in {"pinging", "storing", "switching"} THEN {}
               ELSE Settings
    /\ draft' = [draft EXCEPT ![p] = NoDraft]
    /\ UNCHANGED <<entry, InSettings>>

-----------------------------------------------------------------------------

Next ==
    \/ \E p \in Launches :
         \/ Launch(p) \/ Serve(p) \/ LoadSession(p) \/ Tray(p) \/ Receive(p) \/ LastOpened(p)
         \/ ReceiveDone(p) \/ Signalled(p) \/ Close(p) \/ Exit(p) \/ Killed(p)
         \/ Ping(p) \/ StoreToken(p) \/ DeleteOther(p) \/ AskAutostart(p)
         \/ SaveConfig(p) \/ SwitchEntry(p) \/ ReadConfig(p)
         \/ NoteAutostart(p) \/ SettingsDie(p)
         \/ \E q \in Requests : Shortcut(p, q) \/ Forward(p, q) \/ Alone(p, q) \/ UploadFile(p, q)
    \/ \E p \in SettingsRuns : Configure(p) \/ SwitchAutostart(p)
    \/ \E q \in Requests :
         Kwin(q) \/ Portal(q) \/ Upload(q) \/ OpenPage(q)

\* The loop runs, and the desktop answers a request to open a page, whatever
\* the user leaves open on the screen.
Spec ==
    Init /\ [][Next]_vars
    /\ \A p \in Launches : WF_vars(LoadSession(p) \/ Receive(p) \/ LastOpened(p) \/ Close(p) \/ Exit(p))

-----------------------------------------------------------------------------
(* Properties.                                                               *)

UnderWay == {q \in Requests : ask[q].at \in Running}

\* One gate for the tray, the shortcuts and what is forwarded: residents, the
\* one that is leaving included, run one capture between them.
ResidentsCaptureOneAtATime ==
    Cardinality({q \in UnderWay : pc[ask[q].by] \in {"leaving", "closing"} \cup InLoop}) <= 1

\* A config names a store that holds a token, and an autostart choice that the
\* entry agrees with, after settings commands run to the end one by one.
SavedSettingsHold ==
    config # None /\ AtSettings = {} =>
        /\ "token" \notin torn => config # Unreadable /\ config.store \in tokens
        /\ torn = {} => config.autostart \in {None, entry}

\* A command the resident accepted is taken, or goes with the resident, even
\* while a capture is left open.
AcceptedIsTaken == \A q \in Requests : At(q, "queued") ~> ~At(q, "queued")
=============================================================================
