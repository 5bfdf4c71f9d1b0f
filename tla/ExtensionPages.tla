--------------------------- MODULE ExtensionPages ---------------------------
(* What the extension keeps in storage.local, the two pages that show and    *)
(* change it, and the captures that use it: the options page with its form,  *)
(* whose handlers overlap; the popup, which shows the last failure once; the *)
(* background, which takes server and token of an upload from there.         *)
(* How a capture gets its image is ExtensionCapture's matter.                *)
EXTENDS Integers, FiniteSets, FiniteSetsExt

CONSTANTS
    Origins,        \* addresses parseServerOrigin accepts
    HostOf,         \* scheme and host of each: its address without the port
    DefaultOrigin,  \* DEFAULT_SERVER_ORIGIN, of the build
    ApiTokens,
    Nothing,        \* no token, an unusable address, no mode yet
    Handlers,       \* 1 .. handlers of the options page that can overlap (bound)
    MaxPresses,     \* bound on the buttons pressed there
    MaxCaptures,    \* bound on captures
    MaxFaults       \* bound on storage calls that fail

ASSUME ExtensionPagesAssumption ==
    /\ DefaultOrigin \in Origins /\ Nothing \notin Origins \cup ApiTokens
    /\ DOMAIN HostOf = Origins /\ IsFiniteSet(Handlers)
    /\ {MaxPresses, MaxCaptures, MaxFaults} \subseteq Nat

VARIABLES
    target,         \* BROWSER_TARGET, of the build
    stored,         \* storage.local
    granted,        \* host patterns the user has granted
    form,           \* the options page
    task,           \* its handlers in flight
    popup,
    capture,        \* captures: the settings they run with
    presses, faults,            \* counters for the bounds
    confirmed,      \* history: what the form held at each Save
    crossed,        \* history: a write failed while another was under way
    unseen          \* history: the last failure, until it is shown or a capture succeeds

optionsVars == <<granted, form, task, presses, confirmed, crossed>>
popupVars == <<popup, capture, unseen>>
extVars == <<target, stored, optionsVars, popupVars, faults>>

Modes == {"visible", "region", "full"}
CaptureIds == 1..MaxCaptures
NoTask == [step |-> "none", turn |-> 0]
NoCapture == [step |-> "none"]
Closed == [step |-> "closed", waits |-> 0, clears |-> FALSE]

-----------------------------------------------------------------------------
(* Host permissions.                                                         *)

HostPatternWithPort(o) == o             \* Seeded bug: one pattern for both browsers
\* hostPattern: Firefox's matcher ignores ports, so there the pattern has none.
HostPattern(o) == IF target = "firefox" THEN HostOf[o] ELSE o
\* The browsers' matching.
Covered(o) == IF target = "firefox" THEN HostOf[o] \in granted ELSE o \in granted

ExtInit ==
    /\ target \in {"chrome", "firefox"}
    /\ stored = [serverOrigin |-> DefaultOrigin, apiToken |-> Nothing, lastMode |-> Nothing,
                 regionSuggestions |-> TRUE, lastError |-> 0]
    /\ granted = IF target = "chrome" THEN {HostPattern(DefaultOrigin)} ELSE {}
    /\ form = [state |-> "closed", ready |-> FALSE, origin |-> Nothing, token |-> Nothing,
               suggest |-> FALSE, told |-> "", toldOrigin |-> Nothing, testOff |-> FALSE]
    /\ task = [h \in Handlers |-> NoTask]
    /\ popup = Closed /\ capture = [c \in CaptureIds |-> NoCapture]
    /\ presses = 0 /\ faults = 0
    /\ confirmed = {} /\ crossed = FALSE /\ unseen = 0

Fault == faults < MaxFaults /\ faults' = faults + 1

-----------------------------------------------------------------------------
(* The options page.  Its fields are disabled until the settings are read.   *)

OpenOptions ==
    /\ form.state = "closed"
    /\ form' = [form EXCEPT !.state = "loading"]
    /\ UNCHANGED <<target, stored, granted, task, presses, confirmed, crossed, popupVars, faults>>

Fill ==
    /\ form.state = "loading"
    /\ form' = [form EXCEPT !.state = "ready", !.ready = TRUE, !.origin = stored.serverOrigin,
                            !.token = stored.apiToken, !.suggest = stored.regionSuggestions]
    /\ UNCHANGED <<target, stored, granted, task, presses, confirmed, crossed, popupVars, faults>>

FillFails ==
    /\ form.state = "loading" /\ Fault
    /\ form' = [form EXCEPT !.state = "error", !.told = "error"]
    /\ UNCHANGED <<target, stored, granted, task, presses, confirmed, crossed, popupVars>>

Types ==
    /\ form.ready
    /\ \E o \in Origins \cup {Nothing}, t \in ApiTokens \cup {Nothing} :
         /\ (o = form.origin) # (t = form.token)
         /\ form' = [form EXCEPT !.origin = o, !.token = t]
    /\ UNCHANGED <<target, stored, granted, task, presses, confirmed, crossed, popupVars, faults>>

\* A pressed button, with the handler it starts.
Presses(r) ==
    /\ form.ready /\ presses < MaxPresses /\ presses' = presses + 1
    /\ \E h \in Handlers :
         /\ task[h] = NoTask /\ \A g \in Handlers : g < h => task[g] # NoTask
         /\ task' = [task EXCEPT ![h] = r]

\* Writes of one page are carried out, and answered, in the order it made them.
NextTurn == 1 + Max({task[h].turn : h \in Handlers})
IsFirst(h) == \A g \in Handlers : task[g].turn # 0 => task[h].turn <= task[g].turn

Fails == form' = [form EXCEPT !.state = "error", !.told = "error"]
ReadForm == form.origin \in Origins /\ form.token # Nothing

\* Save and Test connection first ask for permission on the origin in the form.
AsksAccess(kind, state) ==
    /\ ReadForm
    /\ Presses([kind |-> kind, step |-> "asks", turn |-> 0, on |-> FALSE,
                origin |-> form.origin, token |-> form.token])
    /\ form' = [form EXCEPT !.state = state]

Save ==
    /\ AsksAccess("save", "saving")
    /\ confirmed' = confirmed \cup {<<form.origin, form.token>>}
    /\ UNCHANGED <<target, stored, granted, crossed, popupVars, faults>>

\* The button is disabled when the server is asked and enabled by an answer.
Test ==
    /\ ~form.testOff
    /\ AsksAccess("test", "testing")
    /\ UNCHANGED <<target, stored, granted, confirmed, crossed, popupVars, faults>>

Unreadable ==
    /\ form.ready /\ ~ReadForm /\ Fails
    /\ UNCHANGED <<target, stored, granted, task, presses, confirmed, crossed, popupVars, faults>>

\* The suggestions switch is stored the moment it changes.
SwitchSuggestions ==
    /\ Presses([kind |-> "switch", step |-> "writes", turn |-> NextTurn,
                on |-> ~form.suggest, origin |-> Nothing, token |-> Nothing])
    /\ form' = [form EXCEPT !.suggest = ~@]
    /\ UNCHANGED <<target, stored, granted, confirmed, crossed, popupVars, faults>>

\* ensureAccess: granted ...
Allowed(h) ==
    /\ task[h].step = "asks"
    /\ granted' = granted \cup {HostPattern(task[h].origin)}
    /\ IF task[h].kind = "save"
       THEN /\ task' = [task EXCEPT ![h].step = "writes", ![h].turn = NextTurn]
            /\ UNCHANGED form
       ELSE /\ task' = [task EXCEPT ![h].step = "pings"]
            /\ form' = [form EXCEPT !.told = "contacting", !.testOff = TRUE]
    /\ UNCHANGED <<target, stored, presses, confirmed, crossed, popupVars, faults>>

\* ... or refused, by the user or with an error: nothing is saved.
Denied(h) ==
    /\ task[h].step = "asks" /\ Fails
    /\ task' = [task EXCEPT ![h] = NoTask]
    /\ UNCHANGED <<target, stored, granted, presses, confirmed, crossed, popupVars, faults>>

\* What a handler's saveSettings makes of the storage.
Patched(r) ==
    IF r.kind = "save" THEN [stored EXCEPT !.serverOrigin = r.origin, !.apiToken = r.token]
    ELSE [stored EXCEPT !.regionSuggestions = r.on]

Store(h) ==
    /\ task[h].step = "writes" /\ \A g \in Handlers : task[g].step = "writes" => task[h].turn <= task[g].turn
    /\ stored' = Patched(task[h])
    /\ task' = [task EXCEPT ![h].step = "stored"]
    /\ UNCHANGED <<target, granted, form, presses, confirmed, crossed, popupVars, faults>>

StoreFails(h) ==
    /\ task[h].step = "writes" /\ \A g \in Handlers : task[g].step = "writes" => task[h].turn <= task[g].turn
    /\ Fault
    /\ task' = [task EXCEPT ![h].step = "lost"]
    /\ crossed' = (crossed \/ \E g \in Handlers \ {h} : task[g].turn # 0)
    /\ UNCHANGED <<target, stored, granted, form, presses, confirmed, popupVars>>

\* The handler goes on: after a Save the form shows the origin as it was parsed.
Stored(h) ==
    /\ task[h].step = "stored" /\ IsFirst(h)
    /\ task' = [task EXCEPT ![h] = NoTask]
    /\ form' = IF task[h].kind = "save"
               THEN [form EXCEPT !.state = "saved", !.told = "saved",
                                 !.origin = task[h].origin, !.toldOrigin = task[h].origin]
               ELSE [form EXCEPT !.state = "saved", !.told = "switched"]
    /\ UNCHANGED <<target, stored, granted, presses, confirmed, crossed, popupVars, faults>>

\* Seeded bug: the switch stays where the user put it.
NotStoredSilently(h) ==
    /\ task[h].step = "lost" /\ IsFirst(h)
    /\ task' = [task EXCEPT ![h] = NoTask]
    /\ UNCHANGED <<target, stored, granted, form, presses, confirmed, crossed, popupVars, faults>>

\* A switch goes back; of a Save that could not be stored nobody hears.
NotStored(h) ==
    /\ task[h].step = "lost" /\ IsFirst(h)
    /\ task' = [task EXCEPT ![h] = NoTask]
    /\ form' = IF task[h].kind = "save" THEN form
               ELSE [form EXCEPT !.suggest = ~task[h].on, !.state = "error", !.told = "error"]
    /\ crossed' = (crossed \/ \E g \in Handlers \ {h} : task[g].turn # 0)
    /\ UNCHANGED <<target, stored, granted, presses, confirmed, popupVars, faults>>

\* What pingServer makes of the answer.
Pinged(h) ==
    /\ task[h].step = "pings"
    /\ task' = [task EXCEPT ![h] = NoTask]
    /\ \E end \in {"connected", "error"} :
         form' = [form EXCEPT !.state = end, !.told = end, !.testOff = FALSE]
    /\ UNCHANGED <<target, stored, granted, presses, confirmed, crossed, popupVars, faults>>

-----------------------------------------------------------------------------
(* Captures in the background.                                               *)

\* flagFailure and clearFailureFlag, and what they owe the user.
Flag(c) == stored' = [stored EXCEPT !.lastError = c] /\ unseen' = c
Unflag == stored' = [stored EXCEPT !.lastError = 0] /\ unseen' = 0

\* prepare: without a token nothing is captured; a capture keeps the settings it
\* read and is the last one that used its mode.
Begins(c, mode) ==
    /\ capture[c] = NoCapture /\ \A b \in CaptureIds : b < c => capture[b] # NoCapture
    /\ capture' = [capture EXCEPT ![c] =
         [step |-> IF stored.apiToken = Nothing THEN "refused" ELSE "runs", mode |-> mode,
          origin |-> stored.serverOrigin, token |-> stored.apiToken]]
    /\ stored' = IF stored.apiToken = Nothing THEN stored ELSE [stored EXCEPT !.lastMode = mode]

\* The keyboard shortcut.
Command(mode) ==
    /\ \E c \in CaptureIds : Begins(c, mode)
    /\ UNCHANGED <<target, optionsVars, popup, unseen, faults>>

\* A recycled worker reads the settings of a region selection again.
Rereads(c) ==
    /\ capture[c].step = "runs" /\ capture[c].mode = "region"
    /\ capture' = [capture EXCEPT ![c].origin = stored.serverOrigin,
                                  ![c].token = stored.apiToken]
    /\ UNCHANGED <<target, stored, optionsVars, popup, unseen, faults>>

Uploads(c) ==
    /\ capture[c].step = "runs"
    /\ capture' = [capture EXCEPT ![c].step = "uploads"]
    /\ UNCHANGED <<target, stored, optionsVars, popup, unseen, faults>>

\* Reported: created, or refused, unreachable, not even captured.
Succeeds(c) ==
    /\ capture[c].step = "uploads" /\ Unflag
    /\ capture' = [capture EXCEPT ![c].step = "uploaded"]
    /\ UNCHANGED <<target, optionsVars, popup, faults>>
Collapses(c) ==
    /\ capture[c].step \in {"refused", "runs", "uploads"} /\ Flag(c)
    /\ capture' = [capture EXCEPT ![c].step = "failed"]
    /\ UNCHANGED <<target, optionsVars, popup, faults>>
\* A region selection given up with Esc is not reported.
Cancelled(c) ==
    /\ capture[c].step = "runs" /\ capture[c].mode = "region"
    /\ capture' = [capture EXCEPT ![c].step = "cancelled"]
    /\ UNCHANGED <<target, stored, optionsVars, popup, unseen, faults>>

-----------------------------------------------------------------------------
(* The popup.                                                                *)

OpenPopup ==
    /\ popup.step = "closed" /\ ~popup.clears
    /\ popup' = [Closed EXCEPT !.step = "reads"]
    /\ UNCHANGED <<target, stored, optionsVars, capture, unseen, faults>>

\* readLastError: a failure is shown, and flag and badge are to go.
ReadsLastError ==
    /\ popup.step = "reads"
    /\ popup' = [popup EXCEPT !.step = "ready", !.clears = stored.lastError # 0]
    /\ unseen' = IF unseen = stored.lastError THEN 0 ELSE unseen
    /\ UNCHANGED <<target, stored, optionsVars, capture, faults>>

ClearsFailureFlag ==
    /\ popup.clears
    /\ popup' = [popup EXCEPT !.clears = FALSE]
    /\ stored' = [stored EXCEPT !.lastError = 0]
    /\ UNCHANGED <<target, optionsVars, capture, unseen, faults>>

\* A mode's button; the buttons are disabled until the background answers.
Click(mode) ==
    /\ popup.step = "ready"
    /\ \E c \in CaptureIds :
         /\ Begins(c, mode)
         /\ popup' = [popup EXCEPT !.step = "waits", !.waits = c]
    /\ UNCHANGED <<target, optionsVars, unseen, faults>>

\* The answer: once a region or a full page has been started, or with the
\* outcome.  The popup closes, or shows the failure and offers its buttons again.
Answered ==
    /\ popup.step = "waits"
    /\ LET c == capture[popup.waits] IN
         \/ /\ c.step = "failed"
            /\ popup' = [popup EXCEPT !.step = "ready"]
         \/ /\ c.step \in {"runs", "uploads", "cancelled"} => c.mode # "visible"
            /\ c.step \notin {"failed", "refused"}
            /\ popup' = [popup EXCEPT !.step = "closed"]
    /\ UNCHANGED <<target, stored, optionsVars, capture, unseen, faults>>

\* Closed by a click elsewhere; the calls it has made are carried out.
ClosePopup ==
    /\ popup.step # "closed"
    /\ popup' = [popup EXCEPT !.step = "closed"]
    /\ UNCHANGED <<target, stored, optionsVars, capture, unseen, faults>>

ExtNext ==
    \/ OpenOptions \/ Fill \/ FillFails \/ Types \/ Save \/ Test \/ Unreadable \/ SwitchSuggestions
    \/ \E h \in Handlers : \/ Allowed(h) \/ Denied(h) \/ Store(h) \/ StoreFails(h)
                           \/ Stored(h) \/ NotStored(h) \/ Pinged(h)
    \/ \E mode \in Modes : Command(mode) \/ Click(mode)
    \/ \E c \in CaptureIds : Rereads(c) \/ Uploads(c) \/ Succeeds(c) \/ Collapses(c) \/ Cancelled(c)
    \/ OpenPopup \/ ReadsLastError \/ ClearsFailureFlag \/ Answered \/ ClosePopup

ExtSpec == ExtInit /\ [][ExtNext]_extVars

-----------------------------------------------------------------------------
(* Properties.                                                               *)

\* A token goes to the server it stood beside when the user saved it, and to a
\* server the user let the extension reach, whatever was typed, tested or refused
\* since and whenever the capture read its settings.
TokenGoesWhereItWasSaved ==
    \A c \in CaptureIds : capture[c].step = "uploads" =>
        <<capture[c].origin, capture[c].token>> \in confirmed /\ Covered(capture[c].origin)

\* Once its handlers are through, the options page tells the truth: the server it
\* names is the one stored, and its switch stands as stored, unless one write
\* failed while another was under way.
AtRest == form.ready /\ \A h \in Handlers : task[h].turn = 0
OptionsShowWhatIsStored ==
    AtRest /\ ~crossed =>
        /\ form.suggest = stored.regionSuggestions
        /\ (form.told = "saved" => form.toldOrigin = stored.serverOrigin)

\* The popup shows the stored error on next open (background.ts).
FailureWaitsForThePopup == unseen # 0 => stored.lastError = unseen
=============================================================================
