---------------------------- MODULE AccountPages ----------------------------
(* The account page and the administration page (web/src/account.ts,          *)
(* admin.ts) as clients of the API.  Their event handlers are asynchronous:   *)
(* a change is sent, its answer awaited, told in the status line, and the     *)
(* list it touched asked for again.  Nothing disables a button meanwhile, so  *)
(* handlers overlap; requests and answers overtake each other and get lost.   *)
(* A row is its value; dates, column headings and the clipboard are left out. *)
EXTENDS Integers, FiniteSets, Sequences

CONSTANTS
    Tokens, People, Captures, Bans, \* what the lists have rows for
    Registration,   \* the one setting
    Self,           \* whose session the page runs in, one of People
    PlaceOf,        \* the list each capture is in: [user, page]
    Nobody,
    PageHandlers,   \* handlers in flight: 1..n, one for every list of a page (bound)
    MaxOverlap,     \* bound: a click finds fewer than that in flight
    AuditRows,      \* rows of a page of the audit log
    MaxClicks,      \* bound on the user's clicks
    Contested,      \* what others change meanwhile (bound)
    MaxTroubles     \* bound on their changes and on failing requests, together

ASSUME PagesAssumption ==
    /\ Self \in People /\ Nobody \notin People
    /\ PlaceOf \in [Captures -> [user : People, page : Nat \ {0}]]
    /\ {MaxClicks, MaxOverlap, MaxTroubles} \subseteq Nat /\ AuditRows \in Nat \ {0}

VARIABLES
    value,          \* the rows on the server
    version,        \* how often each list changed; of the log, its rows
    open,           \* the page on the screen
    shown,          \* the lists mounted in it
    wanted,         \* capturesUser and capturesPage
    auditPage,
    reveal,         \* whose token or link it shows
    status,         \* the status line: "", "ok" or "error"
    call,           \* the handlers in flight
    clicks, troubles            \* counters for the bounds

serverVars == <<value, version>>
boxVars == <<shown, wanted, auditPage, reveal>>
pagesVars == <<serverVars, open, boxVars, status, call, clicks, troubles>>

Things == Tokens \cup People \cup Captures \cup Bans \cup {Registration}

ListOf(x) == CASE x \in Tokens -> "tokens"      [] x = Registration -> "registration"
               [] x \in People -> "users"       [] x \in Captures   -> "captures"
               [] x \in Bans   -> "guard"
Lists == {"tokens", "registration", "users", "captures", "guard", "audit"}

-----------------------------------------------------------------------------
(* The server.  What a request is about, the values it accepts and what it   *)
(* makes of them; a row of another value is answered with an error.          *)

Kept == {"default", "indefinite"}
CreateToken   == [of |-> Tokens,   from |-> {"none"},   to |-> "active"]
RevokeToken   == [of |-> Tokens,   from |-> {"active"}, to |-> "revoked"]
SetIndefinite(to) == [of |-> Captures, from |-> Kept,   to |-> to]
DeleteCapture == [of |-> Captures, from |-> Kept,       to |-> "deleted"]
Unban         == [of |-> Bans,     from |-> {"banned"}, to |-> "none"]
Register(to)  == [of |-> {Registration}, from |-> {"open", "closed"}, to |-> to]

Request == [
    createToken |-> CreateToken,                 revoke  |-> RevokeToken,
    openUp      |-> Register("open"),            close   |-> Register("closed"),
    createUser  |-> [of |-> People,          from |-> {"none"},     to |-> "active"],
    disable     |-> [of |-> People \ {Self}, from |-> {"active"},   to |-> "disabled"],
    enable      |-> [of |-> People,          from |-> {"disabled"}, to |-> "active"],
    keep        |-> SetIndefinite("indefinite"), release |-> SetIndefinite("default"),
    delete      |-> DeleteCapture,               unban   |-> Unban]
Buttons == DOMAIN Request
Toggles == {"openUp", "close", "keep", "release"}

Accepts(b, x) == x \in Request[b].of /\ value[x] \in Request[b].from

\* A change and its audit row, which the account's own tokens have none of: one
\* transaction.
Commit(b, x) ==
    /\ value' = [value EXCEPT ![x] = Request[b].to]
    /\ version' = [version EXCEPT ![ListOf(x)] = @ + 1,
                                  !["audit"] = IF x \in Tokens THEN @ ELSE @ + 1]

\* Resetting a password changes no row of a list.
IssuesLink(x) == x \in People /\ value[x] # "none"
CommitLink == version' = [version EXCEPT !["audit"] = @ + 1] /\ UNCHANGED value

\* What the lists answer, with what each is a list of and how recent it is.
Existing(S) == {x \in S : value[x] # "none"}
TokenList == Existing(Tokens)
UserList == Existing(People)
CaptureList(of) == {c \in Captures : PlaceOf[c] = of}
BanList == Existing(Bans)

Rows(list, of) == CASE list = "tokens" -> TokenList [] list = "registration" -> {Registration}
                    [] list = "users"  -> UserList  [] list = "captures" -> CaptureList(of)
                    [] list = "guard"  -> BanList   [] list = "audit" -> {}

Listing(list, of) ==
    [of |-> of, rows |-> [x \in Rows(list, of) |-> value[x]], version |-> version[list]]

Trouble == troubles < MaxTroubles /\ troubles' = troubles + 1

\* The administrator's other tab, the users, another administrator; or a request
\* of this page that it has given up on.
Elsewhere ==
    /\ Trouble
    /\ \E b \in Buttons, x \in Contested : Accepts(b, x) /\ Commit(b, x)
    /\ UNCHANGED <<open, boxVars, status, call, clicks>>

-----------------------------------------------------------------------------
(* Handlers.                                                                 *)

Resting == [step |-> "none"]
Unmounted == [of |-> Nobody]
NoPlace == [user |-> Nobody, page |-> 0]
InFlight == {h \in PageHandlers : call[h] # Resting}
Mounted(list) == shown[list] # Unmounted

\* What a list request names, read as it is sent.
Asked(list, place, page) == CASE list = "captures" -> place
                              [] list = "audit"    -> [user |-> Nobody, page |-> page]
                              [] OTHER             -> NoPlace

\* A handler goes on with the next of the lists it refreshes.
GoesOn(r, place, page) ==
    IF r.then = <<>> THEN Resting
    ELSE [r EXCEPT !.step = "asks", !.list = Head(r.then), !.then = Tail(r.then),
                   !.of = Asked(Head(r.then), place, page)]

Fresh(b, x, then) ==
    [step |-> "sent", button |-> b, thing |-> x, then |-> then, list |-> "", of |-> NoPlace,
     answer |-> Unmounted, ok |-> FALSE,
     \* history: whether and as which version the change was made, whether a list
     \* failed to load since, and whether the handler is alone in flight
     done |-> FALSE, at |-> 0, audited |-> 0, missed |-> FALSE, alone |-> InFlight = {}]

Looks(list) == GoesOn(Fresh("look", Nobody, <<list>>), wanted', auditPage')

\* A click starts a handler, and those in flight are not alone any more.
Starts(r) ==
    /\ clicks < MaxClicks /\ clicks' = clicks + 1
    /\ Cardinality(InFlight) < MaxOverlap
    /\ \E h \in PageHandlers \ InFlight :
         /\ \A g \in PageHandlers \ InFlight : h <= g
         /\ call' = [g \in PageHandlers |->
                        IF g = h THEN r
                        ELSE IF g \in InFlight THEN [call[g] EXCEPT !.alone = FALSE] ELSE Resting]

-----------------------------------------------------------------------------
(* Pages come and go.                                                        *)

Loads == [account |-> <<"tokens">>, admin |-> <<"registration", "users", "guard", "audit">>]

PagesInit ==
    /\ value = [x \in Things |->
                 CASE x \in Tokens   -> "none"     [] x = Registration -> "closed"
                   [] x \in Captures -> "default"  [] x \in Bans       -> "banned"
                   [] x \in People   -> IF x = Self \/ \E c \in Captures : PlaceOf[c].user = x
                                        THEN "active" ELSE "none"]
    /\ version = [list \in Lists |-> 0]
    /\ open = "none" /\ shown = [list \in Lists |-> Unmounted]
    /\ wanted = NoPlace /\ auditPage = 1 /\ reveal = Nobody /\ status = ""
    /\ call = [h \in PageHandlers |-> Resting]
    /\ clicks = 0 /\ troubles = 0

\* main(): without a session to the sign-in page, without the role to one's
\* account; the page's lists are then asked for side by side.
PageFor(page, role) == CASE role = "none" -> "login"
                         [] page = "admin" /\ role # "admin" -> "account"
                         [] OTHER -> page

Open(page) ==
    /\ open = "none"
    /\ \E role \in {"none", "user", "admin"} : open' = PageFor(page, role)
    /\ call' = IF open' = "login" THEN call
               ELSE [h \in PageHandlers |->
                       IF h \in DOMAIN Loads[open']
                       THEN GoesOn(Fresh("look", Nobody, <<Loads[open'][h]>>), wanted, auditPage)
                       ELSE Resting]
    /\ UNCHANGED <<serverVars, boxVars, status, clicks, troubles>>

\* Signing out: whatever the server says, the page gives way to the sign-in page.
SignOut ==
    /\ open = "account" /\ open' = "login"
    /\ call' = [h \in PageHandlers |-> Resting]
    /\ UNCHANGED <<serverVars, boxVars, status, clicks, troubles>>

-----------------------------------------------------------------------------
(* What the user clicks.                                                     *)

ShownAs(x) == shown[ListOf(x)].rows[x]
HasRow(x) == Mounted(ListOf(x)) /\ x \in DOMAIN shown[ListOf(x)].rows

\* The forms take any name that is not in use.
TokenForm(b, x) == b = "createToken" /\ open = "account" /\ value[x] = "none"
UserForm(b, x) == b = "createUser" /\ Mounted("users")

\* A row offers what its value, as it is shown, calls for; nobody is offered to
\* disable himself.
TokenRow(b, x) == b = "revoke" /\ HasRow(x) /\ ShownAs(x) = "active"
PersonRow(b, x) ==
    /\ HasRow(x) /\ x # Self
    /\ b = IF ShownAs(x) = "disabled" THEN "enable" ELSE "disable"
Checkbox(b, x) == b \in Toggles /\ HasRow(x) /\ ShownAs(x) \in Request[b].from \ {Request[b].to}
CaptureRow(b, x) == b = "delete" /\ HasRow(x) /\ ShownAs(x) # "deleted"
BanRow(b, x) == b = "unban" /\ HasRow(x)

Offers(b, x) == \/ TokenForm(b, x) \/ TokenRow(b, x) \/ UserForm(b, x) \/ PersonRow(b, x)
                \/ Checkbox(b, x) \/ CaptureRow(b, x) \/ BanRow(b, x)

\* What `run` refreshes, and the account page after a success.
Refreshes(x) == IF open = "admin" THEN <<ListOf(x), "audit">> ELSE <<ListOf(x)>>

\* A checkbox shows its new position at once.
Press(b, x) ==
    /\ Offers(b, x)
    /\ Starts(Fresh(b, x, Refreshes(x)))
    /\ shown' = IF b \in Toggles THEN [shown EXCEPT ![ListOf(x)].rows[x] = Request[b].to]
                ELSE shown
    /\ UNCHANGED <<serverVars, open, wanted, auditPage, reveal, status, troubles>>

ResetPassword(x) ==
    /\ HasRow(x)
    /\ Starts(Fresh("resetLink", x, <<"audit">>))
    /\ UNCHANGED <<serverVars, open, boxVars, status, troubles>>

\* The buttons that only look: a user's captures, the guard's Refresh, the pagers.
Look(list) ==
    /\ Starts(Looks(list))
    /\ UNCHANGED <<serverVars, open, shown, reveal, status, troubles>>

LookAtCaptures(u) ==
    /\ HasRow(u)
    /\ wanted' = [user |-> u, page |-> 1] /\ UNCHANGED auditPage
    /\ Look("captures")

PageOf(box, n) == box.of.page + n
HasPage(u, p) == p \in 1..Cardinality({PlaceOf[c].page : c \in {k \in Captures : PlaceOf[k].user = u}})

\* The pager counts from the page it was mounted with, for the user wanted now.
TurnCaptures(n) ==
    /\ Mounted("captures") /\ HasPage(shown["captures"].of.user, PageOf(shown["captures"], n))
    /\ wanted' = [wanted EXCEPT !.page = PageOf(shown["captures"], n)]
    /\ UNCHANGED auditPage
    /\ Look("captures")

TurnAudit(n) ==
    /\ Mounted("audit") /\ PageOf(shown["audit"], n) >= 1
    /\ AuditRows * (PageOf(shown["audit"], n) - 1) < shown["audit"].version
    /\ auditPage' = PageOf(shown["audit"], n)
    /\ UNCHANGED wanted
    /\ Look("audit")

RefreshGuard == Mounted("guard") /\ UNCHANGED <<wanted, auditPage>> /\ Look("guard")

\* "Done": the token or the link leaves the page for good.
Hide ==
    /\ reveal # Nobody /\ reveal' = Nobody
    /\ UNCHANGED <<serverVars, open, shown, wanted, auditPage, status, call, clicks, troubles>>

-----------------------------------------------------------------------------
(* A handler's way.                                                          *)

\* The server handles the request ...
Handle(h) ==
    /\ call[h].step = "sent"
    /\ LET b == call[h].button  x == call[h].thing
           good == IF b = "resetLink" THEN IssuesLink(x) ELSE Accepts(b, x)
       IN /\ IF ~good THEN UNCHANGED serverVars
             ELSE IF b = "resetLink" THEN CommitLink ELSE Commit(b, x)
          /\ call' = [call EXCEPT ![h].step = "answered", ![h].ok = good, ![h].done = good,
                                  ![h].at = version'[ListOf(x)], ![h].audited = version'["audit"]]
    /\ UNCHANGED <<open, boxVars, status, clicks, troubles>>

\* ... or the guard, the session or the network refuses it.
Refuse(h) ==
    /\ call[h].step = "sent" /\ Trouble
    /\ call' = [call EXCEPT ![h].step = "answered"]
    /\ UNCHANGED <<serverVars, open, boxVars, status, clicks>>

\* A token or a link is shown once, in the answer that carries it.
Revealed(r) == IF r.button \in {"createToken", "createUser", "resetLink"} THEN r.thing ELSE reveal

\* Seeded bug: the lists are refreshed after a success only.
ToldWithoutFinally(h, good) ==
    /\ status' = IF good THEN "ok" ELSE "error"
    /\ reveal' = IF good THEN Revealed(call[h]) ELSE reveal
    /\ call' = [call EXCEPT ![h] = IF good THEN GoesOn(@, wanted, auditPage) ELSE Resting]
    /\ UNCHANGED <<serverVars, open, shown, wanted, auditPage, clicks>>

\* The answer comes, or is lost: then the page takes it for a failure.  The
\* administration page refreshes either way, the account page after a success.
Told(h, good) ==
    /\ status' = IF good THEN "ok" ELSE "error"
    /\ reveal' = IF good THEN Revealed(call[h]) ELSE reveal
    /\ call' = [call EXCEPT ![h] = IF good \/ open = "admin"
                                   THEN GoesOn(@, wanted, auditPage) ELSE Resting]
    /\ UNCHANGED <<serverVars, open, shown, wanted, auditPage, clicks>>

Answer(h) == call[h].step = "answered" /\ Told(h, call[h].ok) /\ UNCHANGED troubles
AnswerIsLost(h) == call[h].step = "answered" /\ Told(h, FALSE) /\ Trouble

ListAnswers(h) ==
    /\ call[h].step = "asks"
    /\ call' = [call EXCEPT ![h].step = "listed",
                            ![h].answer = Listing(call[h].list, call[h].of)]
    /\ UNCHANGED <<serverVars, open, boxVars, status, clicks, troubles>>

\* Seeded bug: the heading is read after the await.
MountWithLateHeading(h) ==
    /\ call[h].step = "listed"
    /\ shown' = [shown EXCEPT ![call[h].list] =
                    [call[h].answer EXCEPT !.of = Asked(call[h].list, wanted, auditPage)]]
    /\ call' = [call EXCEPT ![h] = GoesOn(@, wanted, auditPage)]
    /\ UNCHANGED <<serverVars, open, wanted, auditPage, reveal, status, clicks, troubles>>

\* The heading is the user the request was sent for, whoever is wanted by now.
Mount(h) ==
    /\ call[h].step = "listed"
    /\ shown' = [shown EXCEPT ![call[h].list] = call[h].answer]
    /\ call' = [call EXCEPT ![h] = GoesOn(@, wanted, auditPage)]
    /\ UNCHANGED <<serverVars, open, wanted, auditPage, reveal, status, clicks, troubles>>

ListFails(h) ==
    /\ call[h].step \in {"asks", "listed"} /\ Trouble
    /\ status' = "error"
    /\ call' = [call EXCEPT ![h] = GoesOn([@ EXCEPT !.missed = TRUE], wanted, auditPage)]
    /\ UNCHANGED <<serverVars, open, boxVars, clicks>>

PagesNext ==
    \/ \E page \in {"account", "admin"} : Open(page)
    \/ SignOut \/ Elsewhere \/ Hide \/ RefreshGuard
    \/ \E b \in Buttons : \E x \in Request[b].of : Press(b, x)
    \/ \E u \in People : ResetPassword(u) \/ LookAtCaptures(u)
    \/ \E n \in {-1, 1} : TurnCaptures(n) \/ TurnAudit(n)
    \/ \E h \in PageHandlers : \/ Handle(h) \/ Refuse(h) \/ Answer(h) \/ AnswerIsLost(h)
                               \/ ListAnswers(h) \/ Mount(h) \/ ListFails(h)

PagesSpec == PagesInit /\ [][PagesNext]_pagesVars

-----------------------------------------------------------------------------
(* Properties.                                                               *)

\* The captures listed are those of the user and the page in the heading,
\* whomever the administrator has clicked since.
CapturesAreTheirHeadings ==
    Mounted("captures") =>
        \A c \in DOMAIN shown["captures"].rows : PlaceOf[c] = shown["captures"].of

Shows(r) == /\ shown'[ListOf(r.thing)].version >= r.at
            /\ (open = "admin" => shown'["audit"].version >= r.audited)
Missed(r) == r.missed \/ (r.step # "answered" /\ troubles' # troubles)
\* What the page tells when handler h is through.
TellsTheTruth(h) ==
    LET r == call[h] IN
    /\ r # Resting /\ call'[h] = Resting /\ open' = open
    /\ r.button \in Buttons /\ r.alone
    => /\ (status' = "ok" => r.done /\ Shows(r))
       /\ (open = "admin" /\ r.done /\ ~Missed(r) => Shows(r))

\* A change made while nothing else was under way is told as done only if it is
\* done and the list shows it; and the administrator sees it, and its audit row,
\* even when the answer was lost and the page reports a failure, unless a list
\* could not be loaded either.
OwnChangeIsShown == [][\A h \in PageHandlers : TellsTheTruth(h)]_pagesVars
=============================================================================
