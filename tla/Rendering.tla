------------------------------ MODULE Rendering ------------------------------
(***************************************************************************)
(* Rendering a page in a remote browser.  The captures of a process share  *)
(* one Renderer per tier, and with it one Playwright driver: it is started *)
(* on first use, dies under some pages and takes every render with it, and *)
(* is restarted by the first render that notices.  A render connects a     *)
(* browser through the driver, prepares a page, lands on it, explores it   *)
(* and reads its DOM, while the page goes on navigating underneath it.     *)
(*                                                                         *)
(* Tiers: "managed" intercepts requests, "local" does not and waits for a  *)
(* challenge that makes progress, "cloud" attaches to a page that          *)
(* BrowserQL has already unblocked.                                        *)
(***************************************************************************)
EXTENDS Naturals, FiniteSets

CONSTANTS
    Renders,         \* renders of one process through one Renderer
    Modes,           \* the tiers, a subset of {"managed", "local", "cloud"}
    ConnectTries,    \* connection attempts of one render (6)
    ChallengePolls,  \* polls of a challenge before giving up (challenge_wait_s)
    ProgressPolls,   \* polls of a challenge that progresses (challenge_progress_wait_s)
    Rounds,          \* settles of one exploration (boot, scroll and pending caps)
    MaxDeaths,       \* bound: spontaneous deaths of a driver
    MaxFaults        \* bound: other failures, and navigations of the page

ASSUME RenderingAssumption ==
    /\ "none" \notin Renders
    /\ Modes \subseteq {"managed", "local", "cloud"}
    /\ ConnectTries \in Nat \ {0}
    /\ ChallengePolls \in Nat \ {0}
    /\ ProgressPolls \in Nat /\ ProgressPolls >= ChallengePolls
    /\ Rounds \in Nat
    /\ MaxDeaths \in Nat /\ MaxFaults \in Nat

VARIABLES
    mode,         \* the tier whose Renderer this is
    started,      \* SharedRenderer._started, BqlBrowserTier._started
    startLock,    \* holder of SharedRenderer._lock, or None
    pw,           \* Renderer._pw: the current driver (0: none yet)
    alive,        \* the drivers that run
    restartLock,  \* holder of Renderer._restart_lock, or None
    deaths, faults,
    at,           \* what each render is awaiting
    job,          \* its driver: captured, connected through, and the tries
    doc           \* its page, its session and its result

vars == <<mode, started, startLock, pw, alive, restartLock, deaths, faults, at, job, doc>>
driverVars == <<started, startLock, pw, alive, restartLock>>

None == "none"

\* Renderer.__init__ of the tiers: request interception, the wait for a
\* progressing challenge, and the handed-over page.
Intercept == mode # "local"
Attached == mode = "cloud"

\* Rendered and _Session.  html and page name what the DOM shows: the "site",
\* Chrome's "error" page, a document that was "blocked" as excluded, or one that
\* shows an "excludedUrl"; lines tells whether lines of such a document are
\* among those collected.  slipped is history: the page left an excluded URL
\* before page.url was read, or went to one through the history API after that.
FreshDoc ==
    [page |-> "blank", nav |-> FALSE, excl |-> FALSE, html |-> None, state |-> FALSE,
     text |-> FALSE, lines |-> FALSE, kept |-> None, url |-> None, polls |-> 0, limit |-> 0,
     err |-> None, slipped |-> FALSE]

FreshJob == [drv |-> 0, use |-> 0, again |-> FALSE, tries |-> 0, unblocked |-> 0]

Init ==
    /\ mode \in Modes
    /\ started = FALSE /\ startLock = None
    /\ pw = 0 /\ alive = {} /\ restartLock = None
    /\ deaths = 0 /\ faults = 0
    /\ at = [r \in Renders |-> "idle"]
    /\ job = [r \in Renders |-> FreshJob]
    /\ doc = [r \in Renders |-> FreshDoc]

-----------------------------------------------------------------------------
(* Vocabulary. *)

Go(r, place) == at' = [at EXCEPT ![r] = place]
Doc(r, d) == doc' = [doc EXCEPT ![r] = d]
Job(r, j) == job' = [job EXCEPT ![r] = j]
Quietly == UNCHANGED <<mode, deaths, faults>>
AtFault == faults < MaxFaults /\ faults' = faults + 1 /\ UNCHANGED <<mode, deaths>>

Ended == {"returned", "raised", "cancelled"}
Rendering == {"navigate", "challenge", "parsed", "explore", "final"}  \* under the cap
OnPage == Rendering \cup {"landed", "reread"}

Up(r) == job[r].use \in alive

\* Drivers are numbered in the order they start: pw is always the last one.
NewDriver == pw + 1

\* An attempt to connect a browser through driver d.
Attempt(r, d) == Go(r, "connect") /\ Job(r, [job[r] EXCEPT !.use = d])

-----------------------------------------------------------------------------
(* The driver: started on first use, restarted when it has died. *)

FaultRestartLocked(r) ==
    /\ at[r] = "restart" /\ restartLock = None
    /\ Go(r, "restarting") /\ restartLock' = r /\ alive' = alive \ {pw}
    /\ Quietly /\ UNCHANGED <<started, startLock, pw, job, doc>>

\* SharedRenderer.render checks, locks and checks again; BqlBrowserTier.render
\* starts the driver without a lock.
Enter(r) ==
    /\ at[r] = "idle"
    /\ Go(r, CASE started -> "begin"
               [] ~started /\ Attached -> "starting"
               [] OTHER -> "locking")
    /\ Quietly /\ UNCHANGED <<driverVars, job, doc>>

StartLocked(r) ==
    /\ at[r] = "locking" /\ startLock = None
    /\ \/ started /\ Go(r, "begin") /\ UNCHANGED startLock
       \/ ~started /\ Go(r, "starting") /\ startLock' = r
    /\ Quietly /\ UNCHANGED <<started, pw, alive, restartLock, job, doc>>

\* Renderer.__aenter__ returns.
Starts(r) ==
    /\ at[r] = "starting"
    /\ pw' = NewDriver /\ alive' = alive \cup {NewDriver} /\ started' = TRUE
    /\ startLock' = IF startLock = r THEN None ELSE startLock
    /\ Go(r, "begin")
    /\ Quietly /\ UNCHANGED <<restartLock, job, doc>>

\* _restart_driver: whoever gets the lock first stops and starts the driver;
\* a render whose driver was already replaced just tries again.
RestartLocked(r) ==
    /\ at[r] = "restart" /\ restartLock = None
    /\ \/ /\ pw # job[r].drv
          /\ Attempt(r, pw) /\ UNCHANGED <<restartLock, alive>>
       \/ /\ pw = job[r].drv
          /\ Go(r, "restarting") /\ restartLock' = r /\ alive' = alive \ {pw}
          /\ UNCHANGED job
    /\ Quietly /\ UNCHANGED <<started, startLock, pw, doc>>

Restarts(r) ==
    /\ at[r] = "restarting"
    /\ pw' = NewDriver /\ alive' = alive \cup {NewDriver}
    /\ restartLock' = None /\ Attempt(r, NewDriver)
    /\ Quietly /\ UNCHANGED <<started, startLock, doc>>

\* The driver process dies on a page.
DriverDies(d) ==
    /\ deaths < MaxDeaths /\ d \in alive
    /\ deaths' = deaths + 1 /\ alive' = alive \ {d}
    /\ UNCHANGED <<mode, faults, started, startLock, pw, restartLock, at, job, doc>>

\* SharedRenderer.close, BqlBrowserTier.close: at shutdown, after the captures.
Close ==
    /\ started /\ \A r \in Renders : at[r] \in Ended
    /\ started' = FALSE /\ alive' = alive \ {pw}
    /\ Quietly /\ UNCHANGED <<startLock, pw, restartLock, at, job, doc>>

-----------------------------------------------------------------------------
(* From the call to a page that is ready to load. *)

\* A failure of _render.  When the driver is gone, render restarts it and
\* tries once more with a new session; anything else is the caller's.
Fails(r, why) ==
    IF why = "gone" /\ ~job[r].again
    THEN /\ Go(r, "restart") /\ Doc(r, FreshDoc)
         /\ Job(r, [job[r] EXCEPT !.again = TRUE, !.use = 0, !.tries = 0])
    ELSE /\ Go(r, "raised") /\ Doc(r, [FreshDoc EXCEPT !.err = why])
         /\ Job(r, [job[r] EXCEPT !.use = 0, !.tries = 0])

\* Renderer.render remembers the driver it starts with.  BrowserQL's unblock
\* comes first on the cloud tier.
Begin(r) ==
    /\ at[r] = "begin"
    /\ Job(r, [FreshJob EXCEPT !.drv = pw, !.use = pw, !.unblocked = job[r].unblocked + 1])
    /\ Go(r, "connect")
    /\ Quietly /\ UNCHANGED <<driverVars, doc>>

\* _unblock raises: no capacity, a challenge that was not passed, or any other
\* answer.
UnblockFails(r) ==
    /\ at[r] = "begin" /\ Attached
    /\ Go(r, "raised") /\ Doc(r, [FreshDoc EXCEPT !.err = "refused"])
    /\ AtFault /\ UNCHANGED <<driverVars, job>>

Connects(r) ==
    /\ at[r] = "connect" /\ Up(r)
    /\ Go(r, "prepare") /\ Job(r, [job[r] EXCEPT !.tries = 0])
    /\ Quietly /\ UNCHANGED <<driverVars, doc>>

FaultConnectFails(r) ==
    /\ at[r] = "connect"
    /\ IF Up(r) THEN AtFault ELSE Quietly
    /\ Go(r, "backoff") /\ UNCHANGED <<driverVars, job, doc>>

\* _connect backs off and tries again; attaching to a handed-over browser is
\* tried once.
ConnectFails(r) ==
    /\ at[r] = "connect"
    /\ IF Up(r) THEN AtFault ELSE Quietly
    /\ IF Attached \/ job[r].tries + 1 >= ConnectTries
       THEN Fails(r, IF Up(r) THEN "busy" ELSE "gone")
       ELSE /\ Go(r, "backoff") /\ Job(r, [job[r] EXCEPT !.tries = @ + 1])
            /\ UNCHANGED doc
    /\ UNCHANGED driverVars

\* The next attempt goes through the driver of that moment, not of this render.
BacksOff(r) ==
    /\ at[r] = "backoff" /\ Attempt(r, pw)
    /\ Quietly /\ UNCHANGED <<driverVars, doc>>

\* The context, the page, its handlers and the guard of the exclusions.  A
\* handed-over page may already have landed on an excluded URL.
Prepares(r) ==
    /\ at[r] = "prepare" /\ Up(r)
    /\ \/ /\ ~Attached /\ Go(r, "navigate") /\ UNCHANGED doc /\ Quietly
       \/ /\ Attached /\ Go(r, "challenge") /\ Quietly
          /\ Doc(r, [doc[r] EXCEPT !.page = "site", !.polls = 0, !.limit = ChallengePolls])
       \/ /\ Attached /\ Go(r, "challenge") /\ AtFault
          /\ Doc(r, [doc[r] EXCEPT !.page = "excludedUrl", !.polls = 0, !.limit = ChallengePolls])
    /\ UNCHANGED <<driverVars, job>>

PrepareFails(r) ==
    /\ at[r] = "prepare"
    /\ \/ ~Up(r) /\ Fails(r, "gone") /\ Quietly
       \/ Up(r) /\ Fails(r, "broken") /\ AtFault
    /\ UNCHANGED driverVars

-----------------------------------------------------------------------------
(* The page, on its own. *)

\* The document at an ordinary or an excluded URL.
Live(d) == d.page \in {"site", "excludedUrl"}

\* Document d after its page has moved to another one.
MovedTo(d, page) ==
    [d EXCEPT !.page = page,
              !.slipped = @ \/ (d.page = "excludedUrl" /\ page # "excludedUrl" /\ d.url = None)
                            \/ (page = "excludedUrl" /\ d.url # None)]

FaultBlocked(r) ==
    /\ at[r] \in OnPage /\ Up(r) /\ Live(doc[r])
    /\ Doc(r, MovedTo(doc[r], "blocked"))
    /\ AtFault /\ UNCHANGED <<driverVars, at, job>>

\* on_failed: a later navigation of the main frame fails; Chrome commits its
\* error page a moment after the event.
NavigationFails(r) ==
    /\ at[r] \in OnPage /\ Up(r) /\ Live(doc[r]) /\ ~doc[r].nav
    /\ Doc(r, [doc[r] EXCEPT !.nav = TRUE])
    /\ AtFault /\ UNCHANGED <<driverVars, at, job>>

ErrorPageShows(r) ==
    /\ at[r] \in OnPage /\ Up(r) /\ Live(doc[r]) /\ doc[r].nav
    /\ Doc(r, MovedTo(doc[r], "error"))
    /\ Quietly /\ UNCHANGED <<driverVars, at, job>>

\* on_response: a navigation of the main frame to another URL is answered, after
\* a failed one or from the excluded URL on which a page was handed over.
NavigationAnswered(r) ==
    /\ at[r] \in OnPage /\ Up(r) /\ (doc[r].nav \/ doc[r].page = "excludedUrl")
    /\ Doc(r, [MovedTo(doc[r], "site") EXCEPT !.nav = FALSE])
    /\ Quietly /\ UNCHANGED <<driverVars, at, job>>

\* _guard: the main frame is about to load an excluded URL.  The mark is set
\* before the request is failed, so before the DOM can show it.
Blocked(r) ==
    /\ at[r] \in OnPage /\ Up(r) /\ Live(doc[r])
    /\ Doc(r, [MovedTo(doc[r], "blocked") EXCEPT !.excl = TRUE])
    /\ AtFault /\ UNCHANGED <<driverVars, at, job>>

\* history.pushState and replaceState: page.url changes with no request, so no
\* handler hears of it.
HistoryMoves(r) ==
    /\ at[r] \in OnPage /\ Up(r)
    /\ \/ /\ doc[r].page = "site" /\ AtFault
          /\ Doc(r, MovedTo(doc[r], "excludedUrl"))
       \/ /\ doc[r].page = "excludedUrl" /\ Quietly
          /\ Doc(r, MovedTo(doc[r], "site"))
    /\ UNCHANGED <<driverVars, at, job>>

-----------------------------------------------------------------------------
(* adaptive_render: load, wait out a challenge, explore, read the DOM. *)

\* adaptive_render ends: by its own return, an exception, or the render cap.
Lands(r, d, why) == Go(r, "landed") /\ Doc(r, [d EXCEPT !.err = why, !.polls = 0, !.limit = 0])

\* page.goto; it raises for a failed or a blocked navigation.
Navigates(r) ==
    /\ at[r] = "navigate" /\ Up(r)
    /\ \/ /\ Go(r, "challenge") /\ Quietly
          /\ Doc(r, [doc[r] EXCEPT !.page = "site", !.polls = 0, !.limit = ChallengePolls])
       \/ /\ doc[r].page = "blank" /\ AtFault
          /\ \/ Lands(r, [doc[r] EXCEPT !.page = "site", !.nav = TRUE], "navigation")
             \/ Lands(r, [doc[r] EXCEPT !.page = "blocked", !.excl = TRUE], "navigation")
    /\ UNCHANGED <<driverVars, job>>

\* wait_out_challenge ends and the page is explored, or read as it is.
Waited(r, place) ==
    /\ at[r] = "challenge" /\ Go(r, place)
    /\ Doc(r, [doc[r] EXCEPT !.polls = 0, !.limit = IF place = "parsed" THEN Rounds ELSE 0])

ChallengeClears(r) ==
    /\ Up(r) /\ Waited(r, "parsed")
    /\ Quietly /\ UNCHANGED <<driverVars, job>>

ChallengeDenied(r) ==
    /\ Up(r) /\ Waited(r, "final")
    /\ AtFault /\ UNCHANGED <<driverVars, job>>

\* A poll that finds the page challenged; so does one that fails.
ChallengeStays(r) ==
    /\ at[r] = "challenge"
    /\ IF Up(r) THEN AtFault ELSE Quietly
    /\ \/ doc[r].polls + 1 < doc[r].limit /\ Doc(r, [doc[r] EXCEPT !.polls = @ + 1]) /\ UNCHANGED at
       \/ doc[r].polls + 1 >= doc[r].limit /\ Waited(r, "final")
    /\ UNCHANGED <<driverVars, job>>

\* Observed progress extends the wait by another ChallengePolls, within
\* ProgressPolls of all.
ChallengeProgresses(r) ==
    LET elapsed == doc[r].polls + 1
        extended == elapsed + ChallengePolls
        limit == IF extended < ProgressPolls THEN extended ELSE ProgressPolls
    IN  /\ at[r] = "challenge" /\ mode = "local" /\ Up(r)
        /\ elapsed < limit
        /\ Doc(r, [doc[r] EXCEPT !.polls = elapsed, !.limit = limit])
        /\ Quietly /\ UNCHANGED <<driverVars, at, job>>

\* snap: the lines of the document are added to those collected.
Snapped(d) == [d EXCEPT !.lines = @ \/ d.page = "excludedUrl"]

\* _explore begins: the first snapshot and, on the cloud tier, the early DOM.
Parses(r) ==
    /\ at[r] = "parsed" /\ Up(r)
    /\ Go(r, "explore")
    /\ Doc(r, IF Attached
              THEN [Snapped(doc[r]) EXCEPT !.html = doc[r].page, !.state = TRUE]
              ELSE Snapped(doc[r]))
    /\ Quietly /\ UNCHANGED <<driverVars, job>>

\* A settle: snapshots while the page changes, up to its cap.
Settles(r) ==
    /\ at[r] = "explore" /\ Up(r) /\ doc[r].polls < doc[r].limit
    /\ Doc(r, [Snapped(doc[r]) EXCEPT !.polls = @ + 1])
    /\ Quietly /\ UNCHANGED <<driverVars, at, job>>

\* _explore settles after parsing, while an app boots, after consent, at every
\* scroll and while placeholders show; its caps allow Rounds of them in all.
Explored(r) ==
    /\ at[r] = "explore" /\ Up(r)
    /\ Go(r, "final") /\ Doc(r, [doc[r] EXCEPT !.polls = 0, !.limit = 0])
    /\ Quietly /\ UNCHANGED <<driverVars, job>>

\* PageBusy ends the exploration, not the render: what the page has is read.
\* The snapshot counts as taken, and the early DOM may already be there without
\* its state.
PageBusy(r) ==
    /\ at[r] \in {"parsed", "explore"} /\ Up(r)
    /\ Go(r, "final")
    /\ \E early \in {doc[r].html} \cup (IF at[r] = "parsed" /\ Attached THEN {doc[r].page} ELSE {}) :
           Doc(r, [Snapped(doc[r]) EXCEPT !.polls = 0, !.limit = 0, !.html = early])
    /\ AtFault /\ UNCHANGED <<driverVars, job>>

\* The final reads: DOM, then state, then text.
FinalReads(r) ==
    /\ at[r] = "final" /\ Up(r)
    /\ Lands(r, [Snapped(doc[r]) EXCEPT !.html = doc[r].page, !.state = TRUE, !.text = TRUE], None)
    /\ Quietly /\ UNCHANGED <<driverVars, job>>

\* A busy page keeps the DOM it gave, from the first reads or from early on.
FinalBusy(r) ==
    /\ at[r] = "final" /\ Up(r)
    /\ \/ doc[r].html = None /\ Lands(r, doc[r], "busy")
       \/ doc[r].html # None /\ Lands(r, doc[r], None)
       \/ \E read \in BOOLEAN :
              Lands(r, [doc[r] EXCEPT !.html = doc[r].page, !.state = @ \/ read], None)
    /\ AtFault /\ UNCHANGED <<driverVars, job>>

\* Any other exception, and the cap of wait_for: an exception of the page
\* needs no fault when the driver is gone.  (wait_out_challenge swallows it.)
CutOff(r) ==
    /\ at[r] \in Rendering
    /\ \/ Up(r) /\ AtFault /\ Lands(r, doc[r], "broken")
       \/ ~Up(r) /\ at[r] # "challenge" /\ Quietly /\ Lands(r, doc[r], "gone")
    /\ UNCHANGED <<driverVars, job>>

-----------------------------------------------------------------------------
(* What is kept of it. *)

\* _render returns.  An error that says the driver is gone restarts it like an
\* exception does; BqlBrowserTier tries a failed navigation once more.
Returns(r, d) ==
    IF d.err = "gone" /\ ~job[r].again
    THEN Fails(r, "gone")
    ELSE /\ IF Attached /\ d.url \in {"error", "blocked"} /\ job[r].unblocked < 2
            THEN Go(r, "begin") /\ Doc(r, FreshDoc)
            ELSE /\ Go(r, "returned")
                 /\ Doc(r, [FreshDoc EXCEPT !.kept = d.kept, !.lines = d.lines, !.excl = d.excl,
                                            !.err = d.err, !.slipped = d.slipped])
         /\ Job(r, [job[r] EXCEPT !.use = 0])

\* final_url is taken before the response headers are awaited.
ReadsUrl(r) ==
    /\ at[r] = "landed" /\ doc[r].url = None
    /\ Doc(r, [doc[r] EXCEPT !.url = doc[r].page])
    /\ Quietly /\ UNCHANGED <<driverVars, at, job>>

\* An excluded URL or a failed navigation keeps nothing; otherwise the DOM of
\* the session is kept, and what it lacks is read now.
Decides(r) ==
    LET d == [doc[r] EXCEPT !.excl = @ \/ doc[r].url = "excludedUrl"]
        failed == d.nav \/ d.url \in {"error", "blocked"}
    IN  /\ at[r] = "landed" /\ d.url # None
        /\ \/ /\ d.excl \/ failed
              /\ Returns(r, [d EXCEPT !.err = IF d.excl THEN "excluded" ELSE "navigation",
                                      !.lines = FALSE])
           \/ /\ ~d.excl /\ ~failed
              /\ Go(r, "reread") /\ Doc(r, [d EXCEPT !.kept = d.html]) /\ UNCHANGED job
        /\ Quietly /\ UNCHANGED driverVars

\* The tiers that intercept keep the DOM whose state they have; the others
\* always read the page again.
KeepsDom(d) == Intercept /\ d.state

\* read: bounded; a DOM that cannot be read leaves nothing.
Rereads(r) ==
    LET d == doc[r]
        Read(dom) == IF KeepsDom(d) THEN d.kept ELSE dom
    IN  /\ at[r] = "reread"
        /\ \/ /\ KeepsDom(d) /\ d.text /\ Quietly
              /\ Returns(r, d)
           \/ /\ ~(KeepsDom(d) /\ d.text) /\ Up(r) /\ Quietly
              /\ Returns(r, [d EXCEPT !.kept = Read(d.page),
                                      !.lines = @ \/ (~d.text /\ d.page = "excludedUrl")])
           \/ /\ ~(KeepsDom(d) /\ d.text)
              /\ IF Up(r) THEN AtFault ELSE Quietly
              /\ Returns(r, [d EXCEPT !.kept = Read(None),
                                !.err = IF @ # None THEN @ ELSE IF Up(r) THEN "unread" ELSE "gone"])
        /\ UNCHANGED driverVars

\* A cancellation: locks are released, the rest is skipped.  Of a driver whose
\* start is cancelled the Renderer knows nothing; the process that Playwright may
\* leave behind is not in alive.
Stopped(r) ==
    /\ Go(r, "cancelled") /\ Doc(r, FreshDoc) /\ Job(r, [job[r] EXCEPT !.use = 0, !.tries = 0])
    /\ startLock' = IF startLock = r THEN None ELSE startLock
    /\ restartLock' = IF restartLock = r THEN None ELSE restartLock
    /\ UNCHANGED <<started, pw, alive>>

\* The capture is cancelled.
Cancelled(r) == at[r] \notin Ended \cup {"idle"} /\ Stopped(r) /\ AtFault

\* The awaits that have no timeout of their own: the start of a driver, and the
\* calls that prepare the page.  The budget of the capture ends them.
Unbounded == {"starting", "restarting", "prepare"}

TimesOut(r) == at[r] \in Unbounded /\ Stopped(r) /\ Quietly

-----------------------------------------------------------------------------
Step(r) ==
    \/ Enter(r) \/ StartLocked(r) \/ RestartLocked(r)
    \/ Begin(r) \/ UnblockFails(r) \/ Connects(r) \/ ConnectFails(r) \/ BacksOff(r)
    \/ Navigates(r) \/ ChallengeClears(r) \/ ChallengeStays(r)
    \/ ChallengeDenied(r) \/ ChallengeProgresses(r)
    \/ Parses(r) \/ Settles(r) \/ Explored(r) \/ PageBusy(r) \/ FinalReads(r) \/ FinalBusy(r)
    \/ CutOff(r) \/ ReadsUrl(r) \/ Decides(r) \/ Rereads(r)

\* What ends an unbounded await, if anything but the budget does.
Answer(r) == Starts(r) \/ Restarts(r) \/ Prepares(r) \/ PrepareFails(r)

Page(r) ==
    \/ NavigationFails(r) \/ ErrorPageShows(r) \/ NavigationAnswered(r)
    \/ Blocked(r) \/ HistoryMoves(r)

Next ==
    \/ \E r \in Renders : Step(r) \/ Answer(r) \/ TimesOut(r) \/ Page(r) \/ Cancelled(r)
    \/ \E d \in alive : DriverDies(d)
    \/ Close

\* Every await of a render is bounded: by a timeout or the driver's answer, and
\* the unbounded ones by the budget of the capture (asyncio.timeout).
Spec ==
    Init /\ [][Next]_vars /\ \A r \in Renders : WF_vars(Step(r)) /\ WF_vars(TimesOut(r))

-----------------------------------------------------------------------------
(* Properties. *)

\* A SharedRenderer has one driver, whatever renders start, lose and restart it
\* together, and none after close: "One Playwright driver for every capture on
\* this process" (SharedRenderer).  The cloud tier starts without the lock, and a
\* process left behind by a cancelled start is not counted.
OneDriver ==
    mode # "cloud" =>
        /\ Cardinality(alive) <= 1
        /\ (pw # 0 /\ ~started) => alive = {}

\* A render fails because the driver is gone only when drivers died twice: one
\* death is repaired by a restart that no other render's restart undoes
\* (Renderer.render, _restart_driver).
OneDeathSurvived ==
    \A r \in Renders : (at[r] \in {"returned", "raised"} /\ doc[r].err = "gone") => deaths >= 2

\* Renders that share a renderer share one driver, and survive the loss of one together.
DriverShared == OneDriver /\ OneDeathSurvived

\* "No request to an excluded URL leaves the page, and a page that lands on one
\* keeps nothing" (Renderer.render): the DOM of a blocked main frame is passed on
\* only with the mark that makes the capture discard it, even when the page moves
\* there during the last reads; and no DOM and no line of an excluded URL is kept
\* unmarked, unless the page left that URL before page.url was read, or went to
\* it without a request afterwards.
ExcludedKeepsNothing ==
    \A r \in Renders : at[r] \in {"reread", "returned"} /\ ~doc[r].excl =>
        /\ doc[r].kept # "blocked"
        /\ doc[r].kept = "excludedUrl" \/ doc[r].lines => doc[r].slipped

\* The same sentence without the exception.  Refuted (RenderExcluded.cfg): a
\* handed-over page on an excluded URL gives its first snapshot and its early
\* DOM, moves on to a permitted URL, and both are kept under that URL.
NothingOfExcludedKept ==
    \A r \in Renders : at[r] = "returned" /\ ~doc[r].excl =>
        doc[r].kept \notin {"blocked", "excludedUrl"} /\ ~doc[r].lines

\* Every render ends: connection attempts, challenge waits, explorations, locks
\* and the one retry are all bounded.
RendersEnd == \A r \in Renders : at[r] # "idle" ~> at[r] \in Ended

=============================================================================
