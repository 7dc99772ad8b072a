--------------------------- MODULE RenderingProofs ---------------------------
(***************************************************************************)
(* Proofs about Rendering, for any number of renders that share a driver,  *)
(* any of its tiers and any bounds: there is one driver, one death of it   *)
(* is survived by every render, and nothing is kept of an excluded page.   *)
(***************************************************************************)
EXTENDS Rendering, FiniteSetTheorems, TLAPS

\* A render that has its driver, from the connection to its result.
Connected == {"connect", "backoff", "prepare"} \cup OnPage
Started == {"begin", "restart", "restarting"} \cup Connected
Shown == {"none", "blank", "site", "error", "blocked", "excludedUrl"}
Errors == {"none", "gone", "busy", "broken", "refused", "navigation", "excluded", "unread"}

Places == {"idle", "locking", "starting"} \cup Started \cup Ended

Jobs == [drv : Nat, use : Nat, again : BOOLEAN, tries : Nat, unblocked : Nat]
Docs == [page : Shown, nav : BOOLEAN, excl : BOOLEAN, html : Shown, state : BOOLEAN,
         text : BOOLEAN, lines : BOOLEAN, kept : Shown, url : Shown, polls : Nat, limit : Nat,
         err : Errors, slipped : BOOLEAN]

\* The type invariant.
TypeOK ==
    /\ mode \in {"managed", "local", "cloud"} /\ started \in BOOLEAN
    /\ startLock \in Renders \cup {None} /\ restartLock \in Renders \cup {None}
    /\ pw \in Nat /\ alive \subseteq 1..pw
    /\ deaths \in Nat /\ faults \in Nat
    /\ at \in [Renders -> Places]
    /\ job \in [Renders -> Jobs]
    /\ doc \in [Renders -> Docs]

\* The drivers: with the locks of SharedRenderer and Renderer, nothing starts
\* a driver while another one runs.
DriverInv ==
    /\ started => pw >= 1
    /\ ~started /\ pw # 0 => \A r \in Renders : at[r] \in Ended
    /\ \A r \in Renders : at[r] \in Started => started
    /\ \A r \in Renders : at[r] = "restarting" => restartLock = r
    /\ mode # "cloud" =>
          /\ alive \subseteq {pw}
          /\ ~started => alive = {}
          /\ \A r \in Renders :
                /\ at[r] = "starting" => startLock = r /\ ~started
                /\ at[r] = "restarting" => alive = {}

\* Nothing but a death takes a driver away, until the renderer is closed.
Dead == (1..pw) \ alive
DeathInv ==
    started => /\ Dead # {} => deaths >= 1
               /\ \A d, e \in Dead : d # e => deaths >= 2

\* What a render at a place knows of drivers: the one it began with is dead
\* when it asks for another, and the one it uses then is another one.
JobOK(place, j, err) ==
    /\ place \in Connected =>
          /\ j.drv >= 1 /\ j.drv <= j.use /\ j.use <= pw
          /\ j.again => j.drv \notin alive /\ j.drv < j.use
          /\ mode = "cloud" /\ ~j.again => j.drv = j.use
    /\ place = "backoff" => mode # "cloud"
    /\ place \in {"restart", "restarting"} =>
          j.again /\ j.drv >= 1 /\ j.drv <= pw /\ j.drv \notin alive
    /\ err = "gone" =>
          /\ place \in OnPage \cup {"returned", "raised"}
          /\ place \in OnPage => j.use \notin alive
          /\ place \in {"returned", "raised"} => deaths >= 2

\* What a render has collected of an excluded URL, and whether it will find out:
\* page.url still shows that URL, or showed it when it was read.
Traces(d) == d.html = "excludedUrl" \/ d.kept = "excludedUrl" \/ d.lines
Showing(d) == IF d.url = "none" THEN d.page = "excludedUrl" ELSE d.url = "excludedUrl"

\* What a render at a place may have of an excluded page: only with the mark,
\* or while it will find out.
DocOK(place, d) ==
    /\ d.page = "blocked" => d.excl
    /\ d.html = "blocked" => d.excl
    /\ d.kept = "blocked" => d.excl
    /\ Traces(d) => d.excl \/ d.slipped \/ (place \in OnPage \ {"reread"} /\ Showing(d))
    /\ d.url # "none" /\ d.page = "excludedUrl" =>
          d.excl \/ d.slipped \/ (place = "landed" /\ d.url = "excludedUrl")
    /\ place \in {"explore", "final", "landed", "reread"} \/ d.html = "none"
    /\ place \in {"explore", "final", "landed", "reread", "returned"} \/ ~d.lines
    /\ place \in {"landed", "reread"} \/ d.url = "none"
    /\ place = "reread" => d.url # "none"
    /\ place \in {"reread", "returned"} \/ d.kept = "none"

RendersInv == \A r \in Renders : JobOK(at[r], job[r], doc[r].err) /\ DocOK(at[r], doc[r])

Inv == DriverInv /\ DeathInv /\ RendersInv

-----------------------------------------------------------------------------
(* Steps of one render that leave the drivers alone.                       *)

\* Render r goes to a place, with a job and a document.
Moves(r, place, j, d) ==
    /\ at' = [at EXCEPT ![r] = place]
    /\ job' = [job EXCEPT ![r] = j]
    /\ doc' = [doc EXCEPT ![r] = d]

\* It goes somewhere where it is in order.
Moved(r) ==
    \E place \in (Started \ {"restarting"}) \cup Ended, j \in Jobs, d \in Docs :
        Moves(r, place, j, d) /\ JobOK(place, j, d.err) /\ DocOK(place, d)

\* What a render had before its step.
LEMMA Had ==
    ASSUME TypeOK, NEW r \in Renders
    PROVE  /\ at[r] \in Places /\ job[r] \in Jobs /\ doc[r] \in Docs
           /\ at = [at EXCEPT ![r] = at[r]]
           /\ job = [job EXCEPT ![r] = job[r]]
           /\ doc = [doc EXCEPT ![r] = doc[r]]
  BY DEF TypeOK

\* Documents and jobs at the beginning are well formed.
LEMMA FreshType == FreshDoc \in Docs /\ FreshJob \in Jobs
  BY DEF FreshDoc, Docs, FreshJob, Jobs, Shown, Errors, None

\* A render that moves to where it is in order keeps the whole in order.
LEMMA MovedInv ==
    ASSUME TypeOK, Inv, NEW r \in Renders, at[r] \in Started, Moved(r),
           UNCHANGED <<mode, deaths, driverVars>>, faults' \in Nat
    PROVE  TypeOK' /\ Inv'
  <1>1. PICK place \in (Started \ {"restarting"}) \cup Ended, j \in Jobs, d \in Docs :
            Moves(r, place, j, d) /\ JobOK(place, j, d.err) /\ DocOK(place, d)
    BY DEF Moved
  <1>2. /\ at' \in [Renders -> Places] /\ job' \in [Renders -> Jobs] /\ doc' \in [Renders -> Docs]
        /\ at'[r] = place /\ job'[r] = j /\ doc'[r] = d
        /\ \A q \in Renders \ {r} : at'[q] = at[q] /\ job'[q] = job[q] /\ doc'[q] = doc[q]
    BY <1>1 DEF Moves, TypeOK, Places
  <1>3. TypeOK'
    BY <1>2 DEF TypeOK, driverVars
  <1>4. DriverInv'
    BY <1>2 DEF Inv, DriverInv, driverVars, Started, Connected, OnPage, Rendering, Ended
  <1>5. DeathInv'
    BY DEF Inv, DeathInv, Dead, driverVars
  <1>6. RendersInv'
    <2> SUFFICES ASSUME NEW q \in Renders
                 PROVE  JobOK(at[q], job[q], doc[q].err)' /\ DocOK(at[q], doc[q])'
      BY DEF RendersInv
    <2>1. CASE q = r
      BY <1>1, <1>2, <2>1 DEF JobOK, DocOK, Traces, Showing, driverVars
    <2>2. CASE q # r
      BY <1>2, <2>2 DEF Inv, RendersInv, JobOK, DocOK, Traces, Showing, driverVars
    <2> QED
      BY <2>1, <2>2
  <1> QED
    BY <1>3, <1>4, <1>5, <1>6 DEF Inv

\* A render that began again after a death uses another driver: when that one
\* is gone too, two have died.
LEMMA SecondDeath ==
    ASSUME TypeOK, Inv, NEW r \in Renders, at[r] \in Connected, job[r].again,
           job[r].use \notin alive
    PROVE  deaths >= 2
  <1>1. job[r].drv \in Nat /\ job[r].use \in Nat /\ pw \in Nat
    BY Had DEF TypeOK, Jobs
  <1>2. job[r].drv \in Dead /\ job[r].use \in Dead /\ job[r].drv # job[r].use
    BY <1>1 DEF Inv, RendersInv, JobOK, Dead
  <1>3. started
    BY DEF Inv, DriverInv, Started
  <1> QED
    BY <1>2, <1>3 DEF Inv, DeathInv

\* When the driver that a render uses is gone, so is the one it began with.
LEMMA FirstDeath ==
    ASSUME TypeOK, Inv, NEW r \in Renders, at[r] \in Connected, job[r].use \notin alive
    PROVE  job[r].drv \notin alive
  <1>1. job[r].drv \in Nat /\ job[r].use \in Nat /\ pw \in Nat
    BY Had DEF TypeOK, Jobs
  <1>2. CASE mode = "cloud"
    BY <1>2 DEF Inv, RendersInv, JobOK
  <1>3. CASE mode # "cloud"
    BY <1>1, <1>3 DEF Inv, RendersInv, JobOK, DriverInv
  <1> QED
    BY <1>2, <1>3

\* A failure sends the render to the restart of the driver, or to its caller.
LEMMA FailsMoved ==
    ASSUME TypeOK, Inv, NEW r \in Renders, at[r] \in Connected,
           NEW why \in Errors \ {"none"}, why = "gone" => job[r].use \notin alive,
           Fails(r, why)
    PROVE  Moved(r)
  <1>a. at[r] \in Places /\ job[r] \in Jobs /\ doc[r] \in Docs
    BY Had
  <1>1. CASE why = "gone" /\ ~job[r].again
    <2> DEFINE j == [job[r] EXCEPT !.again = TRUE, !.use = 0, !.tries = 0]
    <2>1. j \in Jobs /\ j.again /\ j.drv = job[r].drv
      BY <1>a DEF Jobs
    <2>2. FreshDoc.err = "none" /\ DocOK("restart", FreshDoc)
      BY DEF FreshDoc, DocOK, Traces, Showing, None
    <2>3. JobOK("restart", j, FreshDoc.err)
      <3>1. j.drv >= 1 /\ j.drv <= pw /\ j.drv \notin alive
        BY <1>1, <1>a, <2>1, FirstDeath DEF Inv, RendersInv, JobOK, TypeOK, Jobs
      <3> QED
        BY <2>1, <2>2, <3>1 DEF JobOK, Connected, OnPage, Rendering
    <2> QED
      BY <1>1, <2>1, <2>2, <2>3, FreshType
         DEF Fails, Moved, Moves, Go, Doc, Job, Started
  <1>2. CASE ~(why = "gone" /\ ~job[r].again)
    <2> DEFINE j == [job[r] EXCEPT !.use = 0, !.tries = 0]
               d == [FreshDoc EXCEPT !.err = why]
    <2>1. j \in Jobs
      BY <1>a DEF Jobs
    <2>2. d \in Docs /\ d.err = why /\ DocOK("raised", d)
      BY FreshType DEF Docs, FreshDoc, DocOK, Traces, Showing, None
    <2>3. JobOK("raised", j, d.err)
      BY <1>2, <2>2, SecondDeath DEF JobOK, Connected, OnPage, Rendering
    <2> QED
      BY <1>2, <2>1, <2>2, <2>3 DEF Fails, Moved, Moves, Go, Doc, Job, Ended
  <1> QED
    BY <1>1, <1>2

\* A result that is in order is returned, repeated or repaired in order.
LEMMA ReturnsMoved ==
    ASSUME TypeOK, Inv, NEW r \in Renders, at[r] \in OnPage, NEW d \in Docs,
           d.err = "gone" => job[r].use \notin alive,
           d.kept = "blocked" => d.excl,
           d.kept = "excludedUrl" \/ d.lines => d.excl \/ d.slipped,
           Returns(r, d)
    PROVE  Moved(r)
  <1>a. at[r] \in Places /\ job[r] \in Jobs /\ at[r] \in Connected
    BY Had DEF Connected
  <1> DEFINE j == [job[r] EXCEPT !.use = 0]
             e == [FreshDoc EXCEPT !.kept = d.kept, !.lines = d.lines, !.excl = d.excl,
                                   !.err = d.err, !.slipped = d.slipped]
  <1>b. j \in Jobs
    BY <1>a DEF Jobs
  <1>1. CASE d.err = "gone" /\ ~job[r].again
    <2>1. Fails(r, "gone")
      BY <1>1 DEF Returns
    <2> QED
      BY <1>1, <1>a, <2>1, FailsMoved DEF Errors
  <1>2. CASE ~(d.err = "gone" /\ ~job[r].again)
    <2>1. \/ Go(r, "begin") /\ Doc(r, FreshDoc) /\ Job(r, j)
          \/ Go(r, "returned") /\ Doc(r, e) /\ Job(r, j)
      BY <1>2 DEF Returns
    <2>2. CASE Go(r, "begin") /\ Doc(r, FreshDoc) /\ Job(r, j)
      <3>1. DocOK("begin", FreshDoc) /\ JobOK("begin", j, FreshDoc.err)
        BY DEF FreshDoc, DocOK, Traces, Showing, JobOK, None, Connected, OnPage, Rendering
      <3> QED
        BY <1>b, <2>2, <3>1, FreshType DEF Moved, Moves, Go, Doc, Job, Started
    <2>3. CASE Go(r, "returned") /\ Doc(r, e) /\ Job(r, j)
      <3>0. /\ d.kept \in Shown /\ d.lines \in BOOLEAN /\ d.excl \in BOOLEAN
            /\ d.err \in Errors /\ d.slipped \in BOOLEAN
        BY DEF Docs
      <3>a. e \in Docs
        BY <3>0, FreshType DEF Docs
      <3>b. /\ e.page = "blank" /\ e.html = "none" /\ e.url = "none" /\ e.kept = d.kept
            /\ e.lines = d.lines /\ e.excl = d.excl /\ e.err = d.err /\ e.slipped = d.slipped
        BY DEF FreshDoc, None
      <3>1. e \in Docs /\ e.err = d.err /\ DocOK("returned", e)
        BY <3>a, <3>b DEF DocOK, Traces
      <3>2. JobOK("returned", j, e.err)
        BY <1>2, <1>a, <3>1, SecondDeath DEF JobOK, Connected, OnPage, Rendering
      <3> QED
        BY <1>b, <2>3, <3>1, <3>2 DEF Moved, Moves, Go, Doc, Job, Ended
    <2> QED
      BY <2>1, <2>2, <2>3
  <1> QED
    BY <1>1, <1>2

-----------------------------------------------------------------------------
(* The steps of a render on its page.                                      *)

\* A render that stays on its page, with a document that is in order.
LEMMA PageMoved ==
    ASSUME TypeOK, Inv, NEW r \in Renders, NEW place \in OnPage, NEW d \in Docs,
           at[r] \in Connected, DocOK(place, d), d.err = "gone" => job[r].use \notin alive,
           Go(r, place), Doc(r, d), UNCHANGED job
    PROVE  Moved(r)
  <1>1. job[r] \in Jobs /\ job' = [job EXCEPT ![r] = job[r]]
    BY Had
  <1>2. JobOK(place, job[r], d.err)
    BY DEF Inv, RendersInv, JobOK, OnPage, Rendering, Connected
  <1>3. place \in (Started \ {"restarting"}) \cup Ended
    BY DEF Started, Connected, OnPage, Rendering
  <1> QED
    BY <1>1, <1>2, <1>3 DEF Moved, Moves, Go, Doc

\* A snapshot and a move of the page leave a document well formed.
LEMMA DocSteps ==
    ASSUME NEW d \in Docs, NEW page \in Shown
    PROVE  /\ Snapped(d) \in Docs
           /\ MovedTo(d, page) \in Docs
  <1>1. (d.lines \/ d.page = "excludedUrl") \in BOOLEAN
    OBVIOUS
  <1>2. Snapped(d) \in Docs
    BY <1>1 DEF Docs, Snapped
  <1>3. (d.slipped \/ (d.page = "excludedUrl" /\ page # "excludedUrl" /\ d.url = None)
                   \/ (page = "excludedUrl" /\ d.url # None)) \in BOOLEAN
    OBVIOUS
  <1>4. MovedTo(d, page) \in Docs
    BY <1>3 DEF Docs, MovedTo
  <1> QED
    BY <1>2, <1>4

\* Each step of a render on its page leaves it in order.
LEMMA PageSteps ==
    ASSUME TypeOK, Inv, NEW r \in Renders,
           \/ Navigates(r) \/ ChallengeClears(r) \/ ChallengeStays(r) \/ ChallengeDenied(r)
           \/ ChallengeProgresses(r) \/ Parses(r) \/ Settles(r) \/ Explored(r) \/ PageBusy(r)
           \/ FinalReads(r) \/ FinalBusy(r) \/ CutOff(r) \/ ReadsUrl(r) \/ Page(r)
    PROVE  Moved(r)
  <1>a. at[r] \in Places /\ job[r] \in Jobs /\ doc[r] \in Docs /\ at = [at EXCEPT ![r] = at[r]]
    BY Had
  <1>b. DocOK(at[r], doc[r])
    BY DEF Inv, RendersInv
  <1>c. at[r] \in Connected /\ doc[r].err = "gone" => job[r].use \notin alive
    BY DEF Inv, RendersInv, JobOK, Connected, OnPage, Rendering, Ended
  <1>d. doc[r].page \in Shown /\ doc[r].html \in Shown /\ doc[r].polls \in Nat
        /\ doc[r].limit \in Nat /\ doc[r].excl \in BOOLEAN /\ doc[r].url \in Shown
        /\ doc[r].lines \in BOOLEAN /\ doc[r].slipped \in BOOLEAN
    BY <1>a DEF Docs
  <1> USE DEF None
  <1>1. CASE Navigates(r)
    <2> DEFINE d1 == [doc[r] EXCEPT !.page = "site", !.polls = 0, !.limit = ChallengePolls]
               d2 == [doc[r] EXCEPT !.page = "site", !.nav = TRUE, !.err = "navigation", !.polls = 0, !.limit = 0]
               d3 == [doc[r] EXCEPT !.page = "blocked", !.excl = TRUE, !.err = "navigation", !.polls = 0, !.limit = 0]
    <2>1. d1 \in Docs /\ d2 \in Docs /\ d3 \in Docs
      BY <1>a, <1>d, RenderingAssumption DEF Docs, Shown, Errors
    <2>2. at[r] \in OnPage /\ UNCHANGED job
      BY <1>1 DEF Navigates, Lands, OnPage, Rendering
    <2>3. \/ Go(r, "challenge") /\ Doc(r, d1) /\ DocOK("challenge", d1) /\ (d1.err = "gone" => job[r].use \notin alive)
          \/ Go(r, "landed") /\ Doc(r, d2) /\ DocOK("landed", d2) /\ (d2.err = "gone" => job[r].use \notin alive)
          \/ Go(r, "landed") /\ Doc(r, d3) /\ DocOK("landed", d3) /\ (d3.err = "gone" => job[r].use \notin alive)
      BY <1>1, <1>a, <1>b, <1>c, <1>d, <2>2 DEF Navigates, Lands, Go, Doc, DocOK, Traces, Showing, Docs, Up, Attached, Connected, OnPage, Rendering, Shown
    <2> QED
      BY <2>1, <2>2, <2>3, PageMoved DEF Connected, OnPage, Rendering
  <1>2. CASE ChallengeClears(r)
    <2> DEFINE d == [doc[r] EXCEPT !.polls = 0, !.limit = Rounds]
    <2>1. d \in Docs
      BY <1>a, <1>d, RenderingAssumption DEF Docs, Shown, Errors
    <2>2. at[r] \in OnPage /\ UNCHANGED job
      BY <1>2 DEF ChallengeClears, Waited, OnPage, Rendering
    <2>3. Go(r, "parsed") /\ Doc(r, d) /\ DocOK("parsed", d) /\ (d.err = "gone" => job[r].use \notin alive)
      BY <1>2, <1>a, <1>b, <1>c, <1>d, <2>2 DEF ChallengeClears, Waited, Go, Doc, DocOK, Traces, Showing, Docs, Up, Attached, Connected, OnPage, Rendering, Shown
    <2> QED
      BY <2>1, <2>2, <2>3, PageMoved DEF Connected, OnPage, Rendering
  <1>3. CASE ChallengeStays(r)
    <2> DEFINE d1 == [doc[r] EXCEPT !.polls = @ + 1]
               d2 == [doc[r] EXCEPT !.polls = 0, !.limit = 0]
    <2>0. d1 \in Docs
      BY <1>a, <1>d DEF Docs
    <2>1. d1 \in Docs /\ d2 \in Docs
      BY <1>a, <2>0 DEF Docs
    <2>2. at[r] \in OnPage /\ UNCHANGED job
      BY <1>3 DEF ChallengeStays, Waited, OnPage, Rendering
    <2>3. \/ Go(r, at[r]) /\ Doc(r, d1) /\ DocOK(at[r], d1) /\ (d1.err = "gone" => job[r].use \notin alive)
          \/ Go(r, "final") /\ Doc(r, d2) /\ DocOK("final", d2) /\ (d2.err = "gone" => job[r].use \notin alive)
      BY <1>3, <1>a, <1>b, <1>c, <1>d, <2>2 DEF ChallengeStays, Waited, Go, Doc, DocOK, Traces, Showing, Docs, Up, Attached, Connected, OnPage, Rendering, Shown
    <2> QED
      BY <2>1, <2>2, <2>3, PageMoved DEF Connected, OnPage, Rendering
  <1>4. CASE ChallengeDenied(r)
    <2> DEFINE d == [doc[r] EXCEPT !.polls = 0, !.limit = 0]
    <2>1. d \in Docs
      BY <1>a, <1>d, RenderingAssumption DEF Docs, Shown, Errors
    <2>2. at[r] \in OnPage /\ UNCHANGED job
      BY <1>4 DEF ChallengeDenied, Waited, OnPage, Rendering
    <2>3. Go(r, "final") /\ Doc(r, d) /\ DocOK("final", d) /\ (d.err = "gone" => job[r].use \notin alive)
      BY <1>4, <1>a, <1>b, <1>c, <1>d, <2>2 DEF ChallengeDenied, Waited, Go, Doc, DocOK, Traces, Showing, Docs, Up, Attached, Connected, OnPage, Rendering, Shown
    <2> QED
      BY <2>1, <2>2, <2>3, PageMoved DEF Connected, OnPage, Rendering
  <1>5. CASE ChallengeProgresses(r)
    <2> DEFINE extended == doc[r].polls + 1 + ChallengePolls
               limit == IF extended < ProgressPolls THEN extended ELSE ProgressPolls
               d == [doc[r] EXCEPT !.polls = doc[r].polls + 1, !.limit = limit]
    <2>0. doc[r].polls + 1 \in Nat /\ limit \in Nat
      BY <1>d, RenderingAssumption
    <2>1. d \in Docs
      BY <1>a, <2>0 DEF Docs
    <2>2. DocOK(at[r], d) /\ d.err = doc[r].err
      BY <1>a, <1>b DEF DocOK, Traces, Showing, Docs
    <2>3. at[r] = "challenge" /\ Go(r, at[r]) /\ Doc(r, d) /\ UNCHANGED job
      BY <1>5, <1>a DEF ChallengeProgresses, Go, Doc
    <2> QED
      BY <1>c, <2>1, <2>2, <2>3, PageMoved DEF Connected, OnPage, Rendering
  <1>6. CASE Parses(r)
    <2> DEFINE d1 == Snapped(doc[r])
               d2 == [Snapped(doc[r]) EXCEPT !.html = doc[r].page, !.state = TRUE]
    <2>1. d1 \in Docs /\ d2 \in Docs
      BY <1>a, <1>d, DocSteps DEF Docs
    <2>2. at[r] \in OnPage /\ UNCHANGED job
      BY <1>6 DEF Parses, OnPage, Rendering
    <2>3. \/ Go(r, "explore") /\ Doc(r, d1) /\ DocOK("explore", d1) /\ (d1.err = "gone" => job[r].use \notin alive)
          \/ Go(r, "explore") /\ Doc(r, d2) /\ DocOK("explore", d2) /\ (d2.err = "gone" => job[r].use \notin alive)
      BY <1>6, <1>a, <1>b, <1>c, <1>d, <2>2 DEF Parses, Snapped, Go, Doc, DocOK, Traces, Showing, Docs, Up, Attached, Connected, OnPage, Rendering, Shown
    <2> QED
      BY <2>1, <2>2, <2>3, PageMoved DEF Connected, OnPage, Rendering
  <1>7. CASE Settles(r)
    <2> DEFINE d == [Snapped(doc[r]) EXCEPT !.polls = @ + 1]
    <2>0. Snapped(doc[r]) \in Docs
      BY <1>a, <1>d, DocSteps
    <2>1. d \in Docs
      BY <2>0 DEF Docs
    <2>2. at[r] \in OnPage /\ UNCHANGED job
      BY <1>7 DEF Settles, OnPage, Rendering
    <2>3. Go(r, at[r]) /\ Doc(r, d) /\ DocOK(at[r], d) /\ (d.err = "gone" => job[r].use \notin alive)
      BY <1>7, <1>a, <1>b, <1>c, <1>d, <2>2 DEF Settles, Snapped, Go, Doc, DocOK, Traces, Showing, Docs, Up, Attached, Connected, OnPage, Rendering, Shown
    <2> QED
      BY <2>1, <2>2, <2>3, PageMoved DEF Connected, OnPage, Rendering
  <1>8. CASE Explored(r)
    <2> DEFINE d == [doc[r] EXCEPT !.polls = 0, !.limit = 0]
    <2>1. d \in Docs
      BY <1>a, <1>d, RenderingAssumption DEF Docs, Shown, Errors
    <2>2. at[r] \in OnPage /\ UNCHANGED job
      BY <1>8 DEF Explored, OnPage, Rendering
    <2>3. Go(r, "final") /\ Doc(r, d) /\ DocOK("final", d) /\ (d.err = "gone" => job[r].use \notin alive)
      BY <1>8, <1>a, <1>b, <1>c, <1>d, <2>2 DEF Explored, Go, Doc, DocOK, Traces, Showing, Docs, Up, Attached, Connected, OnPage, Rendering, Shown
    <2> QED
      BY <2>1, <2>2, <2>3, PageMoved DEF Connected, OnPage, Rendering
  <1>9. CASE PageBusy(r)
    <2> DEFINE d1 == [Snapped(doc[r]) EXCEPT !.polls = 0, !.limit = 0, !.html = doc[r].html]
               d2 == [Snapped(doc[r]) EXCEPT !.polls = 0, !.limit = 0, !.html = doc[r].page]
    <2>0. Snapped(doc[r]) \in Docs
      BY <1>a, <1>d, DocSteps
    <2>1. d1 \in Docs /\ d2 \in Docs
      BY <1>d, <2>0 DEF Docs
    <2>2. at[r] \in OnPage /\ UNCHANGED job
      BY <1>9 DEF PageBusy, OnPage, Rendering
    <2>a. /\ d1.html = doc[r].html /\ d2.html = doc[r].page
          /\ d1.lines = (doc[r].lines \/ doc[r].page = "excludedUrl") /\ d2.lines = d1.lines
          /\ d1.page = doc[r].page /\ d1.kept = doc[r].kept /\ d1.url = doc[r].url
          /\ d1.excl = doc[r].excl /\ d1.slipped = doc[r].slipped /\ d1.err = doc[r].err
          /\ d2.page = doc[r].page /\ d2.kept = doc[r].kept /\ d2.url = doc[r].url
          /\ d2.excl = doc[r].excl /\ d2.slipped = doc[r].slipped /\ d2.err = doc[r].err
      BY <1>a, <1>d DEF Snapped, Docs
    <2>b. at[r] \in {"parsed", "explore"} /\ doc[r].url = "none"
      BY <1>9, <1>b DEF PageBusy, DocOK
    <2>c. DocOK("final", d1) /\ DocOK("final", d2)
      BY <1>b, <2>a, <2>b DEF DocOK, Traces, Showing, OnPage, Rendering
    <2>d. Go(r, "final") /\ (Doc(r, d1) \/ Doc(r, d2))
      BY <1>9 DEF PageBusy
    <2>e. (d1.err = "gone" => job[r].use \notin alive) /\ (d2.err = "gone" => job[r].use \notin alive)
      BY <1>c, <2>a, <2>b DEF Connected, OnPage, Rendering
    <2> HIDE DEF d1, d2
    <2>3. \/ Go(r, "final") /\ Doc(r, d1) /\ DocOK("final", d1) /\ (d1.err = "gone" => job[r].use \notin alive)
          \/ Go(r, "final") /\ Doc(r, d2) /\ DocOK("final", d2) /\ (d2.err = "gone" => job[r].use \notin alive)
      BY <2>c, <2>d, <2>e
    <2> QED
      BY <2>1, <2>2, <2>3, PageMoved DEF Connected, OnPage, Rendering
  <1>10. CASE FinalReads(r)
    <2> DEFINE d == [Snapped(doc[r]) EXCEPT !.html = doc[r].page, !.state = TRUE, !.text = TRUE,
                                           !.err = None, !.polls = 0, !.limit = 0]
    <2>0. Snapped(doc[r]) \in Docs
      BY <1>a, <1>d, DocSteps
    <2>1. d \in Docs
      BY <1>d, <2>0 DEF Docs, Errors
    <2>2. at[r] \in OnPage /\ UNCHANGED job
      BY <1>10 DEF FinalReads, Lands, OnPage, Rendering
    <2>3. Go(r, "landed") /\ Doc(r, d) /\ DocOK("landed", d) /\ (d.err = "gone" => job[r].use \notin alive)
      BY <1>10, <1>a, <1>b, <1>c, <1>d, <2>2 DEF FinalReads, Snapped, Lands, Go, Doc, DocOK, Traces, Showing, Docs, Up, Attached, Connected, OnPage, Rendering, Shown
    <2> QED
      BY <2>1, <2>2, <2>3, PageMoved DEF Connected, OnPage, Rendering
  <1>11. CASE FinalBusy(r)
    <2> DEFINE d1 == [doc[r] EXCEPT !.err = "busy", !.polls = 0, !.limit = 0]
               d2 == [doc[r] EXCEPT !.err = None, !.polls = 0, !.limit = 0]
               d3(b) == [doc[r] EXCEPT !.html = doc[r].page, !.state = @ \/ b, !.err = None,
                                       !.polls = 0, !.limit = 0]
    <2>0. ASSUME NEW b \in BOOLEAN
          PROVE  d3(b) \in Docs
      <3>1. (doc[r].state \/ b) \in BOOLEAN
        OBVIOUS
      <3> QED
        BY <1>a, <1>d, <3>1 DEF Docs, Errors
    <2>1. d1 \in Docs /\ d2 \in Docs /\ \A b \in BOOLEAN : d3(b) \in Docs
      <3>1. d1 \in Docs
        BY <1>a DEF Docs, Errors
      <3>2. d2 \in Docs
        BY <1>a DEF Docs, Errors
      <3> QED
        BY <2>0, <3>1, <3>2
    <2>2. at[r] \in OnPage /\ UNCHANGED job
      BY <1>11 DEF FinalBusy, Lands, OnPage, Rendering
    <2>a. /\ d1.html = doc[r].html /\ d1.page = doc[r].page /\ d1.kept = doc[r].kept
          /\ d1.url = doc[r].url /\ d1.excl = doc[r].excl /\ d1.slipped = doc[r].slipped
          /\ d1.lines = doc[r].lines /\ d1.err = "busy"
          /\ d2.html = doc[r].html /\ d2.page = doc[r].page /\ d2.kept = doc[r].kept
          /\ d2.url = doc[r].url /\ d2.excl = doc[r].excl /\ d2.slipped = doc[r].slipped
          /\ d2.lines = doc[r].lines /\ d2.err = "none"
      BY <1>a DEF Docs
    <2>b. \A b \in BOOLEAN :
             /\ d3(b).html = doc[r].page /\ d3(b).page = doc[r].page /\ d3(b).kept = doc[r].kept
             /\ d3(b).url = doc[r].url /\ d3(b).excl = doc[r].excl /\ d3(b).slipped = doc[r].slipped
             /\ d3(b).lines = doc[r].lines /\ d3(b).err = "none"
      BY <1>a DEF Docs
    <2>c. at[r] = "final" /\ doc[r].url = "none"
      BY <1>11, <1>b DEF FinalBusy, DocOK
    <2>d. \/ Go(r, "landed") /\ (Doc(r, d1) \/ Doc(r, d2))
          \/ \E b \in BOOLEAN : Go(r, "landed") /\ Doc(r, d3(b))
      BY <1>11 DEF FinalBusy, Lands
    <2>e. DocOK("landed", d1) /\ DocOK("landed", d2)
      BY <1>b, <2>a, <2>c DEF DocOK, Traces, Showing, OnPage, Rendering
    <2> HIDE DEF d3
    <2>f. \A b \in BOOLEAN : DocOK("landed", d3(b))
      BY <1>b, <2>b, <2>c DEF DocOK, Traces, Showing, OnPage, Rendering
    <2>3. \/ Go(r, "landed") /\ Doc(r, d1) /\ DocOK("landed", d1) /\ (d1.err = "gone" => job[r].use \notin alive)
          \/ Go(r, "landed") /\ Doc(r, d2) /\ DocOK("landed", d2) /\ (d2.err = "gone" => job[r].use \notin alive)
          \/ \E b \in BOOLEAN : /\ Go(r, "landed") /\ Doc(r, d3(b)) /\ DocOK("landed", d3(b))
                                /\ d3(b).err = "gone" => job[r].use \notin alive
      BY <2>a, <2>b, <2>d, <2>e, <2>f
    <2> QED
      BY <2>1, <2>2, <2>3, PageMoved DEF Connected, OnPage, Rendering
  <1>12. CASE CutOff(r)
    <2> DEFINE d1 == [doc[r] EXCEPT !.err = "broken", !.polls = 0, !.limit = 0]
               d2 == [doc[r] EXCEPT !.err = "gone", !.polls = 0, !.limit = 0]
    <2>1. d1 \in Docs /\ d2 \in Docs
      BY <1>a, <1>d, RenderingAssumption DEF Docs, Shown, Errors
    <2>2. at[r] \in OnPage /\ UNCHANGED job
      BY <1>12 DEF CutOff, Lands, OnPage, Rendering
    <2>3. \/ Go(r, "landed") /\ Doc(r, d1) /\ DocOK("landed", d1) /\ (d1.err = "gone" => job[r].use \notin alive)
          \/ Go(r, "landed") /\ Doc(r, d2) /\ DocOK("landed", d2) /\ (d2.err = "gone" => job[r].use \notin alive)
      BY <1>12, <1>a, <1>b, <1>c, <1>d, <2>2 DEF CutOff, Lands, Go, Doc, DocOK, Traces, Showing, Docs, Up, Attached, Connected, OnPage, Rendering, Shown
    <2> QED
      BY <2>1, <2>2, <2>3, PageMoved DEF Connected, OnPage, Rendering
  <1>13. CASE ReadsUrl(r)
    <2> DEFINE d == [doc[r] EXCEPT !.url = doc[r].page]
    <2>1. d \in Docs
      BY <1>a, <1>d, RenderingAssumption DEF Docs, Shown, Errors
    <2>2. at[r] \in OnPage /\ UNCHANGED job
      BY <1>13 DEF ReadsUrl, OnPage, Rendering
    <2>3. Go(r, at[r]) /\ Doc(r, d) /\ DocOK(at[r], d) /\ (d.err = "gone" => job[r].use \notin alive)
      BY <1>13, <1>a, <1>b, <1>c, <1>d, <2>2 DEF ReadsUrl, Go, Doc, DocOK, Traces, Showing, Docs, Up, Attached, Connected, OnPage, Rendering, Shown
    <2> QED
      BY <2>1, <2>2, <2>3, PageMoved DEF Connected, OnPage, Rendering
  <1>14. CASE NavigationFails(r)
    <2> DEFINE d == [doc[r] EXCEPT !.nav = TRUE]
    <2>1. d \in Docs
      BY <1>a, <1>d, RenderingAssumption DEF Docs, Shown, Errors
    <2>2. at[r] \in OnPage /\ UNCHANGED job
      BY <1>14 DEF NavigationFails, OnPage, Rendering
    <2>3. Go(r, at[r]) /\ Doc(r, d) /\ DocOK(at[r], d) /\ (d.err = "gone" => job[r].use \notin alive)
      BY <1>14, <1>a, <1>b, <1>c, <1>d, <2>2 DEF NavigationFails, Live, Go, Doc, DocOK, Traces, Showing, Docs, Up, Attached, Connected, OnPage, Rendering, Shown
    <2> QED
      BY <2>1, <2>2, <2>3, PageMoved DEF Connected, OnPage, Rendering
  <1>15. CASE ErrorPageShows(r)
    <2> DEFINE d == MovedTo(doc[r], "error")
    <2>0. MovedTo(doc[r], "error") \in Docs
      BY <1>a, DocSteps DEF Shown
    <2>1. d \in Docs
      BY <2>0 DEF Docs
    <2>2. at[r] \in OnPage /\ UNCHANGED job
      BY <1>15 DEF ErrorPageShows, OnPage, Rendering
    <2>3. Go(r, at[r]) /\ Doc(r, d) /\ DocOK(at[r], d) /\ (d.err = "gone" => job[r].use \notin alive)
      BY <1>15, <1>a, <1>b, <1>c, <1>d, <2>2 DEF ErrorPageShows, MovedTo, Live, Go, Doc, DocOK, Traces, Showing, Docs, Up, Attached, Connected, OnPage, Rendering, Shown
    <2> QED
      BY <2>1, <2>2, <2>3, PageMoved DEF Connected, OnPage, Rendering
  <1>16. CASE NavigationAnswered(r)
    <2> DEFINE d == [MovedTo(doc[r], "site") EXCEPT !.nav = FALSE]
    <2>0. MovedTo(doc[r], "site") \in Docs
      BY <1>a, DocSteps DEF Shown
    <2>1. d \in Docs
      BY <2>0 DEF Docs
    <2>2. at[r] \in OnPage /\ UNCHANGED job
      BY <1>16 DEF NavigationAnswered, OnPage, Rendering
    <2>a. /\ d.page = "site" /\ d.html = doc[r].html /\ d.kept = doc[r].kept /\ d.lines = doc[r].lines
          /\ d.url = doc[r].url /\ d.excl = doc[r].excl /\ d.err = doc[r].err
          /\ doc[r].slipped => d.slipped
          /\ doc[r].page = "excludedUrl" /\ doc[r].url = "none" => d.slipped
      BY <1>a, <1>d DEF MovedTo, Docs
    <2>b. DocOK(at[r], d)
      BY <1>b, <2>a DEF DocOK, Traces, Showing
    <2>3. Go(r, at[r]) /\ Doc(r, d) /\ DocOK(at[r], d) /\ (d.err = "gone" => job[r].use \notin alive)
      BY <1>16, <1>a, <1>c, <2>a, <2>b, <2>2 DEF NavigationAnswered, Go, Doc, Connected
    <2> QED
      BY <2>1, <2>2, <2>3, PageMoved DEF Connected, OnPage, Rendering
  <1>17. CASE Blocked(r)
    <2> DEFINE d == [MovedTo(doc[r], "blocked") EXCEPT !.excl = TRUE]
    <2>0. MovedTo(doc[r], "blocked") \in Docs
      BY <1>a, DocSteps DEF Shown
    <2>1. d \in Docs
      BY <2>0 DEF Docs
    <2>2. at[r] \in OnPage /\ UNCHANGED job
      BY <1>17 DEF Blocked, OnPage, Rendering
    <2>3. Go(r, at[r]) /\ Doc(r, d) /\ DocOK(at[r], d) /\ (d.err = "gone" => job[r].use \notin alive)
      BY <1>17, <1>a, <1>b, <1>c, <1>d, <2>2 DEF Blocked, MovedTo, Live, Go, Doc, DocOK, Traces, Showing, Docs, Up, Attached, Connected, OnPage, Rendering, Shown
    <2> QED
      BY <2>1, <2>2, <2>3, PageMoved DEF Connected, OnPage, Rendering
  <1>18. CASE HistoryMoves(r)
    <2> DEFINE d1 == MovedTo(doc[r], "excludedUrl")
               d2 == MovedTo(doc[r], "site")
    <2>1. d1 \in Docs /\ d2 \in Docs
      BY <1>a, DocSteps DEF Shown
    <2>2. at[r] \in OnPage /\ UNCHANGED job
      BY <1>18 DEF HistoryMoves, OnPage, Rendering
    <2>3. \/ Go(r, at[r]) /\ Doc(r, d1) /\ DocOK(at[r], d1) /\ (d1.err = "gone" => job[r].use \notin alive)
          \/ Go(r, at[r]) /\ Doc(r, d2) /\ DocOK(at[r], d2) /\ (d2.err = "gone" => job[r].use \notin alive)
      BY <1>18, <1>a, <1>b, <1>c, <1>d, <2>2 DEF HistoryMoves, MovedTo, Go, Doc, DocOK, Traces, Showing, Docs, Connected, OnPage, Rendering, Shown
    <2> QED
      BY <2>1, <2>2, <2>3, PageMoved DEF Connected, OnPage, Rendering
  <1> QED
    BY <1>1, <1>2, <1>3, <1>4, <1>5, <1>6, <1>7, <1>8, <1>9, <1>10, <1>11, <1>12, <1>13, <1>14, <1>15, <1>16, <1>17, <1>18 DEF Page

-----------------------------------------------------------------------------
(* The other steps of a render.                                            *)

\* Each step to the page, and each step that ends on it, leaves it in order.
LEMMA RenderSteps ==
    ASSUME TypeOK, Inv, NEW r \in Renders,
           \/ Begin(r) \/ UnblockFails(r) \/ Connects(r) \/ ConnectFails(r) \/ BacksOff(r)
           \/ Prepares(r) \/ PrepareFails(r) \/ Decides(r) \/ Rereads(r)
    PROVE  Moved(r)
  <1>a. /\ at[r] \in Places /\ job[r] \in Jobs /\ doc[r] \in Docs
        /\ job = [job EXCEPT ![r] = job[r]] /\ doc = [doc EXCEPT ![r] = doc[r]]
    BY Had
  <1>b. DocOK(at[r], doc[r]) /\ JobOK(at[r], job[r], doc[r].err)
    BY DEF Inv, RendersInv
  <1>c. at[r] \in Started => started /\ pw >= 1
    BY DEF Inv, DriverInv
  <1>d. /\ job[r].drv \in Nat /\ job[r].use \in Nat /\ job[r].tries \in Nat
        /\ job[r].unblocked \in Nat /\ job[r].again \in BOOLEAN /\ pw \in Nat
    BY <1>a DEF Jobs, TypeOK
  <1>e. /\ doc[r].page \in Shown /\ doc[r].html \in Shown /\ doc[r].url \in Shown
        /\ doc[r].kept \in Shown /\ doc[r].excl \in BOOLEAN /\ doc[r].err \in Errors
        /\ doc[r].lines \in BOOLEAN /\ doc[r].slipped \in BOOLEAN
    BY <1>a DEF Docs
  <1> USE DEF None
  <1>1. CASE Begin(r)
    <2> DEFINE j == [FreshJob EXCEPT !.drv = pw, !.use = pw, !.unblocked = job[r].unblocked + 1]
    <2>0. job[r].unblocked + 1 \in Nat
      BY <1>d
    <2>1. j \in Jobs /\ j.drv = pw /\ j.use = pw /\ ~j.again
      BY <1>d, <2>0, FreshType DEF Jobs, FreshJob
    <2>2. JobOK("connect", j, doc[r].err)
      BY <1>1, <1>b, <1>c, <1>d, <2>1 DEF Begin, JobOK, Started, Connected, OnPage, Rendering
    <2>3. DocOK("connect", doc[r])
      BY <1>1, <1>b DEF Begin, DocOK, Traces, Showing, OnPage, Rendering
    <2> QED
      BY <1>1, <1>a, <2>1, <2>2, <2>3 DEF Begin, Moved, Moves, Go, Job, Started, Connected
  <1>2. CASE UnblockFails(r)
    <2> DEFINE d == [FreshDoc EXCEPT !.err = "refused"]
    <2>1. d \in Docs /\ d.err = "refused" /\ DocOK("raised", d)
      BY FreshType DEF Docs, FreshDoc, DocOK, Traces, Showing, Errors
    <2>2. JobOK("raised", job[r], d.err)
      BY <2>1 DEF JobOK, Connected, OnPage, Rendering
    <2> QED
      BY <1>2, <1>a, <2>1, <2>2 DEF UnblockFails, Moved, Moves, Go, Doc, Ended
  <1>3. CASE Connects(r)
    <2> DEFINE j == [job[r] EXCEPT !.tries = 0]
    <2>1. j \in Jobs /\ j.drv = job[r].drv /\ j.use = job[r].use /\ j.again = job[r].again
      BY <1>a DEF Jobs
    <2>2. JobOK("prepare", j, doc[r].err)
      BY <1>3, <1>b, <2>1 DEF Connects, JobOK, Connected, OnPage, Rendering
    <2>3. DocOK("prepare", doc[r])
      BY <1>3, <1>b DEF Connects, DocOK, Traces, Showing, OnPage, Rendering
    <2> QED
      BY <1>3, <1>a, <2>1, <2>2, <2>3 DEF Connects, Moved, Moves, Go, Job, Started, Connected
  <1>4. CASE ConnectFails(r)
    <2>1. at[r] \in Connected /\ at[r] = "connect"
      BY <1>4 DEF ConnectFails, Connected
    <2>2. CASE Attached \/ job[r].tries + 1 >= ConnectTries
      <3>1. CASE Up(r)
        <4>1. Fails(r, "busy")
          BY <1>4, <2>2, <3>1 DEF ConnectFails
        <4> QED
          BY <2>1, <4>1, FailsMoved DEF Errors
      <3>2. CASE ~Up(r)
        <4>1. Fails(r, "gone")
          BY <1>4, <2>2, <3>2 DEF ConnectFails
        <4> QED
          BY <2>1, <3>2, <4>1, FailsMoved DEF Errors, Up
      <3> QED
        BY <3>1, <3>2
    <2>3. CASE ~(Attached \/ job[r].tries + 1 >= ConnectTries)
      <3> DEFINE j == [job[r] EXCEPT !.tries = @ + 1]
      <3>1. j \in Jobs /\ j.drv = job[r].drv /\ j.use = job[r].use /\ j.again = job[r].again
        BY <1>a, <1>d DEF Jobs
      <3>2. JobOK("backoff", j, doc[r].err)
        BY <1>b, <2>1, <2>3, <3>1 DEF JobOK, Connected, OnPage, Rendering, Attached
      <3>3. DocOK("backoff", doc[r])
        BY <1>b, <2>1 DEF DocOK, Traces, Showing, OnPage, Rendering
      <3> QED
        BY <1>4, <1>a, <2>3, <3>1, <3>2, <3>3
           DEF ConnectFails, Moved, Moves, Go, Job, Started, Connected
    <2> QED
      BY <2>2, <2>3
  <1>5. CASE BacksOff(r)
    <2> DEFINE j == [job[r] EXCEPT !.use = pw]
    <2>1. j \in Jobs /\ j.drv = job[r].drv /\ j.use = pw /\ j.again = job[r].again
      BY <1>a, <1>d DEF Jobs
    <2>2. JobOK("connect", j, doc[r].err)
      BY <1>5, <1>b, <1>d, <2>1 DEF BacksOff, JobOK, Connected, OnPage, Rendering
    <2>3. DocOK("connect", doc[r])
      BY <1>5, <1>b DEF BacksOff, DocOK, Traces, Showing, OnPage, Rendering
    <2> QED
      BY <1>5, <1>a, <2>1, <2>2, <2>3 DEF BacksOff, Attempt, Moved, Moves, Go, Job, Started, Connected
  <1>6. CASE Prepares(r)
    <2> DEFINE d1 == [doc[r] EXCEPT !.page = "site", !.polls = 0, !.limit = ChallengePolls]
               d2 == [doc[r] EXCEPT !.page = "excludedUrl", !.polls = 0, !.limit = ChallengePolls]
    <2>1. d1 \in Docs /\ d2 \in Docs
      BY <1>a, RenderingAssumption DEF Docs, Shown
    <2>2. at[r] = "prepare" /\ UNCHANGED job /\ at[r] \in Connected
      BY <1>6 DEF Prepares, Connected
    <2>3. doc[r].err # "gone"
      BY <1>b, <2>2 DEF JobOK, OnPage, Rendering
    <2>4. DocOK("navigate", doc[r])
      BY <1>b, <2>2 DEF DocOK, Traces, Showing, OnPage, Rendering
    <2>5. DocOK("challenge", d1) /\ d1.err = doc[r].err
      BY <1>a, <1>b, <2>2 DEF DocOK, Traces, Showing, Docs, OnPage, Rendering
    <2>6. CASE Go(r, "challenge") /\ Doc(r, d2) /\ Attached
      <3>2. DocOK("challenge", d2) /\ d2.err = doc[r].err
        BY <1>a, <1>b, <2>2 DEF DocOK, Traces, Showing, Docs, OnPage, Rendering
      <3> QED
        BY <2>1, <2>2, <2>3, <2>6, <3>2, PageMoved DEF OnPage, Rendering
    <2>7. CASE Go(r, "challenge") /\ Doc(r, d1)
      BY <2>1, <2>2, <2>3, <2>5, <2>7, PageMoved DEF OnPage, Rendering
    <2>8. CASE Go(r, "navigate") /\ Doc(r, doc[r])
      BY <1>a, <2>2, <2>3, <2>4, <2>8, PageMoved DEF OnPage, Rendering
    <2> QED
      BY <1>6, <1>a, <2>6, <2>7, <2>8 DEF Prepares, Doc
  <1>7. CASE PrepareFails(r)
    BY <1>7, FailsMoved DEF PrepareFails, Up, Errors, Connected
  <1>8. CASE Decides(r)
    <2> DEFINE d == [doc[r] EXCEPT !.excl = @ \/ doc[r].url = "excludedUrl"]
               failed == d.nav \/ d.url \in {"error", "blocked"}
               x == [d EXCEPT !.err = IF d.excl THEN "excluded" ELSE "navigation", !.lines = FALSE]
               k == [d EXCEPT !.kept = d.html]
    <2>1. at[r] = "landed" /\ at[r] \in OnPage /\ at[r] \in Connected /\ doc[r].url # "none"
      BY <1>8, <1>a DEF Decides, Docs, Connected, OnPage
    <2>2. d \in Docs
      BY <1>a DEF Docs
    <2>3. CASE Returns(r, x)
      <3> DEFINE why == IF d.excl THEN "excluded" ELSE "navigation"
      <3>0. why \in {"excluded", "navigation"}
        OBVIOUS
      <3>a. x = [d EXCEPT !.err = why, !.lines = FALSE] /\ d.kept = doc[r].kept
        BY <1>a DEF Docs
      <3> HIDE DEF d, x, why
      <3>1. x \in Docs /\ x.err # "gone" /\ x.kept = doc[r].kept /\ x.lines = FALSE
        BY <2>2, <3>0, <3>a DEF Docs, Errors
      <3>2. x.kept = "none"
        BY <1>b, <2>1, <3>1 DEF DocOK, Traces, Showing
      <3> QED
        BY <2>1, <2>3, <3>1, <3>2, ReturnsMoved
    <2>4. CASE Go(r, "reread") /\ Doc(r, k) /\ ~d.excl /\ ~failed /\ UNCHANGED job
      <3>1. k \in Docs
        BY <2>2 DEF Docs
      <3>2. /\ k.page = doc[r].page /\ k.html = doc[r].html /\ k.kept = doc[r].html
            /\ k.url = doc[r].url /\ k.err = doc[r].err /\ k.lines = doc[r].lines
            /\ k.slipped = doc[r].slipped /\ ~k.excl
            /\ ~doc[r].excl /\ doc[r].url # "excludedUrl"
        BY <1>a, <1>e, <2>4 DEF Docs
      <3>3. /\ doc[r].page = "excludedUrl" \/ Traces(doc[r]) => doc[r].slipped
            /\ doc[r].html # "blocked" /\ doc[r].page # "blocked"
        BY <1>b, <2>1, <3>2 DEF DocOK, Traces, Showing
      <3>4. DocOK("reread", k)
        BY <1>b, <2>1, <3>2, <3>3 DEF DocOK, Traces, Showing, OnPage
      <3>5. k.err = "gone" => job[r].use \notin alive
        BY <1>b, <2>1, <3>2 DEF JobOK
      <3> QED
        BY <2>1, <2>4, <3>1, <3>4, <3>5, PageMoved DEF OnPage
    <2> QED
      BY <1>8, <2>3, <2>4 DEF Decides
  <1>9. CASE Rereads(r)
    <2>1. at[r] = "reread" /\ at[r] \in OnPage
      BY <1>9 DEF Rereads, OnPage
    <2>2. /\ doc[r].page = "excludedUrl" \/ doc[r].kept = "excludedUrl" \/ doc[r].lines
                => doc[r].excl \/ doc[r].slipped
          /\ (doc[r].page = "blocked" \/ doc[r].kept = "blocked") => doc[r].excl
          /\ doc[r].err = "gone" => job[r].use \notin alive
      BY <1>b, <2>1 DEF DocOK, Traces, Showing, JobOK
    <2> DEFINE x(k) == [doc[r] EXCEPT !.kept = k,
                            !.lines = @ \/ (~doc[r].text /\ doc[r].page = "excludedUrl")]
               y(k) == [doc[r] EXCEPT !.kept = k,
                            !.err = IF @ # None THEN @ ELSE IF Up(r) THEN "unread" ELSE "gone"]
    <2>3. ASSUME NEW k \in Shown
          PROVE  /\ x(k) \in Docs /\ x(k).kept = k /\ x(k).excl = doc[r].excl /\ x(k).err = doc[r].err
                 /\ x(k).slipped = doc[r].slipped
                 /\ x(k).lines => doc[r].lines \/ doc[r].page = "excludedUrl"
      <3>1. (doc[r].lines \/ (~doc[r].text /\ doc[r].page = "excludedUrl")) \in BOOLEAN
        OBVIOUS
      <3> QED
        BY <1>a, <3>1 DEF Docs
    <2>4. \A k \in Shown : /\ y(k) \in Docs /\ y(k).kept = k /\ y(k).excl = doc[r].excl
                           /\ y(k).lines = doc[r].lines /\ y(k).slipped = doc[r].slipped
                           /\ y(k).err = "gone" => job[r].use \notin alive
      BY <1>a, <1>e, <2>2 DEF Docs, Errors, Up
    <2>5. CASE Returns(r, doc[r])
      BY <1>a, <2>1, <2>2, <2>5, ReturnsMoved
    <2>a. ASSUME NEW k \in {"none", doc[r].page, doc[r].kept}
          PROVE  /\ k \in Shown /\ (k = "blocked" => doc[r].excl)
                 /\ k = "excludedUrl" => doc[r].excl \/ doc[r].slipped
      BY <1>e, <2>2, <2>a DEF Shown
    <2>6. ASSUME NEW k \in {"none", doc[r].page, doc[r].kept}, Returns(r, x(k))
          PROVE  Moved(r)
      <3>1. /\ x(k) \in Docs /\ (x(k).kept = "blocked" => x(k).excl)
            /\ x(k).kept = "excludedUrl" \/ x(k).lines => x(k).excl \/ x(k).slipped
            /\ x(k).err = "gone" => job[r].use \notin alive
        BY <2>2, <2>3, <2>a, <2>6
      <3> HIDE DEF x
      <3> QED
        BY <2>1, <2>6, <3>1, ReturnsMoved
    <2>7. ASSUME NEW k \in {"none", doc[r].page, doc[r].kept}, Returns(r, y(k))
          PROVE  Moved(r)
      <3>1. /\ y(k) \in Docs /\ (y(k).kept = "blocked" => y(k).excl)
            /\ y(k).kept = "excludedUrl" \/ y(k).lines => y(k).excl \/ y(k).slipped
            /\ y(k).err = "gone" => job[r].use \notin alive
        BY <2>2, <2>4, <2>a, <2>7
      <3> HIDE DEF y
      <3> QED
        BY <2>1, <2>7, <3>1, ReturnsMoved
    <2>8. CASE KeepsDom(doc[r])
      BY <1>9, <2>5, <2>6, <2>7, <2>8 DEF Rereads
    <2>9. CASE ~KeepsDom(doc[r])
      BY <1>9, <2>5, <2>6, <2>7, <2>9 DEF Rereads
    <2> QED
      BY <2>8, <2>9
  <1> QED
    BY <1>1, <1>2, <1>3, <1>4, <1>5, <1>6, <1>7, <1>8, <1>9

-----------------------------------------------------------------------------
(* Steps that start, restart or lose a driver.                             *)

\* What those steps do not concern of a render stays in order: its driver is
\* not one that is started later, and a driver that is gone stays gone.
LEMMA OthersInOrder ==
    ASSUME TypeOK, Inv, NEW q \in Renders, mode' = mode,
           pw' \in Nat, pw' >= pw, deaths' >= deaths, deaths' \in Nat,
           alive' \subseteq alive \cup {n \in Nat : n > pw},
           at[q]' = at[q], job[q]' = job[q], doc[q]' = doc[q]
    PROVE  JobOK(at[q], job[q], doc[q].err)' /\ DocOK(at[q], doc[q])'
  <1>1. JobOK(at[q], job[q], doc[q].err) /\ DocOK(at[q], doc[q])
    BY DEF Inv, RendersInv
  <1>2. job[q].drv \in Nat /\ job[q].use \in Nat /\ pw \in Nat /\ deaths \in Nat
    BY Had DEF TypeOK, Jobs
  <1>3. DocOK(at[q], doc[q])'
    BY <1>1 DEF DocOK, Traces, Showing
  <1>4. JobOK(at[q], job[q], doc[q].err)'
    <2>1. CASE at[q] \in Connected
      BY <1>1, <1>2, <2>1 DEF JobOK, Connected, OnPage, Rendering
    <2>2. CASE at[q] \notin Connected
      BY <1>1, <1>2, <2>2 DEF JobOK, Connected, OnPage, Rendering
    <2> QED
      BY <2>1, <2>2
  <1> QED
    BY <1>3, <1>4

\* Entering and starting.
LEMMA StartSteps ==
    ASSUME TypeOK, Inv, NEW r \in Renders, Enter(r) \/ StartLocked(r) \/ Starts(r)
    PROVE  TypeOK' /\ Inv'
  <1>a. /\ at[r] \in {"idle", "locking", "starting"} /\ pw \in Nat /\ alive \subseteq 1..pw
        /\ started \in BOOLEAN /\ deaths \in Nat /\ faults \in Nat
    BY DEF Enter, StartLocked, Starts, TypeOK
  <1>b. ~started => pw = 0
    BY <1>a DEF Inv, DriverInv, Ended
  <1>c. job' = job /\ doc' = doc /\ restartLock' = restartLock /\ deaths' = deaths /\ mode' = mode
    BY DEF Enter, StartLocked, Starts, Quietly, driverVars
  <1>d. /\ at' = [at EXCEPT ![r] = at'[r]] /\ at'[r] \in {"locking", "starting", "begin"}
        /\ at' \in [Renders -> Places]
    BY DEF Enter, StartLocked, Starts, Go, TypeOK, Places, Started
  <1>e. \A q \in Renders \ {r} : at'[q] = at[q]
    BY <1>d DEF TypeOK
  <1>1. /\ pw' \in Nat /\ pw' >= pw /\ alive' \subseteq 1..pw'
        /\ alive' \subseteq alive \cup {n \in Nat : n > pw} /\ Dead' = Dead
        /\ started' \in BOOLEAN
    <2>1. CASE Starts(r)
      BY <1>a, <2>1 DEF Starts, NewDriver, Dead
    <2>2. CASE ~Starts(r)
      BY <1>a, <2>2 DEF Enter, StartLocked, Dead, driverVars
    <2> QED
      BY <2>1, <2>2
  <1>2. TypeOK'
    <2>1. startLock' \in Renders \cup {None} /\ faults' = faults
      BY DEF TypeOK, Enter, StartLocked, Starts, Quietly, driverVars
    <2> QED
      BY <1>a, <1>c, <1>d, <1>1, <2>1 DEF TypeOK
  <1>3. DriverInv'
    <2>1. CASE Enter(r)
      <3>1. at'[r] = (IF started THEN "begin" ELSE IF mode = "cloud" THEN "starting" ELSE "locking")
        BY <1>a, <2>1 DEF Enter, Go, TypeOK, Attached
      <3>2. UNCHANGED driverVars
        BY <2>1 DEF Enter
      <3> QED
        BY <1>a, <1>b, <1>c, <1>e, <3>1, <3>2 DEF Inv, DriverInv, driverVars, Started, Ended, Connected, OnPage, Rendering
    <2>2. CASE StartLocked(r)
      BY <1>a, <1>b, <1>c, <1>d, <1>e, <2>2, RenderingAssumption
         DEF StartLocked, Go, TypeOK, Inv, DriverInv, Started, Ended, Connected, OnPage, Rendering, None
    <2>3. CASE Starts(r)
      <3>1. at'[r] = "begin" /\ started' = TRUE /\ pw' = pw + 1 /\ alive' = alive \cup {pw + 1}
        BY <2>3 DEF Starts, Go, TypeOK, NewDriver
      <3>2. ASSUME mode # "cloud"
            PROVE  ~started /\ alive = {} /\ \A q \in Renders \ {r} : at[q] # "starting" /\ at[q] # "restarting"
        BY <2>3, <3>2 DEF Starts, Inv, DriverInv, Started
      <3> QED
        BY <1>a, <1>c, <1>e, <3>1, <3>2 DEF Inv, DriverInv
    <2> QED
      BY <2>1, <2>2, <2>3
  <1>4. DeathInv'
    <2>1. CASE started
      BY <1>a, <1>c, <1>1, <2>1 DEF Inv, DeathInv
    <2>2. CASE ~started
      BY <1>a, <1>b, <1>1, <2>2 DEF DeathInv, Dead
    <2> QED
      BY <2>1, <2>2
  <1>5. RendersInv'
    <2> SUFFICES ASSUME NEW q \in Renders
                 PROVE  JobOK(at[q], job[q], doc[q].err)' /\ DocOK(at[q], doc[q])'
      BY DEF RendersInv
    <2>1. CASE q # r
      BY <1>a, <1>c, <1>e, <1>1, <2>1, OthersInOrder
    <2>2. CASE q = r
      BY <1>a, <1>c, <1>d, <2>2
         DEF Inv, RendersInv, JobOK, DocOK, Traces, Showing, Connected, OnPage, Rendering, Ended
    <2> QED
      BY <2>1, <2>2
  <1> QED
    BY <1>2, <1>3, <1>4, <1>5 DEF Inv

\* The lock of the restart, and the restart.
LEMMA RestartSteps ==
    ASSUME TypeOK, Inv, NEW r \in Renders, RestartLocked(r) \/ Restarts(r)
    PROVE  TypeOK' /\ Inv'
  <1>a. /\ pw \in Nat /\ alive \subseteq 1..pw /\ started /\ deaths \in Nat /\ faults \in Nat
        /\ at[r] \in {"restart", "restarting"} /\ job[r] \in Jobs /\ doc[r] \in Docs
        /\ doc = [doc EXCEPT ![r] = doc[r]] /\ job = [job EXCEPT ![r] = job[r]]
    BY Had DEF RestartLocked, Restarts, TypeOK, Inv, DriverInv, Started
  <1>b. /\ job[r].again /\ job[r].drv >= 1 /\ job[r].drv <= pw /\ job[r].drv \notin alive
        /\ job[r].drv \in Nat /\ doc[r].err # "gone"
    BY <1>a DEF Inv, RendersInv, JobOK, OnPage, Rendering, Jobs
  <1>c. DocOK(at[r], doc[r]) /\ DocOK("connect", doc[r]) /\ DocOK("restarting", doc[r])
    BY <1>a DEF Inv, RendersInv, DocOK, Traces, Showing, OnPage, Rendering
  <1>1. CASE RestartLocked(r) /\ pw # job[r].drv
    <2> DEFINE j == [job[r] EXCEPT !.use = pw]
    <2>1. j \in Jobs /\ j.drv = job[r].drv /\ j.use = pw /\ j.again
      BY <1>a, <1>b DEF Jobs
    <2>2. JobOK("connect", j, doc[r].err)
      BY <1>1, <1>a, <1>b, <2>1 DEF JobOK, Connected, OnPage, Rendering
    <2>3. Moved(r)
      BY <1>1, <1>a, <1>c, <2>1, <2>2
         DEF RestartLocked, Attempt, Moved, Moves, Go, Job, Started, Connected
    <2>4. UNCHANGED <<mode, deaths, driverVars>> /\ faults' \in Nat
      BY <1>1, <1>a DEF RestartLocked, Quietly, driverVars
    <2> QED
      BY <1>a, <2>3, <2>4, MovedInv DEF Started
  <1>2. CASE RestartLocked(r) /\ pw = job[r].drv
    <2>1. /\ alive' = alive /\ restartLock' = r /\ restartLock = None
          /\ UNCHANGED <<mode, deaths, faults, started, startLock, pw, job, doc>>
          /\ at' = [at EXCEPT ![r] = "restarting"]
      BY <1>2, <1>b DEF RestartLocked, Quietly, Attempt, Go
    <2>2. at' \in [Renders -> Places] /\ at'[r] = "restarting" /\ \A q \in Renders \ {r} : at'[q] = at[q]
      BY <2>1 DEF TypeOK, Places, Started
    <2>3. TypeOK'
      BY <2>1, <2>2 DEF TypeOK
    <2>4. DriverInv'
      BY <1>2, <1>a, <1>b, <2>1, <2>2, RenderingAssumption DEF Inv, DriverInv, None
    <2>5. DeathInv'
      BY <2>1 DEF Inv, DeathInv, Dead
    <2>6. RendersInv'
      <3> SUFFICES ASSUME NEW q \in Renders
                   PROVE  JobOK(at[q], job[q], doc[q].err)' /\ DocOK(at[q], doc[q])'
        BY DEF RendersInv
      <3>1. CASE q # r
        BY <2>1, <2>2, <3>1 DEF Inv, RendersInv, JobOK, DocOK, Traces, Showing
      <3>2. CASE q = r
        BY <1>b, <1>c, <2>1, <2>2, <3>2 DEF JobOK, DocOK, Traces, Showing, Connected, OnPage, Rendering
      <3> QED
        BY <3>1, <3>2
    <2> QED
      BY <2>3, <2>4, <2>5, <2>6 DEF Inv
  <1>3. CASE Restarts(r)
    <2> DEFINE j == [job[r] EXCEPT !.use = pw + 1]
    <2>0. pw + 1 \in Nat
      BY <1>a
    <2>1. j \in Jobs /\ j.drv = job[r].drv /\ j.use = pw + 1 /\ j.again
      BY <1>a, <1>b, <2>0 DEF Jobs
    <2>2. /\ pw' = pw + 1 /\ alive' = alive \cup {pw + 1} /\ restartLock' = None
          /\ UNCHANGED <<mode, deaths, faults, started, startLock, doc>>
          /\ at' = [at EXCEPT ![r] = "connect"] /\ job' = [job EXCEPT ![r] = j]
          /\ at[r] = "restarting"
      BY <1>3 DEF Restarts, Quietly, Attempt, Go, Job, NewDriver
    <2>3. /\ at' \in [Renders -> Places] /\ job' \in [Renders -> Jobs]
          /\ at'[r] = "connect" /\ job'[r] = j
          /\ \A q \in Renders \ {r} : at'[q] = at[q] /\ job'[q] = job[q]
      BY <2>1, <2>2 DEF TypeOK, Places, Started, Connected
    <2>4. /\ alive' \subseteq 1..pw' /\ Dead' = Dead
          /\ alive' \subseteq alive \cup {n \in Nat : n > pw}
      BY <1>a, <2>2 DEF Dead
    <2>5. TypeOK'
      BY <2>0, <2>2, <2>3, <2>4 DEF TypeOK
    <2>6. DriverInv'
      <3>1. \A q \in Renders \ {r} : at[q] # "restarting"
        BY <2>2 DEF Inv, DriverInv
      <3>2. mode # "cloud" => alive = {} /\ \A q \in Renders : at[q] # "starting"
        BY <1>a, <2>2 DEF Inv, DriverInv
      <3> QED
        BY <1>a, <2>2, <2>3, <3>1, <3>2 DEF Inv, DriverInv
    <2>7. DeathInv'
      BY <2>2, <2>4 DEF Inv, DeathInv
    <2>8. RendersInv'
      <3> SUFFICES ASSUME NEW q \in Renders
                   PROVE  JobOK(at[q], job[q], doc[q].err)' /\ DocOK(at[q], doc[q])'
        BY DEF RendersInv
      <3>1. CASE q # r
        BY <1>a, <2>0, <2>2, <2>3, <2>4, <3>1, OthersInOrder
      <3>2. CASE q = r
        <4>1. JobOK(at[r], job[r], doc[r].err)'
          BY <1>a, <1>b, <2>1, <2>2, <2>3 DEF JobOK, Connected, OnPage, Rendering
        <4>2. DocOK(at[r], doc[r])'
          BY <1>c, <2>2, <2>3 DEF DocOK, Traces, Showing
        <4> QED
          BY <3>2, <4>1, <4>2
      <3> QED
        BY <3>1, <3>2
    <2> QED
      BY <2>5, <2>6, <2>7, <2>8 DEF Inv
  <1> QED
    BY <1>1, <1>2, <1>3

\* A cancellation gives the locks back.
LEMMA CancelStep ==
    ASSUME TypeOK, Inv, NEW r \in Renders, Cancelled(r) \/ TimesOut(r)
    PROVE  TypeOK' /\ Inv'
  <1> DEFINE j == [job[r] EXCEPT !.use = 0, !.tries = 0]
  <1>1. j \in Jobs
    BY Had DEF Jobs
  <1>2. /\ at' = [at EXCEPT ![r] = "cancelled"] /\ doc' = [doc EXCEPT ![r] = FreshDoc]
        /\ job' = [job EXCEPT ![r] = j]
        /\ UNCHANGED <<mode, deaths, started, pw, alive>> /\ faults' \in Nat
        /\ startLock' = (IF startLock = r THEN None ELSE startLock)
        /\ restartLock' = (IF restartLock = r THEN None ELSE restartLock)
    BY DEF Cancelled, TimesOut, Stopped, Go, Doc, Job, AtFault, Quietly, TypeOK
  <1>3. /\ at' \in [Renders -> Places] /\ job' \in [Renders -> Jobs] /\ doc' \in [Renders -> Docs]
        /\ at'[r] = "cancelled" /\ doc'[r] = FreshDoc
        /\ \A q \in Renders \ {r} : at'[q] = at[q] /\ job'[q] = job[q] /\ doc'[q] = doc[q]
    BY <1>1, <1>2, FreshType DEF TypeOK, Places, Ended
  <1>4. TypeOK'
    BY <1>2, <1>3 DEF TypeOK
  <1>5. DriverInv'
    BY <1>2, <1>3 DEF Inv, DriverInv, Started, Connected, OnPage, Rendering, Ended
  <1>6. DeathInv'
    BY <1>2 DEF Inv, DeathInv, Dead
  <1>7. RendersInv'
    <2> SUFFICES ASSUME NEW q \in Renders
                 PROVE  JobOK(at[q], job[q], doc[q].err)' /\ DocOK(at[q], doc[q])'
      BY DEF RendersInv
    <2>1. CASE q # r
      BY <1>2, <1>3, <2>1 DEF Inv, RendersInv, JobOK, DocOK, Traces, Showing
    <2>2. CASE q = r
      BY <1>3, <2>2 DEF JobOK, DocOK, Traces, Showing, FreshDoc, None, Connected, OnPage, Rendering
    <2> QED
      BY <2>1, <2>2
  <1> QED
    BY <1>4, <1>5, <1>6, <1>7 DEF Inv

\* A driver dies; the renderer is closed.
LEMMA DriverSteps ==
    ASSUME TypeOK, Inv, (\E d \in alive : DriverDies(d)) \/ Close
    PROVE  TypeOK' /\ Inv'
  <1>a. /\ pw \in Nat /\ alive \subseteq 1..pw /\ deaths \in Nat
        /\ at' = at /\ job' = job /\ doc' = doc /\ pw' = pw /\ mode' = mode
        /\ startLock' = startLock /\ restartLock' = restartLock /\ faults' = faults
        /\ alive' \subseteq alive /\ deaths' \in Nat /\ deaths' >= deaths
    BY DEF TypeOK, DriverDies, Close, Quietly
  <1>b. started' \in BOOLEAN
    BY Zenon DEF TypeOK, DriverDies, Close
  <1>1. TypeOK'
    BY <1>a, <1>b DEF TypeOK
  <1>2. RendersInv'
    BY <1>a, OthersInOrder DEF RendersInv
  <1>3. DriverInv'
    <2>1. CASE Close
      <3>1. started' = FALSE /\ alive' = alive \ {pw} /\ \A r \in Renders : at[r] \in Ended
        BY <2>1 DEF Close
      <3> QED
        BY <1>a, <3>1 DEF Inv, DriverInv, Started, Connected, OnPage, Rendering, Ended
    <2>2. CASE \E d \in alive : DriverDies(d)
      <3>1. started' = started
        BY <2>2 DEF DriverDies
      <3> QED
        BY <1>a, <3>1 DEF Inv, DriverInv
    <2> QED
      BY <2>1, <2>2
  <1>4. DeathInv'
    <2>1. CASE Close
      BY <2>1 DEF Close, DeathInv
    <2>2. ASSUME NEW d \in alive, DriverDies(d)
          PROVE  DeathInv'
      <3>1. started' = started /\ deaths' = deaths + 1 /\ Dead' = Dead \cup {d}
        BY <1>a, <2>2 DEF DriverDies, Dead
      <3> QED
        BY <1>a, <3>1 DEF Inv, DeathInv
    <2> QED
      BY <2>1, <2>2
  <1> QED
    BY <1>1, <1>2, <1>3, <1>4 DEF Inv

-----------------------------------------------------------------------------
(* The theorems.                                                           *)

\* The invariant holds before the first render.
LEMMA Initially == Init => TypeOK /\ Inv
  <1> SUFFICES ASSUME Init PROVE TypeOK /\ Inv
    OBVIOUS
  <1>1. TypeOK
    BY FreshType, RenderingAssumption DEF Init, TypeOK, Places, None
  <1>2. DriverInv /\ DeathInv
    BY DEF Init, DriverInv, DeathInv, Dead, Started, Connected, OnPage, Rendering
  <1>3. RendersInv
    BY DEF Init, RendersInv, JobOK, DocOK, Traces, Showing, FreshDoc, FreshJob, Connected, OnPage, Rendering, None
  <1> QED
    BY <1>1, <1>2, <1>3 DEF Inv

\* Every step keeps the invariant.
LEMMA Invariance == TypeOK /\ Inv /\ [Next]_vars => TypeOK' /\ Inv'
  <1> SUFFICES ASSUME TypeOK, Inv, [Next]_vars PROVE TypeOK' /\ Inv'
    OBVIOUS
  <1>1. ASSUME NEW r \in Renders,
               \/ Navigates(r) \/ ChallengeClears(r) \/ ChallengeStays(r) \/ ChallengeDenied(r)
               \/ ChallengeProgresses(r) \/ Parses(r) \/ Settles(r) \/ Explored(r) \/ PageBusy(r)
               \/ FinalReads(r) \/ FinalBusy(r) \/ CutOff(r) \/ ReadsUrl(r) \/ Page(r)
        PROVE  TypeOK' /\ Inv'
    <2>1. at[r] \in Started /\ UNCHANGED <<mode, deaths, driverVars>>
      BY <1>1 DEF Navigates, ChallengeClears, ChallengeStays, ChallengeDenied, ChallengeProgresses,
                  Parses, Settles, Explored, PageBusy, FinalReads, FinalBusy, CutOff, ReadsUrl,
                  Page, NavigationFails, ErrorPageShows, NavigationAnswered, Blocked, HistoryMoves, Waited,
                  Started, Connected, OnPage, Rendering, AtFault, Quietly
    <2>2. Quietly \/ AtFault
      BY <1>1 DEF Navigates, ChallengeClears, ChallengeStays, ChallengeDenied, ChallengeProgresses,
                  Parses, Settles, Explored, PageBusy, FinalReads, FinalBusy, CutOff, ReadsUrl,
                  Page, NavigationFails, ErrorPageShows, NavigationAnswered, Blocked,
                  HistoryMoves
    <2>3. faults' \in Nat
      BY <2>2 DEF TypeOK, AtFault, Quietly
    <2> QED
      BY <1>1, <2>1, <2>3, PageSteps, MovedInv
  <1>2. ASSUME NEW r \in Renders,
               \/ Begin(r) \/ UnblockFails(r) \/ Connects(r) \/ ConnectFails(r) \/ BacksOff(r)
               \/ Prepares(r) \/ PrepareFails(r) \/ Decides(r) \/ Rereads(r)
        PROVE  TypeOK' /\ Inv'
    <2>1. at[r] \in Started /\ UNCHANGED <<mode, deaths, driverVars>>
      BY <1>2 DEF Begin, UnblockFails, Connects, ConnectFails, BacksOff, Prepares, PrepareFails,
                  Decides, Rereads, Started, Connected, OnPage, Rendering, AtFault, Quietly
    <2>2. faults' \in Nat
      BY <1>2 DEF TypeOK, Begin, UnblockFails, Connects, ConnectFails, BacksOff, Prepares, PrepareFails,
                  Decides, Rereads, AtFault, Quietly
    <2> QED
      BY <1>2, <2>1, <2>2, RenderSteps, MovedInv
  <1>3. ASSUME NEW r \in Renders, Step(r) \/ Answer(r) \/ TimesOut(r) \/ Page(r) \/ Cancelled(r)
        PROVE  TypeOK' /\ Inv'
    BY <1>1, <1>2, <1>3, StartSteps, RestartSteps, CancelStep DEF Step, Answer
  <1>4. CASE UNCHANGED vars
    BY <1>4 DEF vars, TypeOK, Inv, DriverInv, DeathInv, Dead, RendersInv, JobOK, DocOK, Traces, Showing
  <1> QED
    BY <1>3, <1>4, DriverSteps DEF Next

\* However renders enter, lose the driver, restart it and are cancelled
\* together: outside the cloud tier never more than one driver runs and none
\* after close, and no render is lost to the death of a single driver.
THEOREM RendersShareADriver == Spec => []DriverShared
  <1>1. TypeOK /\ Inv => DriverShared
    <2> SUFFICES ASSUME TypeOK, Inv PROVE OneDriver /\ OneDeathSurvived
      BY DEF DriverShared
    <2>1. OneDriver
      <3> SUFFICES ASSUME mode # "cloud"
                   PROVE  Cardinality(alive) <= 1 /\ ((pw # 0 /\ ~started) => alive = {})
        BY DEF OneDriver
      <3>1. alive \subseteq {pw} /\ (~started => alive = {})
        BY DEF Inv, DriverInv
      <3>2. IsFiniteSet({pw}) /\ Cardinality({pw}) = 1
        BY FS_Singleton
      <3>3. Cardinality(alive) <= Cardinality({pw})
        BY <3>1, <3>2, FS_Subset
      <3> QED
        BY <3>1, <3>2, <3>3
    <2>2. OneDeathSurvived
      BY DEF OneDeathSurvived, Inv, RendersInv, JobOK
    <2> QED
      BY <2>1, <2>2
  <1> QED
    BY <1>1, Initially, Invariance, PTL DEF Spec

\* Whatever the page does between the reads: nothing of an excluded page is passed
\* on without the mark that makes the capture discard it, unless the page left
\* the excluded URL before page.url was read or went to it without a request
\* after that.
THEOREM NothingKeptOfExcluded == Spec => []ExcludedKeepsNothing
  <1>1. TypeOK /\ Inv => ExcludedKeepsNothing
    <2> SUFFICES ASSUME TypeOK, Inv, NEW r \in Renders, at[r] \in {"reread", "returned"}, ~doc[r].excl
                 PROVE  /\ doc[r].kept # "blocked"
                        /\ doc[r].kept = "excludedUrl" \/ doc[r].lines => doc[r].slipped
      BY DEF ExcludedKeepsNothing
    <2>1. DocOK(at[r], doc[r])
      BY DEF Inv, RendersInv
    <2> QED
      BY <2>1 DEF DocOK, Traces, OnPage, Rendering
  <1> QED
    BY <1>1, Initially, Invariance, PTL DEF Spec
=============================================================================
