------------------------------- MODULE Capture -------------------------------
(***************************************************************************)
(* One capture hosted by Stolosio (CaptureRunner), from its request to its *)
(* response: the page-capture pipeline of PageCapture, and the capacity it *)
(* holds on the way, which are a logical session, a domain-pacing lease, a *)
(* local browser slot and a cloud attempt.  Every await may be cut short   *)
(* by a timeout, by the capture's deadline or by a cancellation, and the   *)
(* database may have committed by then.  Other captures of the same URL,   *)
(* the cache's retention and the session's lease move underneath.          *)
(***************************************************************************)
EXTENDS PageCapture

CONSTANTS
    MaxFaults,   \* cleanups that exceed their budget
    MaxEvidence  \* comparisons recorded by other captures, beside one that may use the
                 \* resolvers (`allow') and beside one that may not

ASSUME CaptureAssumption == MaxFaults \in Nat /\ MaxEvidence \in [BOOLEAN -> Nat]

VARIABLES
    pc,        \* the await the capture is at
    left,      \* time to the deadline: 2 ample, 1 at most five seconds, 0 expired
    allow,     \* resolve_bot_challenges
    offered,   \* Browserless cloud is configured and enabled (_challenge_tier)
    rows,      \* what PostgreSQL holds for the capture, per resource
    held,      \* the leases the runner has a reference to
    page,      \* the kind of the plain answer, or "none"
    tier,      \* the tier being rendered
    attempts,  \* the evidence
    result,    \* NoResult until the capture has one
    paid,      \* cost.paid
    cache,     \* the method cache's entries for the URL and for its pattern
    doubted,   \* a comparison recorded before the capture read the URL's entry contradicted
               \* the URL, and has not expired
    recorded,  \* the facts written to capture_results
    observed,  \* the observation the pacing lease was released with
    faults, cancelled, lost,
    stranded   \* the session's admission committed, and its lease is nobody's

flow == <<pc, left, page, tier, attempts, result, paid, cancelled>>
given == <<allow, offered>>
store == <<rows, held, faults, lost, stranded>>
facts == <<recorded, observed>>
evidence == <<cache, doubted>>
vars == <<flow, given, store, facts, evidence>>

Resources == {"session", "lease", "slot", "cloud"}
Live == {"queued", "acquiring", "active"}

Capturing ==
    {"policy", "admit", "open", "pace", "offer", "fetch", "classify", "exact", "pattern",
     "slotEnqueue", "slotWait", "slotActivate", "cloudEnqueue", "cloudWait", "slotReturn",
     "cloudActivate", "browser", "compare"}
Cleaning == {"dropLease", "record", "dropCloud", "dropSlot", "dropSession"}
Rendering == {"slotEnqueue", "slotWait", "slotActivate", "cloudEnqueue", "cloudWait",
              "slotReturn", "cloudActivate", "browser"}
Serving == Rendering \cup {"fetch", "classify", "exact", "pattern", "compare"}
Ended == {"refused", "raised", "answered", "abandoned", "cut"}

Init ==
    /\ pc = "policy" /\ left = 2
    /\ allow \in BOOLEAN /\ offered = FALSE
    /\ rows = [r \in Resources |-> "none"] /\ held = {}
    /\ page = "none" /\ tier = "none"
    /\ attempts = <<>> /\ result = NoResult /\ paid = FALSE
    /\ cache = [url |-> NoEntry, pattern |-> NoEntry]
    /\ doubted = FALSE
    /\ recorded = {} /\ observed = "none"
    /\ faults = 0 /\ cancelled = FALSE /\ lost = FALSE /\ stranded = FALSE

-----------------------------------------------------------------------------
(* Helpers. *)

Row(r, state) == rows' = [rows EXCEPT ![r] = state]

\* The next await.  Outside the capture proper the deadline no longer counts.
Goto(label) == pc' = label /\ left' = IF label \in Capturing THEN left ELSE 0

\* A cleanup with its own budget: it ends the row, or runs out of time.
Ends(r) ==
    \/ /\ Row(r, IF rows[r] \in Live THEN "ended" ELSE rows[r])
       /\ UNCHANGED faults
    \/ /\ rows[r] \in Live /\ faults < MaxFaults
       /\ faults' = faults + 1
       /\ UNCHANGED rows

\* An attempt is enqueued for a live session without another live attempt, or
\* as the replacement of the session's active slot; otherwise enqueue raises.
SlotAdmissible ==
    rows["session"] = "active" /\ rows["slot"] \notin Live /\ rows["cloud"] \notin Live

CloudAdmissible ==
    /\ rows["session"] = "active"
    /\ IF "slot" \in held THEN rows["slot"] = "active" ELSE rows["slot"] \notin Live

\* The wait is abandoned with whatever it committed.
FaultWithdrawn(r, admissible) ==
    /\ UNCHANGED faults
    /\ \/ UNCHANGED rows
       \/ admissible /\ rows[r] \notin Live /\ Row(r, "acquiring")

\* The wait for a grant was interrupted: its transaction may have committed if
\* it was `admissible', and the code finishes what it left, within a budget.
Withdrawn(r, admissible) ==
    \/ Row(r, IF rows[r] \in Live THEN "ended" ELSE rows[r]) /\ UNCHANGED faults
    \/ /\ faults < MaxFaults /\ (rows[r] \in Live \/ admissible)
       /\ faults' = faults + 1
       /\ Row(r, IF rows[r] \in Live THEN rows[r] ELSE "acquiring")

Untouched == UNCHANGED <<rows, faults>>

\* activate was interrupted after its commit.
Committed(r) == rows[r] = "acquiring" /\ Row(r, "active") /\ UNCHANGED faults

\* What an interruption of the current await does to the rows: a late session
\* (unless it is lost, AdmissionLost) and a late pacing lease are drained and
\* released, an acquisition is withdrawn.
Unwound ==
    CASE pc = "admit" -> Withdrawn("session", TRUE)
      [] pc = "pace" -> Withdrawn("lease", TRUE)
      [] pc \in {"slotEnqueue", "slotWait"} -> Withdrawn("slot", SlotAdmissible)
      [] pc \in {"cloudEnqueue", "cloudWait"} -> Withdrawn("cloud", CloudAdmissible)
      [] pc = "slotActivate" -> Untouched \/ Committed("slot")
      [] pc = "cloudActivate" -> Untouched \/ Committed("cloud")
      [] OTHER -> Untouched

\* The awaits of the runner's `finally': it skips what the capture does not hold.
AfterCloud == IF "slot" \in held THEN "dropSlot" ELSE "dropSession"
AfterRecord == IF "cloud" \in held THEN "dropCloud" ELSE AfterCloud
AfterLease == IF result' # NoResult THEN "record" ELSE AfterRecord
Finally == Goto(IF "lease" \in held THEN "dropLease" ELSE AfterLease)

\* The service returns `r' to the runner.
Answers(r) == result' = Returned(r, page') /\ Finally

\* _render: no time left to render, or the tier's render begins.
Renders(next) ==
    IF left < 2
    THEN Answers(Failed("deadline_exceeded", Kept(page'))) /\ tier' = tier
    ELSE /\ tier' = next
         /\ Goto(CASE next = "challenge_resolution" -> "cloudEnqueue"
                   [] next # "challenge_resolution" /\ "slot" \in held -> "browser"
                   [] OTHER -> "slotEnqueue")
         /\ UNCHANGED result

-----------------------------------------------------------------------------
(* Admission (CaptureRunner._capture). *)

ReadPolicy ==
    /\ pc = "policy" /\ Goto("admit")
    /\ UNCHANGED <<page, tier, attempts, result, paid, cancelled,
                   given, store, facts, evidence>>

Admitted ==
    /\ pc = "admit"
    /\ Row("session", "active")
    /\ held' = held \cup {"session"} /\ Goto("open")
    /\ UNCHANGED <<page, tier, attempts, result, paid, cancelled,
                   given, faults, lost, stranded, facts, evidence>>

\* GatewayCapacityFull, or a database conflict: 503.
Refused ==
    /\ pc = "admit" /\ Goto("refused")
    /\ UNCHANGED <<page, tier, attempts, result, paid, cancelled,
                   given, store, facts, evidence>>

Opened ==
    /\ pc = "open"
    /\ IF rows["session"] = "active"
       THEN Goto("pace") /\ UNCHANGED result
       ELSE UNCHANGED result /\ Finally
    /\ UNCHANGED <<page, tier, attempts, paid, cancelled,
                   given, store, facts, evidence>>

Paced ==
    /\ pc = "pace"
    /\ Row("lease", "active")
    /\ held' = held \cup {"lease"} /\ Goto("offer")
    /\ UNCHANGED <<page, tier, attempts, result, paid, cancelled,
                   given, faults, lost, stranded, facts, evidence>>

\* DomainThrottled: 429, after the session is released.
Throttled ==
    /\ pc = "pace" /\ UNCHANGED result /\ Finally
    /\ UNCHANGED <<page, tier, attempts, paid, cancelled,
                   given, store, facts, evidence>>

\* _challenge_tier.
ChallengeTier ==
    /\ pc = "offer"
    /\ offered' \in (IF allow THEN BOOLEAN ELSE {FALSE})
    /\ Goto("fetch")
    /\ UNCHANGED <<page, tier, attempts, result, paid, cancelled,
                   allow, store, facts, evidence>>

-----------------------------------------------------------------------------
(* Plain HTTP and the method cache (CaptureService._acquire). *)

Fetched(kind, seen) ==
    /\ pc = "fetch"
    /\ page' = kind
    /\ IF kind \in DOMAIN FetchFailure
       THEN /\ attempts' = <<IF kind = "unsupported" THEN Attempt("direct", kind, seen, "fail")
                             ELSE RaisedAttempt("direct", "other")>>
            /\ Answers(Failed(FetchFailure[kind], "none"))
            /\ UNCHANGED tier
       ELSE IF kind = "large"
       THEN attempts' = <<Attempt("direct", kind, seen, "escalate")>> /\ Renders("managed")
       ELSE IF kind \notin Classified
       THEN /\ attempts' = <<Attempt("direct", kind, seen,
                                     IF PlainEnding[kind].outcome = "captured"
                                     THEN "accept" ELSE "fail")>>
            /\ Answers(PlainEnding[kind])
            /\ UNCHANGED tier
       ELSE Goto("classify") /\ UNCHANGED <<attempts, tier, result>>
    /\ UNCHANGED <<paid, cancelled, given, store, facts, evidence>>

\* _challenge: the next resolution tier, or none is left and the block page is kept.
Challenged(list, block, next) ==
    IF next # "none"
    THEN attempts' = Decide(list, "escalate") /\ Renders(next)
    ELSE /\ attempts' = Decide(list, "fail")
         /\ Answers(Failed(BotFailure(block), "plain"))
         /\ UNCHANGED tier

\* The classifier's verdict is in: end, ask the cache, or escalate.
Classify(seen) ==
    /\ pc = "classify" /\ UNCHANGED page
    /\ LET list == Append(attempts, Attempt("direct", page, seen, "accept"))
       IN  CASE page \in DOMAIN PlainEnding ->
                  /\ attempts' = Decide(list, IF PlainEnding[page].outcome = "captured"
                                              THEN "accept" ELSE "fail")
                  /\ Answers(PlainEnding[page])
                  /\ UNCHANGED tier
             [] page = "usable" -> attempts' = list /\ Goto("exact") /\ UNCHANGED <<result, tier>>
             [] page = "shell" -> attempts' = Decide(list, "escalate") /\ Renders("managed")
             [] page \in {"challenge", "block"} ->
                  Challenged(list, page = "block", NextResolution(allow, offered, list))
    /\ UNCHANGED <<paid, cancelled, given, store, facts, evidence>>

\* The cache trusts plain HTTP here, and the canary did not pick this capture;
\* or the page is rendered to verify it.
Settled(says, canary) ==
    IF says = "trust" /\ ~canary
    THEN /\ attempts' = Decide(attempts, "accept")
         /\ Answers(Captured("plain"))
         /\ UNCHANGED tier
    ELSE attempts' = Decide(attempts, "escalate") /\ Renders("managed")

LookUpExact(usual, canary) ==
    /\ pc = "exact" /\ UNCHANGED page
    /\ LET says == ExactSays(cache.url, usual)
       IN  IF says = "ask pattern"
           THEN Goto("pattern") /\ UNCHANGED <<attempts, result, tier>>
           ELSE Settled(says, canary)
    /\ UNCHANGED <<paid, cancelled, given, store, facts, evidence>>

LookUpPattern(usual, canary) ==
    /\ pc = "pattern" /\ UNCHANGED page
    /\ Settled(PatternSays(cache.pattern, usual), canary)
    /\ UNCHANGED <<paid, cancelled, given, store, facts, evidence>>

-----------------------------------------------------------------------------
(* Rendering (CaptureService._render) and the capacity it needs. *)

Usable == page = "usable"
Plain == Kept(page)
Blocked == page = "block"

\* A managed render that failed would escalate like a local one.
FaultFallbackOf(current, next) == next

\* _local_fallback: only a failed local resolution falls back, on the paid one.
FallbackOf(current, next) == IF current = "local_resolution" THEN next ELSE "none"

\* The tier ended with `kind' and its attempt is in `list': escalate or end.
After(kind, list) ==
    LET next == IF kind \in {"challenge", "block"} THEN NextResolution(allow, offered, list)
                ELSE IF kind \in DOMAIN FailedRender \cup DOMAIN RaisedFailure \cup {"notPassed"}
                THEN FallbackOf(tier, NextResolution(allow, offered, list))
                ELSE "none"
        ending == RenderEnding(tier, kind, Plain, Usable, Blocked)
    IN  IF next # "none"
        THEN attempts' = Decide(list, "escalate") /\ Renders(next)
        ELSE /\ attempts' = Decide(list, IF ending.outcome = "captured" THEN "accept" ELSE "fail")
             /\ Answers(ending)
             /\ UNCHANGED tier

\* tier.render raised.  A refusal for capacity costs nothing; anything else
\* counts as a use of the tier (_record_failed_render).
Raises(kind) ==
    /\ UNCHANGED page
    /\ After(kind, Append(attempts,
                RaisedAttempt(tier, IF kind = "notPassed" THEN "bot_challenge" ELSE "other")))
    /\ paid' = (paid \/ (kind # "busy" /\ tier = "challenge_resolution"))

SlotEnqueued(state) ==
    /\ pc = "slotEnqueue" /\ SlotAdmissible
    /\ Row("slot", state)
    /\ IF state = "queued" THEN Goto("slotWait") /\ UNCHANGED held
       ELSE Goto("slotActivate") /\ held' = held \cup {"slot"}
    /\ UNCHANGED <<page, tier, attempts, result, paid, cancelled,
                   given, faults, lost, stranded, facts, evidence>>

SlotClaimed ==
    /\ pc = "slotWait" /\ rows["slot"] = "queued"
    /\ Row("slot", "acquiring")
    /\ held' = held \cup {"slot"} /\ Goto("slotActivate")
    /\ UNCHANGED <<page, tier, attempts, result, paid, cancelled,
                   given, faults, lost, stranded, facts, evidence>>

SlotActivated ==
    /\ pc = "slotActivate" /\ rows["slot"] = "acquiring"
    /\ Row("slot", "active") /\ Goto("browser")
    /\ UNCHANGED <<page, tier, attempts, result, paid, cancelled,
                   given, held, faults, lost, stranded, facts, evidence>>

\* No capacity: the queue is full, or the wait for it or for the activation
\* ran out.  An acquisition that was already returned stays with the capture,
\* active or not.
SlotRefused ==
    /\ pc \in {"slotEnqueue", "slotWait", "slotActivate"}
    /\ Unwound
    /\ Raises("busy")
    /\ UNCHANGED <<cancelled, given, held, lost, stranded, facts, evidence>>

\* A deadlock or serialization failure outlasts the retries: a refusal too; any
\* other database error is none.  acquire does not withdraw the attempt it has
\* queued.
SlotConflict(kind) ==
    /\ pc \in {"slotEnqueue", "slotWait", "slotActivate"}
    /\ Raises(kind)
    /\ UNCHANGED <<cancelled, given, store, facts, evidence>>

\* _local_slot: the budget leaves no time to render after the wait.
NoTimeForSlot ==
    /\ pc = "slotEnqueue"
    /\ Raises("timeout")
    /\ UNCHANGED <<cancelled, given, store, facts, evidence>>

\* enqueue, claim or activate finds the session or the attempt gone, the
\* session holding another live attempt, or a transition source that is not
\* active: a RuntimeError, which is no capacity refusal.
AcquisitionFails ==
    /\ \/ pc = "slotEnqueue" /\ ~SlotAdmissible
       \/ pc = "slotWait" /\ rows["slot"] # "queued"
       \/ pc = "slotActivate" /\ rows["slot"] # "acquiring"
       \/ pc = "cloudEnqueue" /\ ~CloudAdmissible
       \/ pc = "cloudWait" /\ rows["cloud"] # "queued"
       \/ pc = "cloudActivate" /\ rows["cloud"] # "acquiring"
    /\ Raises("broken")
    /\ UNCHANGED <<cancelled, given, store, facts, evidence>>

\* switch: the cloud attempt is acquired as the replacement of the active slot.
CloudEnqueued(state) ==
    /\ pc = "cloudEnqueue" /\ CloudAdmissible
    /\ Row("cloud", state)
    /\ IF state = "queued" THEN Goto("cloudWait") /\ UNCHANGED held
       ELSE Goto("slotReturn") /\ held' = held \cup {"cloud"}
    /\ UNCHANGED <<page, tier, attempts, result, paid, cancelled,
                   given, faults, lost, stranded, facts, evidence>>

CloudClaimed ==
    /\ pc = "cloudWait" /\ rows["cloud"] = "queued"
    /\ Row("cloud", "acquiring")
    /\ held' = held \cup {"cloud"} /\ Goto("slotReturn")
    /\ UNCHANGED <<page, tier, attempts, result, paid, cancelled,
                   given, faults, lost, stranded, facts, evidence>>

CloudRefused ==
    /\ pc \in {"cloudEnqueue", "cloudWait"}
    /\ Unwound
    /\ Raises("busy")
    /\ UNCHANGED <<cancelled, given, held, lost, stranded, facts, evidence>>

\* Unlike the local slot's, a conflict of the cloud's admission is not turned
\* into a refusal.
CloudConflict ==
    /\ pc \in {"cloudEnqueue", "cloudWait", "cloudActivate"}
    /\ Raises("broken")
    /\ UNCHANGED <<cancelled, given, store, facts, evidence>>

\* switch: the local slot is done.
SlotReturned ==
    /\ pc = "slotReturn"
    /\ IF "slot" \in held THEN Ends("slot") ELSE Untouched
    /\ Goto("cloudActivate")
    /\ UNCHANGED <<page, tier, attempts, result, paid, cancelled,
                   given, held, lost, stranded, facts, evidence>>

CloudActivated ==
    /\ pc = "cloudActivate" /\ rows["cloud"] = "acquiring"
    /\ Row("cloud", "active") /\ Goto("browser")
    /\ UNCHANGED <<page, tier, attempts, result, paid, cancelled,
                   given, held, faults, lost, stranded, facts, evidence>>

\* The browser answers.  A trustworthy render goes on to be compared.
Rendered(kind, seen) ==
    /\ pc = "browser" /\ UNCHANGED page
    /\ paid' = (paid \/ tier = "challenge_resolution")
    /\ LET list == Append(attempts, Attempt(tier, kind, seen, "accept"))
       IN  IF kind \in Compared
           THEN /\ attempts' = list /\ Goto("compare")
                /\ UNCHANGED <<result, tier>>
           ELSE After(kind, list)
    /\ UNCHANGED <<cancelled, given, store, facts, evidence>>

\* The browser raises: no browser behind the endpoint, a refusal by the
\* provider, a broken driver, or (BrowserQL only) a challenge that held.
BrowserRaises(kind) ==
    /\ pc = "browser"
    /\ kind = "notPassed" => tier = "challenge_resolution"
    /\ Raises(kind)
    /\ UNCHANGED <<cancelled, given, store, facts, evidence>>

\* The render budget of the tier runs out: local resolution has a cap of its
\* own, the other tiers end two seconds before the deadline.
RenderTimesOut ==
    /\ pc \in Rendering
    /\ tier = "local_resolution" \/ left < 2
    /\ Unwound
    /\ Raises("timeout")
    /\ UNCHANGED <<cancelled, given, held, lost, stranded, facts, evidence>>

Recorded(sufficient) ==
    cache' = [url     |-> RecordComparison(cache.url, sufficient),
              pattern |-> RecordComparison(cache.pattern, sufficient)]

\* The comparison is recorded for both keys in one transaction, then decides.
Compare ==
    /\ pc = "compare"
    /\ LET sufficient == Sufficient(Last(attempts).primary, Usable)
       IN  /\ Recorded(sufficient)
           /\ result' = Captured(IF sufficient THEN "plain" ELSE "rendered")
    /\ Finally
    /\ UNCHANGED <<page, tier, attempts, paid, cancelled, given, store, facts,
                   doubted>>

-----------------------------------------------------------------------------
(* Interruptions. *)

\* Only the service's own await is bounded; the admission is not.
FaultBounded == Serving

\* The awaits under the deadline's timeout.
Bounded == Capturing

\* The deadline before the fetch: a 503 until the session is admitted, then a failed result.
ExpiresBeforeFetch ==
    /\ left = 0 /\ pc \in Bounded \ Serving
    /\ Unwound
    /\ IF pc \in {"policy", "admit"} THEN Goto("refused") /\ UNCHANGED result
       ELSE result' = Failed("deadline_exceeded", "none") /\ Finally
    /\ UNCHANGED <<page, tier, attempts, paid, cancelled, given, held, lost, stranded, facts, evidence>>

\* The deadline inside the service: a failed result with the evidence so far.
DeadlineExpires ==
    /\ left = 0 /\ pc \in Bounded \cap Serving
    /\ Unwound
    /\ attempts' = Decide(attempts, "fail")
    /\ result' = Failed("deadline_exceeded", IF pc = "fetch" THEN "none" ELSE Plain)
    /\ Finally
    /\ UNCHANGED <<page, tier, paid, cancelled, given, held, lost, stranded, facts, evidence>>

\* The admission's task is cancelled while its commit is under way, or just
\* after it: what it returns is the cancellation and not the lease, so nobody
\* releases the session, and nothing failed.
AdmissionLost ==
    /\ pc = "admit"
    /\ Row("session", "active") /\ stranded' = TRUE
    /\ \/ left = 0 /\ Goto("refused") /\ UNCHANGED cancelled
       \/ ~cancelled /\ cancelled' = TRUE /\ Goto("abandoned")
    /\ UNCHANGED <<page, tier, attempts, result, paid, given, held, faults, lost, facts, evidence>>

\* An exception that leaves the service, or the runner, takes the evidence and
\* the result with it.
Forgotten == page' = "none" /\ tier' = "none" /\ attempts' = <<>> /\ paid' = FALSE
             /\ result' = NoResult

\* The database fails under an await that no handler turns into a result: the
\* exception runs through the `finally', if that is entered.
DatabaseFails ==
    /\ pc \in {"policy", "admit", "open", "pace", "offer", "exact", "pattern", "compare"}
    /\ Forgotten
    /\ IF pc \in {"policy", "admit"} THEN Goto("raised") ELSE Finally
    /\ UNCHANGED <<cancelled, given, store, facts, evidence>>

\* The caller's task is cancelled, once, at any await; inside the cleanup it
\* skips what is left of it.
Cancelled ==
    /\ ~cancelled /\ pc \in Capturing \cup Cleaning
    /\ cancelled' = TRUE
    /\ Unwound
    /\ Forgotten
    /\ CASE pc \in Cleaning -> Goto("cut")
         [] pc \in {"policy", "admit"} -> Goto("abandoned")
         [] OTHER -> Finally
    /\ UNCHANGED <<given, held, lost, stranded, facts, evidence>>

Tick ==
    /\ pc \in Capturing /\ left > 0
    /\ left' = left - 1
    /\ UNCHANGED <<pc, page, tier, attempts, result, paid, cancelled,
                   given, store, facts, evidence>>

-----------------------------------------------------------------------------
(* The runner's `finally'. *)

DropLease ==
    /\ pc = "dropLease"
    /\ Ends("lease")
    /\ observed' = IF faults' # faults THEN observed
                   ELSE IF result = NoResult THEN "interrupted"
                   ELSE PacingObservation(attempts, result)
    /\ UNCHANGED result /\ Goto(AfterLease)
    /\ UNCHANGED <<page, tier, attempts, paid, cancelled,
                   given, held, lost, stranded, recorded, evidence>>

\* _record, bounded: it may fail.
Record ==
    /\ pc = "record"
    /\ \/ recorded' = {CaptureFacts(attempts, result, paid)} /\ UNCHANGED faults
       \/ faults < MaxFaults /\ faults' = faults + 1 /\ UNCHANGED recorded
    /\ Goto(AfterRecord)
    /\ UNCHANGED <<page, tier, attempts, result, paid, cancelled,
                   given, rows, held, lost, stranded, observed, evidence>>

DropCloud ==
    /\ pc = "dropCloud"
    /\ Ends("cloud")
    /\ Goto(AfterCloud)
    /\ UNCHANGED <<page, tier, attempts, result, paid, cancelled,
                   given, held, lost, stranded, facts, evidence>>

DropSlot ==
    /\ pc = "dropSlot"
    /\ Ends("slot")
    /\ Goto("dropSession")
    /\ UNCHANGED <<page, tier, attempts, result, paid, cancelled,
                   given, held, lost, stranded, facts, evidence>>

\* The session's release also ends its live attempts.
SessionEnds ==
    [r \in Resources |-> IF r # "lease" /\ rows[r] \in Live THEN "ended" ELSE rows[r]]

DropSession ==
    /\ pc = "dropSession"
    /\ \/ rows' = SessionEnds /\ UNCHANGED faults
       \/ faults < MaxFaults /\ faults' = faults + 1 /\ UNCHANGED rows
    /\ Goto(IF result # NoResult THEN "answered" ELSE IF cancelled THEN "abandoned" ELSE "raised")
    /\ UNCHANGED <<page, tier, attempts, result, paid, cancelled,
                   given, held, lost, stranded, facts, evidence>>

-----------------------------------------------------------------------------
(* The world around the capture. *)

\* Another capture records a comparison, of this URL or of a sibling with the
\* same pattern.  What was recorded before the capture reads the cache, however
\* early, is recorded while it is about to; afterwards it reads nothing of it.
OthersRecord(sibling, sufficient) ==
    /\ pc \in {"exact", "pattern"}
    /\ \A key \in {"url", "pattern"} :
          cache[key].sufficient + cache[key].contradictions < MaxEvidence[allow]
    /\ cache' = [url     |-> IF sibling THEN cache.url
                            ELSE RecordComparison(cache.url, sufficient),
                 pattern |-> RecordComparison(cache.pattern, sufficient)]
    /\ doubted' = (doubted \/ (pc = "exact" /\ ~sibling /\ ~sufficient))
    /\ UNCHANGED <<flow, given, store, facts>>

\* An entry outlives cache_ttl_days, or the retention deletes it.  The pattern
\* was last seen no earlier than the URL, and does not expire before it.
EntryExpires(key) ==
    /\ pc \in {"exact", "pattern"}
    /\ cache[key] # NoEntry
    /\ key = "pattern" => cache.url = NoEntry
    /\ cache' = [cache EXCEPT ![key] = NoEntry]
    /\ doubted' = (doubted /\ key # "url")
    /\ UNCHANGED <<flow, given, store, facts>>

\* The heartbeats fail and another admission expires the session with its
\* attempts.  Nothing in a capture waits for the loss.  A stranded session has
\* no heartbeats.
LeaseExpires ==
    /\ pc \in Capturing \/ stranded
    /\ rows["session"] = "active" /\ ~lost
    /\ rows' = SessionEnds
    /\ lost' = TRUE
    /\ UNCHANGED <<flow, given, held, faults, stranded, facts, evidence>>

-----------------------------------------------------------------------------
Cleanup ==
    DropLease \/ Record \/ DropCloud \/ DropSlot \/ DropSession

Next ==
    \/ ReadPolicy \/ Admitted \/ Refused \/ Opened \/ Paced \/ Throttled \/ ChallengeTier
    \/ \E kind \in HttpKinds : \E seen \in Assessments(kind) : Fetched(kind, seen)
    \/ \E seen \in Assessments(page) : Classify(seen)
    \/ \E usual, canary \in BOOLEAN : LookUpExact(usual, canary) \/ LookUpPattern(usual, canary)
    \/ \E state \in {"queued", "acquiring"} : SlotEnqueued(state) \/ CloudEnqueued(state)
    \/ SlotClaimed \/ SlotActivated \/ SlotRefused \/ NoTimeForSlot
    \/ \E kind \in {"busy", "broken"} : SlotConflict(kind)
    \/ AcquisitionFails
    \/ CloudClaimed \/ CloudRefused \/ CloudConflict \/ SlotReturned \/ CloudActivated
    \/ \E kind \in RenderedKinds : \E seen \in Assessments(kind) : Rendered(kind, seen)
    \/ \E kind \in {"notPassed", "busy", "broken"} : BrowserRaises(kind)
    \/ RenderTimesOut \/ Compare
    \/ ExpiresBeforeFetch \/ DeadlineExpires \/ AdmissionLost \/ DatabaseFails
    \/ Cancelled \/ Tick
    \/ Cleanup
    \/ \E sibling, sufficient \in BOOLEAN : OthersRecord(sibling, sufficient)
    \/ \E key \in {"url", "pattern"} : EntryExpires(key)
    \/ LeaseExpires

Spec == Init /\ [][Next]_vars

\* The clock runs, asyncio delivers the deadline, and every cleanup has a
\* budget of its own.  Nothing is assumed of sites, browsers or the database.
LiveSpec ==
    /\ Spec
    /\ WF_vars(Tick)
    /\ WF_vars(ExpiresBeforeFetch \/ DeadlineExpires)
    /\ WF_vars(Cleanup)

-----------------------------------------------------------------------------
(* Properties. *)

\* HTML is answered with the bytes plain HTTP brought only if they were usable
\* and a render of this capture confirmed them, or the method cache vouched
\* for them; and the cache never vouches for a URL that an earlier comparison
\* contradicted, whatever later comparisons and its siblings say
\* (record_comparison, MethodPolicy.http_sufficient, _unverified_http).
PlainNeedsEvidence ==
    /\ result.outcome = "captured" /\ result.document = "plain"
    /\ page \in Escalating
    => /\ page = "usable"
       /\ \/ Last(attempts).primary = "matches"
          \/ Len(attempts) = 1 /\ ~doubted

\* The origin is limiting this client, by its status or in its words.
Limiting(attempt) == attempt.status = 429 \/ attempt.primary = "rate_limited"

\* A resolver runs only where the caller allowed it and after bot protection was
\* met; local comes before paid and no tier repeats; cloud capacity is asked for
\* only when an operator enabled it; and once the origin is limiting the client,
\* no resolver runs any more, except that the paid one still follows a local
\* render of which no page could be read, a limiting answer or not
\* (_next_resolution, _local_fallback, _challenge_tier).
ResolversGated ==
    /\ \A i \in 1..Len(attempts) :
          /\ \A j \in 1..(i - 1) : attempts[j].tier # attempts[i].tier
          /\ attempts[i].tier \in {"local_resolution", "challenge_resolution"} =>
                /\ allow
                /\ \E j \in 1..(i - 1) : attempts[j].primary = "bot_challenge"
                /\ \A j \in 1..(i - 1) :
                      Limiting(attempts[j]) =>
                          attempts[j].tier = "local_resolution" /\ ~attempts[j].read
          /\ attempts[i].tier = "challenge_resolution" =>
                \E j \in 1..(i - 1) : attempts[j].tier = "local_resolution"
    /\ rows["cloud"] # "none" => allow /\ offered

\* What docs/CAPTURE.md says of a throttling origin: an HTTP 429 takes
\* precedence over challenge markers and neither resolver is invoked.  The code
\* keeps it for a page that was read, and not for a local render that got the
\* 429 and then brought no page (_local_fallback).
NoResolverAfterThrottle ==
    \A i \in 1..Len(attempts) :
        attempts[i].tier \in {"local_resolution", "challenge_resolution"} =>
            \A j \in 1..(i - 1) : attempts[j].status # 429

\* A tier renders only on capacity that is active and its own: the local slot,
\* although later tiers reuse it without activating it again, or the cloud
\* attempt once the slot is given back.  Losing the session's lease and a slot
\* whose release ran out of time are the exceptions (_local_slot, switch).
RendersOnlyWhatItHolds ==
    pc = "browser" /\ ~lost =>
        IF tier = "challenge_resolution"
        THEN rows["cloud"] = "active" /\ (rows["slot"] \in Live => faults > 0)
        ELSE rows["slot"] = "active" /\ rows["cloud"] \notin Live

\* However a capture ends, refused, throttled, timed out at any await,
\* cancelled, broken or answered, nothing it was granted stays behind: only a
\* cleanup that ran out of its own budget, or was itself cancelled, leaves a
\* row, and never browser capacity without the session that holds it.  The one
\* grant that is lost without any fault is a session whose admission commits
\* while it is being cancelled, and it is all that such a capture leaves
\* (CaptureRunner._capture, _admit_domain, acquire).
CapacityReturned ==
    pc \in Ended =>
        /\ faults = 0 /\ pc # "cut" =>
              \A r \in Resources : rows[r] \in Live => stranded /\ r = "session"
        /\ rows["session"] \notin Live => rows["slot"] \notin Live /\ rows["cloud"] \notin Live

\* What docs/CAPTURE.md says of admissions: late ones are drained and released.
\* The code loses the lease of one that is cancelled around its commit
\* (AdmissionLost).
LateAdmissionsReleased ==
    pc \in Ended /\ faults = 0 /\ pc # "cut" => rows["session"] \notin Live

\* The stored facts agree with the capacity the capture used: an externally
\* resolved page was paid for and had a cloud attempt, an internally resolved
\* one had neither, and a rendered one had a slot or a cloud attempt
\* (acquisition_outcome, capture_facts, _record).
FactsMatchUse ==
    \A f \in recorded :
        /\ f.outcome = "externally_resolved" => f.external /\ f.paid /\ rows["cloud"] # "none"
        /\ f.outcome = "internally_resolved" => f.local /\ ~f.paid /\ rows["cloud"] = "none"
        /\ f.outcome = "default" /\ result.document = "rendered" =>
               rows["slot"] # "none" /\ ~f.paid

\* A host that answered 429 to any attempt of the capture is reported to domain
\* pacing as throttling, whatever a later tier brought; a host is reported as
\* throttling only if it answered some attempt with a 429 or in the words of a
\* rate limit; and what another host answered last counts neither for nor
\* against the requested one
\* (pacing_observation, and the release in CaptureRunner._capture).
ThrottleReported ==
    LET named == {i \in 1..Len(attempts) : attempts[i].status # Unnamed}
    IN  result # NoResult =>
        /\ (\E i \in named : attempts[i].status = 429) =>
              observed \notin {"healthy", "overload", "neutral"}
        /\ observed = "throttled" =>
              \E i \in named : attempts[i].status # Elsewhere /\ Limiting(attempts[i])
        /\ observed \in {"healthy", "overload"} =>
              \A i \in named : (\A j \in named : j <= i) => attempts[i].status # Elsewhere

\* What a capture reports about itself, to its record and to domain pacing, is what happened.
ReportsTruthful == FactsMatchUse /\ ThrottleReported

\* Every capture ends, whatever it waits for (asyncio.timeout_at, _bounded).
CaptureEnds == <>(pc \in Ended)

=============================================================================
