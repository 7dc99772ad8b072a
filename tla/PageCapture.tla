----------------------------- MODULE PageCapture -----------------------------
(***************************************************************************)
(* What a page capture decides: the pure part of the pagecapture package.  *)
(* A capture fetches the page over plain HTTP, classifies the answer, and  *)
(* ends there, trusts the method cache, or escalates through the browser   *)
(* tiers "managed", "local_resolution" and "challenge_resolution".  The    *)
(* answers of the site and of a browser are the kinds the code tells       *)
(* apart; each kind either ends the capture (a row of the tables below) or *)
(* escalates.                                                              *)
(***************************************************************************)
EXTENDS Naturals, Sequences, FiniteSets, SequencesExt

CONSTANTS
    PatternMinComparisons,    \* sufficient comparisons before a URL pattern skips rendering
    PatternMaxContradictions  \* a pattern contradicted this often stops skipping

ASSUME CacheAssumption ==
    /\ PatternMinComparisons \in Nat \ {0}
    /\ PatternMaxContradictions \in Nat \ {0}

-----------------------------------------------------------------------------
(* Results, and the attempts that are their evidence. *)

NoFailure == "none"
Captured(document) == [outcome |-> "captured", failure |-> NoFailure, document |-> document]
Failed(code, document) == [outcome |-> "failed", failure |-> code, document |-> document]
NoResult == [outcome |-> "none", failure |-> NoFailure, document |-> "none"]

\* FAILURES: the category of every failure code the model meets.
Category(code) ==
    CASE code \in {"rate_limited", "website_error", "not_found", "access_denied",
                   "bot_challenge", "bot_blocked", "redirect_loop"} -> "website"
      [] code \in {"unreachable", "host_not_found"} -> "network"
      [] code \in {"capacity", "browser_unavailable", "deadline_exceeded"} -> "gateway"
      [] OTHER -> "content"

\* REASON_FAILURE and from_reason: the kinds whose assessment ends a capture.
ReasonFailure ==
    [limited |-> "rate_limited", denied |-> "access_denied",
     notFound |-> "not_found", serverError |-> "website_error"]

\* An attempt that ended on another host than the requested one; and one that
\* names no final URL: a fetch or a render that raised, or met an excluded URL.
Elsewhere == 1
Unnamed == 0

\* The status codes an answer of a kind may come with, as far as pacing reads
\* them: 403 stands for a refusal (401, 403 or a server error), 200 for what is
\* neither that nor 429.  Most rules fire on wording whatever the status, and
\* one that fires on 429 comes before them; a page without a reason has no
\* error status.
Statuses(kind) ==
    CASE kind = "excluded" -> {Unnamed}
      [] kind \in {"largeLimited", "jsonLimited"} -> {429, Elsewhere}
      [] kind = "limited" -> {200, 403, 429, Elsewhere}
      [] kind \in {"large", "largeData", "xml", "shell", "challenge", "block",
                   "denied", "notFound", "serverError"} -> {200, 403, Elsewhere}
      [] OTHER -> {200, Elsewhere}

\* The primary assessment of an answer, as far as the control flow reads it; a
\* comparison stands for the assessment of a trustworthy render.
PrimaryOf(kind) ==
    CASE kind \in {"challenge", "block"} -> "bot_challenge"
      [] kind \in {"limited", "largeLimited"} -> "rate_limited"
      [] kind \in {"matches", "differs"} -> kind
      [] OTHER -> "other"

\* A render that brought no content: the site refused the browser, the page
\* timed out, or nothing could be read, for instance because the tier's proxy
\* failed.
FailedRender ==
    [refusedNavigation |-> "unreachable", stalled |-> "deadline_exceeded",
     unreadable |-> "browser_unavailable"]

\* What an answer of a kind may be assessed as.  A render that brought no
\* content is assessed too, by its status and by whatever HTML it left.
Assessments(kind) ==
    IF kind \in DOMAIN FailedRender
    THEN {seen \in [primary : {"other", "rate_limited", "bot_challenge"},
                    status : {200, 403, 429, Elsewhere}] :
             seen.status = 429 => seen.primary = "rate_limited"}
    ELSE [primary : {PrimaryOf(kind)}, status : Statuses(kind)]

\* One step of the evidence: what was `seen', and whether a page was read.
Attempt(tier, kind, seen, decision) ==
    [tier |-> tier, primary |-> seen.primary, status |-> seen.status,
     read |-> kind \notin DOMAIN FailedRender, decision |-> decision]

RaisedAttempt(tier, primary) ==
    [tier |-> tier, primary |-> primary, status |-> Unnamed, read |-> FALSE, decision |-> "fail"]

Decide(attempts, decision) ==
    IF attempts = <<>> THEN attempts
    ELSE [attempts EXCEPT ![Len(attempts)].decision = decision]

TiersOf(attempts) == {a.tier : a \in ToSet(attempts)}

-----------------------------------------------------------------------------
(* Plain HTTP. *)

\* fetch raises: there is no response to keep.
FetchFailure ==
    [unreachable |-> "unreachable", hostNotFound |-> "host_not_found",
     redirectLoop |-> "redirect_loop", excludedHop |-> "excluded",
     unsupported |-> "unsupported_media_type"]

\* The answers that end the capture without a browser: a truncated body that a
\* browser would not show, JSON, XML and other media as sent, and pages that
\* are blocked or broken.
PlainEnding ==
    [largeLimited |-> Failed("rate_limited", "none"),
     largeData    |-> Failed("incomplete_content", "none"),
     sniffed      |-> Failed("unsupported_media_type", "plain"),
     json         |-> Captured("plain"),
     jsonLimited  |-> Failed("rate_limited", "plain"),
     jsonEmpty    |-> Failed("incomplete_content", "none"),
     xml          |-> Captured("plain"),
     binary       |-> Captured("plain"),
     blank        |-> Failed("incomplete_content", "none"),
     limited      |-> Failed("rate_limited", "plain"),
     denied       |-> Failed("access_denied", "plain"),
     notFound     |-> Failed("not_found", "plain"),
     serverError  |-> Failed("website_error", "plain")]

\* "large" is an oversized HTML body; "shell" stands for every reason of
\* ESCALATE_TO_BROWSER; "usable" is a page the classifier accepts.
Escalating == {"large", "usable", "shell", "challenge", "block"}

HttpKinds == DOMAIN FetchFailure \cup DOMAIN PlainEnding \cup Escalating

\* The kinds that are classified as a page; the others end on their status,
\* size or media type alone.
Classified ==
    {"xml", "binary", "blank", "limited", "denied", "notFound", "serverError"}
        \cup (Escalating \ {"large"})

\* _acquire keeps the bytes as evidence, unless they were truncated.
Kept(kind) == IF kind \in {"large", "largeLimited", "largeData"} THEN "none" ELSE "plain"

\* capture: a plain document the caller does not store is dropped.
Returned(result, kind) ==
    IF result.document = "plain" /\ kind = "sniffed"
    THEN [result EXCEPT !.document = "none"] ELSE result

-----------------------------------------------------------------------------
(* The method cache: evidence that plain HTTP is enough. *)

NoEntry == [sufficient |-> 0, contradictions |-> 0, lastSufficient |-> FALSE]

\* A success wipes the contradictions seen before it.
FaultRecordComparison(entry, sufficient) ==
    IF sufficient THEN [sufficient |-> entry.sufficient + 1, contradictions |-> 0,
                        lastSufficient |-> TRUE]
    ELSE [entry EXCEPT !.contradictions = @ + 1, !.lastSufficient = FALSE]

\* record_comparison.  An expired entry is NoEntry.
RecordComparison(entry, sufficient) ==
    [sufficient     |-> entry.sufficient + (IF sufficient THEN 1 ELSE 0),
     contradictions |-> entry.contradictions + (IF sufficient THEN 0 ELSE 1),
     lastSufficient |-> sufficient]

\* http_sufficient, on the URL's own entry: decided there, or by the pattern.
\* `usual' says whether the size of the answer is the one usual for the entry.
ExactSays(entry, usual) ==
    CASE entry.contradictions > 0 -> "render"
      [] entry.contradictions = 0 /\ entry.lastSufficient /\ usual -> "trust"
      [] OTHER -> "ask pattern"

PatternSays(entry, usual) ==
    IF /\ entry.sufficient >= PatternMinComparisons
       /\ entry.contradictions < PatternMaxContradictions
       /\ usual
    THEN "trust" ELSE "render"

-----------------------------------------------------------------------------
(* Challenge resolution. *)

\* The caller's permission gates only the paid tier.
FaultNextResolution(allow, offered, attempts) ==
    LET used == TiersOf(attempts)
    IN  CASE "local_resolution" \notin used -> "local_resolution"
          [] allow /\ "local_resolution" \in used
                   /\ "challenge_resolution" \notin used /\ offered -> "challenge_resolution"
          [] OTHER -> "none"

\* _next_resolution and _why_not_resolve: local before paid, neither repeats.
\* The hosted challenge tier is proxied, so a block page does not rule it out.
NextResolution(allow, offered, attempts) ==
    LET used == TiersOf(attempts)
    IN  CASE ~allow -> "none"
          [] allow /\ "local_resolution" \notin used -> "local_resolution"
          [] allow /\ "local_resolution" \in used
                   /\ "challenge_resolution" \notin used /\ offered -> "challenge_resolution"
          [] OTHER -> "none"

\* _bot_failure.
BotFailure(block) == IF block THEN "bot_blocked" ELSE "bot_challenge"

-----------------------------------------------------------------------------
(* A render. *)

\* tier.render raises; only BrowserQL reports a challenge it did not pass.
RaisedFailure ==
    [busy |-> "capacity", timeout |-> "deadline_exceeded", broken |-> "browser_unavailable"]

BrowserRefused == {"limited", "denied", "serverError"}
Compared == {"matches", "differs"}

RenderedKinds ==
    {"excluded", "challenge", "block", "notFound", "emptyText", "emptySmall", "empty"}
        \cup DOMAIN FailedRender \cup BrowserRefused \cup Compared

\* How a render that is not escalated any further ends the capture.  `plain'
\* is the HTTP document it may fall back on as evidence; `usable' says that
\* the classifier had accepted it; `blocked' that plain HTTP met a block page.
RenderEnding(tier, kind, plain, usable, blocked) ==
    CASE kind = "excluded" -> Failed("excluded", "none")
      [] kind = "refusedNavigation" /\ tier = "challenge_resolution" ->
            Failed("bot_blocked", plain)
      [] kind \in DOMAIN FailedRender
            /\ ~(kind = "refusedNavigation" /\ tier = "challenge_resolution") ->
            Failed(FailedRender[kind], plain)
      [] kind = "notPassed" -> Failed(BotFailure(blocked), plain)
      [] kind \in DOMAIN RaisedFailure -> Failed(RaisedFailure[kind], plain)
      [] kind \in {"challenge", "block"} -> Failed(BotFailure(kind = "block"), plain)
      [] kind \in BrowserRefused /\ usable -> Failed("incomplete_content", plain)
      [] kind \in DOMAIN ReasonFailure /\ ~(kind \in BrowserRefused /\ usable) ->
            Failed(ReasonFailure[kind], "rendered")
      [] kind = "emptyText" -> Failed("incomplete_content", IF usable THEN plain ELSE "rendered")
      [] kind = "emptySmall" ->
            IF usable THEN Captured("rendered") ELSE Failed("incomplete_content", "rendered")
      [] kind = "empty" -> Failed("incomplete_content", "rendered")

\* A comparison vouches for the plain response only if it was usable.
Sufficient(kind, usable) == usable /\ kind = "matches"

-----------------------------------------------------------------------------
(* What the host keeps of a finished capture. *)

\* pacing_observation.  A 429 of the requested host stays throttling evidence
\* whatever follows it; an answer of another host says nothing of this one.
PacingObservation(attempts, result) ==
    LET named == {i \in DOMAIN attempts : attempts[i].status # Unnamed}
        latest == IF named = {} THEN Unnamed ELSE attempts[Max(named)].status
        category == Category(result.failure)
    IN  IF \E i \in named : attempts[i].status = 429 THEN "throttled"
        ELSE IF latest = Elsewhere THEN "neutral"
        ELSE IF result.failure = NoFailure THEN "healthy"
        ELSE IF result.failure = "rate_limited" THEN "throttled"
        ELSE IF \/ category = "content" /\ latest = 403
                \/ result.failure \in {"website_error", "access_denied", "bot_blocked"}
        THEN "overload" ELSE "neutral"

\* Counts a page as resolved internally once local resolution was tried.
FaultAcquisitionOutcome(attempts, result) ==
    IF result.outcome # "captured" THEN "total_failure"
    ELSE IF "local_resolution" \in TiersOf(attempts) THEN "internally_resolved" ELSE "default"

\* acquisition_outcome: which kind of acquisition the capture is counted as.
AcquisitionOutcome(attempts, result) ==
    LET accepted == {i \in DOMAIN attempts : attempts[i].decision = "accept"}
        tier == IF accepted = {} THEN "direct" ELSE attempts[Max(accepted)].tier
    IN  CASE result.outcome # "captured" -> "total_failure"
          [] result.outcome = "captured" /\ result.document = "rendered"
                /\ tier = "local_resolution" -> "internally_resolved"
          [] result.outcome = "captured" /\ result.document = "rendered"
                /\ tier = "challenge_resolution" -> "externally_resolved"
          [] OTHER -> "default"

\* capture_facts: the row of capture_results, and whether it is billed as paid.
CaptureFacts(attempts, result, paid) ==
    [outcome  |-> AcquisitionOutcome(attempts, result),
     local    |-> "local_resolution" \in TiersOf(attempts),
     external |-> "challenge_resolution" \in TiersOf(attempts),
     paid     |-> paid]

=============================================================================
