--------------------------- MODULE DomainPacing ---------------------------
(***************************************************************************)
(* Adaptive pacing of captures against one hostname                        *)
(* (backend/proxy/domain_pacing/repository.py and controller.py, and the   *)
(* purge of pacing state in backend/workers/maintenance/retention.py).     *)
(* Hostnames share nothing but the settings row, so one is enough.         *)
(*                                                                         *)
(* acquire is three steps: it reads the settings row, its INSERT meets an  *)
(* existing state row (or inserts one and keeps it locked), and it gets    *)
(* the row lock and commits.  release, request_reset and the purge take    *)
(* the row lock first and are one step each.  Times are relative: what is  *)
(* left of a deadline, 0 once it has passed, and what has elapsed since an *)
(* event, saturating at Far ("long ago or never").  A tick is a second.    *)
(***************************************************************************)
EXTENDS Integers, FiniteSets, Sequences, SequencesExt

CONSTANTS
    Captures,       \* captures of the hostname, each with its own lease id
    Settings,       \* PacingSettings that operators save
    RetryAfters,    \* Retry-After durations origins send, none longer than the year they are cut to
    LeaseTicks,     \* lease_seconds: remaining capture deadline and 5 s
    MaxVersions,    \* bound: how many versions of the settings are saved
    MaxGeneration,  \* bound: policy generations of one state row
    Far             \* bound: elapsed times from here on are "long ago or never"

PacingSettings ==
    [default_concurrency: Nat, default_spacing: Nat, maximum_concurrency: Nat,
     minimum_spacing: Nat, maximum_spacing: Nat, learned_ttl: Nat,
     healthy_samples: Nat, overload_samples: Nat, cooldown: Nat]

\* PacingSettings' field limits and its validator "bounds"
ASSUME SettingsAssumption ==
    /\ Settings \subseteq PacingSettings
    /\ \A s \in Settings :
        /\ 1 <= s.default_concurrency /\ s.default_concurrency <= s.maximum_concurrency
        /\ 1 <= s.minimum_spacing /\ s.minimum_spacing <= s.default_spacing
        /\ s.default_spacing <= s.maximum_spacing
        /\ 1 <= s.learned_ttl /\ 1 <= s.cooldown
        /\ 2 <= s.healthy_samples /\ 2 <= s.overload_samples

ASSUME BoundsAssumption ==
    /\ IsFiniteSet(Captures)
    /\ RetryAfters \subseteq Nat
    /\ LeaseTicks \in Nat \ {0}
    /\ MaxVersions \in Nat \ {0}
    /\ MaxGeneration \in Nat

\* Elapsed times matter up to 1.5 times the largest spacing, and up to 2 s.
ASSUME FarAssumption ==
    /\ Far \in Nat /\ Far > 2
    /\ \A s \in Settings : 2 * Far > 3 * s.maximum_spacing

VARIABLES
    configs,    \* domain_pacing_settings: configs[v] is what version v said
    row,        \* domain_pacing_state of the hostname
    leases,     \* domain_pacing_leases
    calls,      \* each capture's progress through acquire and release
    demanded,   \* history: ticks for which an origin has asked to be left alone
    observed,   \* history: how often each capture's outcome reached the controller
    overtaken   \* history: captures that were running when the allowance last changed

history == <<demanded, observed, overtaken>>
vars == <<configs, row, leases, calls, history>>

MaxOf(a, b) == IF a > b THEN a ELSE b
MinOf(a, b) == IF a < b THEN a ELSE b

\* What is left of a deadline one tick later.
Less(a) == IF a > 0 THEN a - 1 ELSE 0

Version == Len(configs)

NoRow ==
    [present |-> FALSE, concurrency |-> 1, spacing |-> 1, ttl |-> 0, cooldown |-> 0,
     healthy |-> 0, concurrent |-> 0, overload |-> 0, generation |-> 0, reason |-> "default",
     nextStart |-> 0, sinceStart |-> Far, sinceRefused |-> Far, resetRequested |-> FALSE,
     version |-> 1]

\* A lease that is absent or expired: neither counts, and neither is observed.
NoLease == [left |-> 0, generation |-> 0, atLimit |-> FALSE, concurrencyAtLimit |-> FALSE]
NoCall == [phase |-> "idle", version |-> 1]

ResetReasons == {"ttl_expired", "settings_changed", "operator_reset"}
Reasons == ResetReasons \cup {"default", "healthy_at_limit", "origin_throttled", "origin_overload"}

\* domain_pacing_state columns; sinceStart and sinceRefused stand for last_started_at and
\* spacing_refused_at
Rows ==
    [present: BOOLEAN, concurrency: Nat \ {0}, spacing: Nat \ {0}, ttl: Nat, cooldown: Nat,
     healthy: Nat, concurrent: Nat, overload: Nat, generation: Nat, reason: Reasons,
     nextStart: Nat, sinceStart: 0..Far, sinceRefused: 0..Far, resetRequested: BOOLEAN,
     version: Nat \ {0}]

TypeOK ==
    /\ configs \in Seq(Settings) /\ configs # <<>>
    /\ row \in Rows
    /\ row.version <= Version
    /\ leases \in [Captures -> [left: 0..LeaseTicks, generation: Nat,
                                atLimit: BOOLEAN, concurrencyAtLimit: BOOLEAN]]
    /\ calls \in [Captures -> [phase: {"idle", "read", "conflicted", "running", "done"},
                               version: 1..Version]]
    /\ demanded \in Nat
    /\ observed \in [Captures -> Nat]
    /\ overtaken \in SUBSET Captures

Init ==
    /\ \E s \in Settings : configs = <<s>>
    /\ row = NoRow
    /\ leases = [c \in Captures |-> NoLease]
    /\ calls = [c \in Captures |-> NoCall]
    /\ demanded = 0
    /\ observed = [c \in Captures |-> 0]
    /\ overtaken = {}

--------------------------------------------------------------------------
(* controller.py *)

\* controller.reset, with what the repository writes beside it: defaults and new counters,
\* but the cooldown, the next start and the leases stay.
Reset(s, r, version) ==
    [r EXCEPT
        !.concurrency = s.default_concurrency,
        !.spacing = s.default_spacing,
        !.ttl = s.learned_ttl,
        !.healthy = 0, !.concurrent = 0, !.overload = 0,
        !.generation = r.generation + 1,
        !.reason = IF r.resetRequested THEN "operator_reset"
                   ELSE IF r.version # version THEN "settings_changed" ELSE "ttl_expired",
        !.resetRequested = FALSE,
        !.sinceRefused = Far,
        !.version = version]

\* A healthy observation of the current generation, outside a cooldown.
Healthy(s, r, held) ==
    LET counted == [r EXCEPT !.overload = 0, !.healthy = @ + 1,
                             !.concurrent = @ + (IF held.concurrencyAtLimit THEN 1 ELSE 0),
                             !.ttl = s.learned_ttl]
        more == /\ counted.concurrent >= s.healthy_samples \div 2
                /\ r.concurrency < s.maximum_concurrency
        concurrency == IF more THEN r.concurrency + 1 ELSE r.concurrency
        spacing == IF more THEN r.spacing
                   ELSE MaxOf(s.minimum_spacing, (4 * r.spacing) \div 5)
        changed == concurrency # r.concurrency \/ spacing # r.spacing
    IN  IF ~held.atLimit THEN [r EXCEPT !.overload = 0]
        ELSE IF counted.healthy < s.healthy_samples THEN counted
        ELSE [counted EXCEPT
                !.concurrency = concurrency,
                !.spacing = spacing,
                !.healthy = 0,
                !.concurrent = 0,
                !.generation = @ + (IF changed THEN 1 ELSE 0),
                !.reason = IF changed THEN "healthy_at_limit" ELSE @]

\* Half the concurrency, twice the spacing and a cooldown.
BackOff(s, r, obs, cooldown) ==
    [r EXCEPT
        !.concurrency = MaxOf(1, r.concurrency \div 2),
        !.spacing = MinOf(s.maximum_spacing, 2 * r.spacing),
        !.cooldown = cooldown,
        !.ttl = s.learned_ttl,
        !.healthy = 0, !.concurrent = 0, !.overload = 0,
        !.generation = @ + 1,
        !.reason = IF obs.outcome = "throttled" THEN "origin_throttled" ELSE "origin_overload"]

\* Fault: feedback counts whichever policy its capture was admitted under.
AnyGeneration(r, held) == TRUE

CurrentGeneration(r, held) == held.generation = r.generation

\* controller.update: a sequence of early returns
Update(s, r, obs, held) ==
    LET current == CurrentGeneration(r, held)
        cooldown == MaxOf(obs.retry, r.cooldown)
    IN  IF obs.outcome = "neutral" \/ (obs.outcome = "overload" /\ ~current) THEN r
        ELSE IF obs.outcome = "healthy"
        THEN IF current /\ r.cooldown = 0 THEN Healthy(s, r, held) ELSE r
        ELSE IF obs.outcome = "overload" /\ r.overload + 1 < s.overload_samples
        THEN [r EXCEPT !.overload = @ + 1, !.healthy = 0, !.concurrent = 0]
        ELSE IF current THEN BackOff(s, r, obs, cooldown)
        ELSE IF r.cooldown > 0 /\ obs.retry <= r.cooldown THEN r
        ELSE [r EXCEPT !.cooldown = cooldown, !.generation = @ + 1,
                       !.reason = "origin_throttled"]

\* pacing_observation(result); a missing or invalid Retry-After means the default cooldown
Observations(s) ==
    [outcome: {"healthy", "neutral"}, retry: {0}]
        \cup [outcome: {"throttled", "overload"}, retry: RetryAfters \cup {s.cooldown}]

Interrupted == [outcome |-> "interrupted", retry |-> 0]

--------------------------------------------------------------------------
(* PacingRepository *)

\* The stored policy no longer applies.
Due(r, version) == r.resetRequested \/ r.ttl = 0 \/ r.version # version

Refreshed(r, version) == IF Due(r, version) THEN Reset(configs[version], r, version) ELSE r

Inserted(version) ==
    [NoRow EXCEPT
        !.present = TRUE,
        !.concurrency = configs[version].default_concurrency,
        !.spacing = configs[version].default_spacing,
        !.ttl = configs[version].learned_ttl,
        !.version = version]

LiveLeases == {c \in Captures : leases[c].left > 0}

\* The allowance changes while these captures are running.
Overtake ==
    overtaken' = IF row'.concurrency # row.concurrency \/ row'.spacing # row.spacing
                 THEN overtaken \cup LiveLeases ELSE overtaken

Phase(c, phase) == calls' = [calls EXCEPT ![c].phase = phase]

\* acquire reads the settings row, without locking it.
ReadSettings(c) ==
    /\ calls[c].phase = "idle"
    /\ calls' = [calls EXCEPT ![c] = [phase |-> "read", version |-> Version]]
    /\ UNCHANGED <<configs, row, leases, history>>

\* INSERT ... ON CONFLICT DO NOTHING meets a row, which it does not lock.
InsertConflicts(c) ==
    /\ calls[c].phase = "read"
    /\ row.present
    /\ Phase(c, "conflicted")
    /\ UNCHANGED <<configs, row, leases, history>>

\* The capture holds a new lease from now on.
Granted(c, r) ==
    LET others == Cardinality(LiveLeases)
        full == others > 0 /\ others + 1 >= r.concurrency
        busy == \/ 2 * r.sinceStart <= 3 * r.spacing
                \/ r.sinceRefused <= 2
                \/ 2 * r.sinceRefused <= 3 * r.spacing
    IN  [leases EXCEPT ![c] = [left |-> LeaseTicks, generation |-> r.generation,
                               atLimit |-> full \/ busy, concurrencyAtLimit |-> full]]

\* acquire commits, with the row locked: apply a due reset, drop expired leases, refuse or
\* grant.  A refused capture ends; its client may try again.
Acquire(c) ==
    LET version == calls[c].version
        base == IF row.present THEN row ELSE Inserted(version)
        r == Refreshed(base, version)
        free == r.cooldown = 0 /\ r.nextStart = 0
    IN  /\ calls[c].phase = IF row.present THEN "conflicted" ELSE "read"
        /\ base.generation < MaxGeneration
        /\ \/ /\ r.cooldown > 0
              /\ row' = r
              /\ UNCHANGED leases
              /\ Phase(c, "idle")
           \/ /\ r.cooldown = 0 /\ r.nextStart > 0
              /\ row' = [r EXCEPT !.sinceRefused = 0]
              /\ UNCHANGED leases
              /\ Phase(c, "idle")
           \/ /\ free /\ Cardinality(LiveLeases) >= r.concurrency
              /\ row' = r
              /\ leases' = [d \in Captures |->
                                IF d \in LiveLeases
                                THEN [leases[d] EXCEPT !.atLimit = TRUE,
                                                       !.concurrencyAtLimit = TRUE]
                                ELSE leases[d]]
              /\ Phase(c, "idle")
           \/ /\ free /\ Cardinality(LiveLeases) < r.concurrency
              /\ row' = [r EXCEPT !.nextStart = r.spacing, !.sinceStart = 0,
                                  !.sinceRefused = Far]
              /\ leases' = Granted(c, r)
              /\ Phase(c, "running")
        /\ Overtake
        /\ UNCHANGED <<configs, demanded, observed>>

\* The row is gone when SELECT ... FOR UPDATE looks for it: the assertion fails.
AcquireAsserts(c) ==
    /\ calls[c].phase = "conflicted"
    /\ ~row.present
    /\ Phase(c, "idle")
    /\ UNCHANGED <<configs, row, leases, history>>

\* Fault: the reserved start stays where the old spacing put it.
ObserveKeepsStart(s, before, obs, held) == Update(s, before, obs, held)

\* The row after an observation.  A changed policy also moves the next start, to a new
\* spacing after the last one.
Observe(s, before, obs, held) ==
    LET after == Update(s, before, obs, held)
    IN  IF after.generation = before.generation THEN after
        ELSE [after EXCEPT !.nextStart = MaxOf(@, after.spacing - before.sinceStart)]

\* Fault: the lease outlives its release.
ReleasedLeaseKept(c) == leases

ReleasedLease(c) == [leases EXCEPT ![c] = NoLease]

\* release: nothing without the row and the lease; otherwise observe, if there is an
\* outcome and the lease has not expired, and delete the lease.
Release(c, obs) ==
    LET s == configs[Version]
        held == leases[c]
        before == Refreshed(row, Version)
        after == Observe(s, before, obs, held)
    IN  /\ calls[c].phase \in {"running", "done"}
        /\ row.generation + 1 < MaxGeneration
        /\ Phase(c, "done")
        /\ leases' = ReleasedLease(c)
        /\ IF row.present /\ held.left > 0 /\ obs # Interrupted
           THEN /\ row' = after
                /\ demanded' = IF obs.outcome = "throttled" THEN MaxOf(demanded, obs.retry)
                               ELSE demanded
                /\ observed' = [observed EXCEPT ![c] = @ + 1]
           ELSE UNCHANGED <<row, demanded, observed>>
        /\ Overtake
        /\ UNCHANGED configs

\* request_reset
RequestReset ==
    /\ row.present
    /\ row' = [row EXCEPT !.resetRequested = TRUE]
    /\ UNCHANGED <<configs, leases, calls, history>>

\* update_settings
UpdateSettings(s) ==
    /\ Version < MaxVersions
    /\ configs' = Append(configs, s)
    /\ UNCHANGED <<row, leases, calls, history>>

\* Retention deletes an expired row with no cooldown, reserved start or live lease; its
\* expired leases go with it (ON DELETE CASCADE).
Purge ==
    /\ row.present
    /\ row.ttl = 0 /\ row.nextStart = 0 /\ row.cooldown = 0
    /\ LiveLeases = {}
    /\ row' = NoRow
    /\ leases' = [c \in Captures |-> NoLease]
    /\ UNCHANGED <<configs, calls, demanded, observed, overtaken>>

\* Time passes.
Tick ==
    /\ row' = [row EXCEPT !.ttl = Less(@), !.cooldown = Less(@), !.nextStart = Less(@),
                          !.sinceStart = MinOf(Far, @ + 1), !.sinceRefused = MinOf(Far, @ + 1)]
    /\ leases' = [c \in Captures |-> IF leases[c].left <= 1 THEN NoLease
                                      ELSE [leases[c] EXCEPT !.left = @ - 1]]
    /\ demanded' = Less(demanded)
    /\ UNCHANGED <<configs, calls, observed, overtaken>>

Next ==
    \/ \E c \in Captures :
        \/ ReadSettings(c)
        \/ InsertConflicts(c)
        \/ Acquire(c)
        \/ AcquireAsserts(c)
        \/ \E obs \in Observations(configs[Version]) \cup {Interrupted} : Release(c, obs)
    \/ RequestReset
    \/ \E s \in Settings : UpdateSettings(s)
    \/ Purge
    \/ Tick

Spec == Init /\ [][Next]_vars

--------------------------------------------------------------------------
(* Correctness *)

Starts(c) == calls[c].phase # "running" /\ calls'[c].phase = "running"

\* Whatever stood between a capture and its admission (settings changes, resets, expiry,
\* other captures' feedback), the policy of that moment admits it: live captures within
\* the concurrency, no origin still asking to be left alone, and a spacing since the last
\* start, unless a reset, which keeps the reserved start, has changed the spacing since.
StartsRespectPolicy ==
    [][\A c \in Captures : Starts(c) =>
        /\ Cardinality(LiveLeases') <= row'.concurrency
        /\ demanded = 0
        /\ row'.reason \notin ResetReasons => row.sinceStart >= row'.spacing]_vars

\* "Policy generations stop old successes from undoing backoff", and one burst causes one
\* reduction: once the allowance changed while a capture was running, that capture's
\* outcome no longer moves it (its release may still apply a reset that is due).
BurstCountsOnce ==
    [][\A c \in overtaken :
        calls[c].phase = "running" /\ calls'[c].phase = "done" =>
            \E r \in {row, Refreshed(row, Version)} :
                row'.concurrency = r.concurrency /\ row'.spacing = r.spacing]_vars

\* "Duplicate observations/releases are harmless": however often release is retried, a
\* capture's outcome reaches the controller once.
ObservedOnce == \A c \in Captures : observed[c] <= 1

\* The policy stays within the bounds of the settings version it was made from, whichever
\* versions acquire and release have read in between, and its counters below their
\* thresholds.
PolicyWithinBounds ==
    LET s == configs[row.version]
    IN  row.present =>
            /\ row.concurrency \in 1..s.maximum_concurrency
            /\ row.spacing \in s.minimum_spacing..s.maximum_spacing
            /\ row.healthy < s.healthy_samples
            /\ row.overload < s.overload_samples

\* A live lease is a lease of this row, granted in its present or an earlier generation:
\* resets and purges, after which generations start again, never leave feedback in flight
\* that could pass for feedback on a policy still to come.
LeasesBelongToRow ==
    \A c \in LiveLeases : row.present /\ leases[c].generation <= row.generation

\* The state a hostname has learned is sound: a policy within its bounds, fed by each capture
\* once, and by captures of its own generations only.
LearnedStateSound == PolicyWithinBounds /\ ObservedOnce /\ LeasesBelongToRow

\* "Configuration changes reset allowances on their next admission or observation": once
\* the row follows a version of the settings it never returns to an older one.  Does not
\* hold: acquire reads the settings before it has the row (PacingStaleSettings.cfg).
SettingsMoveForward == [][row.present /\ row'.present => row.version <= row'.version]_vars

\* acquire's assertion "row is not None", between its INSERT and its SELECT FOR UPDATE.  Does
\* not hold: the purge may delete the row in between (PacingAssertion.cfg).
RowSurvivesInsert == \A c \in Captures : calls[c].phase = "conflicted" => row.present
===========================================================================
