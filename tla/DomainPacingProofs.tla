------------------------- MODULE DomainPacingProofs -------------------------
(***************************************************************************)
(* Proofs about DomainPacing, for any number of captures, any settings the *)
(* validator accepts and any durations: what a hostname has learned stays  *)
(* sound, every start respects the policy of its moment, and a burst of    *)
(* outcomes moves the allowance once.                                      *)
(***************************************************************************)
EXTENDS DomainPacing, FiniteSetTheorems, TLAPS

Phases == {"idle", "read", "conflicted", "running", "done"}
Leases == [left: Nat, generation: Nat, atLimit: BOOLEAN, concurrencyAtLimit: BOOLEAN]
Calls == [phase: Phases, version: Nat \ {0}]

Shape ==
    /\ configs \in Seq(Settings) /\ configs # <<>>
    /\ row \in Rows /\ row.version <= Version
    /\ leases \in [Captures -> Leases]
    /\ calls \in [Captures -> Calls]
    /\ \A c \in Captures : calls[c].version <= Version
    /\ demanded \in Nat
    /\ observed \in [Captures -> Nat]
    /\ overtaken \in SUBSET Captures

\* A policy within the bounds of its settings.
Bounded(s, r) ==
    /\ r.concurrency <= s.maximum_concurrency
    /\ s.minimum_spacing <= r.spacing /\ r.spacing <= s.maximum_spacing
    /\ r.healthy < s.healthy_samples
    /\ r.overload < s.overload_samples

\* The next start is a spacing after the last one, unless a reset chose the spacing.
Spaced(r) == r.reason \notin ResetReasons => r.nextStart + r.sinceStart >= r.spacing

\* The row remembers what origins have asked for; without one nothing is remembered.
RowInv ==
    /\ ~row.present => row = NoRow
    /\ row.present => Bounded(configs[row.version], row) /\ Spaced(row)
    /\ demanded <= row.cooldown

\* A capture's live lease is of the present row, not observed yet, and of an
\* older generation once the allowance has changed under it.
CaptureOK(c) ==
    /\ observed[c] <= 1
    /\ leases[c].left > 0 =>
        /\ calls[c].phase = "running"
        /\ observed[c] = 0
        /\ row.present
        /\ leases[c].generation <= row.generation
        /\ c \in overtaken => leases[c].generation < row.generation
    /\ calls[c].phase \in {"idle", "read", "conflicted"} =>
        observed[c] = 0 /\ c \notin overtaken

CaptureInv == \A c \in Captures : CaptureOK(c)

Inv == Shape /\ RowInv /\ CaptureInv

-----------------------------------------------------------------------------
(* Settings and rows *)

\* What the validation of DomainPacingSettings guarantees of each field.
LEMMA SettingsFields ==
    ASSUME NEW s \in Settings
    PROVE  /\ s.default_concurrency \in Nat /\ s.default_spacing \in Nat
           /\ s.maximum_concurrency \in Nat /\ s.minimum_spacing \in Nat
           /\ s.maximum_spacing \in Nat /\ s.learned_ttl \in Nat
           /\ s.healthy_samples \in Nat /\ s.overload_samples \in Nat /\ s.cooldown \in Nat
           /\ 1 <= s.default_concurrency /\ s.default_concurrency <= s.maximum_concurrency
           /\ 1 <= s.minimum_spacing /\ s.minimum_spacing <= s.default_spacing
           /\ s.default_spacing <= s.maximum_spacing
           /\ 2 <= s.healthy_samples /\ 2 <= s.overload_samples
BY SettingsAssumption DEF PacingSettings

\* The fields of a state row.
LEMMA RowFields ==
    ASSUME NEW r \in Rows
    PROVE  /\ r.concurrency \in Nat \ {0} /\ r.spacing \in Nat \ {0}
           /\ r.ttl \in Nat /\ r.cooldown \in Nat /\ r.healthy \in Nat
           /\ r.concurrent \in Nat /\ r.overload \in Nat /\ r.generation \in Nat
           /\ r.nextStart \in Nat /\ r.sinceStart \in 0..Far /\ r.sinceRefused \in 0..Far
           /\ r.version \in Nat \ {0} /\ r.reason \in Reasons
BY DEF Rows

\* What a reset keeps and what it sets.
ResetOf(s, r, v, q) ==
    /\ q \in Rows
    /\ q.present = r.present
    /\ q.cooldown = r.cooldown /\ q.nextStart = r.nextStart /\ q.sinceStart = r.sinceStart
    /\ q.generation = r.generation + 1 /\ q.version = v
    /\ q.reason \in ResetReasons
    /\ Bounded(s, q)

\* A reset gives the row the defaults of the settings and a generation of its own.
LEMMA ResetRow ==
    ASSUME NEW s \in Settings, NEW r \in Rows, NEW v \in Nat \ {0}, NEW q, q = Reset(s, r, v)
    PROVE  ResetOf(s, r, v, q)
<1> DEFINE why == IF r.resetRequested THEN "operator_reset"
                  ELSE IF r.version # v THEN "settings_changed" ELSE "ttl_expired"
<1>1. why \in ResetReasons /\ why \in Reasons
  BY DEF ResetReasons, Reasons
<1>2. /\ s.default_concurrency \in Nat \ {0} /\ s.default_spacing \in Nat \ {0}
      /\ s.learned_ttl \in Nat /\ r.generation + 1 \in Nat /\ 0 \in Nat /\ Far \in 0..Far
  BY SettingsFields, RowFields, FarAssumption
<1> HIDE DEF why
<1>3. q = [r EXCEPT
        !.concurrency = s.default_concurrency,
        !.spacing = s.default_spacing,
        !.ttl = s.learned_ttl,
        !.healthy = 0, !.concurrent = 0, !.overload = 0,
        !.generation = r.generation + 1,
        !.reason = why,
        !.resetRequested = FALSE,
        !.sinceRefused = Far,
        !.version = v]
  BY DEF Reset, why
<1>4. q \in Rows
  BY ZenonT(240), <1>1, <1>2, <1>3 DEF Rows
<1>5. /\ q.present = r.present
      /\ q.concurrency = s.default_concurrency /\ q.spacing = s.default_spacing
      /\ q.healthy = 0 /\ q.overload = 0 /\ q.cooldown = r.cooldown
      /\ q.generation = r.generation + 1 /\ q.version = v
      /\ q.reason = why
      /\ q.nextStart = r.nextStart /\ q.sinceStart = r.sinceStart
  BY <1>3 DEF Rows
<1>6. Bounded(s, q)
  BY <1>5, SettingsFields DEF Bounded
<1> QED
  BY <1>1, <1>4, <1>5, <1>6 DEF ResetOf

-----------------------------------------------------------------------------
(* The controller *)

\* What an update of the policy may do to a row.
Moves(s, r, q) ==
    /\ q \in Rows
    /\ q.present = r.present /\ q.version = r.version
    /\ q.nextStart = r.nextStart /\ q.sinceStart = r.sinceStart
    /\ Bounded(s, q)
    /\ q.generation \in {r.generation, r.generation + 1}
    /\ q.generation = r.generation =>
         q.concurrency = r.concurrency /\ q.spacing = r.spacing /\ q.reason = r.reason
    /\ q.cooldown >= r.cooldown

\* A back-off stays within the bounds.
LEMMA BacksOff ==
    ASSUME NEW s \in Settings, NEW r \in Rows, Bounded(s, r), NEW obs, NEW cooldown \in Nat,
           cooldown >= r.cooldown, NEW q, q = BackOff(s, r, obs, cooldown)
    PROVE  Moves(s, r, q) /\ q.cooldown = cooldown
<1> DEFINE why == IF obs.outcome = "throttled" THEN "origin_throttled" ELSE "origin_overload"
           fewer == MaxOf(1, r.concurrency \div 2)
           wider == MinOf(s.maximum_spacing, 2 * r.spacing)
<1>1. /\ fewer \in Nat \ {0} /\ fewer <= s.maximum_concurrency
      /\ wider \in Nat \ {0} /\ s.minimum_spacing <= wider /\ wider <= s.maximum_spacing
  BY SettingsFields, RowFields DEF Bounded, MaxOf, MinOf
<1>2. why \in Reasons /\ s.learned_ttl \in Nat /\ r.generation + 1 \in Nat /\ 0 \in Nat
  BY SettingsFields, RowFields DEF Reasons
<1> HIDE DEF why, fewer, wider
<1>3. q = [r EXCEPT
        !.concurrency = fewer,
        !.spacing = wider,
        !.cooldown = cooldown,
        !.ttl = s.learned_ttl,
        !.healthy = 0, !.concurrent = 0, !.overload = 0,
        !.generation = r.generation + 1,
        !.reason = why]
  BY DEF BackOff, why, fewer, wider
<1>4. q \in Rows
  BY ZenonT(240), <1>1, <1>2, <1>3 DEF Rows
<1>5. /\ q.present = r.present /\ q.version = r.version
      /\ q.nextStart = r.nextStart /\ q.sinceStart = r.sinceStart
      /\ q.concurrency = fewer /\ q.spacing = wider /\ q.healthy = 0 /\ q.overload = 0
      /\ q.generation = r.generation + 1 /\ q.cooldown = cooldown
  BY <1>3 DEF Rows
<1>6. Bounded(s, q)
  BY <1>1, <1>5, SettingsFields DEF Bounded
<1>7. q.generation # r.generation
  BY <1>5, RowFields
<1> QED
  BY <1>4, <1>5, <1>6, <1>7 DEF Moves

\* Success grows the allowance by one step, within the bounds.
LEMMA Grows ==
    ASSUME NEW s \in Settings, NEW r \in Rows, Bounded(s, r), NEW held \in Leases,
           NEW q, q = Healthy(s, r, held)
    PROVE  Moves(s, r, q)
<1> DEFINE extra == IF held.concurrencyAtLimit THEN 1 ELSE 0
           counted == [r EXCEPT !.overload = 0, !.healthy = @ + 1,
                                !.concurrent = @ + extra, !.ttl = s.learned_ttl]
<1>1. /\ r.healthy + 1 \in Nat /\ r.concurrent + extra \in Nat /\ s.learned_ttl \in Nat
      /\ 0 \in Nat
  BY SettingsFields, RowFields
<1> HIDE DEF extra
<1>2. counted \in Rows
  BY ZenonT(240), <1>1 DEF Rows
<1>3. /\ counted.present = r.present /\ counted.version = r.version
      /\ counted.nextStart = r.nextStart /\ counted.sinceStart = r.sinceStart
      /\ counted.concurrency = r.concurrency /\ counted.spacing = r.spacing
      /\ counted.healthy = r.healthy + 1 /\ counted.overload = 0
      /\ counted.generation = r.generation /\ counted.reason = r.reason
      /\ counted.cooldown = r.cooldown
  BY DEF Rows
<1> HIDE DEF counted
<1> DEFINE more == /\ counted.concurrent >= s.healthy_samples \div 2
                   /\ r.concurrency < s.maximum_concurrency
           concurrency == IF more THEN r.concurrency + 1 ELSE r.concurrency
           spacing == IF more THEN r.spacing
                      ELSE MaxOf(s.minimum_spacing, (4 * r.spacing) \div 5)
           changed == concurrency # r.concurrency \/ spacing # r.spacing
           step == IF changed THEN 1 ELSE 0
           why == IF changed THEN "healthy_at_limit" ELSE counted.reason
           grown == [counted EXCEPT !.concurrency = concurrency, !.spacing = spacing,
                                    !.healthy = 0, !.concurrent = 0,
                                    !.generation = @ + step, !.reason = why]
           cleared == [r EXCEPT !.overload = 0]
<1>4. \/ q = cleared
      \/ counted.healthy < s.healthy_samples /\ q = counted
      \/ q = grown
  BY DEF Healthy, counted, extra
<1>5. CASE q = cleared
  <2>1. 0 \in Nat
    OBVIOUS
  <2>2. q \in Rows
    BY ZenonT(240), <1>5, <2>1 DEF Rows
  <2>3. /\ q.present = r.present /\ q.version = r.version
        /\ q.nextStart = r.nextStart /\ q.sinceStart = r.sinceStart
        /\ q.concurrency = r.concurrency /\ q.spacing = r.spacing
        /\ q.healthy = r.healthy /\ q.overload = 0
        /\ q.generation = r.generation /\ q.reason = r.reason /\ q.cooldown = r.cooldown
    BY <1>5 DEF Rows
  <2> QED
    BY <2>2, <2>3, SettingsFields, RowFields DEF Moves, Bounded
<1>6. CASE counted.healthy < s.healthy_samples /\ q = counted
  BY <1>2, <1>3, <1>6, SettingsFields, RowFields DEF Moves, Bounded
<1>7. CASE q = grown
  <2>1. /\ concurrency \in Nat \ {0} /\ concurrency <= s.maximum_concurrency
        /\ spacing \in Nat \ {0}
        /\ s.minimum_spacing <= spacing /\ spacing <= s.maximum_spacing
    BY SettingsFields, RowFields DEF Bounded, MaxOf
  <2>2. /\ counted.generation + step \in Nat /\ why \in Reasons /\ 0 \in Nat
        /\ changed => counted.generation + step = r.generation + 1
        /\ ~changed => /\ counted.generation + step = r.generation
                       /\ concurrency = r.concurrency /\ spacing = r.spacing
                       /\ why = r.reason
    BY <1>2, <1>3, RowFields DEF Reasons
  <2> HIDE DEF concurrency, spacing, changed, step, why
  <2>3. q \in Rows
    BY ZenonT(240), <1>2, <1>7, <2>1, <2>2 DEF Rows
  <2>4. /\ q.present = counted.present /\ q.version = counted.version
        /\ q.nextStart = counted.nextStart /\ q.sinceStart = counted.sinceStart
        /\ q.concurrency = concurrency /\ q.spacing = spacing
        /\ q.healthy = 0 /\ q.overload = counted.overload
        /\ q.generation = counted.generation + step /\ q.reason = why
        /\ q.cooldown = counted.cooldown
    BY <1>2, <1>7 DEF Rows
  <2>5. Bounded(s, q)
    BY <1>3, <2>1, <2>4, SettingsFields DEF Bounded
  <2>6. r.generation \in Nat /\ r.cooldown \in Nat
    BY RowFields
  <2> QED
    BY <1>3, <2>2, <2>3, <2>4, <2>5, <2>6 DEF Moves
<1> QED
  BY <1>4, <1>5, <1>6, <1>7

\* controller.update, on an outcome of a capture that ran under this lease.
LEMMA Updates ==
    ASSUME NEW s \in Settings, NEW r \in Rows, Bounded(s, r), NEW held \in Leases,
           NEW obs \in Observations(s), NEW q, q = Update(s, r, obs, held)
    PROVE  /\ Moves(s, r, q)
           /\ obs.outcome = "throttled" => q.cooldown >= obs.retry
           /\ held.generation # r.generation =>
                q.concurrency = r.concurrency /\ q.spacing = r.spacing
<1> DEFINE cooldown == MaxOf(obs.retry, r.cooldown)
           counted == [r EXCEPT !.overload = @ + 1, !.healthy = 0, !.concurrent = 0]
           extended == [r EXCEPT !.cooldown = cooldown, !.generation = @ + 1,
                                 !.reason = "origin_throttled"]
<1>1. /\ obs.outcome \in {"healthy", "neutral", "throttled", "overload"}
      /\ obs.retry \in Nat
      /\ cooldown \in Nat /\ cooldown >= r.cooldown /\ cooldown >= obs.retry
  <2>1. /\ obs.outcome \in {"healthy", "neutral", "throttled", "overload"}
        /\ obs.retry \in Nat
    <3>1. RetryAfters \cup {s.cooldown} \subseteq Nat
      BY BoundsAssumption, SettingsFields
    <3>2. CASE obs \in [outcome: {"healthy", "neutral"}, retry: {0}]
      BY <3>2
    <3>3. CASE obs \in [outcome: {"throttled", "overload"}, retry: RetryAfters \cup {s.cooldown}]
      BY <3>1, <3>3
    <3> QED
      BY <3>2, <3>3 DEF Observations
  <2> QED
    BY <2>1, RowFields DEF MaxOf
<1>2. Moves(s, r, r)
  BY RowFields DEF Moves
<1> HIDE DEF cooldown
<1>3. \/ q = r /\ (obs.outcome = "throttled" => obs.retry <= r.cooldown)
      \/ /\ held.generation = r.generation /\ q = Healthy(s, r, held)
         /\ obs.outcome = "healthy"
      \/ /\ obs.outcome = "overload" /\ r.overload + 1 < s.overload_samples /\ q = counted
      \/ held.generation = r.generation /\ q = BackOff(s, r, obs, cooldown)
      \/ q = extended
  BY <1>1 DEF Update, CurrentGeneration, cooldown
<1>4. CASE q = r /\ (obs.outcome = "throttled" => obs.retry <= r.cooldown)
  BY <1>1, <1>2, <1>4, RowFields
<1>5. CASE /\ held.generation = r.generation /\ q = Healthy(s, r, held)
           /\ obs.outcome = "healthy"
  BY <1>5, Grows
<1>6. CASE obs.outcome = "overload" /\ r.overload + 1 < s.overload_samples /\ q = counted
  <2>1. 0 \in Nat /\ r.overload + 1 \in Nat
    BY RowFields
  <2>2. q \in Rows
    BY ZenonT(240), <1>6, <2>1 DEF Rows
  <2>3. /\ q.present = r.present /\ q.version = r.version
        /\ q.nextStart = r.nextStart /\ q.sinceStart = r.sinceStart
        /\ q.concurrency = r.concurrency /\ q.spacing = r.spacing
        /\ q.healthy = 0 /\ q.overload = r.overload + 1
        /\ q.generation = r.generation /\ q.reason = r.reason /\ q.cooldown = r.cooldown
    BY <1>6 DEF Rows
  <2> QED
    BY <1>6, <2>2, <2>3, SettingsFields, RowFields DEF Moves, Bounded
<1>7. CASE held.generation = r.generation /\ q = BackOff(s, r, obs, cooldown)
  BY <1>1, <1>7, BacksOff
<1>8. CASE q = extended
  <2>1. "origin_throttled" \in Reasons /\ r.generation + 1 \in Nat
    BY RowFields DEF Reasons
  <2>2. q \in Rows
    BY ZenonT(240), <1>1, <1>8, <2>1 DEF Rows
  <2>3. /\ q.present = r.present /\ q.version = r.version
        /\ q.nextStart = r.nextStart /\ q.sinceStart = r.sinceStart
        /\ q.concurrency = r.concurrency /\ q.spacing = r.spacing
        /\ q.healthy = r.healthy /\ q.overload = r.overload
        /\ q.generation = r.generation + 1 /\ q.cooldown = cooldown
    BY <1>8 DEF Rows
  <2>4. q.generation # r.generation
    BY <2>3, RowFields
  <2> QED
    BY <1>1, <2>2, <2>3, <2>4 DEF Moves, Bounded
<1> QED
  BY <1>3, <1>4, <1>5, <1>6, <1>7, <1>8

\* A changed policy moves the next start to a spacing after the last one.
LEMMA ObservesRow ==
    ASSUME NEW s \in Settings, NEW r \in Rows, Bounded(s, r), Spaced(r), NEW held \in Leases,
           NEW obs \in Observations(s), NEW q, q = Observe(s, r, obs, held)
    PROVE  /\ q \in Rows
           /\ r.present => q.present
           /\ q.version = r.version
           /\ Bounded(s, q) /\ Spaced(q)
           /\ q.generation \in {r.generation, r.generation + 1}
           /\ q.generation = r.generation =>
                q.concurrency = r.concurrency /\ q.spacing = r.spacing
           /\ q.cooldown >= r.cooldown
           /\ obs.outcome = "throttled" => q.cooldown >= obs.retry
           /\ held.generation # r.generation =>
                q.concurrency = r.concurrency /\ q.spacing = r.spacing
<1> DEFINE after == Update(s, r, obs, held)
           start == MaxOf(after.nextStart, after.spacing - r.sinceStart)
<1>1. /\ Moves(s, r, after)
      /\ obs.outcome = "throttled" => after.cooldown >= obs.retry
      /\ held.generation # r.generation =>
            after.concurrency = r.concurrency /\ after.spacing = r.spacing
  BY Updates
<1>2. /\ q = IF after.generation = r.generation THEN after
             ELSE [after EXCEPT !.nextStart = start]
  BY Zenon DEF Observe
<1>3. after \in Rows
  BY <1>1 DEF Moves
<1> HIDE DEF after
<1>4. start \in Nat /\ start >= after.spacing - r.sinceStart
  BY <1>3, RowFields DEF MaxOf
<1> HIDE DEF start
<1>5. CASE after.generation = r.generation
  BY <1>1, <1>2, <1>5 DEF Moves, Spaced
<1>6. CASE after.generation # r.generation
  <2>1. q = [after EXCEPT !.nextStart = start]
    BY <1>2, <1>6
  <2>2. q \in Rows
    BY ZenonT(240), <1>3, <1>4, <2>1 DEF Rows
  <2>3. /\ q.present = after.present /\ q.version = after.version
        /\ q.nextStart = start /\ q.sinceStart = after.sinceStart
        /\ q.concurrency = after.concurrency /\ q.spacing = after.spacing
        /\ q.healthy = after.healthy /\ q.overload = after.overload
        /\ q.generation = after.generation /\ q.cooldown = after.cooldown
    BY <1>3, <2>1 DEF Rows
  <2>4. Spaced(q)
    BY <1>1, <1>3, <1>4, <2>3, RowFields DEF Spaced, Moves
  <2>5. Bounded(s, q)
    BY <1>1, <2>3 DEF Moves, Bounded
  <2> QED
    BY <1>1, <1>6, <2>2, <2>3, <2>4, <2>5 DEF Moves
<1> QED
  BY <1>5, <1>6

-----------------------------------------------------------------------------
(* The repository's rows *)

\* A row that is not there, as a well-formed row.
LEMMA NoRowFields ==
    /\ NoRow \in Rows /\ ~NoRow.present /\ NoRow.cooldown = 0 /\ NoRow.nextStart = 0
    /\ NoRow.sinceStart = Far /\ NoRow.ttl = 0 /\ NoRow.generation = 0 /\ NoRow.version = 1
<1>1. /\ 0 \in Nat /\ 1 \in Nat \ {0} /\ Far \in 0..Far /\ "default" \in Reasons
  BY FarAssumption DEF Reasons
<1>2. NoRow \in Rows
  BY ZenonT(240), <1>1 DEF Rows, NoRow
<1> QED
  BY <1>2 DEF NoRow

\* The settings a version stands for.
LEMMA VersionSettings ==
    ASSUME configs \in Seq(Settings), NEW v \in Nat \ {0}, v <= Version
    PROVE  configs[v] \in Settings
BY DEF Version

\* A new row follows the version it was inserted for.
LEMMA InsertedRow ==
    ASSUME configs \in Seq(Settings), NEW v \in Nat \ {0}, v <= Version,
           NEW q, q = Inserted(v)
    PROVE  /\ q \in Rows /\ q.present /\ q.version = v
           /\ Bounded(configs[v], q) /\ Spaced(q)
           /\ q.cooldown = 0 /\ q.nextStart = 0 /\ q.sinceStart = Far /\ q.generation = 0
<1> DEFINE s == configs[v]
<1>1. s \in Settings
  BY VersionSettings
<1> HIDE DEF s
<1>2. /\ s.default_concurrency \in Nat \ {0} /\ s.default_spacing \in Nat \ {0}
      /\ s.learned_ttl \in Nat
  BY <1>1, SettingsFields
<1>3. q = [NoRow EXCEPT !.present = TRUE, !.concurrency = s.default_concurrency,
                        !.spacing = s.default_spacing, !.ttl = s.learned_ttl, !.version = v]
  BY DEF Inserted, s
<1>4. q \in Rows
  BY ZenonT(240), <1>2, <1>3, NoRowFields DEF Rows
<1>5. /\ q.present /\ q.version = v
      /\ q.concurrency = s.default_concurrency /\ q.spacing = s.default_spacing
      /\ q.healthy = 0 /\ q.overload = 0
      /\ q.cooldown = 0 /\ q.nextStart = 0 /\ q.sinceStart = Far /\ q.generation = 0
  BY <1>3 DEF NoRow
<1>6. Bounded(s, q)
  BY <1>1, <1>5, SettingsFields DEF Bounded
<1>7. Spaced(q)
  <2>1. s.default_spacing <= Far
    BY <1>1, SettingsFields, FarAssumption
  <2> QED
    BY <1>1, <1>5, <2>1, FarAssumption, SettingsFields DEF Spaced
<1> QED
  BY <1>4, <1>5, <1>6, <1>7 DEF s

\* A row brought up to date with a version: reset, or as it was.
LEMMA RefreshedRow ==
    ASSUME configs \in Seq(Settings), NEW v \in Nat \ {0}, v <= Version, NEW r \in Rows,
           r.present, r.version <= Version, Bounded(configs[r.version], r), Spaced(r),
           NEW q, q = Refreshed(r, v)
    PROVE  /\ q \in Rows /\ q.present /\ q.version = v
           /\ Bounded(configs[v], q) /\ Spaced(q)
           /\ q.cooldown = r.cooldown /\ q.nextStart = r.nextStart /\ q.sinceStart = r.sinceStart
           /\ q = r \/ q.generation = r.generation + 1
<1> DEFINE s == configs[v]
<1>1. s \in Settings
  BY VersionSettings
<1>2. CASE Due(r, v)
  <2>1. q = Reset(s, r, v)
    BY <1>2 DEF Refreshed
  <2> HIDE DEF s
  <2>2. ResetOf(s, r, v, q)
    BY <1>1, <2>1, ResetRow
  <2>3. q.present
    BY <2>2, Zenon DEF ResetOf
  <2> QED
    BY <2>2, <2>3 DEF ResetOf, Spaced, s
<1>3. CASE ~Due(r, v)
  BY <1>3 DEF Refreshed, Due
<1> QED
  BY <1>2, <1>3

-----------------------------------------------------------------------------
(* Steps *)

\* The fields of a lease.
LEMMA LeaseFields ==
    ASSUME NEW l \in Leases
    PROVE  /\ l.left \in Nat /\ l.generation \in Nat
           /\ NoLease \in Leases /\ NoLease.left = 0
BY DEF Leases, NoLease

\* The settings in force, and the row's.
LEMMA Current ==
    ASSUME Shape
    PROVE  /\ Version \in Nat \ {0} /\ configs[Version] \in Settings
           /\ row.version \in Nat \ {0} /\ configs[row.version] \in Settings
<1>1. Version \in Nat \ {0}
  BY DEF Shape, Version
<1>2. row.version \in Nat \ {0} /\ row.version <= Version
  BY RowFields DEF Shape
<1> QED
  BY <1>1, <1>2, VersionSettings DEF Shape

\* The generations only grow under a live lease, and grow when it is overtaken.
LEMMA OthersKept ==
    ASSUME Inv, NEW d \in Captures,
           calls'[d].phase = calls[d].phase, observed'[d] = observed[d],
           leases'[d].left > 0 =>
                /\ leases[d].left > 0 /\ leases'[d].generation = leases[d].generation
                /\ row'.present /\ row'.generation \in Nat /\ row'.generation >= row.generation,
           \/ overtaken' = overtaken
           \/ overtaken' = overtaken \cup LiveLeases /\ row'.generation > row.generation
    PROVE  CaptureOK(d)'
<1>1. CaptureOK(d) /\ row.generation \in Nat
  BY RowFields DEF Inv, CaptureInv, Shape
<1>2. leases[d].generation \in Nat /\ leases[d].left \in Nat
  BY LeaseFields DEF Inv, Shape
<1>3. d \in LiveLeases <=> leases[d].left > 0
  BY DEF LiveLeases
<1> QED
  BY <1>1, <1>2, <1>3 DEF CaptureOK

\* A capture that has no lease yet is asked nothing but its phase.
LEMMA StillWaiting ==
    ASSUME Inv, NEW c \in Captures, calls[c].phase \in {"idle", "read", "conflicted"}
    PROVE  /\ leases[c].left = 0 /\ observed[c] = 0 /\ c \notin overtaken
           /\ c \notin LiveLeases
<1>1. CaptureOK(c) /\ leases[c].left \in Nat
  BY LeaseFields DEF Inv, CaptureInv, Shape
<1> QED
  BY <1>1 DEF CaptureOK, LiveLeases

\* Steps of one call that touch no row and no lease.
LEMMA Proceeds ==
    ASSUME Inv, NEW c \in Captures, NEW p \in {"idle", "read", "conflicted"},
           NEW v \in Nat \ {0}, v <= Version,
           calls[c].phase \in {"idle", "read", "conflicted"},
           calls' = [calls EXCEPT ![c] = [phase |-> p, version |-> v]],
           UNCHANGED <<configs, row, leases, history>>
    PROVE  Inv'
<1>1. UNCHANGED <<configs, row, leases, demanded, observed, overtaken>>
  BY DEF history
<1>2. /\ calls' \in [Captures -> Calls]
      /\ calls'[c].version = v /\ calls'[c].phase = p
      /\ \A d \in Captures : d # c => calls'[d] = calls[d]
  BY DEF Inv, Shape, Calls, Phases
<1>3. Shape'
  BY <1>1, <1>2 DEF Inv, Shape, Version
<1>4. RowInv'
  BY <1>1 DEF Inv, RowInv, Bounded, Spaced
<1>5. ASSUME NEW d \in Captures
      PROVE  CaptureOK(d)'
  <2>1. CASE d = c
    BY <1>1, <1>2, <2>1, StillWaiting DEF CaptureOK
  <2>2. CASE d # c
    <3>1. CaptureOK(d)
      BY DEF Inv, CaptureInv
    <3> QED
      BY <1>1, <1>2, <2>2, <3>1 DEF CaptureOK
  <2> QED
    BY <2>1, <2>2
<1> QED
  BY <1>3, <1>4, <1>5 DEF Inv, CaptureInv

\* The steps of acquire before it has the row lock write nothing of the row.
LEMMA Waits ==
    ASSUME Inv, NEW c \in Captures, ReadSettings(c) \/ InsertConflicts(c) \/ AcquireAsserts(c)
    PROVE  Inv'
<1>1. calls \in [Captures -> Calls] /\ calls[c].version <= Version
  BY DEF Inv, Shape
<1>2. calls[c].version \in Nat \ {0}
  BY <1>1 DEF Calls
<1>3. CASE ReadSettings(c)
  <2>1. Version \in Nat \ {0} /\ Version <= Version
    BY Current DEF Inv
  <2> QED
    BY <1>3, <2>1, Proceeds DEF ReadSettings
<1>4. \A p : [calls EXCEPT ![c].phase = p]
                = [calls EXCEPT ![c] = [phase |-> p, version |-> calls[c].version]]
  <2>1. \A p : [calls[c] EXCEPT !.phase = p] = [phase |-> p, version |-> calls[c].version]
    BY <1>1 DEF Calls
  <2> QED
    BY <2>1, Zenon
<1>5. CASE InsertConflicts(c)
  <2>1. /\ calls' = [calls EXCEPT ![c] = [phase |-> "conflicted", version |-> calls[c].version]]
        /\ calls[c].phase = "read" /\ UNCHANGED <<configs, row, leases, history>>
    BY <1>4, <1>5 DEF InsertConflicts, Phase
  <2> QED
    BY <1>1, <1>2, <2>1, Proceeds
<1>6. CASE AcquireAsserts(c)
  <2>1. /\ calls' = [calls EXCEPT ![c] = [phase |-> "idle", version |-> calls[c].version]]
        /\ calls[c].phase = "conflicted" /\ UNCHANGED <<configs, row, leases, history>>
    BY <1>4, <1>6 DEF AcquireAsserts, Phase
  <2> QED
    BY <1>1, <1>2, <2>1, Proceeds
<1> QED
  BY <1>3, <1>5, <1>6

-----------------------------------------------------------------------------
(* acquire *)

\* The row acquire locks, and what it makes of it.
Locked(c) == IF row.present THEN row ELSE Inserted(calls[c].version)
UpToDate(c) == Refreshed(Locked(c), calls[c].version)

\* Where acquire takes the row: of its own version, with the cooldown kept, in
\* a later generation if the allowance is another.
AcquiredRow(v, q) ==
    /\ q \in Rows /\ q.version = v
    /\ Bounded(configs[v], q) /\ Spaced(q)
    /\ q.cooldown = row.cooldown
    /\ row.present =>
        /\ q.generation >= row.generation
        /\ q.concurrency # row.concurrency \/ q.spacing # row.spacing =>
              q.generation > row.generation

\* The row acquire has locked: the one that was there, or a new one with the defaults.
LEMMA LockedRow ==
    ASSUME Inv, NEW c \in Captures, NEW b, b = Locked(c)
    PROVE  /\ b \in Rows /\ b.present /\ b.version <= Version
           /\ Bounded(configs[b.version], b) /\ Spaced(b)
           /\ b.cooldown = row.cooldown /\ b.nextStart = row.nextStart
           /\ b.sinceStart = row.sinceStart
           /\ row.present => b = row
<1>1. CASE row.present
  BY <1>1 DEF Locked, Inv, Shape, RowInv
<1>2. CASE ~row.present
  <2>1. configs \in Seq(Settings) /\ calls[c].version \in Nat \ {0} /\ calls[c].version <= Version
    BY DEF Inv, Shape, Calls
  <2>2. b = Inserted(calls[c].version)
    BY <1>2 DEF Locked
  <2>3. row = NoRow
    BY <1>2 DEF Inv, RowInv
  <2>4. /\ b \in Rows /\ b.present /\ b.version = calls[c].version
        /\ Bounded(configs[calls[c].version], b) /\ Spaced(b)
        /\ b.cooldown = 0 /\ b.nextStart = 0 /\ b.sinceStart = Far
    BY <2>1, <2>2, InsertedRow
  <2>5. /\ row.cooldown = 0 /\ row.nextStart = 0 /\ row.sinceStart = Far
    BY <2>3, NoRowFields
  <2> QED
    BY <1>2, <2>1, <2>4, <2>5
<1> QED
  BY <1>1, <1>2

\* The locked row, reset if it was learned under settings other than those acquire read.
LEMMA UpToDateRow ==
    ASSUME Inv, NEW c \in Captures, NEW r, r = UpToDate(c)
    PROVE  /\ AcquiredRow(calls[c].version, r) /\ r.present
           /\ r.nextStart = row.nextStart /\ r.sinceStart = row.sinceStart
<1> DEFINE b == Locked(c)
<1>1. /\ b \in Rows /\ b.present /\ b.version <= Version
      /\ Bounded(configs[b.version], b) /\ Spaced(b)
      /\ b.cooldown = row.cooldown /\ b.nextStart = row.nextStart
      /\ b.sinceStart = row.sinceStart
      /\ row.present => b = row
  BY LockedRow
<1>2. configs \in Seq(Settings) /\ calls[c].version \in Nat \ {0} /\ calls[c].version <= Version
  BY DEF Inv, Shape, Calls
<1>3. r = Refreshed(b, calls[c].version)
  BY DEF UpToDate
<1> HIDE DEF b
<1>4. /\ r \in Rows /\ r.present /\ r.version = calls[c].version
      /\ Bounded(configs[calls[c].version], r) /\ Spaced(r)
      /\ r.cooldown = b.cooldown /\ r.nextStart = b.nextStart /\ r.sinceStart = b.sinceStart
      /\ r = b \/ r.generation = b.generation + 1
  BY <1>1, <1>2, <1>3, RefreshedRow
<1>5. row.generation \in Nat
  BY RowFields DEF Inv, Shape
<1>6. row.present =>
        /\ r.generation >= row.generation
        /\ r.concurrency # row.concurrency \/ r.spacing # row.spacing =>
              r.generation > row.generation
  BY <1>1, <1>4, <1>5
<1> QED
  BY <1>1, <1>4, <1>6 DEF AcquiredRow

\* A refusal for the spacing, and a start, write what they remember.
Writes(r, q) ==
    \/ q = r
    \/ q = [r EXCEPT !.sinceRefused = 0]
    \/ q = [r EXCEPT !.nextStart = r.spacing, !.sinceStart = 0, !.sinceRefused = Far]

\* What acquire writes leaves the learned policy of the row alone.
LEMMA AcquireWrites ==
    ASSUME NEW v, NEW r, AcquiredRow(v, r), r.present,
           NEW q, Writes(r, q)
    PROVE  /\ AcquiredRow(v, q) /\ q.present
           /\ q.generation = r.generation /\ q.reason = r.reason
           /\ q.concurrency = r.concurrency /\ q.spacing = r.spacing
<1>1. r \in Rows /\ 0 \in 0..Far /\ Far \in 0..Far
  BY FarAssumption DEF AcquiredRow
<1>2. r.spacing \in Nat
  BY <1>1, RowFields
<1>3. CASE q = r
  BY <1>3
<1>4. CASE q = [r EXCEPT !.sinceRefused = 0]
  <2>1. q \in Rows
    BY ZenonT(240), <1>1, <1>4 DEF Rows
  <2>2. /\ q.version = r.version /\ q.cooldown = r.cooldown /\ q.generation = r.generation
        /\ q.concurrency = r.concurrency /\ q.spacing = r.spacing
        /\ q.healthy = r.healthy /\ q.overload = r.overload /\ q.reason = r.reason
        /\ q.nextStart = r.nextStart /\ q.sinceStart = r.sinceStart
    BY <1>1, <1>4 DEF Rows
  <2>3. q.present
    BY <1>1, <1>4 DEF Rows
  <2> QED
    BY <2>1, <2>2, <2>3 DEF AcquiredRow, Bounded, Spaced
<1>5. CASE q = [r EXCEPT !.nextStart = r.spacing, !.sinceStart = 0, !.sinceRefused = Far]
  <2>1. q \in Rows
    BY ZenonT(240), <1>1, <1>2, <1>5 DEF Rows
  <2>2. /\ q.version = r.version /\ q.cooldown = r.cooldown /\ q.generation = r.generation
        /\ q.concurrency = r.concurrency /\ q.spacing = r.spacing
        /\ q.healthy = r.healthy /\ q.overload = r.overload /\ q.reason = r.reason
        /\ q.nextStart = r.spacing /\ q.sinceStart = 0
    BY <1>1, <1>5 DEF Rows
  <2>3. q.present
    BY <1>1, <1>5 DEF Rows
  <2>4. Spaced(q)
    BY <1>2, <2>2 DEF Spaced
  <2> QED
    BY <2>1, <2>2, <2>3, <2>4 DEF AcquiredRow, Bounded
<1> QED
  BY <1>3, <1>4, <1>5 DEF Writes

\* The ways acquire ends: refused, possibly marking the leases that were in its
\* way, or granted within the concurrency, the cooldown and the spacing.
Marked ==
    [d \in Captures |->
        IF d \in LiveLeases
        THEN [leases[d] EXCEPT !.atLimit = TRUE, !.concurrencyAtLimit = TRUE]
        ELSE leases[d]]

\* The ways acquire ends: it waits, or it grants a lease that the policy permits.
LEMMA AcquireEnds ==
    ASSUME Inv, NEW c \in Captures, Acquire(c), NEW r, r = UpToDate(c)
    PROVE  /\ calls[c].phase \in {"read", "conflicted"}
           /\ UNCHANGED <<configs, demanded, observed>> /\ Overtake
           /\ Writes(r, row')
           /\ \/ /\ leases' = leases \/ leases' = Marked
                 /\ calls' = [calls EXCEPT ![c].phase = "idle"]
              \/ /\ leases' = Granted(c, r)
                 /\ calls' = [calls EXCEPT ![c].phase = "running"]
                 /\ r.cooldown = 0 /\ r.nextStart = 0
                 /\ Cardinality(LiveLeases) < r.concurrency
BY Zenon DEF Acquire, UpToDate, Locked, Marked, Phase, Writes

\* Marking changes neither how long a lease runs nor its generation.
LEMMA MarkedLeases ==
    ASSUME leases \in [Captures -> Leases]
    PROVE  /\ Marked \in [Captures -> Leases]
           /\ \A d \in Captures : /\ Marked[d].left = leases[d].left
                                  /\ Marked[d].generation = leases[d].generation
<1>1. ASSUME NEW l \in Leases, NEW m,
             m = [l EXCEPT !.atLimit = TRUE, !.concurrencyAtLimit = TRUE]
      PROVE  m \in Leases /\ m.left = l.left /\ m.generation = l.generation
  <2>1. m \in Leases
    BY Zenon, <1>1 DEF Leases
  <2>2. m.left = l.left /\ m.generation = l.generation
    BY <1>1 DEF Leases
  <2> QED
    BY <2>1, <2>2
<1>2. ASSUME NEW d \in Captures
      PROVE  /\ Marked[d] \in Leases /\ Marked[d].left = leases[d].left
             /\ Marked[d].generation = leases[d].generation
  <2>1. \/ Marked[d] = leases[d]
        \/ Marked[d] = [leases[d] EXCEPT !.atLimit = TRUE, !.concurrencyAtLimit = TRUE]
    BY Zenon DEF Marked
  <2>2. leases[d] \in Leases
    OBVIOUS
  <2> QED
    BY <1>1, <2>1, <2>2
<1>3. Marked = [d \in Captures |-> Marked[d]]
  BY Zenon DEF Marked
<1> QED
  BY <1>2, <1>3, Zenon

\* A new lease is of the row's generation; the others stay.
LEMMA GrantedLeases ==
    ASSUME leases \in [Captures -> Leases], NEW c \in Captures, NEW r \in Rows
    PROVE  /\ Granted(c, r) \in [Captures -> Leases]
           /\ Granted(c, r)[c].generation = r.generation
           /\ \A d \in Captures : d # c => Granted(c, r)[d] = leases[d]
<1> DEFINE others == Cardinality(LiveLeases)
           full == others > 0 /\ others + 1 >= r.concurrency
           busy == \/ 2 * r.sinceStart <= 3 * r.spacing
                   \/ r.sinceRefused <= 2
                   \/ 2 * r.sinceRefused <= 3 * r.spacing
           l == [left |-> LeaseTicks, generation |-> r.generation,
                 atLimit |-> full \/ busy, concurrencyAtLimit |-> full]
<1>1. (full \/ busy) \in BOOLEAN /\ full \in BOOLEAN
  OBVIOUS
<1>2. LeaseTicks \in Nat /\ r.generation \in Nat
  BY BoundsAssumption, RowFields
<1>3. Granted(c, r) = [leases EXCEPT ![c] = l]
  BY Zenon DEF Granted
<1> HIDE DEF full, busy
<1>4. l \in Leases
  BY Zenon, <1>1, <1>2 DEF Leases
<1>5. l.generation = r.generation
  OBVIOUS
<1> HIDE DEF l
<1> QED
  BY <1>3, <1>4, <1>5

\* acquire, from the row lock to its commit.
LEMMA Acquires ==
    ASSUME Inv, NEW c \in Captures, Acquire(c)
    PROVE  Inv'
<1> DEFINE r == UpToDate(c)
           v == calls[c].version
<1>1. /\ calls[c].phase \in {"read", "conflicted"}
      /\ UNCHANGED <<configs, demanded, observed>> /\ Overtake
      /\ Writes(r, row')
      /\ \/ /\ leases' = leases \/ leases' = Marked
            /\ calls' = [calls EXCEPT ![c].phase = "idle"]
         \/ /\ leases' = Granted(c, r)
            /\ calls' = [calls EXCEPT ![c].phase = "running"]
  BY AcquireEnds, Zenon
<1>2. AcquiredRow(v, r) /\ r.present
  BY UpToDateRow
<1> HIDE DEF r
<1>3. AcquiredRow(v, row') /\ row'.present /\ row'.generation = r.generation
  BY <1>1, <1>2, AcquireWrites
<1>4. r \in Rows /\ row' \in Rows /\ row'.version = v
  BY <1>2, <1>3 DEF AcquiredRow
<1>5. /\ v \in Nat \ {0} /\ v <= Version /\ leases \in [Captures -> Leases]
      /\ calls \in [Captures -> Calls]
  BY DEF Inv, Shape, Calls
<1>6. /\ calls' \in [Captures -> Calls]
      /\ \/ calls'[c].phase = "idle" /\ (leases' = leases \/ leases' = Marked)
         \/ calls'[c].phase = "running" /\ leases' = Granted(c, r)
      /\ calls'[c].version = v
      /\ \A d \in Captures : d # c => calls'[d] = calls[d]
  BY <1>1, <1>5 DEF Calls, Phases
<1>7. /\ leases' \in [Captures -> Leases]
      /\ \A d \in Captures \ {c} : /\ leases'[d].left = leases[d].left
                                   /\ leases'[d].generation = leases[d].generation
      /\ \/ calls'[c].phase = "idle" /\ leases'[c].left = leases[c].left
         \/ calls'[c].phase = "running" /\ leases'[c].generation = r.generation
  BY <1>4, <1>5, <1>6, MarkedLeases, GrantedLeases
<1>8. /\ overtaken' \in SUBSET Captures
      /\ \/ overtaken' = overtaken
         \/ /\ overtaken' = overtaken \cup LiveLeases
            /\ row'.concurrency # row.concurrency \/ row'.spacing # row.spacing
  BY <1>1 DEF Overtake, LiveLeases, Inv, Shape
<1>9. Shape'
  BY <1>1, <1>4, <1>5, <1>6, <1>7, <1>8 DEF Inv, Shape, Version
<1>10. RowInv'
  <2>1. row'.cooldown = row.cooldown /\ Bounded(configs[v], row') /\ Spaced(row')
    BY <1>3 DEF AcquiredRow
  <2> QED
    BY <1>1, <1>3, <1>4, <2>1 DEF Inv, RowInv, Bounded, Spaced
<1>11. /\ leases[c].left = 0 /\ observed[c] = 0 /\ c \notin overtaken
       /\ c \notin LiveLeases
  BY <1>1, StillWaiting
<1>12. ASSUME NEW d \in Captures
       PROVE  CaptureOK(d)'
  <2>1. CASE d = c
    <3>1. c \notin overtaken' /\ observed'[c] = 0
      BY <1>1, <1>8, <1>11
    <3>2. row'.generation \in Nat /\ leases'[c].left \in Nat
      BY <1>4, <1>7, RowFields, LeaseFields
    <3> QED
      BY <1>3, <1>6, <1>7, <1>11, <2>1, <3>1, <3>2 DEF CaptureOK
  <2>2. CASE d # c
    <3>1. leases'[d].left > 0 => leases[d].left > 0 /\ row.present
      BY <1>7, <2>2 DEF Inv, CaptureInv, CaptureOK
    <3>2. row'.generation \in Nat
      BY <1>4, RowFields
    <3>3. leases'[d].left > 0 => row'.generation >= row.generation
      BY <1>3, <3>1 DEF AcquiredRow
    <3>4. \/ overtaken' = overtaken
          \/ overtaken' = overtaken \cup LiveLeases /\ row'.generation > row.generation
      <4>1. CASE row.present
        BY <1>3, <1>8, <4>1 DEF AcquiredRow
      <4>2. CASE ~row.present
        <5>1. LiveLeases = {}
          BY <4>2 DEF Inv, CaptureInv, CaptureOK, LiveLeases
        <5> QED
          BY <1>8, <5>1
      <4> QED
        BY <4>1, <4>2
    <3> QED
      BY <1>1, <1>3, <1>6, <1>7, <2>2, <3>1, <3>2, <3>3, <3>4, OthersKept
  <2> QED
    BY <2>1, <2>2
<1> QED
  BY <1>9, <1>10, <1>12 DEF Inv, CaptureInv

\* A start respects the policy of its moment.
LEMMA AcquireRespects ==
    ASSUME Inv, NEW c \in Captures, Acquire(c), calls'[c].phase = "running"
    PROVE  /\ Cardinality(LiveLeases') <= row'.concurrency
           /\ demanded = 0
           /\ row'.reason \notin ResetReasons => row.sinceStart >= row'.spacing
<1> DEFINE r == UpToDate(c)
<1>1. /\ Writes(r, row')
      /\ leases' = Granted(c, r)
      /\ r.cooldown = 0 /\ r.nextStart = 0
      /\ Cardinality(LiveLeases) < r.concurrency
  <2>1. calls \in [Captures -> Calls]
    BY DEF Inv, Shape
  <2>2. calls' # [calls EXCEPT ![c].phase = "idle"]
    BY <2>1 DEF Calls
  <2> QED
    BY <2>2, AcquireEnds, Zenon
<1>2. /\ AcquiredRow(calls[c].version, r) /\ r.present
      /\ r.nextStart = row.nextStart /\ r.sinceStart = row.sinceStart
  BY UpToDateRow
<1> HIDE DEF r
<1>3. /\ row'.reason = r.reason /\ row'.concurrency = r.concurrency
      /\ row'.spacing = r.spacing
  BY <1>1, <1>2, AcquireWrites
<1>4. r \in Rows /\ Spaced(r) /\ r.cooldown = row.cooldown
  BY <1>2 DEF AcquiredRow
<1>5. demanded = 0
  BY <1>1, <1>4 DEF Inv, Shape, RowInv
<1>6. row'.reason \notin ResetReasons => row.sinceStart >= row'.spacing
  BY <1>1, <1>2, <1>3, <1>4, RowFields DEF Spaced
<1>7. Cardinality(LiveLeases') <= row'.concurrency
  <2>1. leases \in [Captures -> Leases]
    BY DEF Inv, Shape
  <2>2. LiveLeases' \subseteq LiveLeases \cup {c}
    BY <1>1, <1>4, <2>1, GrantedLeases DEF LiveLeases
  <2>3. IsFiniteSet(LiveLeases) /\ Cardinality(LiveLeases) \in Nat
    BY BoundsAssumption, FS_Subset, FS_CardinalityType DEF LiveLeases
  <2>4. /\ IsFiniteSet(LiveLeases \cup {c})
        /\ \/ Cardinality(LiveLeases \cup {c}) = Cardinality(LiveLeases)
           \/ Cardinality(LiveLeases \cup {c}) = Cardinality(LiveLeases) + 1
    BY <2>3, FS_AddElement, Zenon
  <2>5. /\ Cardinality(LiveLeases') <= Cardinality(LiveLeases \cup {c})
        /\ Cardinality(LiveLeases') \in Nat
    BY <2>2, <2>4, FS_Subset, FS_CardinalityType
  <2>6. r.concurrency \in Nat
    BY <1>4, RowFields
  <2> QED
    BY <1>1, <1>3, <2>3, <2>4, <2>5, <2>6
<1> QED
  BY <1>5, <1>6, <1>7

-----------------------------------------------------------------------------
(* release *)

\* What a release with an outcome writes, from the row brought up to date.
LEMMA ReleaseRow ==
    ASSUME Inv, NEW c \in Captures, row.present, NEW obs \in Observations(configs[Version]),
           NEW q, q = Observe(configs[Version], Refreshed(row, Version), obs, leases[c])
    PROVE  /\ q \in Rows /\ q.present /\ q.version = Version
           /\ Bounded(configs[Version], q) /\ Spaced(q)
           /\ q.cooldown >= row.cooldown
           /\ obs.outcome = "throttled" => q.cooldown >= obs.retry
           /\ q.generation >= row.generation
           /\ q.concurrency # row.concurrency \/ q.spacing # row.spacing =>
                q.generation > row.generation
           /\ leases[c].generation < row.generation =>
                /\ q.concurrency = Refreshed(row, Version).concurrency
                /\ q.spacing = Refreshed(row, Version).spacing
<1> DEFINE s == configs[Version]
           b == Refreshed(row, Version)
<1>1. /\ s \in Settings /\ Version \in Nat \ {0} /\ Version <= Version
      /\ row \in Rows /\ leases[c] \in Leases /\ configs \in Seq(Settings)
      /\ row.version <= Version /\ Bounded(configs[row.version], row) /\ Spaced(row)
  BY Current DEF Inv, Shape, RowInv
<1>2. /\ b \in Rows /\ b.present /\ b.version = Version /\ Bounded(s, b) /\ Spaced(b)
      /\ b.cooldown = row.cooldown
      /\ b = row \/ b.generation = row.generation + 1
  BY <1>1, RefreshedRow
<1>3. obs \in Observations(s) /\ q = Observe(s, b, obs, leases[c])
  OBVIOUS
<1> HIDE DEF s, b
<1>4. /\ q \in Rows /\ q.version = b.version
      /\ Bounded(s, q) /\ Spaced(q)
      /\ q.generation \in {b.generation, b.generation + 1}
      /\ q.generation = b.generation => q.concurrency = b.concurrency /\ q.spacing = b.spacing
      /\ q.cooldown >= b.cooldown
      /\ obs.outcome = "throttled" => q.cooldown >= obs.retry
      /\ leases[c].generation # b.generation =>
            q.concurrency = b.concurrency /\ q.spacing = b.spacing
  BY <1>1, <1>2, <1>3, ObservesRow
<1>5. q.present
  BY <1>1, <1>2, <1>3, ObservesRow
<1>6. row.generation \in Nat /\ b.generation \in Nat /\ leases[c].generation \in Nat
  BY <1>1, <1>2, RowFields, LeaseFields
<1>7. /\ q.generation >= row.generation
      /\ q.concurrency # row.concurrency \/ q.spacing # row.spacing =>
                q.generation > row.generation
  BY <1>2, <1>4, <1>6
<1>8. leases[c].generation < row.generation =>
        q.concurrency = b.concurrency /\ q.spacing = b.spacing
  BY <1>2, <1>4, <1>6
<1> QED
  BY <1>2, <1>4, <1>5, <1>7, <1>8 DEF s, b

\* The ways release ends: the policy learns the outcome of a live lease, or nothing is learned.
LEMMA ReleaseEnds ==
    ASSUME Inv, NEW c \in Captures,
           NEW obs \in Observations(configs[Version]) \cup {Interrupted}, Release(c, obs)
    PROVE  /\ calls[c].phase \in {"running", "done"}
           /\ calls' = [calls EXCEPT ![c].phase = "done"]
           /\ leases' = [leases EXCEPT ![c] = NoLease]
           /\ UNCHANGED configs /\ Overtake
           /\ \/ /\ row.present /\ leases[c].left > 0 /\ obs \in Observations(configs[Version])
                 /\ row' = Observe(configs[Version], Refreshed(row, Version), obs, leases[c])
                 /\ demanded' = IF obs.outcome = "throttled" THEN MaxOf(demanded, obs.retry)
                                ELSE demanded
                 /\ observed' = [observed EXCEPT ![c] = @ + 1]
              \/ UNCHANGED <<row, demanded, observed>>
BY Zenon DEF Release, Phase, ReleasedLease

\* release, with the outcome of the capture.
LEMMA Releases ==
    ASSUME Inv, NEW c \in Captures,
           NEW obs \in Observations(configs[Version]) \cup {Interrupted}, Release(c, obs)
    PROVE  Inv'
<1> DEFINE s == configs[Version]
<1>1. /\ calls' = [calls EXCEPT ![c].phase = "done"]
      /\ leases' = [leases EXCEPT ![c] = NoLease]
      /\ UNCHANGED configs /\ Overtake
  BY ReleaseEnds
<1>2. /\ calls \in [Captures -> Calls] /\ leases \in [Captures -> Leases]
      /\ row \in Rows /\ Version \in Nat \ {0} /\ s \in Settings
  BY Current DEF Inv, Shape
<1>3. /\ calls' \in [Captures -> Calls] /\ calls'[c].phase = "done"
      /\ \A d \in Captures : d # c => calls'[d] = calls[d]
      /\ \A d \in Captures : calls'[d].version = calls[d].version
  BY <1>1, <1>2 DEF Calls, Phases
<1>4. /\ leases' \in [Captures -> Leases] /\ leases'[c].left = 0
      /\ \A d \in Captures : d # c => leases'[d] = leases[d]
  BY <1>1, <1>2, LeaseFields
<1>5. /\ row' \in Rows /\ row'.version <= Version /\ demanded' \in Nat
      /\ observed' \in [Captures -> Nat] /\ observed'[c] <= 1
      /\ \A d \in Captures : d # c => observed'[d] = observed[d]
      /\ RowInv'
      /\ row.present => row'.present /\ row'.generation >= row.generation
      /\ row'.concurrency # row.concurrency \/ row'.spacing # row.spacing =>
            row'.generation > row.generation
  <2>1. CASE /\ row.present /\ leases[c].left > 0 /\ obs \in Observations(s)
             /\ row' = Observe(s, Refreshed(row, Version), obs, leases[c])
             /\ demanded' = IF obs.outcome = "throttled" THEN MaxOf(demanded, obs.retry)
                            ELSE demanded
             /\ observed' = [observed EXCEPT ![c] = @ + 1]
    <3>1. /\ row' \in Rows /\ row'.present /\ row'.version = Version
          /\ Bounded(s, row') /\ Spaced(row')
          /\ row'.cooldown >= row.cooldown
          /\ obs.outcome = "throttled" => row'.cooldown >= obs.retry
          /\ row'.generation >= row.generation
          /\ row'.concurrency # row.concurrency \/ row'.spacing # row.spacing =>
                row'.generation > row.generation
      BY <2>1, ReleaseRow
    <3>2. observed \in [Captures -> Nat] /\ observed[c] = 0
      BY <2>1 DEF Inv, Shape, CaptureInv, CaptureOK
    <3>3. /\ observed' \in [Captures -> Nat] /\ observed'[c] = 1
          /\ \A d \in Captures : d # c => observed'[d] = observed[d]
      BY <2>1, <3>2
    <3>4. obs.outcome = "throttled" => obs.retry \in Nat
      <4>1. RetryAfters \cup {s.cooldown} \subseteq Nat
        BY <1>2, BoundsAssumption, SettingsFields
      <4>2. CASE obs \in [outcome: {"healthy", "neutral"}, retry: {0}]
        BY <4>2
      <4>3. CASE obs \in [outcome: {"throttled", "overload"}, retry: RetryAfters \cup {s.cooldown}]
        BY <4>1, <4>3
      <4> QED
        BY <2>1, <4>2, <4>3 DEF Observations
    <3>5. row'.cooldown \in Nat /\ row.cooldown \in Nat /\ demanded \in Nat
          /\ demanded <= row.cooldown
      BY <1>2, <3>1, RowFields DEF Inv, Shape, RowInv
    <3>6. demanded' \in Nat /\ demanded' <= row'.cooldown
      BY <2>1, <3>1, <3>4, <3>5 DEF MaxOf
    <3>7. RowInv'
      BY <1>1, <3>1, <3>6 DEF RowInv, Bounded, Spaced, Version
    <3> QED
      BY <1>2, <3>1, <3>3, <3>6, <3>7
  <2>2. CASE UNCHANGED <<row, demanded, observed>>
    <3>1. RowInv'
      BY <1>1, <2>2 DEF Inv, RowInv, Bounded, Spaced
    <3>2. row.generation \in Nat
      BY <1>2, RowFields
    <3>3. /\ row.version <= Version /\ demanded \in Nat /\ observed \in [Captures -> Nat]
          /\ observed[c] <= 1
      BY DEF Inv, Shape, CaptureInv, CaptureOK
    <3> QED
      BY <1>2, <2>2, <3>1, <3>2, <3>3
  <2> QED
    BY <2>1, <2>2, ReleaseEnds
<1>6. /\ overtaken' \in SUBSET Captures
      /\ \/ overtaken' = overtaken
         \/ overtaken' = overtaken \cup LiveLeases /\ row'.generation > row.generation
  BY <1>1, <1>5 DEF Overtake, LiveLeases, Inv, Shape
<1>7. Shape'
  BY <1>1, <1>3, <1>4, <1>5, <1>6 DEF Inv, Shape, Version
<1>8. ASSUME NEW d \in Captures
      PROVE  CaptureOK(d)'
  <2>1. CASE d = c
    BY <1>3, <1>4, <1>5, <2>1 DEF CaptureOK
  <2>2. CASE d # c
    <3>1. leases[d].left > 0 => row.present
      BY DEF Inv, CaptureInv, CaptureOK
    <3>2. row'.generation \in Nat
      BY <1>5, RowFields
    <3> QED
      BY <1>3, <1>4, <1>5, <1>6, <2>2, <3>1, <3>2, OthersKept
  <2> QED
    BY <2>1, <2>2
<1> QED
  BY <1>5, <1>7, <1>8 DEF Inv, CaptureInv

\* An outcome of a capture under which the allowance has changed moves nothing.
LEMMA ReleaseKeeps ==
    ASSUME Inv, NEW c \in overtaken,
           NEW obs \in Observations(configs[Version]) \cup {Interrupted}, Release(c, obs)
    PROVE  \E r \in {row, Refreshed(row, Version)} :
                row'.concurrency = r.concurrency /\ row'.spacing = r.spacing
<1>1. c \in Captures
  BY DEF Inv, Shape
<1>2. CASE UNCHANGED row
  BY <1>2
<1>3. CASE /\ row.present /\ leases[c].left > 0 /\ obs \in Observations(configs[Version])
           /\ row' = Observe(configs[Version], Refreshed(row, Version), obs, leases[c])
  <2>1. leases[c].generation < row.generation
    BY <1>1, <1>3 DEF Inv, CaptureInv, CaptureOK
  <2>2. /\ row'.concurrency = Refreshed(row, Version).concurrency
        /\ row'.spacing = Refreshed(row, Version).spacing
    BY <1>1, <1>3, <2>1, ReleaseRow
  <2> QED
    BY <2>2
<1> QED
  BY <1>1, <1>2, <1>3, ReleaseEnds

-----------------------------------------------------------------------------
(* Operators, retention and time *)

\* A row of which only flags or times change keeps its policy.
LEMMA PolicyKept ==
    ASSUME NEW s, NEW r, NEW q, Bounded(s, r),
           q.concurrency = r.concurrency, q.spacing = r.spacing,
           q.healthy = r.healthy, q.overload = r.overload
    PROVE  Bounded(s, q)
BY DEF Bounded

\* All leases and calls stay, or end.
LEMMA LeasesKept ==
    ASSUME Inv, UNCHANGED <<calls, observed, overtaken>>,
           row'.generation = row.generation, row.present => row'.present,
           \A d \in Captures : leases'[d].left > 0 =>
                leases[d].left > 0 /\ leases'[d].generation = leases[d].generation
    PROVE  CaptureInv'
<1>1. row.generation \in Nat
  BY RowFields DEF Inv, Shape
<1>2. ASSUME NEW d \in Captures
      PROVE  CaptureOK(d)'
  <2>1. leases[d].left > 0 => row.present
    BY DEF Inv, CaptureInv, CaptureOK
  <2> QED
    BY <1>1, <2>1, OthersKept
<1> QED
  BY <1>2 DEF CaptureInv

\* An operator's request for a reset.
LEMMA RequestsReset ==
    ASSUME Inv, RequestReset
    PROVE  Inv'
<1>1. /\ row.present /\ row' = [row EXCEPT !.resetRequested = TRUE]
      /\ UNCHANGED <<configs, leases, calls, demanded, observed, overtaken>>
      /\ row \in Rows
  BY DEF RequestReset, history, Inv, Shape
<1>2. row' \in Rows
  BY ZenonT(240), <1>1 DEF Rows
<1>3. /\ row'.version = row.version /\ row'.cooldown = row.cooldown
      /\ row'.generation = row.generation
      /\ row'.concurrency = row.concurrency /\ row'.spacing = row.spacing
      /\ row'.healthy = row.healthy /\ row'.overload = row.overload
      /\ row'.reason = row.reason
      /\ row'.nextStart = row.nextStart /\ row'.sinceStart = row.sinceStart
  BY <1>1 DEF Rows
<1>4. row'.present
  BY <1>1 DEF Rows
<1>5. Shape'
  BY <1>1, <1>2, <1>3 DEF Inv, Shape, Version
<1>6. Bounded(configs[row.version], row') /\ Spaced(row')
  BY <1>1, <1>3, PolicyKept DEF Inv, RowInv, Spaced
<1>7. RowInv'
  BY <1>1, <1>3, <1>4, <1>6 DEF Inv, RowInv, Bounded, Spaced
<1>8. CaptureInv'
  BY <1>1, <1>3, <1>4, LeasesKept
<1> QED
  BY <1>5, <1>7, <1>8 DEF Inv

\* An operator replaces the settings.
LEMMA UpdatesSettings ==
    ASSUME Inv, NEW s \in Settings, UpdateSettings(s)
    PROVE  Inv'
<1>1. /\ configs' = Append(configs, s)
      /\ UNCHANGED <<row, leases, calls, demanded, observed, overtaken>>
  BY DEF UpdateSettings, history
<1>2. configs \in Seq(Settings) /\ row.version \in Nat \ {0} /\ row.version <= Len(configs)
  BY RowFields DEF Inv, Shape, Version
<1>3. /\ configs' \in Seq(Settings) /\ configs' # <<>>
      /\ Len(configs') = Len(configs) + 1 /\ Len(configs) \in Nat
      /\ configs'[row.version] = configs[row.version]
  BY <1>1, <1>2
<1>4. \A c \in Captures : calls[c].version \in Nat /\ calls[c].version <= Len(configs)
  BY DEF Inv, Shape, Version, Calls
<1>5. Shape'
  BY <1>1, <1>2, <1>3, <1>4 DEF Inv, Shape, Version
<1>6. RowInv'
  BY <1>1, <1>3 DEF Inv, RowInv, Bounded, Spaced
<1>7. CaptureInv'
  BY <1>1, LeasesKept
<1> QED
  BY <1>5, <1>6, <1>7 DEF Inv

\* The purge deletes the row once nothing depends on it.
LEMMA Purges ==
    ASSUME Inv, Purge
    PROVE  Inv'
<1>1. /\ row.cooldown = 0 /\ row' = NoRow
      /\ leases' = [c \in Captures |-> NoLease]
      /\ UNCHANGED <<configs, calls, demanded, observed, overtaken>>
  BY DEF Purge
<1>2. leases' \in [Captures -> Leases] /\ \A d \in Captures : leases'[d].left = 0
  BY <1>1 DEF NoLease, Leases
<1>3. /\ row' \in Rows /\ ~row'.present /\ row'.version = 1 /\ row'.cooldown = 0
  BY <1>1, NoRowFields
<1>4. Shape'
  <2>1. Version \in Nat \ {0}
    BY Current DEF Inv
  <2> QED
    BY <1>1, <1>2, <1>3, <2>1 DEF Inv, Shape, Version
<1>5. RowInv'
  BY <1>1, <1>3 DEF Inv, RowInv
<1>6. ASSUME NEW d \in Captures
      PROVE  CaptureOK(d)'
  BY <1>1, <1>2 DEF Inv, CaptureInv, CaptureOK
<1> QED
  BY <1>4, <1>5, <1>6 DEF Inv, CaptureInv

\* Time brings the next start nearer no faster than the last start recedes.
LEMMA Ticks ==
    ASSUME Inv, Tick
    PROVE  Inv'
<1> DEFINE ttl == Less(row.ttl)
           cooldown == Less(row.cooldown)
           nextStart == Less(row.nextStart)
           sinceStart == MinOf(Far, row.sinceStart + 1)
           sinceRefused == MinOf(Far, row.sinceRefused + 1)
<1>1. /\ row' = [row EXCEPT !.ttl = ttl, !.cooldown = cooldown, !.nextStart = nextStart,
                            !.sinceStart = sinceStart, !.sinceRefused = sinceRefused]
      /\ leases' = [c \in Captures |-> IF leases[c].left <= 1 THEN NoLease
                                        ELSE [leases[c] EXCEPT !.left = @ - 1]]
      /\ demanded' = Less(demanded)
      /\ UNCHANGED <<configs, calls, observed, overtaken>>
  BY Zenon DEF Tick
<1>2. row \in Rows /\ demanded \in Nat /\ demanded <= row.cooldown
      /\ leases \in [Captures -> Leases]
  BY DEF Inv, Shape, RowInv
<1>3. /\ row.ttl \in Nat /\ row.cooldown \in Nat /\ row.nextStart \in Nat
      /\ row.sinceStart \in 0..Far /\ row.sinceRefused \in 0..Far /\ row.spacing \in Nat
  BY <1>2, RowFields
<1>4. /\ ttl \in Nat /\ cooldown \in Nat /\ nextStart \in Nat
      /\ sinceStart \in 0..Far /\ sinceRefused \in 0..Far
      /\ demanded' \in Nat /\ demanded' <= cooldown
  BY <1>1, <1>2, <1>3, FarAssumption DEF Less, MinOf
<1> HIDE DEF ttl, cooldown, nextStart, sinceStart, sinceRefused
<1>5. row' \in Rows
  BY ZenonT(240), <1>1, <1>2, <1>4 DEF Rows
<1>6. /\ row'.version = row.version /\ row'.cooldown = cooldown
      /\ row'.generation = row.generation
      /\ row'.concurrency = row.concurrency /\ row'.spacing = row.spacing
      /\ row'.healthy = row.healthy /\ row'.overload = row.overload
      /\ row'.reason = row.reason
      /\ row'.nextStart = nextStart /\ row'.sinceStart = sinceStart
  BY <1>1, <1>2 DEF Rows
<1>7. row.present => row'.present
  BY <1>1, <1>2 DEF Rows
<1>8. ASSUME row.present
      PROVE  RowInv'
  <2>1. Bounded(configs[row.version], row')
    BY <1>6, <1>8, PolicyKept DEF Inv, RowInv
  <2>2. row.spacing <= Far
    <3>1. configs[row.version] \in Settings /\ Bounded(configs[row.version], row)
      BY <1>8, Current DEF Inv, RowInv
    <3>2. \A s \in Settings : s.maximum_spacing \in Nat /\ s.maximum_spacing <= Far
      BY SettingsFields, FarAssumption
    <3> QED
      BY <1>3, <3>1, <3>2, FarAssumption DEF Bounded
  <2>3. row.nextStart + row.sinceStart >= row.spacing => nextStart + sinceStart >= row.spacing
    BY <1>3, <2>2, FarAssumption DEF nextStart, sinceStart, Less, MinOf
  <2>4. Spaced(row')
    BY <1>6, <1>8, <2>3 DEF Inv, RowInv, Spaced
  <2> QED
    BY <1>1, <1>4, <1>6, <1>7, <1>8, <2>1, <2>4 DEF RowInv, Bounded, Spaced
<1>9. ASSUME ~row.present
      PROVE  RowInv'
  <2>1. row = NoRow
    BY <1>9 DEF Inv, RowInv
  <2>2. /\ ttl = NoRow.ttl /\ cooldown = NoRow.cooldown /\ nextStart = NoRow.nextStart
        /\ sinceStart = NoRow.sinceStart /\ sinceRefused = NoRow.sinceRefused
    BY <2>1, FarAssumption
       DEF NoRow, ttl, cooldown, nextStart, sinceStart, sinceRefused, Less, MinOf
  <2>3. row' = NoRow
    BY <1>1, <2>1, <2>2 DEF NoRow
  <2> QED
    BY <1>4, <1>6, <2>3, NoRowFields DEF RowInv
<1>10. /\ leases' \in [Captures -> Leases]
       /\ \A d \in Captures : leases'[d].left > 0 =>
             leases[d].left > 0 /\ leases'[d].generation = leases[d].generation
  <2>1. ASSUME NEW l \in Leases, NEW m, ~(l.left <= 1), m = [l EXCEPT !.left = @ - 1]
        PROVE  m \in Leases /\ m.generation = l.generation /\ l.left > 0
    <3>1. l.left - 1 \in Nat /\ l.left > 0
      BY <2>1, LeaseFields
    <3>2. m \in Leases
      BY <2>1, <3>1, Zenon DEF Leases
    <3>3. m.generation = l.generation
      BY <2>1 DEF Leases
    <3> QED
      BY <3>1, <3>2, <3>3
  <2>2. ASSUME NEW d \in Captures
        PROVE  /\ leases'[d] \in Leases
               /\ leases'[d].left > 0 =>
                    leases[d].left > 0 /\ leases'[d].generation = leases[d].generation
    <3>1. \/ leases'[d] = NoLease
          \/ ~(leases[d].left <= 1) /\ leases'[d] = [leases[d] EXCEPT !.left = @ - 1]
      BY <1>1, Zenon
    <3>2. leases[d] \in Leases
      BY <1>2
    <3> QED
      BY <2>1, <3>1, <3>2, LeaseFields
  <2>3. leases' = [d \in Captures |-> leases'[d]]
    BY <1>1, Zenon
  <2>4. leases' \in [Captures -> Leases]
    BY <2>2, <2>3, Zenon
  <2> QED
    BY <2>2, <2>4
<1>11. Shape'
  BY <1>1, <1>4, <1>5, <1>6, <1>10 DEF Inv, Shape, Version
<1>12. CaptureInv'
  BY <1>1, <1>6, <1>7, <1>10, LeasesKept
<1> QED
  BY <1>8, <1>9, <1>11, <1>12 DEF Inv

-----------------------------------------------------------------------------
(* The theorems *)

\* The invariant holds of a hostname that was never seen.
LEMMA Initially == Init => Inv
<1> SUFFICES ASSUME Init PROVE Inv
  OBVIOUS
<1>1. configs \in Seq(Settings) /\ configs # <<>> /\ Len(configs) = 1
  BY DEF Init
<1>2. /\ leases \in [Captures -> Leases] /\ calls \in [Captures -> Calls]
      /\ \A c \in Captures : /\ leases[c].left = 0
                             /\ calls[c].phase = "idle" /\ calls[c].version = 1
  BY DEF Init, NoLease, Leases, NoCall, Calls, Phases
<1>3. Shape
  BY <1>1, <1>2, NoRowFields DEF Init, Shape, Version
<1>4. RowInv
  BY NoRowFields DEF Init, RowInv
<1>5. CaptureInv
  BY <1>2 DEF Init, CaptureInv, CaptureOK
<1> QED
  BY <1>3, <1>4, <1>5 DEF Inv

\* Every step keeps the invariant.
LEMMA Preserved == Inv /\ [Next]_vars => Inv'
<1> SUFFICES ASSUME Inv, [Next]_vars PROVE Inv'
  OBVIOUS
<1>1. ASSUME NEW c \in Captures, ReadSettings(c) \/ InsertConflicts(c) \/ AcquireAsserts(c)
      PROVE  Inv'
  BY <1>1, Waits
<1>2. ASSUME NEW c \in Captures, Acquire(c)
      PROVE  Inv'
  BY <1>2, Acquires
<1>3. ASSUME NEW c \in Captures,
             NEW obs \in Observations(configs[Version]) \cup {Interrupted}, Release(c, obs)
      PROVE  Inv'
  BY <1>3, Releases
<1>4. CASE RequestReset
  BY <1>4, RequestsReset
<1>5. ASSUME NEW s \in Settings, UpdateSettings(s)
      PROVE  Inv'
  BY <1>5, UpdatesSettings
<1>6. CASE Purge
  BY <1>6, Purges
<1>7. CASE Tick
  BY <1>7, Ticks
<1>8. CASE UNCHANGED vars
  <2>1. UNCHANGED <<configs, row, leases, calls, demanded, observed, overtaken>>
    BY <1>8 DEF vars, history
  <2>2. Shape'
    BY <2>1 DEF Inv, Shape, Version
  <2>3. RowInv'
    BY <2>1 DEF Inv, RowInv, Bounded, Spaced
  <2>4. CaptureInv'
    BY <2>1, LeasesKept
  <2> QED
    BY <2>2, <2>3, <2>4 DEF Inv
<1> QED
  BY <1>1, <1>2, <1>3, <1>4, <1>5, <1>6, <1>7, <1>8 DEF Next

\* The invariant holds throughout.
LEMMA Invariant == Spec => []Inv
BY Initially, Preserved, PTL DEF Spec

\* What a hostname has learned is sound, for all settings, whichever versions
\* acquire and release have read: a policy within the bounds of its version, fed
\* once by each capture, and only by leases of the row's own generations.
THEOREM LearnedStateIsSound == Spec => []LearnedStateSound
<1>1. Inv => LearnedStateSound
  <2> SUFFICES ASSUME Inv PROVE LearnedStateSound
    OBVIOUS
  <2>1. PolicyWithinBounds
    <3>1. /\ row.concurrency \in Nat \ {0} /\ row.spacing \in Nat \ {0}
          /\ configs[row.version] \in Settings
      BY Current, RowFields DEF Inv, Shape
    <3>2. row.present => Bounded(configs[row.version], row)
      BY DEF Inv, RowInv
    <3> QED
      BY <3>1, <3>2, SettingsFields DEF PolicyWithinBounds, Bounded
  <2>2. ObservedOnce /\ LeasesBelongToRow
    BY DEF Inv, CaptureInv, CaptureOK, ObservedOnce, LeasesBelongToRow, LiveLeases
  <2> QED
    BY <2>1, <2>2 DEF LearnedStateSound
<1> QED
  BY <1>1, Invariant, PTL

\* Whatever stands between a capture and its admission, the start respects the
\* policy of its moment: the concurrency, the origins' wishes and the spacing.
THEOREM StartsAreAdmitted == Spec => StartsRespectPolicy
<1> DEFINE Respects ==
        \A c \in Captures : Starts(c) =>
            /\ Cardinality(LiveLeases') <= row'.concurrency
            /\ demanded = 0
            /\ row'.reason \notin ResetReasons => row.sinceStart >= row'.spacing
<1>1. Inv /\ [Next]_vars => [Respects]_vars
  <2> SUFFICES ASSUME Inv, Next, NEW c \in Captures, Starts(c)
               PROVE  /\ Cardinality(LiveLeases') <= row'.concurrency
                      /\ demanded = 0
                      /\ row'.reason \notin ResetReasons => row.sinceStart >= row'.spacing
    BY Zenon
  <2>1. calls[c].phase # "running" /\ calls'[c].phase = "running"
    BY DEF Starts
  <2>2. calls \in [Captures -> Calls]
    BY DEF Inv, Shape
  <2>3. \E d \in Captures : Acquire(d)
    <3>1. ASSUME NEW d \in Captures, NEW p,
                 p # "running", calls' = [calls EXCEPT ![d].phase = p]
          PROVE  FALSE
      BY <2>1, <2>2, <3>1 DEF Calls
    <3>2. ASSUME NEW d \in Captures, ReadSettings(d)
          PROVE  FALSE
      BY <2>1, <2>2, <3>2 DEF ReadSettings, Calls
    <3>3. ASSUME NEW d \in Captures, InsertConflicts(d) \/ AcquireAsserts(d)
          PROVE  FALSE
      BY <3>1, <3>3 DEF InsertConflicts, AcquireAsserts, Phase
    <3>4. ASSUME NEW d \in Captures, NEW obs, Release(d, obs)
          PROVE  FALSE
      BY <3>1, <3>4, Zenon DEF Release, Phase
    <3>5. (RequestReset \/ Purge \/ Tick \/ \E s \in Settings : UpdateSettings(s))
             => calls' = calls
      BY DEF RequestReset, Purge, Tick, UpdateSettings
    <3> QED
      BY <2>1, <3>2, <3>3, <3>4, <3>5 DEF Next
  <2>4. PICK d \in Captures : Acquire(d)
    BY <2>3
  <2>5. d = c
    <3>1. calls' = [calls EXCEPT ![d].phase = "idle"]
          \/ calls' = [calls EXCEPT ![d].phase = "running"]
      BY <2>4, AcquireEnds, Zenon
    <3> QED
      BY <2>1, <2>2, <3>1 DEF Calls
  <2> QED
    BY <2>1, <2>4, <2>5, AcquireRespects
<1> QED
  BY <1>1, Invariant, PTL DEF Spec, StartsRespectPolicy

\* Policy generations: once the allowance has changed under a running capture,
\* its outcome no longer moves it, so a burst of outcomes counts once.
THEOREM BurstsCountOnce == Spec => BurstCountsOnce
<1> DEFINE Once ==
        \A c \in overtaken :
            calls[c].phase = "running" /\ calls'[c].phase = "done" =>
                \E r \in {row, Refreshed(row, Version)} :
                    row'.concurrency = r.concurrency /\ row'.spacing = r.spacing
<1>1. Inv /\ [Next]_vars => [Once]_vars
  <2> SUFFICES ASSUME Inv, Next, NEW c \in overtaken,
                      calls[c].phase = "running", calls'[c].phase = "done"
               PROVE  \E r \in {row, Refreshed(row, Version)} :
                          row'.concurrency = r.concurrency /\ row'.spacing = r.spacing
    BY Zenon
  <2>1. c \in Captures /\ calls \in [Captures -> Calls]
    BY DEF Inv, Shape
  <2>2. \E obs \in Observations(configs[Version]) \cup {Interrupted} : Release(c, obs)
    <3>1. ASSUME NEW d \in Captures, NEW p,
                 p # "done" \/ d # c, calls' = [calls EXCEPT ![d].phase = p]
          PROVE  FALSE
      BY <2>1, <3>1 DEF Calls
    <3>2. ASSUME NEW d \in Captures, ReadSettings(d)
          PROVE  FALSE
      BY <2>1, <3>2 DEF ReadSettings, Calls
    <3>3. ASSUME NEW d \in Captures, InsertConflicts(d) \/ AcquireAsserts(d)
          PROVE  FALSE
      BY <3>1, <3>3 DEF InsertConflicts, AcquireAsserts, Phase
    <3>4. ASSUME NEW d \in Captures, Acquire(d)
          PROVE  FALSE
      <4>1. calls' = [calls EXCEPT ![d].phase = "idle"]
            \/ calls' = [calls EXCEPT ![d].phase = "running"]
        BY <3>4, AcquireEnds, Zenon
      <4> QED
        BY <3>1, <4>1
    <3>5. ASSUME NEW d \in Captures, NEW obs, Release(d, obs)
          PROVE  d = c
      BY <3>1, <3>5, Zenon DEF Release, Phase
    <3>6. (RequestReset \/ Purge \/ Tick \/ \E s \in Settings : UpdateSettings(s))
             => calls' = calls
      BY DEF RequestReset, Purge, Tick, UpdateSettings
    <3> QED
      BY <3>2, <3>3, <3>4, <3>5, <3>6 DEF Next
  <2> QED
    BY <2>2, ReleaseKeeps
<1> QED
  BY <1>1, Invariant, PTL DEF Spec, BurstCountsOnce
=============================================================================
