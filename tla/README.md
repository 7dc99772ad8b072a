# A TLA+ verification project for Stolosio

Stolosio is a gateway in front of headless browsers. Clients connect to one CDP endpoint (or
ask for a page capture); Stolosio decides whether they are admitted, which managed browser or
paid cloud browser they get, how fast they may hit a hostname, keeps the fleet of managed
browsers at the right size, and records what happened. All the decisions that must be
consistent are made in PostgreSQL transactions by several API processes, a fleet controller
and a maintenance worker that share nothing but the database and a NATS broker.

This directory models those decisions. The paths below are relative to the repository.

| file | contents |
| --- | --- |
| `Admission.tla` | sessions and acquisition attempts: the two repositories and the owners that call them |
| `CapacityPool.tla` | the abstract promise of admission: slots that are given out once, within capacity |
| `MCAdmission.tla`, `Admission*.cfg` | small instances of `Admission` |
| `AdmissionProofs.tla` | type correctness, slots within capacity, queue order, `Admission` implements `CapacityPool`, ended sessions hold nothing, terminal rows are final, the session limit, one acquisition at a time, leases protect |
| `DomainPacing.tla` | adaptive pacing of one hostname |
| `MCDomainPacing.tla`, `Pacing*.cfg` | small instances of `DomainPacing` |
| `Fleet.tla` | scaling policy, reconciler, fleet tables and the Kubernetes runtime |
| `MCFleet.tla`, `Fleet*.cfg` | small instances of `Fleet` |
| `Gateway.tla` | one gateway connection: tasks, timeouts, cleanup, and the network policy it reads |
| `DomainBlocking.tla` | the wrapper that applies the blocklist to every target of a browser |
| `CdpRelay.tla` | composes `DomainBlocking` with the two pumps of a relay and its observer |
| `CommandCosts.tla` | how the cost of an attempt is shared among its commands: operators only |
| `EventPipeline.tla` | outbox, event stream, maintenance worker, recorder and event retention, over `CommandCosts` |
| `PageCapture.tla` | what a page capture decides: tiers, failures, method cache; operators only |
| `Capture.tla` | one hosted capture with the capacity it holds, over `PageCapture` |
| `Rendering.tla` | renders that share a browser driver |
| `LiveViews.tla` | the activity feed and the debug timeline |
| `MC<module>.tla` and `GatewayConnect.cfg`, `CdpConnection.cfg`, `EventRecording.cfg`, `CaptureLifecycle.cfg`, `RenderSharing.cfg`, `LiveViews.cfg` | small instances of these |
| `AdmissionSharedSlot.cfg`, `PacingStaleSettings.cfg`, `PacingAssertion.cfg`, `FleetReplicas.cfg`, `FleetReconfiguration.cfg`, `CdpLeaseLost.cfg`, `EventReplay.cfg`, `CaptureAfter429.cfg`, `CaptureStranded.cfg`, `RenderExcluded.cfg`, `LiveViewsUnending.cfg` | instances whose one property TLC refutes: the known divergences of section 11 |
| `DomainPacingProofs.tla`, `FleetGatewayProofs.tla`, `CdpRelayProofs.tla`, `EventPipelineProofs.tla`, `CaptureProofs.tla`, `RenderingProofs.tla`, `LiveViewsProofs.tla` | an inductive invariant of each of these modules (`FleetGatewayProofs`: of `Fleet` and of `Gateway`), and what follows from it (section 12) |
| `PROJECT.json` | components, runs, mutants, the map from definitions to lines, hazards, theorems |

A run is `tlc -config X.cfg MCM`; a definition whose name begins with `Fault`, or that is named
after a mistake (`FreeInstancesOffByOne`), is a faulty variant of the definition after it, which
makes the property it is listed with in `PROJECT.json` fail.

## 1. Inventory

### Session and attempt admission
`backend/proxy/postgres/sessions.py`, `attempts.py`, `backend/db/models/gateway.py`

*State.* `gateway_sessions` (state, lease expiry), `acquisition_attempts` (state, provider,
instance, queue sequence), the queue sequence, one lock row for the session limit and one per
provider. *Operations.* Sessions: `admit`, `heartbeat`, `open`, `release`. Attempts: `enqueue`,
`claim`, `activate`, `finish`. Both expire stale rows as a side effect of other operations;
there is no background job. *Interactions.* Called by the gateway connection and the capture
service through `SessionLease` and `AttemptLease`; reads the instances the fleet controller
observed, the fleet row and the cloud limits operators configure; appends to the outbox.
*Hard.* Several processes, an owner that may die at any point, a clock that is read before the
row locks are waited for, cleanup that runs twice, late, or not at all. *Correct when* capacity
and the session limit are never exceeded, the queue is respected, an unexpired lease protects
its holder, an ended session holds nothing, terminal rows are final, and nobody waits forever
behind a crashed owner.

### Leases of an owner
`backend/proxy/sessions/manager.py`, `backend/proxy/attempts/manager.py`

*State.* In one API process: a heartbeat task per session, a "lost" event, the acquired
attempt. *Operations.* begin and retry transactions (`_retry_transient`: three tries), poll
`claim` every second or when notified, release. *Hard.* The lease may be gone while its owner
still uses the browser; it learns so only from its own heartbeat.

### Gateway connection
`backend/proxy/gateway.py`, `proxy/transport/cdp.py`, `proxy/adapters/cdp.py`

*State.* Tasks for admission, preparation, client disconnection, lease loss and the two pump
directions. *Operations.* `connect`, `_prepare`, `_cleanup_preparation`, `_bounded_cleanup`.
*Hard.* Whichever event wins, the other tasks may complete at the same moment, and what they
acquired must be released within two seconds per call. *Correct when* every acquired attempt,
session and socket is either handed on or released exactly once.

### Capture orchestration
`backend/proxy/capture/service.py`, `capture/pacing.py`, `capture/tiers.py`

*State.* One session, at most one local slot and one paid attempt, a deadline, a pacing lease.
*Operations.* `_capture`, `_admit_domain`, `_local_slot`, switching tiers, `_record`.
*Hard.* Deadlines that expire between acquire and activate, and a paid transition that must
name the slot it replaces. *Correct when* a capture reports each pacing lease once, and leaves
no slot behind.

### Domain pacing
`backend/proxy/domain_pacing/repository.py`, `controller.py`, `contracts.py`

*State.* Per hostname: concurrency, spacing, counters, generation, cooldown, reserved next
start, expiry; a lease per running capture; one settings row with a version. *Operations.*
`acquire`, `release` (which feeds `controller.update`), `request_reset`, `update_settings`, and
the purge of retention. *Hard.* Feedback arrives in any order and under policies that were
already replaced; settings are read without a lock; rows are purged between two statements.
*Correct when* starts obey the policy of the moment, one burst of refusals causes one
reduction, feedback counts once, and the policy stays within its bounds.

### Fleet control
`backend/fleet/policy.py`, `reconciler.py`, `repository.py`, and the runtimes

*State.* `provider_fleets` (desired count, limits, last demand), `provider_instances`
(ready, draining, capacity, last observation). *Operations.* `scaling_decision`, `evaluate`,
`observe_instances`, `prepare_scale_down`, `cancel_scale_down`, `update_configuration`,
`reconcile`. *Hard.* One reconciliation is many transactions and calls to Kubernetes or Docker
between them, and workers start, fail and vanish meanwhile. *Correct when* an instance in use is
never removed, a drained one gets no attempts, no worker is filled beyond its own capacity, growth
follows demand and an idle fleet ends up as configured.

### External provider capacity
`backend/proxy/external_capacity.py`. The limits and credentials of the cloud provider; a
compare-and-set update with a history. *Correct when* a disabled provider gets no attempt.

### CDP transport and observation
`proxy/transport/cdp.py`, `proxy/transport/domain_blocking.py`, `events/cdp.py`

*State.* Two pump tasks; per target of the browser whether its blocklist is confirmed, and what
is held back until then; ids of commands in flight, the client's and injected ones; pending
commands and a bounded summary per attempt. *Operations.* Forward a message in either direction,
attach and configure a target, fail closed, match a response, interrupt, summarise. *Hard.* Ids
are reused between CDP sessions and shared with injected commands, targets attach while the client is
talking, and either side may go away with everything in flight. *Correct when* the client never
reaches a target that is not restricted yet, answers reach who asked, and the summary counts
every command once.

### Events, outbox and maintenance
`events/outbox.py`, `messaging/jetstream.py`, `workers/maintenance/*`, `proxy/command_costs.py`

*State.* `session_events` with `published_at`, the JetStream stream and its consumer, projection
flags on attempts, aggregates. *Operations.* Publish pending rows, create the stream and refill it,
fetch, reject, record, project and acknowledge a batch, purge. *Hard.* At-least-once publication
and consumption, a publication before its commit, a stream that may be lost, events of one
attempt that arrive in any order. *Correct when* every event is published, each attempt is counted
once, and nothing is acknowledged before it is projected.

### Page capture library
`packages/pagecapture`

*State.* A method cache per URL and URL pattern; a driver shared by all renders of a tier; per
capture its attempts and its result. *Operations.* Fetch over HTTP, classify, look up, render in a
browser, compare, resolve challenges locally or in a paid browser. *Hard.* A driver that dies under
several renders at once, a page that goes on navigating while it is read, loops of polls, and a
cache that others write meanwhile. *Correct when* an answer rests on evidence, paid tiers run only
when they may, nothing of an excluded page is kept, and every capture and render ends.

### Debug activity and timeline
`debug/activity.py`, `debug/stream.py`, `debug/timeline.py`. Bounded buffers between a JetStream
consumer and slow readers, cursors that survive a reconnect, a history that overlaps the live
tail. *Correct when* what a reader sees has no silent gap and no event twice.

### Network policy
`proxy/network_policy.py`. A row with a version, and a cache with a lock in each API process.
*Correct when* a process never falls behind an update it has acknowledged.

### Left out
Read-only queries, dashboards and metrics; the HTTP layer and settings (their values are
constants of the modules); the admin interface; the public site and deployment files.

## 2. Admission

### How the model corresponds to the code

| model | code |
| --- | --- |
| `sess[s]` | `gateway_sessions` row: state, and the time left on the lease |
| `att[<<s, k>>]` | the `acquisition_attempts` row of session `s` with ordinal `k` |
| `seq` | `stolosio_attempt_queue_sequence` |
| `ready`, `fleet`, `cloud` | `provider_instances`, `provider_fleets`, `external_provider_limits` as admission reads them |
| `txn[<<s, task>>]` | the repository operation the owner's main task or heartbeat task has in flight, with the age of the time it read |
| `owner[s]` | the `SessionLease` object: not yet admitted, live, told that it is lost, released or dead |
| `lease[x]` | the `AttemptLease` object: what the owner believes it holds |

Each repository operation is a transaction that first executes `SELECT clock_timestamp()`, then
waits for its row locks, then decides and writes. The writes are one step, because the locks
serialise them against every operation they conflict with. The *time* they decide by is older:
so `admit`, `open`, `enqueue`, `claim` and `heartbeat` are a begin step, at which the clock is
read, and a commit step, between which time passes and others commit. `release`, `finish` and
`activate` do not compare the time with a lease and are one step. The clock is relative: a
lease has `left` ticks (negative once expired), an operation in flight has an `age`, and
`lease_expires_at > now` is `left > -age`. A transaction may also be rolled back, which is a
deadlock victim, a timeout or a cancellation; the caller then starts again or cleans up.

An owner may at any time `Abandon`: its process dies or its bounded cleanup gives up. Nothing
in the database changes then, which is what makes expiry necessary.

`Observe`, `ConfigureFleet` and `ConfigureCloud` are the rest of the system as admission sees
it: which instances are ready, and the limits operators set. `Observations`, `FleetLimits` and
`CloudLimits` say which values occur.

*Abstractions.* The state `closing` is written and overwritten inside one transaction and no
other transaction can read it. Usage and cost columns, the outbox rows, provider session ids
and the notifier that wakes a polling owner early change none of the modelled decisions. The
fleet and cloud rows are read inside `enqueue` and `claim` without a lock; the model reads them
at the commit. An instance's capacity is a constant: `observe_instances` may rewrite it, which
belongs to `Fleet`.

### Properties and runs

| run | instance | shows |
| --- | --- | --- |
| `AdmissionLeases` | two sessions, one slot, leases of 2 ticks, clock reads up to 1 tick old, with fairness; 207 thousand states | `TypeOK`, `SlotsWithinCapacity`, `EndedSessionsHoldNothing`, `TerminalIsFinal`, `LeaseProtects`, `NobodyStuck` |
| `AdmissionQueue` | three sessions, a limit of two, one slot, a queue of two, instance ready or not; 564 thousand states | `SessionsWithinCapacity`, `GrantedInQueueOrder`, `ImplementsPool` |
| `AdmissionTransition` | two sessions of two attempts, one at a time, managed or cloud, fleet and cloud reconfigured; 574 thousand states | `OneAcquisitionAtATime` |

- `SlotsWithinCapacity`: by the rows, an instance never has more acquiring and active attempts
  than slots, although operations decide who has expired by an old clock.
- `ImplementsPool`: the rows refine `CapacityPool`. An attempt gets at most one slot, once,
  and one that has ended never gets one.
- `SessionsWithinCapacity`: expired sessions count until an admission has failed them.
- `EndedSessionsHoldNothing`: attempts end with their session, on every path.
- `TerminalIsFinal`: cleanup that comes twice or late never rewrites how a row ended.
- `LeaseProtects`: while a lease has time left, nobody but its owner ends the session or takes
  its slot, however old the other operation's clock is. The boundary (`left = 0`) matters.
- `GrantedInQueueOrder`: neither a new request nor a later one in the queue overtakes a
  waiting attempt whose lease is running.
- `OneAcquisitionAtATime`: beside the attempt it waits for, a session has at most the one
  active attempt that it is replacing.
- `NobodyStuck`: when everything in a waiting attempt's way belongs to dead owners, that ends,
  because leases expire and polling owners expire them.

*Bounds.* The interesting races need one owner that expires and one or two that notice: two or
three sessions. One slot makes every grant contested. `MaxOrdinal` is 1 where a session needs
one attempt and 2 where it replaces one. A lease of two ticks with clock reads one tick old is
the smallest instance in which an operation can believe a lease unexpired that has expired;
where the age plays no part the lease is one tick, or time to expire and nothing else. Sessions
are symmetric where no liveness is checked. How an owner's session ends, failed or not, plays no
part in `AdmissionLeases` and `AdmissionTransition`, which fix it (`Verdicts`). The bounds are only those
of the runs: the theorems below hold for every value.

*Fairness.* Time passes (as long as any lease can still run down). A transaction that began
ends: PostgreSQL breaks deadlocks and callers have timeouts. A live owner's heartbeat task
beats (every 10 s against a lease of 30 s, `backend/settings.py:50-52`) and its transaction ends, in success or not. An
owner in the queue polls about once a second while its lease is renewed, and gives up after
three rollbacks in a row, so among infinitely many opportunities to claim within a lease some
commit: strong fairness on the poll and on its commit. Nothing else is fair: owners need not
release, activate or finish anything, and may die.

## 3. Domain pacing

### How the model corresponds to the code

`row` is the hostname's `domain_pacing_state` (with `nextStart` for `next_start_at`, `sinceStart`
for `last_started_at`, `sinceRefused` for `spacing_refused_at`), `leases` its `domain_pacing_leases`,
`configs` all versions the settings row ever had, and `calls[c]` where capture `c` is in its
calls. `acquire` is three steps, because other transactions can come between: it reads the
settings (`ReadSettings`), its `INSERT ... ON CONFLICT DO NOTHING` meets a row that it does not
lock (`InsertConflicts`), and it gets the row lock and commits (`Acquire`). `release`,
`request_reset`, `update_settings` and the purge take their lock first and are one step each.
`Update`, `Healthy`, `BackOff` and `Reset` are the controller's pure functions. Times are
relative, as in `Admission`; a tick is a second, and the spacing arithmetic is the code's with
its rounding. `demanded`, `observed` and `overtaken` are history variables that no action reads.

*Abstractions.* One hostname: hostnames share only the settings. The request facts stored with
an observation, and the normalisation of hostnames, are left out. `RetryAfters` are durations as
`controller.py:79` leaves them, no longer than a year. Spacings are whole ticks: the decrease to
four fifths rounds down to a tick where the code rounds to six decimals, and spacings below a
second, the default minimum of 0.1 s among them, are not told apart.

### Properties and runs

The run `Pacing` has three captures, two versions of the settings with disjoint spacings and a
Retry-After of 2 (901 thousand states). It checks `LearnedStateSound`, `StartsRespectPolicy` and
`BurstCountsOnce`.

- `StartsRespectPolicy`: when a capture starts, running captures are within the concurrency of
  that moment, no origin is still asking to be left alone, and the spacing has passed since the
  last start; only a reset, which keeps the reserved start by design, may leave a shorter gap.
- `BurstCountsOnce`: a capture that was running when the allowance changed no longer moves it.
- `LearnedStateSound` has three parts. `ObservedOnce`: repeated releases reach the controller once.
  `LeasesBelongToRow`: resets and purges leave no lease that could pass for one of a later policy,
  although generations start again after a purge. `PolicyWithinBounds`: bounds and counters,
  whichever versions were read in between.

`TypeOK` of `DomainPacing` and of `Fleet` hold on the same instances and are not part of a run; the
proofs of section 12 use the part of them that their arguments need (`Shape`).

*Bounds.* Three captures fill the largest concurrency the settings allow (3), and the default (2)
refuses one. Two healthy and two overload samples are the smallest thresholds the settings
allow, spacings of 1 and 2 ticks let doubling meet its bound, and `MaxGeneration` of 3 or 4
allows a growth, a backoff and a reset in one history. `Far` caps the elapsed times: beyond 1.5
times the largest spacing (and 2 s) the code does not tell them apart, and `FarAssumption` says so.

## 4. Fleet

### How the model corresponds to the code

| model | code |
| --- | --- |
| `config`, `desired`, `idle` | the `provider_fleets` row; `idle` is the time since `idle_since` |
| `rows[u]` | the `provider_instances` row of the Pod with uid `u`; `current` is `observation_expires_at > now` |
| `placed[x]` | the instance a live attempt is placed on, or that it is queued |
| `replicas`, `template`, `pods` | the StatefulSet and its Pods |
| `pass` | local variables of the `reconcile` call under way, and how far it is |
| `suspects` | the keys of `_unhealthy_since` |

`reconcile` is a step per transaction or API call: `Evaluate`, `ListInstances` (with the
decision what to do), `PrepareScaleDown` or `CancelScaleDown`, `Scale`, `Relist` (with the probes,
which on Kubernetes only read what was listed), `PrepareReplacement` and `Remove` for each worker
that stays unhealthy, and `ObserveInstances`. Between any two of them admission, operators and
Kubernetes act. `PassFails` ends the pass anywhere: a call raised, or the controller restarted
and lost its memory.

*Kubernetes* is external. The chart renders a StatefulSet with `"podManagementPolicy": "Parallel"`
and the runtime sets the update strategy to `OnDelete`, so missing Pods are created from the
present template and Pods beyond the replica count deleted, in any order; a deleted Pod is
listed until it is gone, and then counts as an instance that is not ready. With `PodsFail`, Pods also lose
readiness, vanish, or take longer to start than the startup timeout.

*Abstractions.* Admission is reduced to placements; `Admission` has the rest. Expiry of a
session is `Finish`. The workload revision of a Pod takes the same path as its capacity and is
left out. The list that `KubernetesRuntime.scale` makes for itself, its patch and its deletion are one
step; when one of them fails, the next pass repeats the call. A uid that neither the database's
live rows, nor an attempt, nor the controller mentions may be used for a new Pod, which stands
for the unbounded supply of uids. There is one controller, as `docs/KUBERNETES.md:208` requires.

### Properties and runs

| run | instance | shows |
| --- | --- | --- |
| `FleetScaling` | two Pods, one session; sizes 0..2, always 2, disabled; Pods fail; 4.3 million states | `DrainedStayIdle` |
| `FleetCapacity` | two Pods, a fleet of one, two sessions; capacity 1 or 2; with fairness; 675 thousand states | `WithinWorkerCapacity`, `IdleFleetSettles` |

- `DrainedStayIdle`: from the transaction that finds an instance idle to the call that removes
  it, through failed probes and concurrent admissions, nothing is placed on it.
- `WithinWorkerCapacity`: a worker is filled by the capacity it was started with, not by the one
  that is configured now.
- `IdleFleetSettles`: a fleet without demand reaches its minimum of workers with the configured
  capacity, although each pass moves one worker and passes may fail.

*Bounds.* Two Pods are the smallest fleet in which one worker is drained while another is in
use, and the smallest in which the uid of a replaced Pod differs from its successor's. In
`FleetCapacity` the second uid is the successor. A cooldown of one tick separates "just idle"
from "idle long enough". Pods and attempts are symmetric where no liveness is checked.

*Fairness* (`FleetCapacity`). The controller's loop runs pass after pass and sleeps in between;
its calls do not fail for ever (`<>[][~PassFails]_vars`); time passes; Kubernetes creates and
deletes what it is asked to and a Pod that keeps running becomes ready. Operators and sessions
are not fair; that demand ends and settings stay is a premise of the property.

## 5. Gateway connection

`Gateway` is one call of `Gateway.connect`. `pc` is where it is, `adm` and `prep` are its admission
and preparation tasks, `holds` is what its local variables `session`, `attempt` and
`provider_session` refer to, `heartbeat` and `lost` belong to the `SessionLease`, and `sessionRow`,
`attemptRow` and `socket` are what exists outside the process. A step is what a task does between
two awaits. A cancelled database call has committed or not, so a task may be `committed` when its
caller has stopped waiting; `LateSession` and the late results of the preparation are the
`finally` blocks of `gateway.py:121-146`. `CloseProvider`, `ReleaseAttempt` and `ReleaseSession` are the
bounded cleanup: each may fail, and what it leaves is then `stranded`, left to the lease.
`policyRow`, `cache`, `lock` and `read` are the network policy and its cache in the same process.

*Abstractions.* The rows are those of one session; other owners appear as `LeaseExpires`. The relay
is one wait that ends for any reason (section 6 has the inside). Reasons and error responses are
reduced to whether the session is recorded as failed.

The run `GatewayConnect` (26 thousand states) checks:

- `NothingLeftBehind`: when `connect` has returned, however the disconnect, the budget, the loss of the
  lease and the results of the tasks raced, no heartbeat keeps a session alive that nobody owns,
  and no row or socket is left but what was explicitly left to the lease.
- `FreedAfterClose`: the slot is given on only after the browser's connection was closed.
- `CapacityReturns`: after a disconnect or a lost lease the connection ends and the rows become
  terminal, also when cleanup fails.
- `PolicyNotBehind`: a reader that started before an update cannot put the old policy back into the
  cache after it.

*Bounds.* `MaxPolicy = 3` allows two updates around one read. *Fairness.* Tasks that can run do
run, database calls end, a relay whose client left or whose lease is lost ends, a session nobody
renews is found expired by somebody, and closing a socket ends by the library's timeout. The
client, the budget and updates of the policy owe nothing.

## 6. CDP relay and domain blocking

`DomainBlocking` is `DomainBlockingProviderSession`: the pump that routes the provider's messages
(`RouteUpstreamMessage`), a configuration task for each attached target (`ConfigureTarget`,
`SecureTarget`, `ConfigurationFails`), the buffers of messages that are held back, the ids of
injected commands, and failing closed. The browser is external: it attaches targets, speaks for
them, answers commands in any order, with or without naming the session, and may go away.
`CdpRelay` extends it with `relay_cdp`, the observer's `command_received`, matching, phases and
summary, and with what `connect` does around it: watch the lease, close, take the summary.

*Abstractions.* A message has a kind, a target and an id. Client and browser obey the protocol:
an id of the browser's own session is not used twice at a time, and a client
addresses only targets it has been told of (the guard of `ClientSends`). It is told of a target after that target is
configured, so its commands meet the injected ids of *other* sessions only. For a client that guesses a session, the code waits
(`domain_blocking.py:78-82`) or chooses another id (196-201); both are in the model (`SendUpstream`, `FreeId`), and such
a client is not. `interrupt_pending` is one step although it awaits
each event (`transport/cdp.py:49-51`); a sender that waits for an id when the wrapper fails closed
is refused here, while the code lets that one message go on to the socket that is being closed. An injected command is answered
with its session. The method name `setBlockedURLs` stands for the commands Stolosio injects; a client
that sends the same method for itself is an ordinary command to the code, which does not intercept it,
and has another name here (`CommandsAssumption`). Durations, console and navigation events are left out. The browser is quiet once
the relay has ended.

The run `CdpConnection` (399 thousand states) checks:

- `BlockedBeforeExposed`: nothing about a target reaches the client before the browser has confirmed
  the target's blocklist, through attachment, buffers, answers and events.
- `AnswersReachTheirSender`: an injected command and one of the client with the same id and session never
  get each other's answer.
- `SummaryExact`: every observed command is pending or counted once, the number of active commands
  agrees, the limit of methods holds (`CommandsCountedOnce`), and a method is charged with no
  failure or success that was not its own (`ResultsOfItsOwn`).
- `ConnectionSettles`: a target does not stay unconfigured, a connection that failed closed ends,
  and the pumps that a cancelled relay leaves running end as well.

*Bounds.* Two targets, of which one speaks, and a command of the client for each, with
the same id, which is also one Stolosio would choose; `MethodLimit = 2` makes the second method
fall into the common entry; one message on the wire at a time (`MaxWire`), because order is decided when
the pump takes it. *Fairness.* The tasks of the
event loop run and the bootstrap timeout fires; browser, client and lease owe nothing.

## 7. Events, outbox and recorder

`EventPipeline` follows the events of attempts: `FinishAttempt` writes the terminal row and its outbox
row, with what `finalize_attempt_usage` charges for the time the attempt occupied a slot at the rate of
that moment (`Finalized`); `UpdateRate` is an operator changing the rate; `Emit` is the gateway's direct publication. `OutboxSelect`, `OutboxPublish` and `OutboxCommit` are
`publish_pending`, whose transaction may fail at any point (`OutboxFails`) after messages were already
accepted. The stream deduplicates, delivers up to `MaxDeliver` times (`AckWaitExpires`) and may be
replaced by an empty one (`StreamLost`), which `CreateStream` and `Rehydrate` recreate and refill. `Fetch`,
`Reject`, `RecordRows`, `ProjectAttempts` and `Ack` are the recorder's batch, in its order of
transactions; `PurgeEvents` is retention. `CommandCosts` has the arithmetic: which methods get a
row of their own, the shares rounded down, what is left as overhead. `Selected` is what a query with
`ORDER BY` returns: the rows it selects, in their order.

`UsageAssumption` says of the inputs what the code guarantees: the browser of an attempt is connected
within the time its slot is occupied (`usage.py` measures from `acquiring_at`, which precedes
`active_at`, to the same end), and counts, milliseconds and units are natural numbers.

*Abstractions.* One replica of the worker; a refill reads its rows at once and not in pages of 250; a batch is
acknowledged in one step; events are kept for longer than the stream keeps messages
(30 days against one), so that a purge concerns settled events only; the other projections of the recorder follow the same flags and are left
out.

The run `EventRecording` (266 thousand states) checks:

- `ProjectedOnce`: after any redelivery, repeated publication or failure between two
  transactions, the aggregates are exactly the sum over the attempts marked as projected, at the rates these
  ended under, however the rate has changed since. It also
  checks the arithmetic: no cost, time or command is lost by rounding, or by the limit on methods.
- `NothingLost`: what was acknowledged is projected although the two events it needs arrive in any order
  (`AckedIsProjected`), and an outbox row is not marked before the stream has the event
  (`OutboxNotLost`).
- `EventuallyProjected`: an attempt that has ended is projected in the end, unless a refill was cut
  off (section 11).

*Bounds.* One attempt with all kinds of events, a summary of methods that are old, new and beyond
the limit, two deliveries, one failing operation, one lost stream and one change of the rate, to 0. The attempt
ends while it waits, acquires or is active. `EventuallyProjected` needs
`MaxFaults < MaxDeliver`: a message that failed `max_deliver` times is not delivered again.
*Fairness.* The worker's loops run and are restarted, and the broker redelivers; finishing attempts, failures and
purges owe nothing.

## 8. Captures

`PageCapture` has the decisions as operators: which kinds of plain answers end a capture, which
escalate (`HttpKinds`, `Escalating`), what the cache says of a URL and its pattern (`RecordComparison`
and the look-ups), which resolver is next (`NextResolution`), how a
result is named (`AcquisitionOutcome`), and what pacing is told. `Capture` is one call of
`CaptureRunner` over them: `pc` is the await it is at, `rows` what the database holds of its session, pacing lease,
slot and cloud attempt, `held` what it has a reference to, `left` the time to the deadline. Each
await may end by its result, by a timeout, by the deadline or by a cancellation, with the
transaction behind it committed or not; `Cleanup` is the `finally` block with a bounded call per
resource.

`Assessments` are the ways an answer of a kind may look to the code: its status, as far as pacing reads it
(429, a refusal, any other), whether it came from the requested host or from another (`Elsewhere`), and its
primary assessment. A rate limit is a 429 or is said in words at any status; a render that brought no page is
assessed all the same. `AdmissionLost` is the admission that is cancelled around its commit, and `DatabaseFails` an
error of PostgreSQL under an await that has no handler: the exception takes the evidence with it (`Forgotten`) and
runs through the `finally` block.

*Abstractions.* Other captures of the same URL and the retention of the cache are `OthersRecord` and
`EntryExpires`, which matter until the look-up. A comparison updates the pattern with the URL, so the pattern's entry
does not expire first. Time to the deadline has three levels: ample, too
little to wait for a slot, none. The statuses 401, 403 and those from 500 on are one class.
There is one cancellation per capture. A conflict while claiming leaves the queued row until the
session is released. Pages and the classifier's assessments are inputs.

The run `CaptureLifecycle` (1.7 million states) checks:

- `PlainNeedsEvidence`: HTML from plain HTTP is the answer only when it was usable and a render confirmed
  it or the cache vouched for it, and never for a URL that a comparison contradicted.
- `ResolversGated`: resolvers run when the caller allowed them, after a challenge, local
  before paid, none twice; and once the origin limits the client, none but the paid one after a
  local render of which no page could be read (section 11).
- `RendersOnlyWhatItHolds`: a tier renders on an active slot of its own, although an acquisition may be cut off
  between acquire and activate and tiers reuse slots.
- `CapacityReturned`: a capture that has ended leaves nothing but what a failing or cancelled cleanup left to
  the lease, and then never browser capacity without its session. The one grant that is lost without a fault is the
  session of `AdmissionLost` (section 11).
- `ReportsTruthful`: the stored facts agree with the capacity that was used (`FactsMatchUse`); a 429 of the
  requested host to any attempt is reported to pacing as throttling, throttling is reported only if that host
  answered with a 429 or worded a rate limit, and what another host answered last counts neither as
  health nor as overload (`ThrottleReported`).
- `CaptureEnds`: every capture ends.

*Bounds.* One comparison makes a pattern trusted and two contradictions stop it; one failing cleanup. Two
comparisons of others, in every order, beside a capture that may not use the resolvers, and none beside one that may:
the look-up does not read that permission, and a capture that looked up its entry and escalates goes on like one
that found none. The proofs (section 12) have no such bound. *Fairness.* The clock runs, the deadline is delivered, cleanup is bounded. Nothing is
assumed of sites, browsers or the database. Deadlock is not checked: a capture that has ended stays ended.

## 9. Rendering

`Rendering` has the renders of a process that share one `Renderer`: `SharedRenderer`'s start under its lock
(`Enter`, `StartLocked`, `Starts`), `_restart_driver` (`RestartLocked`, `Restarts`), and for each render its
connection with back-off, preparation, navigation, waiting for a challenge, exploration, final
reads and what is kept. The page goes on underneath: navigations fail, are answered, or are blocked as
excluded, at any await; the history API changes its URL without a request (`HistoryMoves`); and a page that was
handed over on an excluded URL may move on. `slipped` is a history variable: the page left an excluded URL
before `page.url` was read, or went to one through the history API after that. `DriverDies` kills the driver and fails every render on it.

*Abstractions.* A page is the site's, an error page, a blocked one or one on an excluded URL. The
contents, byte counts and the transfer cap are left out. A response event and the commit of its document are
one step. A driver process that Playwright may leave behind when its start is cancelled is not modelled: the
`Renderer` has no reference to it. The driver is closed only after all renders have ended. Drivers are numbered in the order of their start.

The run `RenderSharing` (613 thousand states) checks:

- `DriverShared`: the tiers whose start is locked have one driver at a time and none after the close (`OneDriver`), and a render
  fails for a dead driver only if drivers died twice: the restart of one render is not undone by
  another's (`OneDeathSurvived`).
- `ExcludedKeepsNothing`: the DOM of a blocked page, and the DOM and the lines of a page on an excluded URL, are
  never passed on without the mark that makes the capture discard them, unless the page `slipped` (section 11).
- `RendersEnd`: connecting, challenges, explorations and the retry all end.

*Bounds.* Two renders, all three tiers; two connection tries, one and two polls, one
round of exploration, two deaths, and one other fault. *Fairness.* The awaits of a render have timeouts of their own,
except the start of a driver and the preparation of the page (`adaptive.py:393`, `450`, `498-566`): that these
answer is not assumed (`Answer` has no fairness), and what ends them is the budget under which the capture
renders (`TimesOut`, `pagecapture/service.py:456`). Deadlock is not checked: the renders end.

## 10. Live views

`LiveViews` has a stream that ages out and may be replaced, the events PostgreSQL has recorded, and one
viewer: an activity feed (`Check`, `Follow`, `FeedTakes`, `Heartbeat`, `Drop`, with a cursor that survives the connection) or a
debug timeline (`Resolve`, `Attach`, `ReadHistory`, `SendHistory`, `TimelineTakes`). Both receive into
a bounded queue and end as too slow when it is full. `ReadHistory` reads the oldest `HistoryLimit` records, and
`Purge` is the retention of `session_events`. `Matches` is the Python predicate and `Selects`
the SQL condition of the filters.

*Abstractions.* Messages that cannot be read are left out; events are published in order; the start
time of a new feed is any sequence; the history is loaded unpaged and sent in one step; filters by provider and session
are like those by type and attempt; messages do not age out before a connected viewer has them; a record is
purged after its message has aged out (30 days against one).

The run `LiveViews` (2.0 million states) checks:

- `FeedComplete`: between the start of a feed and its cursor every retained event that matches was
  shown, over dropped connections and heartbeats that carry a cursor. Events that coincide
  with a heartbeat are excepted (section 11).
- `FiltersAgree`: what the history selects is what the live feed matches.
- `TimelineExact`: no event twice, and a timeline that followed the tail to the end has no gap.
- `TimelineEnds`: a timeline ends when the session's terminal event is published, unless neither the history
  nor the stream has that event any more for the viewer to see (`TerminalMissed`, section 11).

*Bounds.* Four events, a history of three, a queue of two, three connections, one replacement, one purged record. *Fairness.* The consumer
delivers and the timeline's loop runs. Deadlock is not checked: viewers leave.

## 11. Known divergences

What the code does and its documentation, comments or assertions do not say. Each of the
numbered ones has a configuration with which TLC produces the sequence of steps; the property it refutes is in
the module and says so.

1. **A slot may be used twice** (`AdmissionSharedSlot`). `heartbeat` reads the clock before it
   has the session row, and `_expire_stale` of the attempts does not lock the sessions of the
   attempts it fails. An attempt is failed because its lease has just expired and its slot given
   to another; the heartbeat, with its older clock, then renews the lease. Both owners have an
   unexpired lease and use the slot. The first one is not told. By the rows the capacity is
   respected (`SlotsWithinCapacity` holds); by the browsers it is not.
2. **Pacing may return to replaced settings** (`PacingStaleSettings`). `acquire` compares the
   row's version with the one it read before it waited for the row, by inequality, so a slow
   `acquire` resets a row that already follows the new settings back to the old ones, until the
   next admission.
3. **An assertion can fail** (`PacingAssertion`). Between the `INSERT ... ON CONFLICT DO NOTHING`
   and the `SELECT ... FOR UPDATE` of `acquire`, retention may delete the row.
4. **Scaling up can condemn a worker that was not drained** (`FleetReplicas`). The next replica
   count is one more than the Pods that were listed. When Pods are missing at that moment, this
   can be less than the replicas already set; nothing is drained on the way up, so a Pod with
   a higher ordinal is observed, gets sessions, and is deleted by the StatefulSet.
5. **A changed capacity can interrupt a session** (`FleetReconfiguration`). That there is no demand
   was established in the transaction of `evaluate`; the worker is deleted several calls later,
   without `prepare_scale_down`.
6. **A lost lease leaves commands out of the summary** (`CdpLeaseLost`, `CommandsAccounted`). When the
   lease is lost, `connect` cancels `relay_cdp` while it waits in `asyncio.wait`
   (`transport/cdp.py:37`): its two pumps are not cancelled, and `interrupt_pending` is in a block
   that is not reached. What was pending is in no summary, and commands may be forwarded until the provider is
   closed. `docs/ARCHITECTURE.md:103-106` describes the summary without this exception.
7. **A refill that is cut off is not resumed** (`EventReplay`, `RetainedReplayed`). The stream is refilled in the
   pass that created it (`workers/maintenance/__main__.py:239`). After an error or a restart the next pass
   finds the stream and skips the refill, while `observability.md:90` says "Creating a
   fresh event stream triggers a bounded replay of PostgreSQL records".
8. **A throttled capture may still use the paid resolver** (`CaptureAfter429`, `NoResolverAfterThrottle`).
   `docs/CAPTURE.md:64-66` says that an origin's 429 "takes precedence", "without invoking either resolver".
   When the local resolver's render gets the 429 and then brings no page that can be read,
   `pagecapture/service.py:547-554` asks for the fallback before it looks at the assessment, and
   `_local_fallback` (670-688) does not look at it either: the paid resolver renders.
9. **A late admission may be lost** (`CaptureStranded`, `LateAdmissionsReleased`). "Late admissions are drained
   and released" (`docs/CAPTURE.md:43-44`; the comment at `capture/service.py:227-228` says the same). But line 229
   cancels the admission's task first: when that reaches it during its commit or the step after it, the drained result
   is a `CancelledError` and not the lease, and nothing is released. The session counts until its lease expires.
10. **An excluded page may be kept** (`RenderExcluded`, `NothingOfExcludedKept`). "A page that lands on one keeps
    nothing" (`render/adaptive.py:423`). Whether it did is decided by the guard's mark and by `page.url` after the
    render (597-614). A page handed over on an excluded URL gives its early DOM and its first lines (306-309), moves
    on to a permitted URL, and both are kept under that one; and `history.pushState` makes no request, so that
    a page may pass through an excluded URL, or go to it after the check, unmarked.
11. **A timeline may never end** (`LiveViewsUnending`, `TimelineAlwaysEnds`). "The connection closes normally
    after `session.closed` or `session.failed`" (`docs/DEBUG.md:141-142`). The history is the oldest 1000 events
    (`debug/timeline.py:17-24`), records are kept for 30 days and sessions for 90 (`settings.py:34-35`), messages
    for one (`settings.py:19`). A viewer of a session that has ended may thus find its terminal event neither in
    the history nor in the tail, and waits in `debug/stream.py:150-178` until it leaves.

Met while modelling, and described where a property excepts them:

- `debug/activity.py:324`: a message taken in the same turn as the heartbeat is dropped, and its bytes stay
  counted as pending.
- `debug/activity.py:272`: a cursor of a replaced stream is recognised only while the new stream is
  shorter; `docs/DEBUG.md:179-182` promises it without that condition. Line 279 reports no
  expired cursor when the stream is empty.
- `debug/stream.py:148`: a terminal event in the history ends the timeline before earlier events that
  are only in the stream, while `docs/DEBUG.md:137-142` describes a replay of the retained events.
- `pagecapture/render/adaptive.py:607`: whether the navigation failed is decided before the last read, so a page that
  turns into the browser's error page in between is read as the site's. At line 630 the tiers that do
  not intercept read the page again although they have its DOM, and lose it when that read fails.
- `pagecapture/adapters.py:468`: the paid tier starts its driver without a lock; two first renders start
  two, and one is never stopped.
- `pagecapture/service.py:508`: a capture whose switch to the paid tier was refused is recorded as paid.
- `workers/maintenance/__main__.py:176`: a message that failed `max_deliver` times is neither redelivered
  nor written to the dead letters.
- `capture/service.py`: a capture does not wait for the loss of its lease, as the gateway does.

## 12. What is proved

The theorems below hold for every value of the constants that satisfies the named assumptions of
the modules: any number of sessions, instances, captures, Pods, targets, client commands and
renders, any capacities, limits, thresholds and durations. The assumptions ask for no more than
the code guarantees: sets that can be counted are finite, settings pass their validators, an operation
commits within a lease of its clock read (`LeaseTicks > MaxAge`), client and browser obey the protocol's
rules on ids, and a model value is none of the strings it is stored beside (`"none"`, `"queued"`).

An invariant is seldom inductive as it stands. Each proof has an inductive invariant, in the proof module,
a step per action, and lemmas about the operators of the model. Each of these invariants was first checked
with TLC, on the instance of the run it is named with; they are not listed in the runs, whose
properties follow from them.

### Admission (`AdmissionProofs`)

- `TypeCorrect`: `Spec => []TypeOK`. `TypeOK` is inductive. It is where the range of `left` is
  settled: a lease that is renewed with an old clock is still in range because of
  `LeaseTicks > MaxAge`.
- `CapacityIsRespected`: `Spec => []SlotsWithinCapacity`. The argument
  is one lemma, `AttemptsStep`, which accounts for what any step does to the attempt rows:
  each row is kept, ended, or activated in place (`Keeps`), except at most one, which was not
  occupying a slot and is given one on an instance that had one free once the stale attempts
  were taken away (`Gives`). Counting is then the same for every action.
- `AdmissionImplementsPool`: `Spec => Pool!Spec`. The same account is a step of `CapacityPool`:
  ended rows are retired, the one given row is the grant.
- `CapacityInQueueOrder`: `Spec => GrantedInQueueOrder`. `claim` compares sequence numbers with
  `<=`, so the head of the queue is one attempt only if numbers are distinct and none is beyond
  the sequence: `QueueNumbers`, inductive with `TypeOK` (`AdmissionQueue`, `AdmissionTransition`).
- `EndedHoldNothing`: `Spec => []EndedSessionsHoldNothing`. It is not
  inductive as it stands: `admit` *inserts* a row, so one must know that the row it overwrites
  is that of a session that did not exist. `NewOwners` says so: an owner that is not yet
  admitted has no session row, only such an owner has an admission in flight, and it has no
  heartbeat. `EndingInv` is `TypeOK /\ NewOwners /\ EndedSessionsHoldNothing`.
- `EndingIsFinal`: `Spec => TerminalIsFinal`, from `EndingInv` and the accounts of sessions and
  attempts.
- `SessionLimitIsRespected`: `Spec => []SessionsWithinCapacity`. `admit` adds one session to
  those that remain after expiry, and no other step makes a session live.
- `OneAcquisitionPerSession`: `Spec => []OneAcquisitionAtATime`, inductive with `TypeOK`: at most one
  attempt appears in a step, and only where `enqueue` found nobody else waiting or acquiring.
- `RunningLeaseProtects`: `Spec => LeaseProtects`. Besides `EndingInv` it needs that only a live owner's
  heartbeat is in flight (`BeatsOfLive`), and that an owner who is there holds the lease of every attempt
  with capacity (`HeldLeases`): otherwise a late heartbeat, or an attempt nobody remembers, would count as a step
  of somebody else (`AdmissionLeases`, `AdmissionTransition`).

### Domain pacing (`DomainPacingProofs`, invariant checked on `Pacing`)

`Inv` is `Shape /\ RowInv /\ CaptureInv`. `RowInv`: the row is within the bounds of the version it
follows, its reserved start is a spacing after the last start unless a reset chose the spacing, and it
remembers every Retry-After still running. `CaptureInv`: a live lease belongs to a running capture that was
not observed yet, is of a generation of the present row, and of an older one once the capture was overtaken.
From it: `LearnedStateIsSound`, `StartsAreAdmitted` (`Spec => StartsRespectPolicy`) and
`BurstsCountOnce` (`Spec => BurstCountsOnce`), for all settings and all Retry-After values.

### Fleet (`FleetGatewayProofs`, checked on `FleetScaling` and `FleetCapacity`)

`Inv` is `Shape /\ WorkersInv /\ PassInv`. `WorkersInv`: a row carries the capacity its own Pod was started
with, which bounds what is placed there, and no two Pods share an ordinal. `PassInv`: what the pass has found
idle is marked as draining, is one worker, and has nothing placed on it until the runtime is told; a pass
that cancels does not scale down. From it: `WorkersKeepTheirCapacity` and `ScaleDownStaysSafe`. The proof
needs the ordinals because the StatefulSet removes the highest one, not the one that was drained.

### Gateway (`FleetGatewayProofs`, checked on `GatewayConnect`)

`GatewayInv` says at each `pc` who has the session and who the attempt: the admission task until `connect` has
seen its result, then `connect`; the preparation task while it runs, then `connect`; and that a lease
nobody holds has no heartbeat (`SessionInv`, `AttemptInv`), how far the cleanup is (`CleanupInv`), and that
the cache lock covers the read of the policy and the write of the cache (`PolicyInv`). From it: `GatewayCleansUp`,
`GatewayPolicyFresh` and `GatewayClosesFirst` (`ConnectSpec => FreedAfterClose`).

### CDP relay (`CdpRelayProofs`, checked on `CdpConnection` and with three messages on the wire)

`WireInv` and `OnceInv` say what the browser's messages mean: a target that is announced has no task yet,
nothing is announced or answered twice, an injected command's answer names its target and accepts only
what is blocked by then. `RoutingInv`, while the wrapper is open, tells the commands in flight apart: an
injected one has its task waiting for exactly its id, the client's key is registered and is not one a
task waits for. It also says where each attached target is: unconfigured, blocked, or *announced earlier
on the wire* (`Secured`), which is what makes an event that overtakes its own attachment impossible.
`ClientInv`: whatever is queued for the relay concerns blocked targets and answers the client's commands,
and a buffer holds messages of its own target only. From it: `TargetsBlockedFirst` (`Spec =>
[]BlockedBeforeExposed`) and `AnswersNeverCross` (`Spec => []AnswersReachTheirSender`). That `_configure_target`
finds an id (`FreeIdIs`) is a pigeonhole argument on the client's commands. The first version of the model
had a client's command with id 0 wait behind targets that use no id at all; the proof found it.

`SummaryIsExact` (`Spec => []SummaryExact`) needs a second layer, `Ledger`, inductive relative to the first: the
observer counts what the relay is told, so one must follow each answer from the browser to it. `OnwardInv`: an
answer is in one place only (the wire, the relay's queue, one target's buffer), and its command is nowhere any
more. `HonestInv`: it says what the browser said, and its command is still pending. `PendingInv`: what is sent is
pending before its answer can come. `CountInv`: the totals, and per method no more failures and successes than
answers to commands that are pending no more; two methods that share the common entry keep the total. A sum
over the entries is a fold over a set, which the proof handles without an induction over data: a total is the
number of the units it stands for (`Units`), so that adding to one entry is a fact about cardinalities.

### Captures (`CaptureProofs`, checked on `CaptureLifecycle`)

`GrantsInv`: without its session nothing is left of a capture's browsers, the cleanup that is still to
come covers what is granted, and a session that was lost in its admission is all such a capture has. `StagesInv`: the capacity at each stage of a render, including the acquisition
that was cut off. `EvidenceInv`: what was run so far, and that the tier being rendered may run, which
after an answer that limits the client only the paid one may, after an unread local render. `ResultInv`:
there is no answer before the cleanup, and doubts about a URL are in the entry that is read. From it:
`CaptureReturnsCapacity`, `CaptureRendersOnItsOwn`, `CaptureResolversGated` and `CapturePlainOnEvidence`, for
any thresholds and any number of comparisons by others.

`UseInv` and `ReportInv` are a second layer, inductive relative to the first. `UseInv`: as long as the capture has its evidence, only the paid tier makes a
cloud row or costs anything; while a tier is being rendered no attempt is accepted, so that a rendered answer has
exactly one accepted attempt, its last one, on capacity that was granted. `ReportInv`: nothing is reported before
the cleanup, the record holds the facts of the evidence as it still is (a cancelled cleanup forgets it, and its
record is true already), and a result says `rate_limited` only if the last attempt was answered with a 429 or in the
words of a rate limit, or by another host. From both: `CaptureReportsTruth` (`Spec => []ReportsTruthful`).

### Rendering (`RenderingProofs`, checked on `RenderSharing`)

`DriverInv`: what each lock protects, so that nothing starts a driver while another runs. `DeathInv`: only a
death takes a driver away before the close, so two dead drivers are two deaths. `RendersInv`: a render that
asks for another driver began with one that is dead and then uses a later one; and whatever it has collected of
an excluded URL is marked, or slipped, or `page.url` still shows that URL or showed it when it was read, so that
the render will find out (`DocOK`). From it: `RendersShareADriver` and `NothingKeptOfExcluded`.

### Events, outbox and recorder (`EventPipelineProofs`, checked on `EventRecording`, also with two faults)

`Inv` is what keeps an event from getting lost between the outbox, the stream and the projections. `SourcesOK`:
what waits to be published has happened, and what is marked as published, or about to be, was taken by a stream.
`BatchOK`: while the recorder is subscribed, its batch consists of messages of this very stream, so that an
acknowledgement cannot hit a message of the stream that replaced it. `AttemptsOK`: an attempt that is located and
ended is in the cost of its domain, in whichever order the two were recorded; this needs that whatever was
located had navigated, so that it is billed. `HandledOK`: what is acknowledged, or about to be, was recorded. From
it: `PipelineLosesNothing` (`Spec => []NothingLost`), for any number of faults, restarts and lost streams.

`EachAttemptProjectedOnce` (`Spec => []ProjectedOnce`) adds `CostsOK`: the sequence of folded attempts is without
repetition and lists exactly those marked as projected, and the domain's row is the count and the sum over its
attempts. What remains is arithmetic, over any batch, any methods and any limit:

- *A sum is a cardinality.* `SumOf` is a fold over a set. Its value is the number of pairs of a row and a unit of it
  (`SumIs`): the fold and the cardinality satisfy the same equation, and on a smallest set on which they differed
  they would agree (`SmallestSet`; finite sets are well-founded by inclusion, and `WFMin` needs no
  operator as a parameter). Additivity, regrouping and renaming of rows follow (`SumOfUnion`, `SumOfGroups`,
  `SumRenamed`), by an induction over a *family of sets* (`FiniteInduction`), which is a set and not an operator.
- *Rounding down loses nothing.* The shares of the methods together do not exceed the whole (`SumOfShares`), so what
  they leave is not cut off at 0 and goes to the overhead (`SharesAre`). This is where the browser time must not
  exceed the chargeable time.
- *Sharing a row loses nothing.* Each method of a summary is in exactly one contributed row, its own or the one of
  all others (`ContributedAre`), and an upsert adds these to what was there (`UpsertedAdds`).
- *A sequence of upserts is a fold* over the positions of the sequence, the last one outermost (`StatsFolds`,
  `StatsAre`).

### Live views (`LiveViewsProofs`, checked on `LiveViews`)

What a viewer has shown says nothing of what it may have missed; what keeps it complete is where the consumer's
queue lies in the stream. `Placed`: the stream holds the last events in order, and a queue that has not overflown is
the stretch of it before the consumer's position. `FeedKept` and `TimelineKept`: everything before that stretch, from
the origin of the feed or the subscription of the timeline, was shown, does not match, or was lost to a heartbeat
at the same moment. From `Inv`: `FeedMissesNothing`, `FeedFiltersAlike` and `TimelineIsExact`. That the two filters
agree for *all* filters needs the vocabulary of outcomes (`OutcomesAssumption`): the Python predicate works
from the event to its outcome, the SQL condition from the outcome to the types of events.

### Only model-checked

- Liveness (`NobodyStuck`, `IdleFleetSettles`, `ConnectionSettles`, `CapacityReturns`,
  `EventuallyProjected`, `CaptureEnds`, `RendersEnd`, `TimelineEnds`): fairness and `ENABLED` are beyond the
  provers.

Every invariant and every action property that a run checks is stated by a theorem; only the liveness properties
are left to the runs. The proofs use no induction principle with an operator as a parameter; where they need
an induction they use well-founded sets, as above.

## 13. Plan

1. **Done:** `Admission`, `CapacityPool` and their proofs; `DomainPacing`, `Fleet`; `Gateway`,
   `DomainBlocking`, `CdpRelay`; `EventPipeline`, `CommandCosts`; `PageCapture`, `Capture`,
   `Rendering`; `LiveViews`.
   Proofs of every safety property that a run checks (section 12).
2. The rest of `Fleet`: that lasting demand is served, where an instance that was marked draining
   while busy stays draining once the desired count is back at the present one
   (`reconciler.py:97-114`); the Docker runtime.
3. `LockOrder`: the row locks each transaction takes, with PostgreSQL's lock modes; deadlocks
   that remain and how often a retry can meet them.
4. `Usage`: the accounting of attempts that end twice, late or never.

## 14. Not modelled

`PROJECT.json` lists every component with its status. Left out:

- queries, dashboards, metrics, the HTTP layer, settings and the admin interface, which change none of
  the modelled state;
- usage reports of providers and the history of costs; the Docker runtime; the deletion of old sessions, domains and
  cache entries by retention;
- what pages contain: the classifier's rules, the scripts run in a page, the comparison of documents.
  Their results are inputs of `Capture` and `Rendering`, all of them at any time;
- two fleet controllers at once, which `docs/KUBERNETES.md:208-210` excludes.

PostgreSQL is assumed to give row locks and atomic commits. Clocks do not run backwards: every time in
a decision of the database is the database's. The size of integers plays no part: the queue sequence and
generations are 64-bit and 32-bit counters of events that are seconds apart.
