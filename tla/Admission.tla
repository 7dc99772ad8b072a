---------------------------- MODULE Admission ----------------------------
(***************************************************************************)
(* Transactional admission in PostgreSQL: the gateway_sessions and         *)
(* acquisition_attempts tables and every repository operation on them      *)
(* (backend/proxy/postgres/sessions.py and attempts.py), called by the API *)
(* processes that own the sessions.                                        *)
(*                                                                         *)
(* A repository operation is one transaction that first reads the database *)
(* clock and then waits for its row locks.  Its effects are one atomic     *)
(* step (the locks serialise it against every operation it conflicts       *)
(* with), but the time it decides by is the one it read when it began:     *)
(* an operation whose clock matters is a begin step, any number of clock   *)
(* ticks and steps of others, and a commit step.  The clock itself is not  *)
(* a variable: a lease is the time it has left, an operation in flight has *)
(* the age of the time it read, so "lease_expires_at > now" is             *)
(* "left > -age".                                                          *)
(***************************************************************************)
EXTENDS Integers, FiniteSets

CONSTANTS
    Sessions,           \* gateway session ids, one owner (SessionLease) each
    MaxOrdinal,         \* bound: attempts one session makes in its lifetime
    Instances,          \* managed Browserless instances, ordered by id
    Capacity,           \* session slots of each instance
    MaxActiveSessions,  \* settings.stolosio_max_active_sessions
    LeaseTicks,         \* settings.session_lease_seconds
    MaxAge,             \* bound: ticks between an operation's clock read and its commit
    Requests,           \* providers that clients name
    Verdicts,           \* the "failed" arguments callers of release and finish pass
    Observations,       \* the sets of instances the fleet controller may report ready
    FleetLimits,        \* provider_fleets rows an operator may configure
    CloudLimits         \* external_provider_limits rows an operator may configure

Browserless == "browserless"
BrowserlessCloud == "browserless_cloud"
Providers == {Browserless, BrowserlessCloud}
NoInstance == 0

ASSUME ConstantsAssumption ==
    /\ IsFiniteSet(Sessions)
    /\ MaxOrdinal \in Nat \ {0}
    /\ Instances \subseteq Nat \ {0}
    /\ IsFiniteSet(Instances)
    /\ Capacity \in [Instances -> Nat \ {0}]
    /\ MaxActiveSessions \in Nat
    /\ MaxAge \in Nat
    /\ LeaseTicks \in Nat
    /\ LeaseTicks > MaxAge
    /\ Requests \subseteq Providers
    /\ Verdicts \subseteq BOOLEAN
    /\ Observations \subseteq SUBSET Instances
    /\ FleetLimits \subseteq [enabled: BOOLEAN, maxQueued: Nat]
    /\ CloudLimits \subseteq [enabled: BOOLEAN, maxActive: Nat, maxQueued: Nat]

Ordinals == 1..MaxOrdinal
Attempts == Sessions \X Ordinals
SessionOf(x) == x[1]

VARIABLES
    sess,    \* gateway_sessions: state and time left on the lease
    att,     \* acquisition_attempts
    seq,     \* stolosio_attempt_queue_sequence: rows inserted so far
    ready,   \* provider_instances that are ready with a current observation
    fleet,   \* provider_fleets row of the managed provider
    cloud,   \* external_provider_limits row of the cloud provider
    txn,     \* repository operations in flight: operation and age of its clock read
    owner,   \* the owning API task: its SessionLease
    lease    \* the owner's AttemptLease for each attempt: its state as the owner knows it

vars == <<sess, att, seq, ready, fleet, cloud, txn, owner, lease>>

LiveSessionStates == {"admitted", "open"}
ActiveAttemptStates == {"acquiring", "active"}
LiveAttemptStates == {"queued"} \cup ActiveAttemptStates
TerminalStates == {"completed", "closed", "failed"}

NoSession == [state |-> "none", left |-> 0]
NoAttempt == [state |-> "none", provider |-> Browserless, instance |-> NoInstance, seq |-> 0]
Idle == [op |-> "none", age |-> 0]
Main(s) == <<s, "main">>
Beat(s) == <<s, "heartbeat">>
Tasks == Sessions \X {"main", "heartbeat"}
Operations == {"none", "admit", "open", "enqueue", "claim", "heartbeat"}

TypeOK ==
    /\ sess \in [Sessions -> [state: {"none", "admitted", "open", "closed", "failed"},
                              left: (-MaxAge)..LeaseTicks]]
    /\ att \in [Attempts -> [state: {"none", "queued", "acquiring", "active",
                                     "completed", "failed"},
                             provider: Providers,
                             instance: Instances \cup {NoInstance},
                             seq: Nat]]
    /\ seq \in Nat
    /\ ready \in SUBSET Instances
    /\ fleet \in FleetLimits
    /\ cloud \in CloudLimits
    /\ txn \in [Tasks -> [op: Operations, age: 0..MaxAge]]
    /\ owner \in [Sessions -> {"new", "live", "lost", "gone"}]
    /\ lease \in [Attempts -> {"none", "acquiring", "active"}]

Init ==
    /\ sess = [s \in Sessions |-> NoSession]
    /\ att = [x \in Attempts |-> NoAttempt]
    /\ seq = 0
    /\ ready \in Observations
    /\ fleet \in FleetLimits
    /\ cloud \in CloudLimits
    /\ txn = [t \in Tasks |-> Idle]
    /\ owner = [s \in Sessions |-> "new"]
    /\ lease = [x \in Attempts |-> "none"]

--------------------------------------------------------------------------
(* Rows as the repositories' queries see them, at a clock read of this age *)

\* state in _LIVE_SESSION_STATES: "closing" is written and overwritten inside one
\* release transaction, so no other transaction reads it.
InLiveState(s) == sess[s].state \in LiveSessionStates

\* Fault: the boundary of lease_expires_at is off by one.
UnexpiredTooStrict(s, age) == InLiveState(s) /\ sess[s].left > 1 - age

\* state live and lease_expires_at > now
Unexpired(s, age) == InLiveState(s) /\ sess[s].left > -age

LiveAttemptsOf(s) == {x \in Attempts : SessionOf(x) = s /\ att[x].state \in LiveAttemptStates}

\* PostgresSessionRepository._expire_stale: the sessions it fails
StaleSessions(age) == {s \in Sessions : InLiveState(s) /\ ~Unexpired(s, age)}

\* Fault: only attempts of ended sessions are stale, not those of expired leases.
StaleAttemptsOfEndedSessions(p, age) ==
    {x \in Attempts : /\ att[x].provider = p
                      /\ att[x].state \in LiveAttemptStates
                      /\ ~InLiveState(SessionOf(x))}

\* PostgresAttemptRepository._expire_stale: the attempts it fails.  It reads the
\* joined sessions without locking them.
StaleAttempts(p, age) ==
    {x \in Attempts : /\ att[x].provider = p
                      /\ att[x].state \in LiveAttemptStates
                      /\ ~Unexpired(SessionOf(x), age)}

\* finalize_attempt_usage and the terminal fields, for every attempt in xs
Finished(xs, state) ==
    [x \in Attempts |-> IF x \in xs THEN [att[x] EXCEPT !.state = state] ELSE att[x]]

\* _count over queued states: the live attempts not in stale all have an unexpired session
Queued(p, stale) ==
    {x \in Attempts \ stale : att[x].provider = p /\ att[x].state = "queued"}

Active(p, stale) ==
    {x \in Attempts \ stale : att[x].provider = p /\ att[x].state \in ActiveAttemptStates}

Occupying(i) ==
    {x \in Attempts : att[x].instance = i /\ att[x].state \in ActiveAttemptStates}

Occupied(i, stale) == Cardinality(Occupying(i) \ stale)

\* Fault: a full instance still counts as free.
FreeInstancesOffByOne(stale) == {i \in ready : Occupied(i, stale) <= Capacity[i]}

FreeInstances(stale) == {i \in ready : Occupied(i, stale) < Capacity[i]}

\* _select_instance: the fullest free instance, the largest id among equals
BestInstances(stale) ==
    {i \in FreeInstances(stale) :
        \A j \in FreeInstances(stale) :
            \/ Occupied(j, stale) < Occupied(i, stale)
            \/ Occupied(j, stale) = Occupied(i, stale) /\ j <= i}

\* where an attempt on p can be placed now; the cloud has no instances, only a quota
Placements(p, stale) ==
    IF p = Browserless
    THEN IF fleet.enabled THEN BestInstances(stale) ELSE {}
    ELSE IF cloud.enabled /\ Cardinality(Active(p, stale)) < cloud.maxActive
         THEN {NoInstance} ELSE {}

MaxQueued(p) ==
    IF p = Browserless
    THEN IF fleet.enabled THEN fleet.maxQueued ELSE 0
    ELSE IF cloud.enabled THEN cloud.maxQueued ELSE 0

\* the ordinals of the session's attempts
Inserted(s) == {k \in Ordinals : att[<<s, k>>].state # "none"}

\* ordinal = coalesce(max(ordinal), 0) + 1
IsNext(s, x) ==
    /\ SessionOf(x) = s
    /\ \A k \in Inserted(s) : k < x[2]
    /\ x[2] - 1 \in Inserted(s) \cup {0}

IsLast(s, x) ==
    /\ SessionOf(x) = s
    /\ x[2] \in Inserted(s)
    /\ \A k \in Inserted(s) : k <= x[2]

\* Fault: whoever polls first gets the capacity.
HeadOfQueueIgnored(x, stale) == x \in Queued(att[x].provider, stale)

HeadOfQueue(x, stale) ==
    /\ x \in Queued(att[x].provider, stale)
    /\ \A y \in Queued(att[x].provider, stale) : att[x].seq <= att[y].seq

--------------------------------------------------------------------------
(* Operations in flight *)

InFlight(t, op) == txn[t].op = op
MainIdle(s) == InFlight(Main(s), "none")
Ended(t) == txn' = [txn EXCEPT ![t] = Idle]

\* The owners of these attempts no longer use them.
Dropped(xs) == [x \in Attempts |-> IF x \in xs THEN "none" ELSE lease[x]]

\* An owner that holds a SessionLease: after admission, before release.  A capture
\* keeps going after its lease was lost; a connection starts its cleanup.
Owns(s) == owner[s] \in {"live", "lost"}

\* The session has a queued attempt.  A connection opens its session once its attempt is
\* acquired, a capture before it needs one.
Waiting(s) == \E x \in LiveAttemptsOf(s) : att[x].state = "queued"

\* The owner's task opens a transaction and reads clock_timestamp().
Begin(s, op) ==
    /\ MainIdle(s)
    /\ \/ op = "admit" /\ owner[s] = "new"
       \/ op = "open" /\ Owns(s) /\ sess[s].state = "admitted" /\ ~Waiting(s)
       \/ op = "enqueue" /\ Owns(s) /\ \E x \in Attempts : IsNext(s, x)
       \/ op = "claim" /\ Owns(s) /\ Waiting(s)
    /\ txn' = [txn EXCEPT ![Main(s)] = [op |-> op, age |-> 0]]
    /\ UNCHANGED <<sess, att, seq, ready, fleet, cloud, owner, lease>>

\* The heartbeat task wakes up and begins its transaction.
BeginHeartbeat(s) ==
    /\ owner[s] = "live"
    /\ InFlight(Beat(s), "none")
    /\ txn' = [txn EXCEPT ![Beat(s)] = [op |-> "heartbeat", age |-> 0]]
    /\ UNCHANGED <<sess, att, seq, ready, fleet, cloud, owner, lease>>

\* PostgreSQL rolled the transaction back (deadlock victim), or its caller timed out or
\* was cancelled before commit.  The caller may begin again (_retry_transient) or clean up.
Rollback(s) ==
    /\ ~MainIdle(s)
    /\ Ended(Main(s))
    /\ UNCHANGED <<sess, att, seq, ready, fleet, cloud, owner, lease>>

--------------------------------------------------------------------------
(* PostgresSessionRepository *)

\* Fault: a session counts against the limit only once it is open.
RemainingOpen(age) == {s \in Sessions : sess[s].state = "open"} \ StaleSessions(age)

\* Sessions still live once _expire_stale has run: the ones the admission count sees.
Remaining(age) == {s \in Sessions : InLiveState(s)} \ StaleSessions(age)

ExpireSessions(stale) ==
    [s \in Sessions |-> IF s \in stale THEN [state |-> "failed", left |-> 0] ELSE sess[s]]

\* Fault: expired sessions keep their attempts.
ExpireNoAttempts(stale) == att

\* The live attempts of every session in stale fail with it.
ExpireTheirAttempts(stale) ==
    Finished(UNION {LiveAttemptsOf(r) : r \in stale}, "failed")

\* admit: expire stale leases, then insert the session as admitted or failed.
Admit(s) ==
    LET age == txn[Main(s)].age
        stale == StaleSessions(age)
        admitted == Cardinality(Remaining(age)) < MaxActiveSessions
    IN  /\ InFlight(Main(s), "admit")
        /\ sess' = [ExpireSessions(stale) EXCEPT
                        ![s] = IF admitted
                               THEN [state |-> "admitted", left |-> LeaseTicks - age]
                               ELSE [state |-> "failed", left |-> 0]]
        /\ att' = ExpireTheirAttempts(stale)
        /\ owner' = [owner EXCEPT ![s] = IF admitted THEN "live" ELSE "gone"]
        /\ Ended(Main(s))
        /\ UNCHANGED <<seq, ready, fleet, cloud, lease>>

\* heartbeat: renew an unexpired lease, or tell the owner it is lost.
Heartbeat(s) ==
    LET age == txn[Beat(s)].age
    IN  /\ InFlight(Beat(s), "heartbeat")
        /\ IF Unexpired(s, age)
           THEN /\ sess' = [sess EXCEPT ![s].left = LeaseTicks - age]
                /\ UNCHANGED owner
           ELSE /\ owner' = [owner EXCEPT ![s] = "lost"]
                /\ UNCHANGED sess
        /\ Ended(Beat(s))
        /\ UNCHANGED <<att, seq, ready, fleet, cloud, lease>>

\* SessionLease._heartbeat: any database error also counts as a lost lease.
HeartbeatFails(s) ==
    /\ InFlight(Beat(s), "heartbeat")
    /\ owner' = [owner EXCEPT ![s] = "lost"]
    /\ Ended(Beat(s))
    /\ UNCHANGED <<sess, att, seq, ready, fleet, cloud, lease>>

\* open: an admitted session with an unexpired lease becomes open; otherwise the
\* caller learns the lease is lost and nothing changes.
Open(s) ==
    LET age == txn[Main(s)].age
    IN  /\ InFlight(Main(s), "open")
        /\ sess' = IF sess[s].state = "admitted" /\ Unexpired(s, age)
                   THEN [sess EXCEPT ![s] = [state |-> "open", left |-> LeaseTicks - age]]
                   ELSE sess
        /\ Ended(Main(s))
        /\ UNCHANGED <<att, seq, ready, fleet, cloud, owner, lease>>

\* Fault: attempts are given the session's terminal state.
ReleaseMixesStates(s, failed) ==
    /\ Owns(s)
    /\ MainIdle(s)
    /\ att' = Finished(LiveAttemptsOf(s), IF failed THEN "failed" ELSE "closed")
    /\ sess' = IF InLiveState(s)
               THEN [sess EXCEPT ![s] = [state |-> IF failed THEN "failed" ELSE "closed",
                                         left |-> 0]]
               ELSE sess
    /\ owner' = [owner EXCEPT ![s] = "gone"]
    /\ lease' = Dropped({x \in Attempts : SessionOf(x) = s})
    /\ Ended(Beat(s))
    /\ UNCHANGED <<seq, ready, fleet, cloud>>

\* release: finish the session's live attempts whatever the session's state, then the
\* session unless it is already terminal.  The heartbeat task was cancelled first.
Release(s, failed) ==
    LET cleanupFailed == failed \/ sess[s].state = "failed"
    IN  /\ Owns(s)
        /\ MainIdle(s)
        /\ att' = Finished(LiveAttemptsOf(s), IF cleanupFailed THEN "failed" ELSE "completed")
        /\ sess' = IF InLiveState(s)
                   THEN [sess EXCEPT ![s] = [state |-> IF failed THEN "failed" ELSE "closed",
                                             left |-> 0]]
                   ELSE sess
        /\ owner' = [owner EXCEPT ![s] = "gone"]
        /\ lease' = Dropped({x \in Attempts : SessionOf(x) = s})
        /\ Ended(Beat(s))
        /\ UNCHANGED <<seq, ready, fleet, cloud>>

\* The API process dies, the bounded cleanup gives up, or a cancelled admission commits
\* without anyone to hold its lease: no more heartbeats, no release.
Abandon(s) ==
    /\ Owns(s)
    /\ owner' = [owner EXCEPT ![s] = "gone"]
    /\ lease' = Dropped({x \in Attempts : SessionOf(x) = s})
    /\ txn' = [txn EXCEPT ![Main(s)] = Idle, ![Beat(s)] = Idle]
    /\ UNCHANGED <<sess, att, seq, ready, fleet, cloud>>

--------------------------------------------------------------------------
(* PostgresAttemptRepository *)

\* Fault: a replacement may start before the attempt it replaces is active.
MayEnqueueBesideAcquiring(s) == Cardinality(LiveAttemptsOf(s)) < 2

\* The session may have no other live attempt, or be replacing its one active attempt.
MayEnqueue(s) ==
    \/ LiveAttemptsOf(s) = {}
    \/ \E source \in LiveAttemptsOf(s) :
            /\ LiveAttemptsOf(s) = {source}
            /\ att[source].state = "active"

\* enqueue: expire the provider's stale attempts, insert the row, and acquire capacity if
\* nobody waits, else queue within the limit, else fail.
Enqueue(s, x, p) ==
    LET age == txn[Main(s)].age
        stale == StaleAttempts(p, age)
        row(state, i) == [state |-> state, provider |-> p, instance |-> i, seq |-> seq + 1]
        waiting == Queued(p, stale)
        acquires == waiting = {} /\ Placements(p, stale) # {}
    IN  /\ InFlight(Main(s), "enqueue")
        /\ Unexpired(s, age)
        /\ MayEnqueue(s)
        /\ IsNext(s, x)
        /\ \/ /\ acquires
              /\ \E i \in Placements(p, stale) :
                    att' = [Finished(stale, "failed") EXCEPT ![x] = row("acquiring", i)]
              /\ lease' = [lease EXCEPT ![x] = "acquiring"]
           \/ /\ ~acquires
              /\ att' = [Finished(stale, "failed") EXCEPT
                            ![x] = row(IF Cardinality(waiting) < MaxQueued(p)
                                       THEN "queued" ELSE "failed", NoInstance)]
              /\ UNCHANGED lease
        /\ seq' = seq + 1
        /\ Ended(Main(s))
        /\ UNCHANGED <<sess, ready, fleet, cloud, owner>>

\* enqueue raises: the lease is not active, or another attempt of the session is live.
EnqueueRefused(s) ==
    /\ InFlight(Main(s), "enqueue")
    /\ ~Unexpired(s, txn[Main(s)].age) \/ ~MayEnqueue(s)
    /\ Ended(Main(s))
    /\ UNCHANGED <<sess, att, seq, ready, fleet, cloud, owner, lease>>

\* The row of a queued attempt that gets a slot; the cloud has no instances.
Acquiring(x, i) == [att[x] EXCEPT !.state = "acquiring", !.instance = i]

\* claim of the attempt the session queued last: nothing at all once the session's lease
\* is gone; otherwise the provider's stale attempts expire, and the head of the queue takes
\* free capacity.
Claim(s, x) ==
    LET age == txn[Main(s)].age
        p == att[x].provider
        stale == StaleAttempts(p, age)
        claims == /\ HeadOfQueue(x, stale)
                  /\ Placements(p, stale) # {}
    IN  /\ InFlight(Main(s), "claim")
        /\ IsLast(s, x)
        /\ \/ /\ ~Unexpired(s, age)
              /\ UNCHANGED <<att, lease>>
           \/ /\ Unexpired(s, age)
              /\ claims
              /\ \E i \in Placements(p, stale) :
                    att' = [Finished(stale, "failed") EXCEPT ![x] = Acquiring(x, i)]
              /\ lease' = [lease EXCEPT ![x] = "acquiring"]
           \/ /\ Unexpired(s, age)
              /\ ~claims
              /\ att' = Finished(stale, "failed")
              /\ UNCHANGED lease
        /\ Ended(Main(s))
        /\ UNCHANGED <<sess, seq, ready, fleet, cloud, owner>>

\* activate: only from acquiring.  Owners open the session first.
Activate(s, x) ==
    /\ lease[x] = "acquiring"
    /\ SessionOf(x) = s
    /\ MainIdle(s)
    /\ sess[s].state # "admitted"
    /\ att[x].state = "acquiring"
    /\ att' = [att EXCEPT ![x].state = "active"]
    /\ lease' = [lease EXCEPT ![x] = "active"]
    /\ UNCHANGED <<sess, seq, ready, fleet, cloud, txn, owner>>

\* Fault: finish rewrites a terminal attempt.
FinishAgain(s, x, failed) ==
    /\ Owns(s)
    /\ MainIdle(s)
    /\ SessionOf(x) = s
    /\ lease[x] # "none" \/ att[x].state = "queued"
    /\ att' = Finished({x}, IF failed THEN "failed" ELSE "completed")
    /\ lease' = Dropped({x})
    /\ UNCHANGED <<sess, seq, ready, fleet, cloud, txn, owner>>

\* finish: idempotent, a terminal attempt keeps its state.  Owners call it on the attempt
\* they hold, and on a queued one they stop waiting for (timeout, disconnection).
Finish(s, x, failed) ==
    /\ Owns(s)
    /\ MainIdle(s)
    /\ SessionOf(x) = s
    /\ lease[x] # "none" \/ att[x].state = "queued"
    /\ att' = IF att[x].state \in LiveAttemptStates
              THEN Finished({x}, IF failed THEN "failed" ELSE "completed")
              ELSE att
    /\ lease' = Dropped({x})
    /\ UNCHANGED <<sess, seq, ready, fleet, cloud, txn, owner>>

--------------------------------------------------------------------------
(* The rest of the system as admission sees it *)

\* FleetRepository.observe_instances and prepare_scale_down, and observations lapsing:
\* which instances are ready with a current observation.
Observe ==
    /\ ready' \in Observations \ {ready}
    /\ UNCHANGED <<sess, att, seq, fleet, cloud, txn, owner, lease>>

\* FleetRepository.update_configuration
ConfigureFleet ==
    /\ fleet' \in FleetLimits \ {fleet}
    /\ UNCHANGED <<sess, att, seq, ready, cloud, txn, owner, lease>>

\* ExternalCapacityRepository.update
ConfigureCloud ==
    /\ cloud' \in CloudLimits \ {cloud}
    /\ UNCHANGED <<sess, att, seq, ready, fleet, txn, owner, lease>>

\* Time passes.  MaxAge bounds how long an operation can wait for its locks.
Tick ==
    /\ \A t \in Tasks : InFlight(t, "none") \/ txn[t].age < MaxAge
    /\ txn' = [t \in Tasks |-> IF InFlight(t, "none") THEN txn[t]
                               ELSE [txn[t] EXCEPT !.age = @ + 1]]
    /\ sess' = [s \in Sessions |->
                    IF InLiveState(s) /\ sess[s].left > -MaxAge
                    THEN [sess[s] EXCEPT !.left = @ - 1] ELSE sess[s]]
    /\ UNCHANGED <<att, seq, ready, fleet, cloud, owner, lease>>

SessionStep(s) ==
    \/ \E op \in {"admit", "open", "enqueue", "claim"} : Begin(s, op)
    \/ BeginHeartbeat(s)
    \/ Rollback(s)
    \/ Admit(s)
    \/ Heartbeat(s)
    \/ HeartbeatFails(s)
    \/ Open(s)
    \/ \E failed \in Verdicts : Release(s, failed)
    \/ Abandon(s)
    \/ EnqueueRefused(s)
    \/ \E x \in Attempts :
            \/ \E p \in Requests : Enqueue(s, x, p)
            \/ Claim(s, x)
            \/ Activate(s, x)
            \/ \E failed \in Verdicts : Finish(s, x, failed)

Next ==
    \/ \E s \in Sessions : SessionStep(s)
    \/ Observe
    \/ ConfigureFleet
    \/ ConfigureCloud
    \/ Tick

Spec == Init /\ [][Next]_vars

\* The transaction of the owner's task commits or rolls back.
TransactionEnds(s) ==
    \/ Admit(s)
    \/ Open(s)
    \/ \E x \in Attempts, p \in Requests : Enqueue(s, x, p)
    \/ EnqueueRefused(s)
    \/ \E x \in Attempts : Claim(s, x)
    \/ Rollback(s)

\* A poll that reads the clock before the session's lease expires, and its commit.
PollInTime(s) == Unexpired(s, 0) /\ Begin(s, "claim")
ClaimInTime(s) == Unexpired(s, txn[Main(s)].age) /\ \E x \in Attempts : Claim(s, x)

\* What the scheduling guarantees.  Time passes, as long as a lease has any left, whatever
\* else happens, and transactions end.  A live owner's
\* heartbeat task keeps beating.  An owner in the queue polls with claim until it gives up,
\* many times within a lease (1 s against 30 s), and _retry_transient gives up after
\* three rollbacks: while the lease is renewed again and again, so is a claim committed.
Fairness ==
    /\ []<>(\A s \in Sessions : InLiveState(s) => sess[s].left = -MaxAge) \/ []<><<Tick>>_vars
    /\ \A s \in Sessions :
        /\ WF_vars(TransactionEnds(s))
        /\ WF_vars(BeginHeartbeat(s))
        /\ WF_vars(Heartbeat(s) \/ HeartbeatFails(s))
        /\ SF_vars(PollInTime(s))
        /\ SF_vars(ClaimInTime(s))

LiveSpec == Spec /\ Fairness
--------------------------------------------------------------------------
(* Correctness *)

\* The slots an instance has given out, by the attempt rows alone, never exceed its
\* session capacity: PostgresAttemptRepository counts under the provider lock, but with a
\* clock it read before the lock.
SlotsWithinCapacity ==
    \A i \in Instances : Cardinality(Occupying(i)) <= Capacity[i]

\* The sessions in a live state never exceed stolosio_max_active_sessions, expired leases
\* included: admit fails every stale lease before it counts.
SessionsWithinCapacity ==
    Cardinality({s \in Sessions : InLiveState(s)}) <= MaxActiveSessions

\* A session that is not live has no live attempt: release and both _expire_stale finish
\* attempts with their session, and enqueue and claim refuse a session that has ended.
EndedSessionsHoldNothing ==
    \A x \in Attempts : att[x].state \in LiveAttemptStates => InLiveState(SessionOf(x))

\* A session waits for at most one attempt at a time, and beside it has at most the one
\* active attempt it is replacing (a capture's local slot).
OneAcquisitionAtATime ==
    \A s \in Sessions :
        /\ Cardinality(LiveAttemptsOf(s)) <= 2
        /\ \A x, y \in LiveAttemptsOf(s) :
                x = y \/ att[x].state = "active" \/ att[y].state = "active"

\* Terminal rows are final: cleanup that runs twice, late or against a lease that expired
\* meanwhile never reopens a session or attempt, nor rewrites how it ended.
TerminalIsFinal ==
    [][/\ \A s \in Sessions : sess[s].state \in TerminalStates => sess'[s] = sess[s]
       /\ \A x \in Attempts : att[x].state \in TerminalStates => att'[x] = att[x]]_vars

\* The session's lease is running at this moment.
Leased(s) == InLiveState(s) /\ sess[s].left > 0

\* Capacity of a provider goes to the longest waiting attempt whose session's lease is
\* unexpired: no later one, queued or newly enqueued, overtakes it.
GrantedInQueueOrder ==
    [][\A x \in Attempts :
        att[x].state \notin ActiveAttemptStates /\ att'[x].state = "acquiring" =>
            \A y \in Attempts \ {x} :
                /\ att[y].state = "queued"
                /\ att[y].provider = att'[x].provider
                /\ Leased(SessionOf(y))
                => att[x].state = "queued" /\ att[x].seq < att[y].seq]_vars

\* Nobody but its owner ends a session whose lease is unexpired, or takes its capacity,
\* however old the clock is that the other operation read.
LeaseProtects ==
    [][/\ \A s \in Sessions :
            Leased(s) /\ ~InLiveState(s)' => owner[s] # "gone" /\ owner'[s] = "gone"
       /\ \A x \in Attempts :
            /\ att[x].state \in ActiveAttemptStates
            /\ Leased(SessionOf(x))
            /\ att'[x].state \notin ActiveAttemptStates
            => lease[x] # "none" /\ lease'[x] = "none"]_vars

\* Owners with unexpired leases that have activated an attempt never exceed the slots of
\* its instance: "Concurrent requests cannot independently claim the same capacity".
\* Does not hold: a heartbeat may renew a lease whose slot was given away
\* (AdmissionSharedSlot.cfg).
NoSharedSlot ==
    \A i \in Instances :
        Cardinality({x \in Attempts : /\ lease[x] = "active"
                                      /\ att[x].instance = i
                                      /\ owner[SessionOf(x)] = "live"
                                      /\ Leased(SessionOf(x))}) <= Capacity[i]

\* An attempt is stuck when it waits for a browser, its owner is live, and all the capacity
\* of a ready fleet is with sessions whose owners are gone.
Stuck(x) ==
    /\ att[x].state = "queued"
    /\ att[x].provider = Browserless
    /\ owner[SessionOf(x)] = "live"
    /\ fleet.enabled
    /\ ready = Instances
    /\ \A y \in Attempts \ {x} : att[y].state \in LiveAttemptStates => owner[SessionOf(y)] = "gone"

\* Nobody waits forever behind a crashed owner: its lease expires and the polling claim
\* itself returns the slot, and the place in the queue, without any background job.
NobodyStuck == (\E x \in Attempts : Stuck(x)) ~> (\A x \in Attempts : ~Stuck(x))

--------------------------------------------------------------------------
(* Admission implements the capacity pool *)

Pool == INSTANCE CapacityPool WITH
    Clients <- Attempts,
    Pools <- Instances,
    used <- [i \in Instances |-> Occupying(i)],
    spent <- {x \in Attempts : att[x].state \in TerminalStates}

\* Through every interleaving, expiry and crash the attempt rows are a pool of slots: each
\* attempt holds at most one, once, and only within the capacity of its instance.
ImplementsPool == Pool!Spec
==========================================================================
