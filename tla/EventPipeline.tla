---------------------------- MODULE EventPipeline ----------------------------
(***************************************************************************)
(* How the events of sessions get from where they happen to the analytics: *)
(* the transactional outbox (events/outbox.py), the JetStream event stream *)
(* (messaging/jetstream.py), the maintenance worker with its four loops    *)
(* (workers/maintenance/__main__.py), the recorder with its projections    *)
(* (recorder.py), and the retention of events (retention.py).              *)
(*                                                                         *)
(* An event is <<attempt, kind>>.  "closed" (attempt.closed or .failed) is *)
(* a row of the outbox; "navigation" (navigation.response) and "summary"   *)
(* (command.summary) are published directly by the gateway, once, and lost *)
(* when that fails; "foreign" stands for a message the recorder must       *)
(* reject: one it cannot parse or whose session it does not know.          *)
(***************************************************************************)
EXTENDS CommandCosts, SequencesExt

CONSTANTS
    Attempts,
    Events,        \* a set of <<attempt, kind>>
    Usage,         \* [Attempts -> the attempt's command summary]
    Measured,      \* [Attempts -> [occupied, connected]], in milliseconds
    DefaultRate,   \* the rate that ensure_defaults has seeded
    Rates,         \* the rates an operator sets
    EarlierStats,  \* the aggregate that earlier attempts have left
    MaxDeliver,    \* event_recorder_max_deliver
    MaxFaults,     \* bound on failing operations and restarts
    MaxLosses,     \* bound on replacements of NATS
    MaxRateChanges \* bound on updates of the rate

ASSUME PipelineAssumption ==
    /\ MaxDeliver \in Nat \ {0} /\ MaxFaults \in Nat /\ MaxLosses \in Nat
    /\ MaxRateChanges \in Nat /\ Rates \cup {DefaultRate} \subseteq Nat
    /\ Events \subseteq Attempts \X {"navigation", "summary", "closed", "foreign"}

\* The slot of an attempt is occupied from before the browser is connected until
\* after; a summary and the aggregate hold counts, milliseconds and units.
ASSUME UsageAssumption ==
    /\ \A a \in Attempts :
         /\ Measured[a].occupied \in Nat /\ Measured[a].connected \in Nat
         /\ Measured[a].connected <= Measured[a].occupied
         /\ IsFiniteSet(DOMAIN Usage[a])
         /\ \A i \in DOMAIN Usage[a] : Usage[a][i].count \in Nat /\ Usage[a][i].ms \in Nat
    /\ IsFiniteSet(DOMAIN EarlierStats)
    /\ \A m \in DOMAIN EarlierStats : EarlierStats[m] \in [count : Nat, ms : Nat, cost : Nat]

VARIABLES
    final,       \* the terminal rows: attempt |-> its usage, cost and summary
    rate,        \* the provider's cost_units_per_second
    rateChanges,
    domainOf,    \* attempts whose row has a domain_id
    costDone,    \* attempts with cost_projected
    summaryDone, \* attempts with command_cost_projected
    domainStat,  \* the domain's [count, cost] for the provider
    folded,      \* the summaries upserted into provider_command_cost_stats
    rows,        \* session_events in the order of their ids
    published,   \* the rows with published_at
    emitted,     \* the observations the gateway has published or dropped
    exists,      \* the event stream exists
    stream,      \* its messages: [event, state, delivered]
    worker,      \* the runtime of the maintenance worker: "up" | "down"
    subscribed,  \* its recorder has a consumer on this stream
    replay,      \* what a rehydration still has to publish
    outbox,      \* publish_pending: [on, left, sent]
    rec,         \* the recorder's batch: [pc, batch]
    faults, losses,
    accepted,    \* events that the stream has ever accepted
    broken       \* a rehydration was cut off

rateVars == <<rate, rateChanges>>
attemptVars == <<final, rateVars, domainOf, costDone, summaryDone, domainStat, folded>>
tableVars == <<rows, published>>
streamVars == <<exists, stream, accepted>>
workerVars == <<worker, subscribed, replay, outbox, rec, broken>>
vars == <<attemptVars, tableVars, streamVars, workerVars, emitted, faults, losses>>

finished == DOMAIN final
IdleOutbox == [on |-> FALSE, left |-> <<>>, sent |-> {}]
IdleRecorder == [pc |-> "idle", batch |-> {}]

Init ==
    /\ final = [a \in {} |-> {}] /\ rate = DefaultRate /\ rateChanges = 0
    /\ domainOf = {} /\ costDone = {} /\ summaryDone = {}
    /\ domainStat = [count |-> 0, cost |-> 0] /\ folded = <<>>
    /\ rows = <<>> /\ published = {} /\ emitted = {}
    /\ exists = FALSE /\ stream = <<>> /\ accepted = {}
    /\ worker = "down" /\ subscribed = FALSE /\ replay = <<>>
    /\ outbox = IdleOutbox /\ rec = IdleRecorder
    /\ faults = 0 /\ losses = 0 /\ broken = FALSE

Fault == faults < MaxFaults /\ faults' = faults + 1

\* The ORDER BY of a query, and of the messages of a batch: what s has at the
\* positions I, each after those before it.
Ascending(I) ==
    [k \in 1..Cardinality(I) |-> CHOOSE i \in I : Cardinality({j \in I : j < i}) = k - 1]
Selected(s, I) == [k \in 1..Cardinality(I) |-> s[Ascending(I)[k]]]

\* provider_command_cost_stats: what the upserts so far have made of it.
SharesOf == [a \in finished |-> Shares(final[a].summary, final[a])]
RestOf == [a \in finished |-> Unattributed(SharesOf[a], final[a])]
Stats == FoldLeft(LAMBDA s, a : Projected(s, SharesOf[a], RestOf[a]),
                  EarlierStats, folded)

-----------------------------------------------------------------------------
(* The stream ignores a Nats-Msg-Id it has seen within its duplicate       *)
(* window; an event that comes again after an outage longer than that (one *)
(* of the faults) is a second message.                                     *)

Message(e) == [event |-> e, state |-> "ready", delivered |-> 0]
InStream(e) == \E i \in DOMAIN stream : stream[i].event = e

AddMessage(e) ==
    /\ exists
    /\ stream' = Append(stream, Message(e)) /\ accepted' = accepted \cup {e}
    /\ UNCHANGED exists

Publish(e) ==
    \/ ~InStream(e) /\ AddMessage(e) /\ UNCHANGED faults
    \/ InStream(e) /\ UNCHANGED <<streamVars, faults>>
    \/ InStream(e) /\ Fault /\ AddMessage(e)

-----------------------------------------------------------------------------
(* The gateway: AttemptRepository.finish and CdpObserver._emit.            *)

\* An attempt that was never active has no command summary.
EndedRow(a, reached) ==
    LET usage == Finalized(Measured[a], reached, rate)
    IN [summary |-> IF reached = "active" THEN Usage[a] ELSE <<>>,
        browser |-> usage.browser, chargeable |-> usage.chargeable,
        cost |-> usage.cost, billed |-> usage.billed]

FinishAttempt(a) ==
    /\ a \notin finished
    /\ \E reached \in {"waiting", "acquiring", "active"} :
         /\ <<a, "navigation">> \in emitted => reached = "active"
         /\ final' = [b \in finished \cup {a} |->
                        IF b = a THEN EndedRow(a, reached) ELSE final[b]]
    /\ rows' = Append(rows, <<a, "closed">>)
    /\ UNCHANGED <<rateVars, domainOf, costDone, summaryDone, domainStat, folded,
                   published, streamVars, workerVars, emitted, faults, losses>>

\* CostRateRepository.update, by an operator.
UpdateRate(r) ==
    /\ rateChanges < MaxRateChanges /\ r # rate
    /\ rate' = r /\ rateChanges' = rateChanges + 1
    /\ UNCHANGED <<final, domainOf, costDone, summaryDone, domainStat, folded,
                   tableVars, streamVars, workerVars, emitted, faults, losses>>

Emit(e) ==
    /\ e[2] # "closed" /\ e \notin emitted
    /\ (e[2] = "summary") = (e[1] \in finished)
    /\ emitted' = emitted \cup {e}
    /\ \/ AddMessage(e) /\ UNCHANGED faults
       \/ Fault /\ UNCHANGED streamVars
       \/ ~exists /\ UNCHANGED <<streamVars, faults>>
    /\ UNCHANGED <<attemptVars, tableVars, workerVars, losses>>

-----------------------------------------------------------------------------
(* LifecycleOutboxPublisher.publish_pending, one transaction.              *)

OutboxSelect ==
    LET pending == Selected(rows, {i \in DOMAIN rows : rows[i] \notin published})
    IN /\ worker = "up" /\ ~outbox.on /\ pending # <<>>
       /\ outbox' = [on |-> TRUE, left |-> pending, sent |-> {}]
       /\ UNCHANGED <<attemptVars, tableVars, streamVars, worker, subscribed,
                      replay, rec, broken, emitted, faults, losses>>

OutboxPublish ==
    /\ outbox.on /\ outbox.left # <<>>
    /\ Publish(Head(outbox.left))
    /\ outbox' = [on |-> TRUE, left |-> Tail(outbox.left),
                  sent |-> outbox.sent \cup {Head(outbox.left)}]
    /\ UNCHANGED <<attemptVars, tableVars, worker, subscribed, replay, rec, broken,
                   emitted, losses>>

OutboxCommit ==
    /\ outbox.on /\ outbox.left = <<>>
    /\ published' = published \cup outbox.sent
    /\ outbox' = IdleOutbox
    /\ UNCHANGED <<attemptVars, rows, streamVars, worker, subscribed, replay, rec,
                   broken, emitted, faults, losses>>

\* A publication that is refused (the stream is full or gone) or a commit
\* that fails rolls all of it back; the loop tries again.
OutboxFails ==
    /\ outbox.on
    /\ Fault \/ (~exists /\ outbox.left # <<>> /\ UNCHANGED faults)
    /\ outbox' = IdleOutbox
    /\ UNCHANGED <<attemptVars, tableVars, streamVars, worker, subscribed, replay,
                   rec, broken, emitted, losses>>

\* Nothing is pending: the loop sleeps.
OutboxIdle ==
    /\ worker = "up" /\ ~outbox.on /\ ToSet(rows) \subseteq published
    /\ UNCHANGED vars

-----------------------------------------------------------------------------
(* _run_connected, ensure_stolosio_topology and _rehydrate_event_stream.   *)

WorkerStarts ==
    /\ worker = "down"
    /\ worker' = "starting"
    /\ UNCHANGED <<attemptVars, tableVars, streamVars, subscribed, replay, outbox,
                   rec, broken, emitted, faults, losses>>

\* At the start and in _topology_loop: whoever creates the stream replays
\* the rows that are younger than its maximum age.
CreateStream ==
    /\ worker \in {"starting", "up"} /\ ~exists /\ replay = <<>>
    /\ exists' = TRUE /\ replay' = rows
    /\ UNCHANGED <<attemptVars, tableVars, stream, accepted, worker, subscribed,
                   outbox, rec, broken, emitted, faults, losses>>

Rehydrate ==
    /\ replay # <<>>
    /\ Publish(Head(replay))
    /\ replay' = Tail(replay)
    /\ UNCHANGED <<attemptVars, tableVars, worker, subscribed, outbox, rec, broken,
                   emitted, losses>>

\* Fault: the consumer is only made when the stream is made first.
FaultWorkerReady ==
    /\ worker = "starting" /\ exists /\ replay = <<>>
    /\ worker' = "up" /\ subscribed' = (losses = 0)
    /\ UNCHANGED <<attemptVars, tableVars, streamVars, replay, outbox, rec, broken,
                   emitted, faults, losses>>

\* The four loops start; pull_subscribe finds or makes the consumer.
WorkerReady ==
    /\ worker = "starting" /\ exists /\ replay = <<>>
    /\ worker' = "up" /\ subscribed' = TRUE
    /\ UNCHANGED <<attemptVars, tableVars, streamVars, replay, outbox, rec, broken,
                   emitted, faults, losses>>

\* The first exception of a loop cancels the others and main starts again.
\* A consumer or a stream that is gone is one.
WorkerFails ==
    /\ worker # "down"
    /\ \/ Fault
       \/ worker = "up" /\ ~subscribed /\ rec.pc = "idle" /\ UNCHANGED faults
       \/ replay # <<>> /\ ~exists /\ UNCHANGED faults
    /\ worker' = "down" /\ replay' = <<>>
    /\ outbox' = IdleOutbox /\ rec' = IdleRecorder
    /\ broken' = (broken \/ replay # <<>>)
    /\ UNCHANGED <<attemptVars, tableVars, streamVars, subscribed, emitted, losses>>

\* NATS is replaced: stream, consumer and duplicate window are gone.
StreamLost ==
    /\ exists /\ losses < MaxLosses
    /\ losses' = losses + 1
    /\ exists' = FALSE /\ stream' = <<>> /\ subscribed' = FALSE
    /\ UNCHANGED <<attemptVars, tableVars, accepted, worker, replay, outbox, rec,
                   broken, emitted, faults>>

-----------------------------------------------------------------------------
(* _record_loop.                                                           *)

Ready == {i \in DOMAIN stream : stream[i].state = "ready"}
BatchEvents == {m.event : m \in rec.batch}
Taken == {m.at : m \in rec.batch}
SetState(i, state) == stream' = [stream EXCEPT ![i].state = state]

RecorderStep(pc, batch) ==
    /\ rec' = [pc |-> pc, batch |-> batch]
    /\ UNCHANGED <<exists, accepted, worker, subscribed, replay, outbox, broken,
                   emitted, losses>>

\* fetch: some of the messages that are ready, oldest first.
Fetch ==
    /\ worker = "up" /\ subscribed /\ rec.pc = "idle"
    /\ \E last \in Ready :
         LET batch == {i \in Ready : i <= last}
         IN /\ stream' = [i \in DOMAIN stream |->
                            IF i \in batch
                            THEN [stream[i] EXCEPT !.state = "held", !.delivered = @ + 1]
                            ELSE stream[i]]
            /\ RecorderStep("check", {[at |-> i, event |-> stream[i].event] : i \in batch})
    /\ UNCHANGED <<attemptVars, tableVars, faults>>

\* _reject_message: back to the stream, or to the dead letters after the
\* last delivery.
Reject ==
    /\ rec.pc = "check"
    /\ \E m \in rec.batch :
         /\ m.event[2] = "foreign"
         /\ IF ~subscribed THEN UNCHANGED stream
            ELSE SetState(m.at, IF stream[m.at].delivered < MaxDeliver
                                THEN "ready" ELSE "dead")
         /\ RecorderStep(IF rec.batch = {m} THEN "idle" ELSE "check", rec.batch \ {m})
    /\ UNCHANGED <<attemptVars, tableVars, faults>>

\* The transaction of record() for what is left of the batch: rows that are
\* there already stay as they are.
RecordRows ==
    LET arrived == [i \in Taken |-> (CHOOSE m \in rec.batch : m.at = i).event]
        first(i) == \A j \in Taken : arrived[j] = arrived[i] => i <= j
        new == Selected(arrived, {i \in Taken : arrived[i] \notin ToSet(rows) /\ first(i)})
    IN /\ rec.pc = "check" /\ \A m \in rec.batch : m.event[2] # "foreign"
       /\ rows' = rows \o new /\ published' = published \cup ToSet(new)
       /\ RecorderStep("project", rec.batch)
       /\ UNCHANGED <<attemptVars, stream, faults>>

\* _project_domain_facts and then _project_attempts: the attempts of the batch get their
\* domain, _project_cost adds an attempt that has a domain and a cost, and
\* the terminal ones are folded into the command costs.
Located == {a \in Attempts : <<a, "navigation">> \in BatchEvents}
Summarised == {a \in Attempts : {<<a, "closed">>, <<a, "summary">>} \cap BatchEvents # {}}

\* Fault: cost_projected is not looked at.
FaultCostDue(a) ==
    a \in finished /\ final[a].billed /\ a \in domainOf \cup Located

CostDue(a) ==
    a \in finished /\ final[a].billed /\ a \in domainOf \cup Located /\ a \notin costDone

SummaryDue(a) == a \in finished /\ a \notin summaryDone

\* Fault: the cost is only projected with a terminal event.
FaultCostProjectedWith == Summarised

\* The attempts that _project_attempts offers to _project_cost.
CostProjectedWith == Located \cup Summarised

ProjectAttempts ==
    LET costly == {a \in CostProjectedWith : CostDue(a)}
        summed == SetToSeq({a \in Summarised : SummaryDue(a)})
    IN /\ rec.pc = "project"
       /\ domainOf' = domainOf \cup Located
       /\ costDone' = costDone \cup costly
       /\ domainStat' = [count |-> domainStat.count + Cardinality(costly),
                         cost |-> domainStat.cost + SumOf(final, costly, "cost")]
       /\ summaryDone' = summaryDone \cup ToSet(summed)
       /\ folded' = folded \o summed
       /\ RecorderStep("ack", rec.batch)
       /\ UNCHANGED <<final, rateVars, tableVars, stream, faults>>

Ack ==
    /\ rec.pc = "ack"
    /\ stream' = [i \in DOMAIN stream |->
                    IF subscribed /\ i \in Taken
                    THEN [stream[i] EXCEPT !.state = "acked"] ELSE stream[i]]
    /\ RecorderStep("idle", {})
    /\ UNCHANGED <<attemptVars, tableVars, faults>>

\* An error of the database is caught; nothing of the batch is acknowledged.
RecorderFails ==
    /\ rec.pc \in {"check", "project"} /\ Fault
    /\ RecorderStep("idle", {})
    /\ UNCHANGED <<attemptVars, tableVars, stream>>

\* ack_wait passes; after max_deliver deliveries there is no further one.
AckWaitExpires(i) ==
    /\ stream[i].state = "held" /\ i \notin Taken
    /\ stream[i].delivered < MaxDeliver
    /\ SetState(i, "ready")
    /\ UNCHANGED <<attemptVars, tableVars, exists, accepted, workerVars, emitted,
                   faults, losses>>

-----------------------------------------------------------------------------
\* RetentionJob.run_once on session_events: old rows that were published.
\* Events are kept for longer than the stream keeps their messages, and than
\* the replay of a lost stream takes.
PurgeEvents ==
    LET settled(e) == \A i \in DOMAIN stream :
                        stream[i].event = e => stream[i].state \in {"acked", "dead"}
        old == {e \in ToSet(rows) \cap published : settled(e)}
    IN /\ worker = "up" /\ exists /\ replay = <<>> /\ old # {}
       /\ rows' = Selected(rows, {i \in DOMAIN rows : rows[i] \notin old})
       /\ published' = published \ old
       /\ UNCHANGED <<attemptVars, streamVars, workerVars, emitted, faults, losses>>

-----------------------------------------------------------------------------
Outbox == OutboxSelect \/ OutboxPublish \/ OutboxCommit \/ OutboxFails
Topology == CreateStream \/ Rehydrate
Recorder ==
    \/ Fetch \/ Reject \/ RecordRows \/ ProjectAttempts \/ Ack

Next ==
    \/ \E a \in Attempts : FinishAttempt(a)
    \/ \E r \in Rates : UpdateRate(r)
    \/ \E e \in Events : Emit(e)
    \/ PurgeEvents
    \/ Outbox \/ OutboxIdle \/ Topology \/ Recorder \/ RecorderFails
    \/ WorkerStarts \/ WorkerReady \/ WorkerFails \/ StreamLost
    \/ \E i \in DOMAIN stream : AckWaitExpires(i)

\* The loops run; main starts the runtime again; a fetch from a consumer
\* that is gone fails; the server redelivers.
Fairness ==
    /\ WF_vars(OutboxSelect) /\ WF_vars(OutboxPublish) /\ WF_vars(OutboxCommit)
    /\ WF_vars(OutboxFails /\ UNCHANGED faults)
    /\ WF_vars(Topology) /\ WF_vars(Recorder)
    /\ WF_vars(WorkerStarts) /\ WF_vars(WorkerReady)
    /\ WF_vars(WorkerFails /\ UNCHANGED faults)
    /\ WF_vars(\E i \in DOMAIN stream : AckWaitExpires(i))

Spec == Init /\ [][Next]_vars /\ Fairness

-----------------------------------------------------------------------------
(* Properties.                                                             *)

Added(field) == Total(Stats, field) - Total(EarlierStats, field)
CommandsOf == [a \in finished |->
                 [count |-> SumOf(final[a].summary, DOMAIN final[a].summary, "count")]]

\* Every attempt is counted once: whatever was redelivered, published twice
\* or cut off between two transactions, the aggregates hold exactly the cost,
\* the browser time and the commands of the attempts marked as projected,
\* at the rates they ended under, however the rate changed since (usage.py:33-38,
\* recorder.py:249-328, 464-498).
ProjectedOnce ==
    /\ domainStat = [count |-> Cardinality(costDone), cost |-> SumOf(final, costDone, "cost")]
    /\ Added("cost") = SumOf(final, summaryDone, "cost")
    /\ Added("ms") = SumOf(final, summaryDone, "browser")
    /\ Added("count") = SumOf(CommandsOf, summaryDone, "count")

Acked(e) == \E i \in DOMAIN stream : stream[i].event = e /\ stream[i].state = "acked"

\* Once the recorder has acknowledged both what locates an attempt and what
\* ends it, in whichever order they were delivered, the attempt's cost and
\* commands are in the aggregates: nothing would deliver them again.
AckedIsProjected ==
    \A a \in Attempts :
        Acked(<<a, "closed">>) =>
            /\ a \in summaryDone
            /\ Acked(<<a, "navigation">>) => a \in costDone

\* An event of the outbox leaves the table only after the stream has taken
\* it: published_at is never ahead of the publication.
OutboxNotLost ==
    \A a \in finished :
        <<a, "closed">> \in ToSet(rows) \ published \/ <<a, "closed">> \in accepted

\* No event is lost on its way from the outbox through the stream into the projections.
NothingLost == AckedIsProjected /\ OutboxNotLost

\* Every attempt that ends is projected in the end, as long as fewer
\* operations fail than a message has deliveries and no rehydration was cut
\* off.
EventuallyProjected ==
    \A a \in Attempts : (a \in finished) ~> (a \in summaryDone \/ broken)

\* observability.md: "Creating a fresh event stream triggers a bounded replay
\* of PostgreSQL records".  Every row that is kept gets into the stream that
\* replaced a lost one.  Does not hold: a replay that is cut off is not resumed
\* (EventReplay.cfg).
RetainedReplayed ==
    \A e \in Events :
        (losses > 0 /\ e \in ToSet(rows)) ~> (InStream(e) \/ e \notin ToSet(rows))
=============================================================================
