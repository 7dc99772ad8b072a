------------------------------ MODULE LiveViews ------------------------------
(***************************************************************************)
(* The two live views of the event stream.  The activity feed follows all  *)
(* sessions for a browser that reconnects with the last stream sequence it *)
(* was given.  The debug timeline shows one session: what PostgreSQL has   *)
(* recorded, then the stream, until the session's terminal event.  Both    *)
(* read through an ordered JetStream consumer into a bounded queue.        *)
(*                                                                         *)
(* The events of the stream are numbered in the order they are published;  *)
(* the last one is the terminal event of the session.                      *)
(***************************************************************************)
EXTENDS Naturals, Sequences, FiniteSets, SequencesExt

CONSTANTS
    LastEvent,        \* bound: number of events; LastEvent is the terminal one
    Outboxed,         \* lifecycle events: recorded when they happen, published later
    EventOf,          \* what the filters of the activity feed read of each event
    Filters,          \* the filters a feed may have
    HistoryLimit,     \* recorded events a timeline reads (1000)
    MaxPendingEvents, \* debug_stream_max_pending_events
    MaxPendingBytes,  \* debug_stream_max_pending_bytes, in messages
    MaxConnections,   \* bound: connections of the activity feed
    MaxGeneration,    \* bound: times the stream is replaced
    MaxPurged         \* bound: records deleted by retention

ASSUME ViewsAssumption ==
    /\ LastEvent \in Nat \ {0}
    /\ Outboxed \subseteq 1..LastEvent /\ LastEvent \in Outboxed
    /\ DOMAIN EventOf = 1..LastEvent
    /\ MaxPendingEvents \in Nat \ {0} /\ MaxPendingBytes \in Nat \ {0}
    /\ HistoryLimit \in Nat \ {0}

VARIABLES
    \* the stream, and what PostgreSQL has of it
    log,          \* the events in the stream; a sequence number is an index
    first,        \* the first sequence still retained
    generation,   \* how often the stream was replaced
    happened,     \* how many events happened
    published,    \* how many of them were published
    recorded,     \* the events in PostgreSQL
    purged,       \* the events retention deleted there
    \* the viewer's connection
    kind,         \* "activity" or "debug"
    filters,      \* ActivityEventFilters of the feed
    at,
    pos,          \* the next sequence the consumer delivers
    queue,        \* sequences received and not yet taken
    pendingBytes,
    overflow,
    lastSequence, \* the last sequence taken from the queue
    connections,
    \* what its reader has
    shown,        \* the events sent, in order
    history,      \* the debug timeline's snapshot of PostgreSQL
    cursor,       \* the browser's Last-Event-ID, or NoCursor
    \* history variables
    origin,       \* the stream in which the feed began, and where
    lost          \* events taken in the same turn as a heartbeat

streamVars == <<log, first, generation, happened, published, recorded, purged>>
connectionVars == <<pos, queue, pendingBytes, overflow, lastSequence>>
readerVars == <<shown, history, cursor, origin, lost>>
vars == <<streamVars, kind, filters, at, connectionVars, connections, readerVars>>

None == "none"
NoCursor == LastEvent + 1
Terminal == LastEvent
LastSeq == Len(log)
Subscribed == {"subscribed", "sending", "following"}

-----------------------------------------------------------------------------
(* The filters, as the live feed evaluates them and as SQL does. *)

NoFilter == [families |-> {}, types |-> {}, outcomes |-> {}, attempt |-> None]

OutcomeTypes ==
    [success |-> {"session.closed", "attempt.connected", "attempt.closed",
                  "navigation.response", "page.content_observed"},
     failure |-> {"session.failed", "attempt.failed", "command.failed", "navigation.failed",
                  "page.crashed", "javascript.exception", "provider.disconnected"},
     interrupted |-> {"command.interrupted"}]

\* Outcomes are ActivityEventOutcomes, and a capture's is "captured" or "failed"
\* (CapturePayload).
ASSUME OutcomesAssumption ==
    /\ \A f \in Filters : f.outcomes \subseteq DOMAIN OutcomeTypes
    /\ \A i \in 1..LastEvent :
           EventOf[i].type = "capture.completed" => EventOf[i].payload \in {"captured", "failed"}

FaultOutcomeOf(e) ==
    IF \E o \in DOMAIN OutcomeTypes : e.type \in OutcomeTypes[o]
    THEN CHOOSE o \in DOMAIN OutcomeTypes : e.type \in OutcomeTypes[o]
    ELSE None

\* activity_event_outcome: a capture's outcome is in its payload.
OutcomeOf(e) ==
    IF e.type = "capture.completed"
    THEN IF e.payload = "captured" THEN "success" ELSE "failure"
    ELSE IF \E o \in DOMAIN OutcomeTypes : e.type \in OutcomeTypes[o]
         THEN CHOOSE o \in DOMAIN OutcomeTypes : e.type \in OutcomeTypes[o]
         ELSE None

\* ActivityEventFilters.matches; providers and sessions are filtered like types
\* and attempts.
Matches(e) ==
    /\ filters.families # {} => e.family \in filters.families
    /\ filters.types # {} => e.type \in filters.types
    /\ filters.outcomes # {} => OutcomeOf(e) \in filters.outcomes
    /\ filters.attempt # None => e.attempt = filters.attempt

\* _apply_filters: the outcomes become event types, and payloads of captures.
Selects(e) ==
    LET types == UNION {OutcomeTypes[o] : o \in filters.outcomes}
        payloads == {p \in {"captured", "failed"} :
                        IF p = "captured" THEN "success" \in filters.outcomes
                        ELSE "failure" \in filters.outcomes}
    IN  /\ filters.families # {} => e.family \in filters.families
        /\ filters.types # {} => e.type \in filters.types
        /\ filters.outcomes # {} =>
               e.type \in types \/ (e.type = "capture.completed" /\ e.payload \in payloads)
        /\ filters.attempt # None => e.attempt = filters.attempt

\* The ORDER BY of the history queries: each event after those before it.
Ascending(events) ==
    [i \in 1..Cardinality(events) |->
        CHOOSE e \in events : Cardinality({d \in events : d < e}) = i - 1]

-----------------------------------------------------------------------------
Init ==
    /\ log = <<>> /\ first = 1 /\ generation = 0
    /\ happened = 0 /\ published = 0 /\ recorded = {} /\ purged = {}
    /\ kind \in {"activity", "debug"}
    /\ filters \in IF kind = "activity" THEN Filters ELSE {NoFilter}
    /\ at = IF kind = "activity" THEN "away" ELSE "resolving"
    /\ pos = 1 /\ queue = <<>> /\ pendingBytes = 0 /\ overflow = FALSE
    /\ lastSequence = NoCursor /\ connections = 0
    /\ shown = <<>> /\ history = {} /\ cursor = NoCursor
    /\ origin = [generation |-> 0, from |-> 1] /\ lost = {}

-----------------------------------------------------------------------------
(* The events: EventPipeline models how they get where they are read. *)

Outside == UNCHANGED <<kind, filters, at, connectionVars, connections, readerVars>>

\* The next event happens; a lifecycle event is in PostgreSQL with it.
Happen ==
    /\ happened < LastEvent /\ happened' = happened + 1
    /\ recorded' = recorded \cup ({happened + 1} \cap Outboxed)
    /\ UNCHANGED <<log, first, generation, published, purged>> /\ Outside

Publish ==
    /\ published < happened /\ published' = published + 1
    /\ log' = Append(log, published + 1)
    /\ UNCHANGED <<first, generation, happened, recorded, purged>> /\ Outside

\* The recorder stores what it read from the stream.
Record(e) ==
    /\ e <= published /\ e \notin recorded \cup purged
    /\ recorded' = recorded \cup {e}
    /\ UNCHANGED <<log, first, generation, happened, published, purged>> /\ Outside

\* Retention deletes a published record, in no particular order of the old
\* ones; by default it is 30 days old, and its message was kept for one.
Purge(e) ==
    /\ e \in recorded /\ e <= published /\ Cardinality(purged) < MaxPurged
    /\ \A s \in first..LastSeq : log[s] # e
    /\ recorded' = recorded \ {e} /\ purged' = purged \cup {e}
    /\ UNCHANGED <<log, first, generation, happened, published>> /\ Outside

\* The stream's max_age passes; a connected viewer is never that far behind.
AgeOut ==
    /\ first <= LastSeq /\ first' = first + 1
    /\ at \in Subscribed => first < pos
    /\ UNCHANGED <<log, generation, happened, published, recorded, purged>> /\ Outside

\* NATS is replaced: its connections end and sequences start again.
Replace ==
    /\ generation < MaxGeneration /\ generation' = generation + 1
    /\ kind = "activity" /\ at = "away"
    /\ log' = <<>> /\ first' = 1
    /\ UNCHANGED <<happened, published, recorded, purged>> /\ Outside

-----------------------------------------------------------------------------
(* The queue between the consumer and the viewer. *)

Fits == pendingBytes + 1 <= MaxPendingBytes /\ Len(queue) < MaxPendingEvents

\* receive: a message that does not fit only marks the overflow.
Receive ==
    /\ at \in Subscribed /\ pos <= LastSeq
    /\ pos' = pos + 1
    /\ queue' = IF Fits THEN Append(queue, pos) ELSE queue
    /\ pendingBytes' = IF Fits THEN pendingBytes + 1 ELSE pendingBytes
    /\ overflow' = (overflow \/ ~Fits)
    /\ UNCHANGED <<streamVars, kind, filters, at, lastSequence, connections, readerVars>>

\* A fresh queue, and an ordered consumer from the given sequence on.
Subscribe(start, place) ==
    /\ at' = place /\ pos' = IF start < first THEN first ELSE start
    /\ queue' = <<>> /\ pendingBytes' = 0 /\ overflow' = FALSE
    /\ lastSequence' = cursor

\* The consumer is removed with the connection.
Leave(place) ==
    /\ at' = place /\ pos' = 1
    /\ queue' = <<>> /\ pendingBytes' = 0 /\ overflow' = FALSE
    /\ lastSequence' = NoCursor

\* The message the loop takes from the queue.
Taken ==
    /\ ~overflow /\ queue # <<>>
    /\ queue' = Tail(queue) /\ pendingBytes' = pendingBytes - 1
    /\ lastSequence' = Head(queue)
    /\ UNCHANGED <<pos, overflow>>

-----------------------------------------------------------------------------
(* The activity feed: ActivityStreamService.events. *)

\* The cursor is past the stream's end, or before its first message.
Recreated == cursor # NoCursor /\ cursor > LastSeq
Expired == cursor # NoCursor /\ first <= LastSeq /\ cursor < first - 1

\* replay-unavailable: the browser reloads the history and starts afresh.
ReplayUnavailable ==
    /\ kind = "activity" /\ at = "away" /\ connections < MaxConnections
    /\ Recreated \/ Expired
    /\ connections' = connections + 1
    /\ shown' = shown \o Ascending({e \in recorded : Selects(EventOf[e])})
    /\ cursor' = NoCursor
    /\ UNCHANGED <<streamVars, kind, filters, at, connectionVars, history, origin, lost>>

\* The stream is looked at, and subscribed to in a later step.
Check ==
    /\ kind = "activity" /\ at = "away" /\ connections < MaxConnections
    /\ ~Recreated /\ ~Expired
    /\ connections' = connections + 1 /\ at' = "checked"
    /\ UNCHANGED <<streamVars, kind, filters, connectionVars, readerVars>>

FaultStartAfter(c) == c + 2

StartAfter(c) == c + 1

\* _subscribe: after the cursor, or from some moment of the last 30 seconds.
Follow ==
    /\ at = "checked"
    /\ \/ /\ cursor # NoCursor
          /\ Subscribe(StartAfter(cursor), "following") /\ UNCHANGED origin
       \/ /\ cursor = NoCursor
          /\ \E start \in first..(LastSeq + 1) :
                 /\ Subscribe(start, "following")
                 /\ origin' = [generation |-> generation, from |-> start]
    /\ UNCHANGED <<streamVars, kind, filters, connections, shown, history, cursor, lost>>

\* A message: sent with its sequence when the filters match; otherwise the
\* cursor alone is sent, when none was for a while.
FeedTakes ==
    /\ kind = "activity" /\ at = "following" /\ Taken
    /\ \/ /\ Matches(EventOf[log[Head(queue)]])
          /\ shown' = Append(shown, log[Head(queue)]) /\ cursor' = Head(queue)
       \/ /\ ~Matches(EventOf[log[Head(queue)]])
          /\ cursor' \in {cursor, Head(queue)} /\ UNCHANGED shown
    /\ UNCHANGED <<streamVars, kind, filters, at, connections, history, origin, lost>>

\* The heartbeat carries the last sequence taken.  A message that was taken
\* from the queue in the same turn of the loop is dropped with its task, and
\* its bytes stay counted.
Heartbeat ==
    /\ kind = "activity" /\ at = "following" /\ ~overflow
    /\ cursor' = lastSequence
    /\ queue' = IF queue = <<>> THEN queue ELSE Tail(queue)
    /\ lost' = IF queue = <<>> THEN lost ELSE lost \cup {log[Head(queue)]}
    /\ UNCHANGED <<streamVars, kind, filters, at, pos, pendingBytes, overflow, lastSequence,
                   connections, shown, history, origin>>

\* The connection breaks, and the browser will come back with its cursor.
Drop ==
    /\ kind = "activity" /\ at \in Subscribed \cup {"checked"}
    /\ Leave("away")
    /\ UNCHANGED <<streamVars, kind, filters, connections, readerVars>>

\* consumer_too_slow: the feed and the timeline end.
TooSlow ==
    /\ at = "following" /\ overflow
    /\ Leave("gone")
    /\ UNCHANGED <<streamVars, kind, filters, connections, readerVars>>

-----------------------------------------------------------------------------
(* The debug timeline: DebugStreamService.stream and _relay_session. *)

FaultSendHistory ==
    /\ at = "sending"
    /\ shown' = Ascending(history)
    /\ at' = "following" /\ UNCHANGED connectionVars
    /\ UNCHANGED <<streamVars, kind, filters, connections, history, cursor, origin, lost>>

\* The reference is polled until its session is open, or for a bounded time.
Resolve ==
    /\ at = "resolving"
    /\ \/ happened > 0 /\ at' = "resolved"
       \/ happened = 0 /\ at' = "gone"
    /\ UNCHANGED <<streamVars, kind, filters, connectionVars, connections, readerVars>>

FaultAttach ==
    /\ at = "resolved"
    /\ Subscribe(LastSeq + 1, "subscribed")
    /\ origin' = [generation |-> generation, from |-> first]
    /\ UNCHANGED <<streamVars, kind, filters, connections, shown, history, cursor, lost>>

\* First the subscription, from the first retained message ...
Attach ==
    /\ at = "resolved"
    /\ Subscribe(first, "subscribed")
    /\ origin' = [generation |-> generation, from |-> first]
    /\ UNCHANGED <<streamVars, kind, filters, connections, shown, history, cursor, lost>>

\* HistoricalDebugTimeline.events: the oldest records, up to the limit.
Oldest(events) ==
    {e \in events : Cardinality({d \in events : d < e}) < HistoryLimit}

\* ... then the history, while messages already arrive.
ReadHistory ==
    /\ at = "subscribed"
    /\ history' = Oldest(recorded) /\ at' = "sending"
    /\ UNCHANGED <<streamVars, kind, filters, connectionVars, connections, shown, cursor, origin, lost>>

\* The recorded events are sent; a terminal one among them ends the timeline.
SendHistory ==
    /\ at = "sending"
    /\ shown' = Ascending(history)
    /\ \/ Terminal \in history /\ Leave("done")
       \/ Terminal \notin history /\ at' = "following" /\ UNCHANGED connectionVars
    /\ UNCHANGED <<streamVars, kind, filters, connections, history, cursor, origin, lost>>

Unseen(e) == e \notin ToSet(shown)

\* The live tail, without what the history showed.
TimelineTakes ==
    /\ kind = "debug" /\ at = "following" /\ ~overflow /\ queue # <<>>
    /\ LET e == log[Head(queue)]
       IN  /\ shown' = IF Unseen(e) THEN Append(shown, e) ELSE shown
           /\ \/ Unseen(e) /\ e = Terminal /\ Leave("done")
              \/ ~(Unseen(e) /\ e = Terminal) /\ Taken /\ UNCHANGED at
    /\ UNCHANGED <<streamVars, kind, filters, connections, history, cursor, origin, lost>>

\* _wait_for_disconnect: the viewer leaves; whatever runs is cancelled.
Disconnect ==
    /\ kind = "debug" /\ at \in Subscribed \cup {"resolving"}
    /\ Leave("gone")
    /\ UNCHANGED <<streamVars, kind, filters, connections, readerVars>>

-----------------------------------------------------------------------------
Timeline == Resolve \/ Attach \/ ReadHistory \/ SendHistory \/ TimelineTakes

Feed == ReplayUnavailable \/ Check \/ Follow \/ FeedTakes \/ Heartbeat \/ Drop

Next ==
    \/ Happen \/ Publish \/ AgeOut \/ Replace
    \/ \E e \in 1..LastEvent : Record(e) \/ Purge(e)
    \/ Receive \/ Feed \/ Timeline \/ TooSlow \/ Disconnect

\* The consumer delivers what the stream holds, and the loops run.
Spec == Init /\ [][Next]_vars /\ WF_vars(Receive) /\ WF_vars(Timeline) /\ WF_vars(TooSlow)

-----------------------------------------------------------------------------
(* Properties. *)

\* The browser "can resume through Last-Event-ID": a matching event between the
\* start of the feed and the cursor was shown, across dropped connections,
\* filtered events and cursor heartbeats, unless a heartbeat coincided with
\* it.  (Cursors of a replaced stream are not judged.)
FeedComplete ==
    (kind = "activity" /\ cursor # NoCursor /\ origin.generation = generation) =>
        \A s \in origin.from..cursor :
            (first <= s /\ Matches(EventOf[log[s]])) => log[s] \in ToSet(shown) \cup lost

\* Live events and the history a feed reloads are filtered alike, though one is
\* a Python predicate on events and the other an SQL condition: what the feed
\* shows is what its filters match, however it got there.
FiltersAgree ==
    kind = "activity" =>
        /\ \A e \in recorded : Selects(EventOf[e]) <=> Matches(EventOf[e])
        /\ \A e \in ToSet(shown) : Matches(EventOf[e])

\* History and live tail overlap, in any order of recording and publishing,
\* yet the timeline shows no event twice.
TimelineOnce ==
    kind = "debug" => Cardinality(ToSet(shown)) = Len(shown)

\* A timeline that followed the tail to the terminal event has shown every
\* message since it subscribed: a message its queue could not take would have
\* ended it as too slow.
TimelineGapless ==
    (kind = "debug" /\ at = "done" /\ Terminal \notin history) =>
        \A s \in origin.from..LastSeq : log[s] \in ToSet(shown)

\* The timeline of a session that was followed to its end is exact: every event, once.
TimelineExact == TimelineOnce /\ TimelineGapless

\* No terminal event will come: it had left the stream when the timeline
\* subscribed, and its record was purged or is beyond the limit of the history.
TerminalMissed ==
    /\ at = "following" /\ Terminal \notin history
    /\ \A s \in origin.from..LastSeq : log[s] # Terminal
    /\ Terminal \in purged \/ Cardinality(history) = HistoryLimit

\* "The connection closes normally after session.closed or session.failed"
\* (DEBUG.md), whether the history or the tail brings it, or both: a timeline
\* waits on after the end of its session only where neither has the event any
\* more (DebugStreamService._relay_session, HistoricalDebugTimeline.events).
TimelineEnds ==
    (kind = "debug" /\ published = LastEvent) ~> (at \in {"done", "gone"} \/ TerminalMissed)

\* What DEBUG.md says of every timeline: the connection closes after the
\* terminal event.  TLC refutes it.
TimelineAlwaysEnds ==
    (kind = "debug" /\ published = LastEvent) ~> at \in {"done", "gone"}

=============================================================================
