------------------------- MODULE LiveViewsProofs -------------------------
(***************************************************************************)
(* Proofs about LiveViews, for any number of events, any filters, queue    *)
(* bounds, reconnections and replacements of the stream: the activity feed *)
(* has no silent gap, live events and reloaded history are filtered alike, *)
(* and a timeline that was followed to its end shows every event once.     *)
(*                                                                         *)
(* Neither the feed nor the timeline can be judged by what it has shown    *)
(* alone: what keeps them complete is where the consumer's queue lies in   *)
(* the stream.  Placed says that the queue is the stretch of the stream    *)
(* that ends where the consumer is; FeedKept and TimelineKept say that all *)
(* before that stretch has been dealt with.                                *)
(***************************************************************************)
EXTENDS LiveViews, FiniteSetTheorems, TLAPS

Events == 1..LastEvent

\* The last sequence the viewer has dealt with, when its queue has not overflown.
Dealt == pos - Len(queue) - 1

\* The stream holds the last events published, in their order.
StreamInOrder ==
    /\ happened \in 0..LastEvent /\ published \in 0..happened
    /\ recorded \subseteq Events
    /\ generation \in Nat
    /\ log \in Seq(Events) /\ Len(log) <= published
    /\ \A i \in 1..Len(log) : log[i] = published - Len(log) + i
    /\ first \in 1..(Len(log) + 1)

\* Which places a viewer of either kind can be in.
ViewerInPlace ==
    /\ kind \in {"activity", "debug"}
    /\ kind = "activity" =>
           filters \in Filters /\ at \in {"away", "checked", "following", "gone"}
    /\ kind = "debug" =>
           at \in {"resolving", "resolved", "subscribed", "sending", "following", "done", "gone"}

\* A subscribed queue that has not overflown holds the stretch of the stream
\* before the consumer's position.
QueueInOrder ==
    /\ pos \in Nat \ {0} /\ queue \in Seq(Nat \ {0}) /\ overflow \in BOOLEAN
    /\ at \in Subscribed =>
           /\ first <= pos /\ pos <= Len(log) + 1
           /\ ~overflow => \A i \in 1..Len(queue) : queue[i] = Dealt + i

\* The cursor and the origin of a feed lie in the stream they belong to.
CursorInPlace ==
    /\ cursor \in Nat /\ lastSequence \in Nat
    /\ origin \in [generation: 0..generation, from: Nat \ {0}]
    /\ shown \in Seq(Events) /\ history \subseteq Events
    /\ at = "checked" /\ cursor # NoCursor => cursor <= Len(log)
    /\ kind = "activity" /\ cursor # NoCursor /\ origin.generation = generation
           => cursor <= Len(log)
    /\ kind = "activity" /\ at = "following" /\ ~overflow /\ lastSequence # NoCursor
           => lastSequence <= Dealt

Placed == StreamInOrder /\ ViewerInPlace /\ QueueInOrder /\ CursorInPlace

\* Every matching event a feed has dealt with since its origin was shown or lost.
Given(s) == first <= s /\ Matches(EventOf[log[s]]) => log[s] \in ToSet(shown) \cup lost

AllShownMatch == \A e \in ToSet(shown) : Matches(EventOf[e])

FeedKept ==
    kind = "activity" =>
        /\ cursor # NoCursor /\ origin.generation = generation =>
               \A s \in origin.from..cursor : Given(s)
        /\ at = "following" /\ ~overflow /\ origin.generation = generation =>
               \A s \in origin.from..Dealt : Given(s)
        /\ AllShownMatch

\* Every message a timeline has dealt with since it subscribed was shown, and
\* it is done with the tail only after the last event of the session.
TimelineKept ==
    kind = "debug" =>
        /\ \A i, j \in 1..Len(shown) : shown[i] = shown[j] => i = j
        /\ at \in {"subscribed", "sending"} /\ ~overflow => Dealt + 1 = origin.from
        /\ at = "following" /\ ~overflow =>
               \A s \in origin.from..Dealt : log[s] \in ToSet(shown)
        /\ at = "done" /\ Terminal \notin history =>
               /\ published = LastEvent
               /\ \A s \in origin.from..Len(log) : log[s] \in ToSet(shown)

Inv == Placed /\ FeedKept /\ TimelineKept

-----------------------------------------------------------------------------
(* The operators of the model. *)

\* Ascending lists each element of a set of events once.
LEMMA AscendingListsOnce ==
    ASSUME NEW S \in SUBSET Events
    PROVE  /\ Ascending(S) \in Seq(S)
           /\ \A i, j \in 1..Len(Ascending(S)) :
                  Ascending(S)[i] = Ascending(S)[j] => i = j
           /\ ToSet(Ascending(S)) = S
  <1> DEFINE Below(e) == {d \in S : d < e}
             n == Cardinality(S)
             rank == [e \in S |-> Cardinality(Below(e))]
  <1>1. IsFiniteSet(S) /\ n \in Nat
    <2>1. IsFiniteSet(Events)
      BY FS_Interval, ViewsAssumption DEF Events
    <2> QED
      BY <2>1, FS_Subset, FS_CardinalityType
  <1>0. S \subseteq Int
    BY ViewsAssumption DEF Events
  <1>2. ASSUME NEW e \in S
        PROVE  /\ IsFiniteSet(Below(e)) /\ Cardinality(Below(e)) \in 0..(n - 1)
               /\ \A f \in S : e < f => Cardinality(Below(e)) < Cardinality(Below(f))
    <2>1. IsFiniteSet(Below(e)) /\ Cardinality(Below(e)) \in Nat
      BY <1>1, FS_Subset, FS_CardinalityType
    <2>2. \A T \in SUBSET S : Below(e) \subseteq T /\ e \in T
                                  => Cardinality(Below(e)) < Cardinality(T)
      <3> TAKE T \in SUBSET S
      <3> HAVE Below(e) \subseteq T /\ e \in T
      <3>1. IsFiniteSet(T) /\ Cardinality(T) \in Nat
        BY <1>1, FS_Subset, FS_CardinalityType
      <3>2. e \notin Below(e)
        BY ViewsAssumption DEF Events
      <3>3. Cardinality(Below(e)) <= Cardinality(T)
            /\ (Cardinality(T) = Cardinality(Below(e)) => T = Below(e))
        BY <3>1, FS_Subset
      <3> QED
        BY <2>1, <3>1, <3>2, <3>3
    <2>3. Cardinality(Below(e)) < n
      BY <2>2
    <2>4. ASSUME NEW f \in S, e < f
          PROVE  Cardinality(Below(e)) < Cardinality(Below(f))
      <3>1. Below(e) \subseteq Below(f) /\ e \in Below(f) /\ Below(f) \in SUBSET S
        <4>1. e \in Int /\ f \in Int /\ \A d \in S : d \in Int
          BY <1>0
        <4>2. \A d \in S : d < e => d < f
          BY <2>4, <4>1
        <4> QED
          BY <2>4, <4>2
      <3> QED
        BY <2>2, <3>1
    <2> QED
      BY <1>1, <2>1, <2>3, <2>4
  <1>3. rank \in Injection(S, 0..(n - 1))
    <2>1. rank \in [S -> 0..(n - 1)]
      BY <1>2
    <2>2. ASSUME NEW e \in S, NEW f \in S, e # f
          PROVE  rank[e] # rank[f]
      <3>1. e < f \/ f < e
        BY <2>2, ViewsAssumption DEF Events
      <3>2. rank[e] = Cardinality(Below(e)) /\ rank[f] = Cardinality(Below(f))
        OBVIOUS
      <3>3. Cardinality(Below(e)) \in Int /\ Cardinality(Below(f)) \in Int
        <4>1. Cardinality(Below(e)) \in 0..(n - 1) /\ Cardinality(Below(f)) \in 0..(n - 1)
          BY <1>2
        <4> HIDE DEF Below
        <4> QED
          BY <1>1, <4>1
      <3> HIDE DEF rank, Below
      <3> QED
        BY <1>2, <3>1, <3>2, <3>3
    <2> QED
      BY <2>1, <2>2 DEF Injection, IsInjective
  <1>4. rank \in Surjection(S, 0..(n - 1))
    <2>1. IsFiniteSet(0..(n - 1)) /\ Cardinality(0..(n - 1)) = n
      <3>1. 0 \in Int /\ n - 1 \in Int
        BY <1>1
      <3>2. /\ IsFiniteSet(0..(n - 1))
            /\ Cardinality(0..(n - 1)) = IF 0 > n - 1 THEN 0 ELSE (n - 1) - 0 + 1
        BY <3>1, FS_Interval, Zenon
      <3> QED
        BY <1>1, <3>2
    <2> QED
      BY <1>3, <2>1, FS_Injection
  <1>5. ASSUME NEW i \in 1..n
        PROVE  Ascending(S)[i] \in S /\ rank[Ascending(S)[i]] = i - 1
    <2>1. \E e \in S : rank[e] = i - 1
      <3>1. i - 1 \in 0..(n - 1)
        BY <1>1
      <3> HIDE DEF rank
      <3> QED
        BY <1>4, <3>1 DEF Surjection
    <2>2. Ascending(S)[i] = CHOOSE e \in S : Cardinality(Below(e)) = i - 1
      BY DEF Ascending
    <2> HIDE DEF Below
    <2> QED
      BY <2>1, <2>2
  <1>6. DOMAIN Ascending(S) = 1..n
    BY DEF Ascending
  <1>7. Ascending(S) \in [1..n -> S]
    BY <1>5, <1>6 DEF Ascending
  <1> HIDE DEF rank
  <1>8. Ascending(S) \in Seq(S) /\ Len(Ascending(S)) = n
    BY <1>1, <1>7
  <1>9. \A i, j \in 1..n : Ascending(S)[i] = Ascending(S)[j] => i = j
    BY <1>1, <1>5
  <1>10. ASSUME NEW e \in S
         PROVE  \E i \in 1..n : Ascending(S)[i] = e
    <2>1. rank[e] \in 0..(n - 1)
      BY <1>3 DEF Injection
    <2>2. rank[e] + 1 \in 1..n
      BY <1>1, <2>1
    <2>3. rank[Ascending(S)[rank[e] + 1]] = rank[e] /\ Ascending(S)[rank[e] + 1] \in S
      BY <1>1, <1>5, <2>1, <2>2
    <2>4. Ascending(S)[rank[e] + 1] = e
      BY <1>3, <2>3 DEF Injection, IsInjective
    <2> QED
      BY <2>2, <2>4
  <1>11. ToSet(Ascending(S)) = S
    BY <1>5, <1>6, <1>10 DEF ToSet
  <1> QED
    BY <1>8, <1>9, <1>11

\* What a sequence shows after one more event.
LEMMA ShownAfterAppend ==
    ASSUME NEW s \in Seq(Events), NEW e \in Events
    PROVE  /\ Append(s, e) \in Seq(Events)
           /\ ToSet(Append(s, e)) = ToSet(s) \cup {e}
  <1> DEFINE t == Append(s, e)
  <1>1. /\ t \in Seq(Events) /\ Len(t) = Len(s) + 1 /\ Len(s) \in Nat
        /\ t[Len(s) + 1] = e /\ \A i \in 1..Len(s) : t[i] = s[i]
    OBVIOUS
  <1>2. DOMAIN t = 1..(Len(s) + 1) /\ DOMAIN s = 1..Len(s)
    BY <1>1
  <1> HIDE DEF t
  <1>3. ToSet(t) \subseteq ToSet(s) \cup {e}
    BY <1>1, <1>2 DEF ToSet
  <1>4. ToSet(s) \cup {e} \subseteq ToSet(t)
    BY <1>1, <1>2 DEF ToSet
  <1> QED
    BY <1>1, <1>3, <1>4 DEF t

\* What a sequence shows after another.
LEMMA ShownAfterMore ==
    ASSUME NEW s \in Seq(Events), NEW t \in Seq(Events)
    PROVE  /\ s \o t \in Seq(Events)
           /\ ToSet(s \o t) = ToSet(s) \cup ToSet(t)
  <1> DEFINE m == s \o t
  <1>1. /\ m \in Seq(Events) /\ Len(m) = Len(s) + Len(t)
        /\ Len(s) \in Nat /\ Len(t) \in Nat
    OBVIOUS
  <1>2. \A i \in 1..Len(s) : m[i] = s[i]
    OBVIOUS
  <1>3. \A i \in 1..Len(t) : m[Len(s) + i] = t[i]
    OBVIOUS
  <1>4. DOMAIN m = 1..Len(m) /\ DOMAIN s = 1..Len(s) /\ DOMAIN t = 1..Len(t)
    BY <1>1
  <1> HIDE DEF m
  <1>5. ASSUME NEW i \in 1..Len(m)
        PROVE  m[i] \in ToSet(s) \cup ToSet(t)
    <2>1. CASE i \in 1..Len(s)
      BY <1>2, <1>4, <2>1 DEF ToSet
    <2>2. CASE i - Len(s) \in 1..Len(t)
      <3>1. m[Len(s) + (i - Len(s))] = t[i - Len(s)]
        BY <1>3, <2>2
      <3>2. Len(s) + (i - Len(s)) = i
        BY <1>1
      <3> QED
        BY <1>4, <2>2, <3>1, <3>2 DEF ToSet
    <2> QED
      BY <1>1, <2>1, <2>2
  <1>6. ToSet(s) \subseteq ToSet(m)
    BY <1>1, <1>2, <1>4 DEF ToSet
  <1>7. ToSet(t) \subseteq ToSet(m)
    <2>1. \A i \in 1..Len(t) : Len(s) + i \in 1..Len(m)
      BY <1>1
    <2> QED
      BY <1>3, <1>4, <2>1 DEF ToSet
  <1>8. ToSet(m) \subseteq ToSet(s) \cup ToSet(t)
    BY <1>4, <1>5 DEF ToSet
  <1> QED
    BY <1>1, <1>6, <1>7, <1>8 DEF m

\* A sequence without repetition has as many elements as places.
LEMMA OnceMeansDistinct ==
    ASSUME NEW s \in Seq(Events), \A i, j \in 1..Len(s) : s[i] = s[j] => i = j
    PROVE  Cardinality(ToSet(s)) = Len(s)
  <1>1. DOMAIN s = 1..Len(s) /\ Len(s) \in Nat
    OBVIOUS
  <1>2. s \in [1..Len(s) -> ToSet(s)]
    BY <1>1 DEF ToSet
  <1>3. s \in Bijection(1..Len(s), ToSet(s))
    BY <1>1, <1>2 DEF Bijection, Injection, IsInjective, Surjection, ToSet
  <1>4. IsFiniteSet(1..Len(s)) /\ Cardinality(1..Len(s)) = Len(s)
    BY <1>1, FS_Interval
  <1> QED
    BY <1>3, <1>4, FS_Bijection DEF ExistsBijection

\* The SQL condition and the Python predicate select the same events: each
\* event type has one outcome at most, and a capture has the one in its payload.
LEMMA FiltersSelectAlike ==
    ASSUME filters \in Filters, NEW i \in Events
    PROVE  Selects(EventOf[i]) <=> Matches(EventOf[i])
  <1> DEFINE e == EventOf[i]
             outcomes == filters.outcomes
             types == UNION {OutcomeTypes[o] : o \in outcomes}
             payloads == {p \in {"captured", "failed"} :
                              IF p = "captured" THEN "success" \in outcomes
                              ELSE "failure" \in outcomes}
  <1>1. outcomes \subseteq {"success", "failure", "interrupted"}
    BY OutcomesAssumption DEF OutcomeTypes
  <1>2. CASE e.type = "capture.completed"
    <2>1. e.payload \in {"captured", "failed"}
      BY <1>2, OutcomesAssumption DEF Events
    <2>2. e.type \notin types
      BY <1>1, <1>2 DEF OutcomeTypes
    <2>3. (e.type \in types \/ (e.type = "capture.completed" /\ e.payload \in payloads))
              <=> OutcomeOf(e) \in outcomes
      BY <1>2, <2>1, <2>2 DEF OutcomeOf
    <2> QED
      BY <2>3 DEF Selects, Matches
  <1>3. CASE e.type # "capture.completed"
    <2>1. \A o, p \in DOMAIN OutcomeTypes :
              e.type \in OutcomeTypes[o] /\ e.type \in OutcomeTypes[p] => o = p
      BY DEF OutcomeTypes
    <2>2. DOMAIN OutcomeTypes = {"success", "failure", "interrupted"}
      BY DEF OutcomeTypes
    <2>3. e.type \in types <=> OutcomeOf(e) \in outcomes
      <3>1. CASE \E o \in DOMAIN OutcomeTypes : e.type \in OutcomeTypes[o]
        <4>1. OutcomeOf(e) \in DOMAIN OutcomeTypes /\ e.type \in OutcomeTypes[OutcomeOf(e)]
          BY <1>3, <3>1 DEF OutcomeOf
        <4> QED
          BY <1>1, <2>1, <2>2, <4>1
      <3>2. CASE ~\E o \in DOMAIN OutcomeTypes : e.type \in OutcomeTypes[o]
        <4>1. OutcomeOf(e) = None
          BY <1>3, <3>2 DEF OutcomeOf
        <4> QED
          BY <1>1, <2>2, <3>2, <4>1 DEF None
      <3> QED
        BY <3>1, <3>2
    <2> QED
      BY <1>3, <2>3 DEF Selects, Matches
  <1> QED
    BY <1>2, <1>3
-----------------------------------------------------------------------------
(* Where everything is. *)

\* Initially nothing has happened, and no viewer is connected.
LEMMA PlacedInit == Init => Placed
  <1> SUFFICES ASSUME Init PROVE Placed
    OBVIOUS
  <1> USE ViewsAssumption DEF Init
  <1>1. StreamInOrder
    BY DEF StreamInOrder
  <1>2. ViewerInPlace
    BY DEF ViewerInPlace
  <1>3. QueueInOrder
    <2>1. at \notin Subscribed
      BY DEF Subscribed
    <2>2. pos = 1 /\ queue = <<>> /\ overflow = FALSE
      OBVIOUS
    <2>3. queue \in Seq(Nat \ {0})
      BY <2>2
    <2>4. pos \in Nat \ {0}
      BY <2>2
    <2>5. overflow \in BOOLEAN
      BY <2>2, Zenon
    <2> HIDE DEF Init
    <2> QED
      BY <2>1, <2>3, <2>4, <2>5 DEF QueueInOrder
  <1>4. CursorInPlace
    BY DEF CursorInPlace, NoCursor
  <1> QED
    BY <1>1, <1>2, <1>3, <1>4 DEF Placed

\* Only the stream's own steps write the stream, and they keep its order.
LEMMA StreamStep ==
    ASSUME StreamInOrder, [Next]_vars
    PROVE  StreamInOrder'
  <1> USE ViewsAssumption DEF StreamInOrder, Events
  <1>1. CASE Happen
    BY <1>1 DEF Happen
  <1>2. CASE Publish
    <2>1. log' = Append(log, published + 1) /\ published' = published + 1 /\ published < happened
      BY <1>2 DEF Publish
    <2>2. published + 1 \in 1..LastEvent
      BY <2>1
    <2>3. log' \in Seq(Events) /\ Len(log') = Len(log) + 1 /\ Len(log) \in Nat
          /\ log'[Len(log) + 1] = published + 1 /\ \A i \in 1..Len(log) : log'[i] = log[i]
      BY <2>1, <2>2
    <2>4. UNCHANGED <<first, generation, happened, recorded, purged>>
      BY <1>2 DEF Publish
    <2>5. ASSUME NEW i \in 1..Len(log')
          PROVE  log'[i] = published' - Len(log') + i
      <3>1. CASE i \in 1..Len(log)
        BY <2>1, <2>3, <3>1
      <3>2. CASE i = Len(log) + 1
        BY <2>1, <2>3, <3>2
      <3> QED
        BY <2>3, <3>1, <3>2
    <2> QED
      BY <2>1, <2>3, <2>4, <2>5
  <1>3. CASE AgeOut
    BY <1>3 DEF AgeOut, LastSeq
  <1>4. CASE Replace
    BY <1>4 DEF Replace
  <1>5. ASSUME NEW e \in 1..LastEvent, Record(e) \/ Purge(e)
        PROVE  StreamInOrder'
    BY <1>5 DEF Record, Purge
  <1>6. CASE UNCHANGED streamVars
    BY <1>6 DEF streamVars
  <1>7. CASE Receive \/ Feed \/ Timeline \/ TooSlow \/ Disconnect \/ UNCHANGED vars
    <2>1. UNCHANGED streamVars
      BY <1>7 DEF Receive, Feed, ReplayUnavailable, Check, Follow, FeedTakes, Heartbeat, Drop,
                  Timeline, Resolve, Attach, ReadHistory, SendHistory, TimelineTakes,
                  TooSlow, Disconnect, vars
    <2> QED
      BY <1>6, <2>1
  <1> QED
    BY <1>1, <1>2, <1>3, <1>4, <1>5, <1>7 DEF Next

\* A viewer of either kind goes through its own places.
LEMMA ViewerStep ==
    ASSUME ViewerInPlace, [Next]_vars
    PROVE  ViewerInPlace'
  <1> USE DEF ViewerInPlace
  <1>1. CASE Happen \/ Publish \/ AgeOut \/ Replace \/ \E e \in 1..LastEvent : Record(e) \/ Purge(e)
    BY <1>1 DEF Happen, Publish, AgeOut, Replace, Record, Purge, Outside
  <1>2. CASE Receive \/ TooSlow \/ Disconnect \/ UNCHANGED vars
    BY <1>2 DEF Receive, TooSlow, Disconnect, Leave, vars
  <1>3. CASE Feed
    BY <1>3 DEF Feed, ReplayUnavailable, Check, Follow, Subscribe, FeedTakes, Heartbeat, Drop, Leave
  <1>4. CASE Timeline
    BY <1>4 DEF Timeline, Resolve, Attach, Subscribe, ReadHistory, SendHistory, TimelineTakes, Leave
  <1> QED
    BY <1>1, <1>2, <1>3, <1>4 DEF Next

\* A fresh subscription begins within the stream, with nothing in its queue.
LEMMA SubscribePlaces ==
    ASSUME StreamInOrder, NEW start \in 1..(Len(log) + 1), NEW place, Subscribe(start, place),
           UNCHANGED streamVars
    PROVE  QueueInOrder'
  <1>1. Len(log) \in Nat /\ log' = log /\ first' = first /\ first \in 1..(Len(log) + 1)
    BY DEF StreamInOrder, streamVars
  <1>2. pos' \in 1..(Len(log) + 1) /\ first <= pos' /\ queue' = <<>> /\ overflow' = FALSE
    BY <1>1 DEF Subscribe
  <1>3. queue' \in Seq(Nat \ {0}) /\ Len(queue') = 0
    BY <1>2
  <1>4. \A i \in 1..Len(queue') : queue'[i] = Dealt' + i
    BY <1>3
  <1>5. pos' \in Nat \ {0} /\ first' <= pos' /\ pos' <= Len(log') + 1
    BY <1>1, <1>2
  <1>6. overflow' \in BOOLEAN
    BY <1>2
  <1> QED
    BY <1>3, <1>4, <1>5, <1>6 DEF QueueInOrder

\* Taking the head of a queue leaves a queue in order, one further on.
LEMMA TakingPlaces ==
    ASSUME QueueInOrder, queue # <<>>, ~overflow, at \in Subscribed,
           queue' = Tail(queue), UNCHANGED <<pos, overflow, log, first>>
    PROVE  QueueInOrder' /\ Head(queue) = Dealt + 1 /\ Dealt' = Dealt + 1
           /\ Head(queue) \in 1..Len(log)
  <1>1. /\ Len(queue) \in Nat \ {0} /\ Len(Tail(queue)) = Len(queue) - 1
        /\ Head(queue) = queue[1] /\ Tail(queue) \in Seq(Nat \ {0})
        /\ \A i \in 1..(Len(queue) - 1) : Tail(queue)[i] = queue[i + 1]
        /\ queue[1] \in Nat \ {0}
    BY DEF QueueInOrder
  <1>2. /\ pos \in Nat \ {0} /\ first <= pos /\ pos <= Len(log) + 1
        /\ \A i \in 1..Len(queue) : queue[i] = Dealt + i
    BY DEF QueueInOrder
  <1>3. Dealt \in Int /\ Dealt' = Dealt + 1
    BY <1>1, <1>2 DEF Dealt
  <1>4. Head(queue) = Dealt + 1
    BY <1>1, <1>2
  <1>5. \A i \in 1..Len(queue') : queue'[i] = Dealt' + i
    BY <1>1, <1>2, <1>3
  <1>6. Head(queue) \in 1..Len(log)
    BY <1>1, <1>2, <1>4, Z3 DEF Dealt, QueueInOrder
  <1> QED
    BY <1>1, <1>2, <1>3, <1>4, <1>5, <1>6 DEF QueueInOrder
\* A viewer that leaves takes its queue with it.
LEMMA LeavingPlaces ==
    ASSUME NEW place \in {"away", "gone", "done"}, Leave(place)
    PROVE  QueueInOrder'
  <1>1. at' \notin Subscribed /\ pos' = 1 /\ queue' = <<>> /\ overflow' = FALSE
    BY DEF Leave, Subscribed
  <1>2. queue' \in Seq(Nat \ {0})
    BY <1>1
  <1>3. pos' \in Nat \ {0}
    BY <1>1
  <1>4. overflow' \in BOOLEAN
    BY <1>1, Zenon
  <1> QED
    BY <1>1, <1>2, <1>3, <1>4 DEF QueueInOrder
\* A message received is not yet dealt with.
LEMMA ReceivingDealsNothing ==
    ASSUME QueueInOrder, Receive
    PROVE  ~overflow' => ~overflow /\ Dealt' = Dealt
  <1> SUFFICES ASSUME ~overflow' PROVE ~overflow /\ Dealt' = Dealt
    OBVIOUS
  <1>1. ~overflow /\ queue' = Append(queue, pos) /\ pos' = pos + 1
    BY DEF Receive
  <1>2. queue \in Seq(Nat \ {0}) /\ pos \in Nat \ {0}
    BY DEF QueueInOrder
  <1>3. Len(queue) \in Nat /\ Len(queue') = Len(queue) + 1
    BY <1>1, <1>2
  <1>4. Dealt' = (pos + 1) - (Len(queue) + 1) - 1
    BY <1>1, <1>3 DEF Dealt
  <1>5. Dealt' = Dealt
    BY <1>2, <1>3, <1>4 DEF Dealt
  <1> QED
    BY <1>1, <1>5

\* The queue stays the stretch of the stream before the consumer's position.
LEMMA QueueStep ==
    ASSUME StreamInOrder, ViewerInPlace, QueueInOrder, CursorInPlace, [Next]_vars
    PROVE  QueueInOrder'
  <1>0. /\ Len(log) \in Nat /\ first \in 1..(Len(log) + 1)
        /\ pos \in Nat \ {0} /\ queue \in Seq(Nat \ {0}) /\ overflow \in BOOLEAN
        /\ Len(queue) \in Nat
    BY DEF StreamInOrder, QueueInOrder
  <1>1. CASE Happen \/ \E e \in 1..LastEvent : Record(e) \/ Purge(e)
    BY <1>1 DEF Happen, Record, Purge, Outside, connectionVars, QueueInOrder, Dealt
  <1>2. CASE Publish
    <2>1. UNCHANGED <<first, at, pos, queue, overflow>> /\ Dealt' = Dealt
      BY <1>2 DEF Publish, Outside, connectionVars, Dealt
    <2>2. Len(log') = Len(log) + 1
      BY <1>2 DEF Publish, StreamInOrder
    <2> QED
      BY <1>0, <2>1, <2>2 DEF QueueInOrder
  <1>3. CASE AgeOut
    BY <1>0, <1>3 DEF AgeOut, Outside, connectionVars, QueueInOrder, Dealt
  <1>4. CASE Replace
    <2>1. UNCHANGED <<at, pos, queue, overflow>> /\ at \notin Subscribed
      BY <1>4 DEF Replace, Outside, connectionVars, Subscribed
    <2> QED
      BY <2>1 DEF QueueInOrder
  <1>5. CASE Receive
    <2>1. /\ at \in Subscribed /\ pos <= Len(log) /\ pos' = pos + 1
          /\ UNCHANGED <<at, log, first>>
      BY <1>5 DEF Receive, LastSeq, streamVars
    <2>2. CASE Fits
      <3>1. queue' = Append(queue, pos) /\ overflow' = overflow
        BY <1>0, <1>5, <2>2 DEF Receive
      <3>2. /\ queue' \in Seq(Nat \ {0}) /\ Len(queue') = Len(queue) + 1
            /\ queue'[Len(queue) + 1] = pos /\ \A i \in 1..Len(queue) : queue'[i] = queue[i]
        BY <1>0, <3>1
      <3>3. Dealt' = Dealt /\ pos = Dealt + Len(queue) + 1
        BY <1>0, <2>1, <3>2 DEF Dealt
      <3>4. ~overflow => \A i \in 1..Len(queue') : queue'[i] = Dealt' + i
        <4>1. ~overflow => \A i \in 1..Len(queue) : queue[i] = Dealt + i
          BY <2>1 DEF QueueInOrder
        <4>2. Dealt \in Int
          BY <1>0 DEF Dealt
        <4>3. ASSUME ~overflow, NEW i \in 1..Len(queue')
              PROVE  queue'[i] = Dealt + i
          <5>1. CASE i \in 1..Len(queue)
            BY <3>2, <4>1, <4>3, <5>1
          <5>2. CASE i = Len(queue) + 1
            BY <1>0, <3>2, <3>3, <4>2, <5>2
          <5> QED
            BY <1>0, <3>2, <4>3, <5>1, <5>2
        <4> QED
          BY <3>3, <4>3
      <3> QED
        BY <1>0, <2>1, <3>1, <3>2, <3>4 DEF QueueInOrder
    <2>3. CASE ~Fits
      <3>1. queue' = queue /\ overflow' = TRUE
        BY <1>5, <2>3 DEF Receive
      <3>2. first' <= pos' /\ pos' <= Len(log') + 1 /\ pos' \in Nat \ {0}
        BY <1>0, <2>1 DEF QueueInOrder
      <3> QED
        BY <1>0, <3>1, <3>2 DEF QueueInOrder
    <2> QED
      BY <2>2, <2>3
  <1>6. CASE Follow
    <2>1. UNCHANGED streamVars /\ at = "checked"
      BY <1>6 DEF Follow
    <2>2. CASE cursor # NoCursor /\ Subscribe(StartAfter(cursor), "following")
      <3>1. StartAfter(cursor) \in 1..(Len(log) + 1)
        BY <1>0, <2>1, <2>2 DEF StartAfter, CursorInPlace
      <3> QED
        BY <2>1, <2>2, <3>1, SubscribePlaces
    <2>3. ASSUME NEW start \in first..(LastSeq + 1), Subscribe(start, "following")
          PROVE  QueueInOrder'
      <3>1. start \in 1..(Len(log) + 1)
        BY <1>0 DEF LastSeq
      <3> QED
        BY <2>1, <2>3, <3>1, SubscribePlaces
    <2> QED
      BY <1>6, <2>2, <2>3 DEF Follow
  <1>7. CASE Attach
    BY <1>0, <1>7, SubscribePlaces DEF Attach
  <1>8. CASE FeedTakes \/ Heartbeat
    <2>1. at = "following" /\ ~overflow /\ UNCHANGED <<at, pos, overflow, log, first>>
      BY <1>8 DEF FeedTakes, Heartbeat, Taken, streamVars
    <2>2. CASE queue # <<>>
      <3>1. queue' = Tail(queue)
        BY <1>8, <2>2 DEF FeedTakes, Heartbeat, Taken
      <3> QED
        BY <2>1, <2>2, <3>1, TakingPlaces DEF Subscribed
    <2>3. CASE queue = <<>>
      <3>1. queue' = queue
        BY <1>8, <2>3 DEF FeedTakes, Heartbeat, Taken
      <3> QED
        BY <2>1, <3>1 DEF QueueInOrder, Dealt
    <2> QED
      BY <2>2, <2>3
  <1>9. CASE TimelineTakes
    <2>1. at = "following" /\ ~overflow /\ queue # <<>> /\ UNCHANGED <<log, first>>
      BY <1>9 DEF TimelineTakes, streamVars
    <2>2. CASE Leave("done")
      BY <2>2, LeavingPlaces
    <2>3. CASE Taken /\ UNCHANGED at
      BY <2>1, <2>3, TakingPlaces DEF Taken, Subscribed
    <2> QED
      BY <1>9, <2>2, <2>3 DEF TimelineTakes
  <1>10. CASE SendHistory
    <2>1. CASE Leave("done")
      BY <2>1, LeavingPlaces
    <2>2. CASE at' = "following" /\ UNCHANGED connectionVars
      BY <1>10, <2>2 DEF SendHistory, connectionVars, streamVars, QueueInOrder, Dealt, Subscribed
    <2> QED
      BY <1>10, <2>1, <2>2 DEF SendHistory
  <1>11. CASE Drop \/ TooSlow \/ Disconnect
    BY <1>11, LeavingPlaces DEF Drop, TooSlow, Disconnect
  <1>12. CASE ReplayUnavailable \/ Check \/ Resolve \/ ReadHistory \/ UNCHANGED vars
    <2>1. UNCHANGED <<log, first, pos, queue, overflow>>
      BY <1>12 DEF ReplayUnavailable, Check, Resolve, ReadHistory, vars, streamVars, connectionVars
    <2>2. at' \in Subscribed => at \in Subscribed
      BY <1>12 DEF ReplayUnavailable, Check, Resolve, ReadHistory, vars, Subscribed
    <2> QED
      BY <2>1, <2>2 DEF QueueInOrder, Dealt
  <1> QED
    BY <1>1, <1>2, <1>3, <1>4, <1>5, <1>6, <1>7, <1>8, <1>9, <1>10, <1>11, <1>12
       DEF Next, Feed, Timeline
\* The cursor and the origin stay in the stream they belong to: a heartbeat
\* and a message only move the cursor to what the viewer has dealt with.
LEMMA CursorStep ==
    ASSUME StreamInOrder, ViewerInPlace, QueueInOrder, CursorInPlace, [Next]_vars
    PROVE  CursorInPlace'
  <1>0. /\ Len(log) \in Nat /\ Len(log) <= LastEvent /\ LastEvent \in Nat
        /\ first \in 1..(Len(log) + 1) /\ generation \in Nat
        /\ pos \in Nat \ {0} /\ queue \in Seq(Nat \ {0}) /\ Len(queue) \in Nat
        /\ NoCursor \in Nat /\ NoCursor > Len(log)
    BY ViewsAssumption DEF StreamInOrder, QueueInOrder, NoCursor
  <1>1. CASE Happen \/ AgeOut \/ \E e \in 1..LastEvent : Record(e) \/ Purge(e)
    BY <1>1 DEF Happen, AgeOut, Record, Purge, Outside, connectionVars, readerVars, CursorInPlace, Dealt
  <1>2. CASE Publish
    <2>1. UNCHANGED <<generation, kind, at, connectionVars, readerVars>>
      BY <1>2 DEF Publish, Outside
    <2>2. Len(log') = Len(log) + 1
      BY <1>2 DEF Publish, StreamInOrder
    <2> QED
      BY <1>0, <2>1, <2>2 DEF CursorInPlace, connectionVars, readerVars, Dealt
  <1>3. CASE Replace
    <2>1. generation' = generation + 1 /\ at = "away" /\ UNCHANGED <<at, kind, readerVars, lastSequence>>
      BY <1>3 DEF Replace, Outside, connectionVars
    <2>2. origin' \in [generation: 0..generation', from: Nat \ {0}]
      BY <1>0, <2>1 DEF CursorInPlace, readerVars
    <2>3. origin'.generation # generation'
      BY <1>0, <2>1 DEF CursorInPlace, readerVars
    <2> QED
      BY <2>1, <2>2, <2>3 DEF CursorInPlace, readerVars
  <1>4. CASE Receive
    <2>1. UNCHANGED <<streamVars, at, kind, readerVars, lastSequence>>
      BY <1>4 DEF Receive
    <2>2. ~overflow' => ~overflow /\ Dealt' = Dealt
      BY <1>4, ReceivingDealsNothing
    <2> QED
      BY <2>1, <2>2 DEF CursorInPlace, streamVars, readerVars
  <1>5. CASE Follow
    <2>1. /\ at = "checked" /\ at' = "following" /\ lastSequence' = cursor
          /\ UNCHANGED <<streamVars, kind, shown, history, cursor, lost>>
      BY <1>5 DEF Follow, Subscribe
    <2>2. origin' \in [generation: 0..generation', from: Nat \ {0}]
      <3>1. CASE UNCHANGED origin
        BY <2>1, <3>1 DEF CursorInPlace, streamVars
      <3>2. ASSUME NEW start \in first..(LastSeq + 1),
                   origin' = [generation |-> generation, from |-> start]
            PROVE  origin' \in [generation: 0..generation', from: Nat \ {0}]
        BY <1>0, <2>1, <3>2 DEF LastSeq, streamVars
      <3> QED
        BY <1>5, <3>1, <3>2 DEF Follow
    <2>3. cursor # NoCursor => cursor + 1 <= pos' /\ cursor \in Nat /\ pos' \in Nat /\ queue' = <<>>
      BY <1>0, <1>5, <2>1 DEF Follow, Subscribe, StartAfter, CursorInPlace
    <2>4. cursor # NoCursor => cursor <= Dealt'
      BY <2>3 DEF Dealt
    <2> QED
      BY <2>1, <2>2, <2>4 DEF CursorInPlace, streamVars
  <1>6. CASE FeedTakes
    <2>1. /\ at = "following" /\ ~overflow /\ queue # <<>> /\ queue' = Tail(queue)
          /\ UNCHANGED <<at, kind, streamVars, pos, overflow, history, origin>>
          /\ lastSequence' = Head(queue) /\ cursor' \in {cursor, Head(queue)}
          /\ shown' \in {shown, Append(shown, log[Head(queue)])}
      BY <1>6 DEF FeedTakes, Taken
    <2>2. Dealt' = Dealt + 1 /\ Head(queue) = Dealt + 1 /\ Head(queue) \in 1..Len(log)
      BY <2>1, TakingPlaces DEF Subscribed, streamVars
    <2>3. shown' \in Seq(Events)
      <3>1. log[Head(queue)] \in Events
        BY <2>2 DEF StreamInOrder
      <3>2. shown \in Seq(Events)
        BY DEF CursorInPlace
      <3>3. Append(shown, log[Head(queue)]) \in Seq(Events)
        BY <3>1, <3>2, ShownAfterAppend
      <3> QED
        BY <2>1, <3>2, <3>3
    <2>4. cursor' \in Nat /\ lastSequence' \in Nat /\ lastSequence' <= Dealt'
      <3>1. cursor \in Nat /\ Head(queue) \in Nat
        BY <2>2 DEF CursorInPlace
      <3> QED
        BY <2>1, <2>2, <3>1
    <2>5. kind = "activity" /\ cursor' # NoCursor /\ origin.generation = generation
              => cursor' <= Len(log)
      BY <1>0, <2>1, <2>2 DEF CursorInPlace
    <2> QED
      BY <2>1, <2>3, <2>4, <2>5 DEF CursorInPlace, streamVars
  <1>7. CASE Heartbeat
    <2>1. /\ kind = "activity" /\ at = "following" /\ ~overflow /\ cursor' = lastSequence
          /\ UNCHANGED <<at, kind, streamVars, pos, overflow, lastSequence, shown, history, origin>>
          /\ queue # <<>> => queue' = Tail(queue)
          /\ queue = <<>> => queue' = queue
      BY <1>7 DEF Heartbeat
    <2>2. Dealt \in Int /\ Dealt <= Len(log) /\ Dealt' >= Dealt
      <3>1. Dealt \in Int /\ Dealt <= Len(log)
        BY <1>0, <2>1 DEF Dealt, QueueInOrder, Subscribed
      <3>2. CASE queue # <<>>
        BY <2>1, <3>1, <3>2, TakingPlaces DEF Subscribed, streamVars
      <3>3. CASE queue = <<>>
        BY <2>1, <3>1, <3>3 DEF Dealt
      <3> QED
        BY <3>1, <3>2, <3>3
    <2>3. lastSequence # NoCursor => lastSequence <= Len(log) /\ lastSequence <= Dealt'
      <3>1. Dealt' \in Int
        BY <1>0, <2>1 DEF Dealt
      <3> QED
        BY <1>0, <2>1, <2>2, <3>1 DEF CursorInPlace
    <2> QED
      BY <2>1, <2>3 DEF CursorInPlace, streamVars
  <1>8. CASE ReplayUnavailable
    <2>1. /\ UNCHANGED <<streamVars, at, kind, pos, queue, overflow, lastSequence, history, origin>>
          /\ at = "away" /\ cursor' = NoCursor
          /\ shown' = shown \o Ascending({e \in recorded : Selects(EventOf[e])})
      BY <1>8 DEF ReplayUnavailable, connectionVars
    <2>2. shown' \in Seq(Events)
      <3> DEFINE S == {e \in recorded : Selects(EventOf[e])}
      <3>1. S \in SUBSET Events
        BY DEF StreamInOrder
      <3> HIDE DEF S
      <3>2. Ascending(S) \in Seq(Events)
        BY <3>1, AscendingListsOnce
      <3> QED
        BY <2>1, <3>2, ShownAfterMore DEF CursorInPlace, S
    <2> QED
      BY <1>0, <2>1, <2>2 DEF CursorInPlace, streamVars
  <1>9. CASE SendHistory
    <2>1. /\ UNCHANGED <<streamVars, kind, history, cursor, origin>> /\ at = "sending"
          /\ shown' = Ascending(history) /\ at' \in {"done", "following"}
      BY <1>9 DEF SendHistory, Leave
    <2>2. lastSequence' \in Nat
      BY <1>0, <1>9 DEF SendHistory, Leave, connectionVars, CursorInPlace
    <2>3. shown' \in Seq(Events)
      BY <2>1, AscendingListsOnce DEF CursorInPlace
    <2>4. kind # "activity"
      BY <2>1 DEF ViewerInPlace
    <2> QED
      BY <2>1, <2>2, <2>3, <2>4 DEF CursorInPlace, streamVars
  <1>10. CASE TimelineTakes
    <2>1. /\ kind = "debug" /\ at = "following" /\ ~overflow /\ queue # <<>>
          /\ UNCHANGED <<streamVars, kind, history, cursor, origin>> /\ at' \in {"done", "following"}
          /\ shown' \in {shown, Append(shown, log[Head(queue)])}
          /\ lastSequence' \in {NoCursor, Head(queue)}
      BY <1>10 DEF TimelineTakes, Leave, Taken
    <2>2. Head(queue) \in Nat /\ log[Head(queue)] \in Events
      <3>1. Head(queue) = queue[1] /\ Len(queue) \in Nat \ {0} /\ queue[1] = Dealt + 1
        BY <1>0, <2>1 DEF QueueInOrder, Subscribed
      <3>2. Head(queue) \in 1..Len(log)
        BY <1>0, <2>1, <3>1 DEF QueueInOrder, Subscribed, Dealt
      <3> QED
        BY <3>2 DEF StreamInOrder
    <2>3. shown' \in Seq(Events)
      BY <2>1, <2>2, ShownAfterAppend DEF CursorInPlace
    <2> QED
      BY <1>0, <2>1, <2>2, <2>3 DEF CursorInPlace, streamVars
  <1>11. CASE Attach
    <2>1. /\ UNCHANGED <<streamVars, kind, shown, history, cursor>> /\ at' = "subscribed"
          /\ origin' = [generation |-> generation, from |-> first] /\ lastSequence' = cursor
          /\ at = "resolved"
      BY <1>11 DEF Attach, Subscribe
    <2>2. kind # "activity"
      BY <2>1 DEF ViewerInPlace
    <2> QED
      BY <1>0, <2>1, <2>2 DEF CursorInPlace, streamVars
  <1>12. CASE ReadHistory
    BY <1>12 DEF ReadHistory, Oldest, CursorInPlace, StreamInOrder, streamVars, connectionVars, Dealt
  <1>13. CASE Drop \/ TooSlow \/ Disconnect
    <2>1. /\ UNCHANGED <<streamVars, kind, readerVars>> /\ at' \in {"away", "gone"}
          /\ lastSequence' = NoCursor
      BY <1>13 DEF Drop, TooSlow, Disconnect, Leave
    <2> QED
      BY <1>0, <2>1 DEF CursorInPlace, streamVars, readerVars
  <1>14. CASE Check
    <2>1. /\ UNCHANGED <<streamVars, kind, connectionVars, readerVars>> /\ at' = "checked"
          /\ cursor # NoCursor => cursor <= Len(log)
      BY <1>0, <1>14 DEF Check, Recreated, LastSeq, CursorInPlace
    <2> QED
      BY <2>1 DEF CursorInPlace, streamVars, readerVars, connectionVars
  <1>15. CASE Resolve \/ UNCHANGED vars
    <2>1. UNCHANGED <<streamVars, kind, connectionVars, readerVars>>
          /\ (at' = at \/ at' \in {"resolved", "gone"})
      BY <1>15 DEF Resolve, vars
    <2> QED
      BY <2>1 DEF CursorInPlace, streamVars, connectionVars, readerVars, Dealt
  <1> QED
    BY <1>1, <1>2, <1>3, <1>4, <1>5, <1>6, <1>7, <1>8, <1>9, <1>10, <1>11, <1>12, <1>13, <1>14,
       <1>15 DEF Next, Feed, Timeline

\* All stays where it was placed.
LEMMA PlacedStep ==
    ASSUME Placed, [Next]_vars
    PROVE  Placed'
  BY StreamStep, ViewerStep, QueueStep, CursorStep DEF Placed
-----------------------------------------------------------------------------
(* The activity feed. *)

\* A viewer stays of its kind, and keeps its filters.
LEMMA KindStays ==
    ASSUME [Next]_vars
    PROVE  kind' = kind /\ filters' = filters
  BY DEF Next, Happen, Publish, AgeOut, Replace, Record, Purge, Outside, Receive, Feed,
         ReplayUnavailable, Check, Follow, FeedTakes, Heartbeat, Drop, Timeline, Resolve,
         Attach, ReadHistory, SendHistory, TimelineTakes, TooSlow, Disconnect, vars

\* What a feed or a timeline has dealt with lies in the stream.
LEMMA DealtInStream ==
    ASSUME Placed
    PROVE  /\ Len(log) \in Nat /\ Len(queue) \in Nat /\ pos \in Nat \ {0}
           /\ Dealt \in Int /\ origin.from \in Nat \ {0} /\ cursor \in Nat
           /\ at \in Subscribed => Dealt <= Len(log)
           /\ Dealt' = pos' - Len(queue') - 1
  BY DEF Placed, StreamInOrder, QueueInOrder, CursorInPlace, Dealt

\* What is shown matches, after a step that only shows more of what matches.
LEMMA ShownStillMatch ==
    ASSUME filters' = filters, \A e \in ToSet(shown') : Matches(EventOf[e])
    PROVE  AllShownMatch'
  <1>1. ASSUME NEW e, Matches(EventOf[e])
        PROVE  Matches(EventOf[e])'
    BY <1>1 DEF Matches
  <1> QED
    BY <1>1 DEF AllShownMatch

\* What was shown or lost remains so while the stream only grows and ages.
LEMMA GivenStays ==
    ASSUME Placed, NEW s \in 1..Len(log), Given(s), filters' = filters,
           first <= first', first' \in Nat, log'[s] = log[s],
           ToSet(shown) \subseteq ToSet(shown'), lost \subseteq lost'
    PROVE  Given(s)'
  <1>1. Matches(EventOf[log[s]])' => Matches(EventOf[log[s]])
    BY DEF Matches
  <1>2. first' <= s => first <= s
    BY DEF Placed, StreamInOrder
  <1> QED
    BY <1>1, <1>2 DEF Given

\* The stream's own steps take nothing from a feed.
LEMMA FeedKeptOutside ==
    ASSUME Placed, FeedKept, kind = "activity", kind' = kind, filters' = filters,
           Happen \/ Publish \/ AgeOut \/ Replace \/ \E e \in 1..LastEvent : Record(e) \/ Purge(e)
    PROVE  FeedKept'
  <1>1. UNCHANGED <<at, connectionVars, readerVars>>
    BY DEF Happen, Publish, AgeOut, Replace, Record, Purge, Outside
  <1>2. AllShownMatch'
    BY <1>1, ShownStillMatch DEF FeedKept, AllShownMatch, readerVars
  <1>3. CASE Replace
    <2>1. generation' = generation + 1 /\ at = "away"
      BY <1>3 DEF Replace
    <2>2. origin'.generation # generation'
      BY <1>1, <2>1 DEF Placed, StreamInOrder, CursorInPlace, readerVars
    <2> QED
      BY <1>1, <1>2, <2>1, <2>2 DEF FeedKept
  <1>4. CASE ~Replace
    <2>1. /\ generation' = generation /\ first <= first' /\ first' \in Nat
          /\ \A s \in 1..Len(log) : log'[s] = log[s]
      <3>1. CASE Publish
        BY <3>1 DEF Publish, Placed, StreamInOrder
      <3>2. CASE Happen \/ AgeOut \/ \E e \in 1..LastEvent : Record(e) \/ Purge(e)
        BY <3>2 DEF Happen, AgeOut, Record, Purge, Placed, StreamInOrder
      <3> QED
        BY <1>4, <3>1, <3>2
    <2>2. \A s \in 1..Len(log) : Given(s) => Given(s)'
      BY <1>1, <2>1, GivenStays DEF readerVars
    <2>3. cursor # NoCursor /\ origin.generation = generation
              => \A s \in origin.from..cursor : s \in 1..Len(log) /\ Given(s)
      BY DealtInStream DEF Placed, CursorInPlace, FeedKept
    <2>4. at = "following" /\ ~overflow /\ origin.generation = generation
              => \A s \in origin.from..Dealt : s \in 1..Len(log) /\ Given(s)
      BY DealtInStream DEF FeedKept, Subscribed
    <2> HIDE DEF Given
    <2> QED
      BY <1>1, <1>2, <2>1, <2>2, <2>3, <2>4 DEF FeedKept, readerVars, connectionVars, Dealt
  <1> QED
    BY <1>3, <1>4

\* The consumer, and a feed that connects or leaves, change nothing of what
\* has been dealt with.
LEMMA FeedKeptConnecting ==
    ASSUME Placed, FeedKept, kind = "activity", kind' = kind, filters' = filters,
           Receive \/ Check \/ Drop \/ TooSlow \/ UNCHANGED vars
    PROVE  FeedKept'
  <1>1. UNCHANGED <<streamVars, readerVars>>
    BY DEF Receive, Check, Drop, TooSlow, vars
  <1>2. at' = "following" /\ ~overflow' => at = "following" /\ ~overflow /\ Dealt' = Dealt
    <2>1. CASE Receive
      <3>1. at' = at
        BY <2>1 DEF Receive
      <3> QED
        BY <2>1, <3>1, ReceivingDealsNothing DEF Placed
    <2>2. CASE Check \/ Drop \/ TooSlow
      BY <2>2 DEF Check, Drop, TooSlow, Leave
    <2>3. CASE UNCHANGED vars
      BY <2>3 DEF vars, connectionVars, Dealt
    <2> QED
      BY <2>1, <2>2, <2>3
  <1>3. \A s : Given(s)' <=> Given(s)
    BY <1>1 DEF Given, Matches, streamVars, readerVars
  <1>4. AllShownMatch'
    BY <1>1, ShownStillMatch DEF FeedKept, AllShownMatch, readerVars
  <1> HIDE DEF Given
  <1> QED
    BY <1>1, <1>2, <1>3, <1>4 DEF FeedKept, streamVars, readerVars

\* A history is reloaded with the events that the filters match.
LEMMA FeedKeptReloading ==
    ASSUME Placed, FeedKept, kind = "activity", kind' = kind, filters' = filters,
           ReplayUnavailable
    PROVE  FeedKept'
  <1> DEFINE S == {e \in recorded : Selects(EventOf[e])}
  <1>1. at' = "away" /\ cursor' = NoCursor /\ shown' = shown \o Ascending(S)
    BY DEF ReplayUnavailable
  <1>2. S \in SUBSET Events
    BY DEF Placed, StreamInOrder
  <1>3. \A e \in S : Matches(EventOf[e])
    BY <1>2, FiltersSelectAlike DEF Placed, ViewerInPlace
  <1> HIDE DEF S
  <1>4. Ascending(S) \in Seq(Events) /\ ToSet(Ascending(S)) = S
    BY <1>2, AscendingListsOnce
  <1>5. shown \in Seq(Events)
    BY DEF Placed, CursorInPlace
  <1>6. \A e \in ToSet(shown) : Matches(EventOf[e])
    BY DEF FeedKept, AllShownMatch
  <1>7. \A e \in ToSet(shown') : Matches(EventOf[e])
    BY <1>1, <1>3, <1>4, <1>5, <1>6, ShownAfterMore
  <1>8. AllShownMatch'
    BY <1>7, ShownStillMatch
  <1> QED
    BY <1>1, <1>8 DEF FeedKept

\* A feed follows on where its cursor was, or from an origin of its own.
LEMMA FeedKeptFollowing ==
    ASSUME Placed, FeedKept, kind = "activity", kind' = kind, filters' = filters, Follow
    PROVE  FeedKept'
  <1>1. UNCHANGED <<streamVars, shown, cursor, lost>> /\ queue' = <<>>
    BY DEF Follow, Subscribe
  <1>2. AllShownMatch'
    BY <1>1, ShownStillMatch DEF FeedKept, AllShownMatch
  <1>3. \A s : Given(s)' <=> Given(s)
    BY <1>1 DEF Given, Matches, streamVars
  <1>4. first \in Nat \ {0}
    BY DEF Placed, StreamInOrder
  <1>5. CASE cursor # NoCursor /\ Subscribe(StartAfter(cursor), "following") /\ UNCHANGED origin
    <2>1. pos' \in {first, cursor + 1}
      BY <1>5 DEF Subscribe, StartAfter
    <2>2. Dealt' = pos' - 1
      BY <1>1, <1>4, <2>1, DealtInStream DEF Dealt
    <2>3. ASSUME origin.generation = generation, NEW s \in origin.from..Dealt'
          PROVE  Given(s)
      <3>1. CASE s \in origin.from..cursor
        BY <1>5, <2>3, <3>1 DEF FeedKept
      <3>2. CASE s > cursor
        <4>1. s < first
          <5>1. cursor \in Nat /\ origin.from \in Nat
            BY DealtInStream
          <5>2. pos' \in Nat
            BY <1>4, <2>1, <5>1
          <5>3. s \in Int /\ s <= pos' - 1
            <6> DEFINE d == Dealt'
                       o == origin.from
            <6>1. d = pos' - 1 /\ d \in Int /\ o \in Nat
              BY <2>2, <5>1, <5>2
            <6>2. s \in o..d
              OBVIOUS
            <6> HIDE DEF d, o
            <6>3. s \in Int /\ s <= d
              BY <6>1, <6>2
            <6> QED
              BY <6>1, <6>3
          <5>4. pos' # cursor + 1
            BY <3>2, <5>1, <5>3
          <5> QED
            <6>1. pos' = first
              BY <2>1, <5>4
            <6> QED
              BY <1>4, <5>3, <6>1
        <4> QED
          BY <1>4, <4>1, <2>3, DealtInStream DEF Given
      <3> QED
        BY <2>3, <3>1, <3>2, DealtInStream
    <2> HIDE DEF Given
    <2> QED
      BY <1>1, <1>2, <1>3, <1>5, <2>3 DEF FeedKept, streamVars
  <1>6. ASSUME NEW start \in first..(LastSeq + 1), cursor = NoCursor,
               Subscribe(start, "following"),
               origin' = [generation |-> generation, from |-> start]
        PROVE  FeedKept'
    <2>1. start \in Nat /\ first <= start
      BY <1>4, DealtInStream DEF LastSeq
    <2>2. pos' = start /\ Dealt' = start - 1 /\ origin'.from = start
      BY <1>1, <1>4, <1>6, <2>1 DEF Subscribe, Dealt
    <2>3. origin'.from..Dealt' = {}
      BY <2>1, <2>2
    <2> QED
      BY <1>1, <1>2, <1>6, <2>3 DEF FeedKept
  <1> QED
    BY <1>5, <1>6 DEF Follow

\* A feed stays complete when all it deals with in a step is the next message,
\* and its cursor stays or moves to what it has dealt with.
LEMMA FeedAdvances ==
    ASSUME Placed, FeedKept, kind = "activity", kind' = kind, filters' = filters,
           at = "following", ~overflow, UNCHANGED <<streamVars, at, overflow, origin>>,
           NEW h \in Nat, h = Dealt + 1,
           Dealt' = Dealt \/ (Dealt' = h /\ Given(h)'),
           \A s \in 1..Len(log) : Given(s) => Given(s)',
           cursor' \in {cursor, NoCursor} \/ (cursor' \in Nat /\ cursor' <= Dealt'),
           \A e \in ToSet(shown') : Matches(EventOf[e])
    PROVE  FeedKept'
  <1>1. origin' = origin /\ generation' = generation
    BY DEF streamVars
  <1>2. AllShownMatch'
    BY ShownStillMatch
  <1>3. ASSUME origin.generation = generation, NEW s \in origin.from..Dealt'
        PROVE  Given(s)'
    <2>1. CASE s = h /\ Dealt' = h
      BY <2>1
    <2>2. CASE s \in origin.from..Dealt
      <3>1. Given(s) /\ s \in 1..Len(log)
        BY <1>3, <2>2, DealtInStream DEF FeedKept, Subscribed
      <3> QED
        BY <3>1
    <2> QED
      BY <1>3, <2>1, <2>2, DealtInStream
  <1>4. ASSUME origin.generation = generation, cursor' # NoCursor, NEW s \in origin.from..cursor'
        PROVE  Given(s)'
    <2>1. CASE cursor' = cursor
      <3>1. Given(s) /\ s \in 1..Len(log)
        BY <1>4, <2>1, DealtInStream DEF FeedKept, Placed, CursorInPlace
      <3> QED
        BY <3>1
    <2>2. CASE cursor' \in Nat /\ cursor' <= Dealt'
      <3>1. s \in origin.from..Dealt'
        BY <1>4, <2>2, DealtInStream
      <3> QED
        BY <1>3, <1>4, <3>1
    <2> QED
      BY <1>4, <2>1, <2>2 DEF NoCursor
  <1> HIDE DEF Given
  <1> QED
    BY <1>1, <1>2, <1>3, <1>4 DEF FeedKept, NoCursor

\* A message is shown when it matches, and the cursor covers it or stays.
LEMMA FeedKeptTaking ==
    ASSUME Placed, FeedKept, kind = "activity", kind' = kind, filters' = filters, FeedTakes
    PROVE  FeedKept'
  <1>1. PICK h : h = Head(queue)
    OBVIOUS
  <1> DEFINE e == log[h]
  <1>2. /\ at = "following" /\ ~overflow /\ queue # <<>> /\ queue' = Tail(queue)
        /\ UNCHANGED <<streamVars, at, pos, overflow, origin, lost>>
        /\ cursor' \in {cursor, h}
    BY <1>1 DEF FeedTakes, Taken
  <1>3. Dealt' = h /\ h = Dealt + 1 /\ h \in 1..Len(log)
    BY <1>1, <1>2, TakingPlaces DEF Placed, Subscribed, streamVars
  <1>4. e \in Events /\ shown \in Seq(Events) /\ first \in Nat
    BY <1>3 DEF Placed, StreamInOrder, CursorInPlace
  <1>5. log' = log /\ first' = first
    BY <1>2 DEF streamVars
  <1>6. CASE Matches(EventOf[e]) /\ shown' = Append(shown, e)
    <2>1. ToSet(shown') = ToSet(shown) \cup {e}
      BY <1>4, <1>6, ShownAfterAppend
    <2>2. \A f \in ToSet(shown') : Matches(EventOf[f])
      BY <1>6, <2>1 DEF FeedKept, AllShownMatch
    <2>3. \A s \in 1..Len(log) : Given(s) => Given(s)'
      BY <1>2, <1>4, <1>5, <2>1, GivenStays
    <2>4. Given(h)'
      BY <1>5, <2>1 DEF Given
    <2> QED
      BY <1>2, <1>3, <2>2, <2>3, <2>4, FeedAdvances
  <1>7. CASE ~Matches(EventOf[e]) /\ shown' = shown
    <2>1. \A f \in ToSet(shown') : Matches(EventOf[f])
      BY <1>7 DEF FeedKept, AllShownMatch
    <2>2. \A s \in 1..Len(log) : Given(s) => Given(s)'
      BY <1>2, <1>4, <1>5, <1>7, GivenStays
    <2>3. Given(h)
      BY <1>7 DEF Given
    <2>4. Given(h)'
      BY <1>3, <2>2, <2>3
    <2> QED
      BY <1>2, <1>3, <2>1, <2>2, <2>4, FeedAdvances
  <1> QED
    BY <1>1, <1>6, <1>7 DEF FeedTakes

\* A heartbeat's cursor is the last message taken; what it drops is lost.
LEMMA FeedKeptBeating ==
    ASSUME Placed, FeedKept, kind = "activity", kind' = kind, filters' = filters, Heartbeat
    PROVE  FeedKept'
  <1>1. /\ at = "following" /\ ~overflow /\ cursor' = lastSequence
        /\ UNCHANGED <<streamVars, at, pos, overflow, shown, origin>>
    BY DEF Heartbeat
  <1>2. log' = log /\ first' = first /\ first \in Nat
    BY <1>1 DEF streamVars, Placed, StreamInOrder
  <1>3. lastSequence \in Nat /\ (lastSequence # NoCursor => lastSequence <= Dealt)
    BY <1>1 DEF Placed, CursorInPlace
  <1>4. \A e \in ToSet(shown') : Matches(EventOf[e])
    BY <1>1 DEF FeedKept, AllShownMatch
  <1>5. \A s \in 1..Len(log) : Given(s) => Given(s)'
    <2>1. lost \subseteq lost'
      BY DEF Heartbeat
    <2> QED
      BY <1>1, <1>2, <2>1, GivenStays
  <1>6. CASE queue = <<>>
    <2>1. Dealt' = Dealt
      BY <1>1, <1>6 DEF Heartbeat, Dealt
    <2>2. Dealt + 1 \in Nat
      BY <1>1, <1>6, DealtInStream DEF Dealt
    <2>3. PICK h \in Nat : h = Dealt + 1
      BY <2>2
    <2> QED
      BY <1>1, <1>3, <1>4, <1>5, <2>1, <2>3, FeedAdvances
  <1>7. CASE queue # <<>>
    <2>1. PICK h : h = Head(queue)
      OBVIOUS
    <2>2. queue' = Tail(queue) /\ lost' = lost \cup {log[h]}
      BY <1>7, <2>1 DEF Heartbeat
    <2>3. Dealt' = h /\ h = Dealt + 1 /\ h \in 1..Len(log)
      BY <1>1, <1>2, <1>7, <2>1, <2>2, TakingPlaces DEF Placed, Subscribed
    <2>4. Given(h)'
      BY <1>2, <2>2 DEF Given
    <2>5. cursor' = NoCursor \/ (cursor' \in Nat /\ cursor' <= Dealt')
      BY <1>1, <1>3, <2>3, DealtInStream
    <2> QED
      BY <1>1, <1>4, <1>5, <2>3, <2>4, <2>5, FeedAdvances
  <1> QED
    BY <1>6, <1>7

\* A feed has been given, at every step, all that it has dealt with.
LEMMA FeedStep ==
    ASSUME Placed, FeedKept, [Next]_vars
    PROVE  FeedKept'
  <1>1. kind' = kind /\ filters' = filters
    BY KindStays
  <1>2. CASE kind = "activity"
    <2>1. CASE Happen \/ Publish \/ AgeOut \/ Replace \/ \E e \in 1..LastEvent : Record(e) \/ Purge(e)
      BY <1>1, <1>2, <2>1, FeedKeptOutside
    <2>2. CASE Receive \/ Check \/ Drop \/ TooSlow \/ UNCHANGED vars
      BY <1>1, <1>2, <2>2, FeedKeptConnecting
    <2>3. CASE ReplayUnavailable
      BY <1>1, <1>2, <2>3, FeedKeptReloading
    <2>4. CASE Follow
      BY <1>1, <1>2, <2>4, FeedKeptFollowing
    <2>5. CASE FeedTakes
      BY <1>1, <1>2, <2>5, FeedKeptTaking
    <2>6. CASE Heartbeat
      BY <1>1, <1>2, <2>6, FeedKeptBeating
    <2>7. ~Timeline /\ ~Disconnect
      BY <1>2 DEF Placed, ViewerInPlace, Timeline, Resolve, Attach, ReadHistory, SendHistory,
                  TimelineTakes, Disconnect
    <2> QED
      BY <2>1, <2>2, <2>3, <2>4, <2>5, <2>6, <2>7 DEF Next, Feed
  <1>3. CASE kind # "activity"
    BY <1>1, <1>3 DEF FeedKept
  <1> QED
    BY <1>2, <1>3
-----------------------------------------------------------------------------
(* The debug timeline. *)

\* The stream's own steps, and the consumer, take nothing from a timeline; once
\* it is done there is nothing left to publish.
LEMMA TimelineKeptBeside ==
    ASSUME Placed, TimelineKept, kind = "debug",
           Happen \/ Publish \/ AgeOut \/ Receive \/ \E e \in 1..LastEvent : Record(e) \/ Purge(e)
    PROVE  TimelineKept'
  <1>1. UNCHANGED <<kind, at, shown, history, origin>>
    BY DEF Happen, Publish, AgeOut, Record, Purge, Outside, Receive, readerVars
  <1>2. /\ \A s \in 1..Len(log) : log'[s] = log[s]
        /\ published = LastEvent => log' = log /\ published' = published
    BY ViewsAssumption DEF Happen, Publish, AgeOut, Record, Purge, Receive, streamVars, Placed, StreamInOrder
  <1>3. ~overflow' => ~overflow /\ Dealt' = Dealt
    <2>1. CASE Receive
      BY <2>1, ReceivingDealsNothing DEF Placed
    <2>2. CASE ~Receive
      BY <2>2 DEF Happen, Publish, AgeOut, Record, Purge, Outside, connectionVars, Dealt
    <2> QED
      BY <2>1, <2>2
  <1>4. ASSUME at = "following", ~overflow, NEW s \in origin.from..Dealt
        PROVE  s \in 1..Len(log) /\ log[s] \in ToSet(shown)
    BY <1>4, DealtInStream DEF TimelineKept, Subscribed
  <1>5. ASSUME at = "done", Terminal \notin history, NEW s \in origin.from..Len(log)
        PROVE  s \in 1..Len(log) /\ log[s] \in ToSet(shown)
    BY <1>5, DealtInStream DEF TimelineKept
  <1>6. at = "done" /\ Terminal \notin history => published = LastEvent
    BY DEF TimelineKept
  <1>7. at \in {"subscribed", "sending"} /\ ~overflow' => Dealt' + 1 = origin'.from
    BY <1>1, <1>3 DEF TimelineKept
  <1>8. at = "following" /\ ~overflow' => \A s \in origin'.from..Dealt' : log'[s] \in ToSet(shown')
    BY <1>1, <1>2, <1>3, <1>4
  <1>9. at = "done" /\ Terminal \notin history
            => \A s \in origin'.from..Len(log') : log'[s] \in ToSet(shown')
    BY <1>1, <1>2, <1>5, <1>6
  <1>10. \A i, j \in 1..Len(shown') : shown'[i] = shown'[j] => i = j
    BY <1>1 DEF TimelineKept
  <1> QED
    BY <1>1, <1>2, <1>6, <1>7, <1>8, <1>9, <1>10 DEF TimelineKept, Terminal

\* The steps that neither show an event nor take one from the queue.
LEMMA TimelineKeptWaiting ==
    ASSUME Placed, TimelineKept, kind = "debug",
           Resolve \/ Attach \/ ReadHistory \/ TooSlow \/ Disconnect \/ UNCHANGED vars
    PROVE  TimelineKept'
  <1>1. UNCHANGED <<streamVars, kind, shown>>
    BY DEF Resolve, Attach, ReadHistory, TooSlow, Disconnect, vars, readerVars
  <1>2. \A i, j \in 1..Len(shown') : shown'[i] = shown'[j] => i = j
    BY <1>1 DEF TimelineKept
  <1>3. CASE Attach
    <2>1. at' = "subscribed" /\ pos' = first /\ queue' = <<>> /\ origin'.from = first
      BY <1>3, DealtInStream DEF Attach, Subscribe, Placed, StreamInOrder
    <2>2. Dealt' + 1 = origin'.from
      BY <2>1 DEF Dealt, Placed, StreamInOrder
    <2> QED
      BY <1>2, <2>1, <2>2 DEF TimelineKept
  <1>4. CASE ReadHistory
    <2>1. at = "subscribed" /\ at' = "sending" /\ UNCHANGED <<connectionVars, origin>>
      BY <1>4 DEF ReadHistory
    <2> QED
      BY <1>2, <2>1 DEF TimelineKept, connectionVars, Dealt
  <1>5. CASE Resolve \/ TooSlow \/ Disconnect
    BY <1>2, <1>5 DEF Resolve, TooSlow, Disconnect, Leave, TimelineKept
  <1>6. CASE UNCHANGED vars
    BY <1>6 DEF vars, streamVars, connectionVars, readerVars, TimelineKept, Dealt
  <1> QED
    BY <1>3, <1>4, <1>5, <1>6

\* The history is sent before anything of the tail.
LEMMA TimelineKeptSending ==
    ASSUME Placed, TimelineKept, kind = "debug", SendHistory
    PROVE  TimelineKept'
  <1>1. /\ at = "sending" /\ shown' = Ascending(history)
        /\ UNCHANGED <<streamVars, kind, history, origin>>
    BY DEF SendHistory
  <1>2. \A i, j \in 1..Len(shown') : shown'[i] = shown'[j] => i = j
    BY <1>1, AscendingListsOnce DEF Placed, CursorInPlace
  <1>3. CASE Terminal \in history /\ at' = "done"
    BY <1>1, <1>2, <1>3 DEF TimelineKept, Terminal
  <1>4. CASE at' = "following" /\ UNCHANGED connectionVars
    <2>1. ~overflow' => Dealt' + 1 = origin'.from
      BY <1>1, <1>4 DEF TimelineKept, connectionVars, Dealt
    <2>2. Dealt' \in Int
      BY <1>4, DealtInStream DEF connectionVars, Dealt
    <2>3. ~overflow' => origin'.from..Dealt' = {}
      BY <2>1, <2>2
    <2> QED
      BY <1>2, <1>4, <2>3 DEF TimelineKept
  <1> QED
    BY <1>3, <1>4 DEF SendHistory, Leave

\* A message is shown unless it was; the terminal event, which is the last of
\* the stream, ends the timeline.
LEMMA TimelineKeptTaking ==
    ASSUME Placed, TimelineKept, kind = "debug", TimelineTakes
    PROVE  TimelineKept'
  <1>1. PICK h : h = Head(queue)
    OBVIOUS
  <1> DEFINE e == log[h]
  <1>2. /\ at = "following" /\ ~overflow /\ queue # <<>>
        /\ UNCHANGED <<streamVars, kind, history, origin>>
    BY DEF TimelineTakes
  <1>3. shown' = IF Unseen(e) THEN Append(shown, e) ELSE shown
    BY <1>1 DEF TimelineTakes
  <1>4. h = Dealt + 1 /\ h \in 1..Len(log)
    <2>1. Len(queue) \in Nat \ {0} /\ Head(queue) = queue[1] /\ queue[1] = Dealt + 1
      BY <1>2 DEF Placed, QueueInOrder, Subscribed
    <2>2. pos <= Len(log) + 1 /\ pos \in Nat /\ Len(log) \in Nat /\ queue[1] \in Nat \ {0}
      BY <1>2, <2>1 DEF Placed, QueueInOrder, StreamInOrder, Subscribed
    <2> QED
      BY <1>1, <2>1, <2>2 DEF Dealt
  <1>5. e \in Events /\ shown \in Seq(Events)
    BY <1>4 DEF Placed, StreamInOrder, CursorInPlace
  <1>6. ToSet(shown') = ToSet(shown) \cup {e}
    BY <1>3, <1>5, ShownAfterAppend DEF Unseen
  <1>7. \A i, j \in 1..Len(shown') : shown'[i] = shown'[j] => i = j
    <2>1. \A i, j \in 1..Len(shown) : shown[i] = shown[j] => i = j
      BY DEF TimelineKept
    <2>2. CASE Unseen(e)
      <3>1. /\ Len(shown) \in Nat /\ Len(shown') = Len(shown) + 1 /\ shown'[Len(shown) + 1] = e
            /\ \A i \in 1..Len(shown) : shown'[i] = shown[i]
        BY <1>3, <1>5, <2>2
      <3>2. \A i \in 1..Len(shown) : shown[i] # e
        BY <1>5, <2>2 DEF Unseen, ToSet
      <3> QED
        BY <2>1, <3>1, <3>2
    <2>3. CASE ~Unseen(e)
      BY <1>3, <2>1, <2>3
    <2> QED
      BY <2>2, <2>3
  <1>8. ASSUME NEW s \in origin.from..h
        PROVE  log[s] \in ToSet(shown')
    <2>1. CASE s \in origin.from..Dealt
      BY <1>2, <1>6, <2>1 DEF TimelineKept
    <2>2. CASE s = h
      BY <1>6, <2>2
    <2> QED
      BY <1>4, <2>1, <2>2, DealtInStream
  <1>9. CASE Unseen(e) /\ e = Terminal /\ Leave("done")
    <2>1. e = published - Len(log) + h
      BY <1>4 DEF Placed, StreamInOrder
    <2>2. published = LastEvent /\ h = Len(log)
      BY <1>4, <1>9, <2>1, ViewsAssumption DEF Placed, StreamInOrder, Terminal
    <2> QED
      BY <1>2, <1>7, <1>8, <1>9, <2>2 DEF TimelineKept, Leave, streamVars
  <1>10. CASE Taken /\ UNCHANGED at
    <2>1. Dealt' = h
      BY <1>1, <1>2, <1>10, TakingPlaces DEF Placed, Taken, Subscribed, streamVars
    <2> QED
      BY <1>2, <1>7, <1>8, <1>10, <2>1 DEF TimelineKept, streamVars
  <1> QED
    BY <1>1, <1>9, <1>10 DEF TimelineTakes

\* A timeline has shown, at every step, all that it has dealt with, once.
LEMMA TimelineStep ==
    ASSUME Placed, TimelineKept, [Next]_vars
    PROVE  TimelineKept'
  <1>1. kind' = kind
    BY KindStays
  <1>2. CASE kind = "debug"
    <2>1. CASE Happen \/ Publish \/ AgeOut \/ Receive \/ \E e \in 1..LastEvent : Record(e) \/ Purge(e)
      BY <1>2, <2>1, TimelineKeptBeside
    <2>2. CASE Resolve \/ Attach \/ ReadHistory \/ TooSlow \/ Disconnect \/ UNCHANGED vars
      BY <1>2, <2>2, TimelineKeptWaiting
    <2>3. CASE SendHistory
      BY <1>2, <2>3, TimelineKeptSending
    <2>4. CASE TimelineTakes
      BY <1>2, <2>4, TimelineKeptTaking
    <2>5. ~Feed /\ ~Replace
      BY <1>2 DEF Placed, ViewerInPlace, Feed, ReplayUnavailable, Check, Follow, FeedTakes,
                  Heartbeat, Drop, Replace
    <2> QED
      BY <2>1, <2>2, <2>3, <2>4, <2>5 DEF Next, Timeline
  <1>3. CASE kind # "debug"
    BY <1>1, <1>3 DEF TimelineKept
  <1> QED
    BY <1>2, <1>3

-----------------------------------------------------------------------------
(* The theorems. *)

\* The invariant holds in every reachable state.
THEOREM Invariance == Spec => []Inv
  <1>1. Init => Inv
    <2> SUFFICES ASSUME Init PROVE Inv
      OBVIOUS
    <2>1. Placed
      BY PlacedInit
    <2>2. FeedKept
      BY DEF Init, FeedKept, AllShownMatch, ToSet
    <2>3. TimelineKept
      BY DEF Init, TimelineKept
    <2> QED
      BY <2>1, <2>2, <2>3 DEF Inv
  <1>2. Inv /\ [Next]_vars => Inv'
    BY PlacedStep, FeedStep, TimelineStep DEF Inv
  <1> QED
    BY <1>1, <1>2, PTL DEF Spec

\* A feed that resumes from its cursor has no silent gap: what matched between
\* its start and the cursor was shown, or lost to a heartbeat.
THEOREM FeedMissesNothing == Spec => []FeedComplete
  <1>1. Inv => FeedComplete
    BY DEF Inv, FeedKept, Given, FeedComplete
  <1> QED
    BY <1>1, Invariance, PTL

\* What a feed shows is what its filters match, whether the live predicate or
\* the SQL condition of a reloaded history let it through.
THEOREM FeedFiltersAlike == Spec => []FiltersAgree
  <1>1. Inv => FiltersAgree
    BY FiltersSelectAlike
       DEF Inv, Placed, StreamInOrder, ViewerInPlace, FeedKept, AllShownMatch, FiltersAgree
  <1> QED
    BY <1>1, Invariance, PTL

\* A timeline shows no event twice, and one that followed the tail to the
\* terminal event has shown every message since it subscribed.
THEOREM TimelineIsExact == Spec => []TimelineExact
  <1>1. ASSUME Inv PROVE TimelineOnce
    <2>1. ASSUME kind = "debug"
          PROVE  Cardinality(ToSet(shown)) = Len(shown)
      <3>1. shown \in Seq(Events)
        BY <1>1 DEF Inv, Placed, CursorInPlace
      <3>2. \A i, j \in 1..Len(shown) : shown[i] = shown[j] => i = j
        BY <1>1, <2>1 DEF Inv, TimelineKept
      <3> QED
        BY <3>1, <3>2, OnceMeansDistinct
    <2> QED
      BY <2>1 DEF TimelineOnce
  <1>2. Inv => TimelineGapless
    BY DEF Inv, TimelineKept, TimelineGapless, LastSeq
  <1>3. Inv => TimelineExact
    BY <1>1, <1>2 DEF TimelineExact
  <1> QED
    BY <1>3, Invariance, PTL
=============================================================================
