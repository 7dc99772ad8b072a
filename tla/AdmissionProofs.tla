------------------------- MODULE AdmissionProofs -------------------------
(***************************************************************************)
(* Proofs about Admission, for any number of sessions, attempts and        *)
(* instances, any capacities, limits and lease length: type correctness,   *)
(* the capacity of every instance, the capacity pool that the transactions *)
(* implement and the order of the queue, which rest on one account of what *)
(* a step may do to the attempt rows, AttemptsStep; then how sessions and  *)
(* attempts end.                                                           *)
(***************************************************************************)
EXTENDS Admission, FiniteSetTheorems, TLAPS

SessionRows == [state: {"none", "admitted", "open", "closed", "failed"},
                left: (-MaxAge)..LeaseTicks]
AttemptRows == [state: {"none", "queued", "acquiring", "active", "completed", "failed"},
                provider: Providers,
                instance: Instances \cup {NoInstance},
                seq: Nat]
Transactions == [op: Operations, age: 0..MaxAge]

\* Finishing attempts of a well-formed table leaves a well-formed table
\* (finalize_attempt_usage and the terminal fields touch no other column of the model).
LEMMA FinishedType ==
    ASSUME TypeOK, NEW xs, NEW state \in {"completed", "failed"}
    PROVE  Finished(xs, state) \in [Attempts -> AttemptRows]
  <1>1. att \in [Attempts -> AttemptRows]
    BY DEF TypeOK, AttemptRows
  <1>2. SUFFICES ASSUME NEW x \in Attempts
                 PROVE  [att[x] EXCEPT !.state = state] \in AttemptRows
    BY <1>1 DEF Finished
  <1> QED
    BY <1>1 DEF AttemptRows

\* Ending a transaction leaves well-formed transactions.
LEMMA EndedType ==
    ASSUME TypeOK, NEW t \in Tasks, Ended(t)
    PROVE  txn' \in [Tasks -> Transactions]
  <1>1. txn \in [Tasks -> Transactions]
    BY DEF TypeOK, Transactions
  <1>2. Idle \in Transactions
    BY ConstantsAssumption DEF Idle, Transactions, Operations
  <1> QED
    BY <1>1, <1>2 DEF Ended

\* Dropping leases leaves a well-formed map of leases.
LEMMA DroppedType ==
    ASSUME TypeOK, NEW xs
    PROVE  Dropped(xs) \in [Attempts -> {"none", "acquiring", "active"}]
  BY DEF TypeOK, Dropped

\* Placements only names instances that exist, or none for the cloud.
LEMMA PlacementsType ==
    ASSUME TypeOK, NEW p, NEW stale
    PROVE  Placements(p, stale) \subseteq Instances \cup {NoInstance}
  BY DEF TypeOK, Placements, BestInstances, FreeInstances

\* The tasks of a session.
LEMMA SessionTasks ==
    ASSUME NEW s \in Sessions
    PROVE  Main(s) \in Tasks /\ Beat(s) \in Tasks
  BY DEF Main, Beat, Tasks

--------------------------------------------------------------------------
(* Type correctness *)

\* Every step keeps the tables, the operations in flight and the owners well formed.
LEMMA TypeStep ==
    ASSUME TypeOK, [Next]_vars
    PROVE  TypeOK'
  <1> USE DEF SessionRows, AttemptRows, Transactions
  <1>a. /\ sess \in [Sessions -> SessionRows]
        /\ att \in [Attempts -> AttemptRows]
        /\ txn \in [Tasks -> Transactions]
        /\ owner \in [Sessions -> {"new", "live", "lost", "gone"}]
        /\ lease \in [Attempts -> {"none", "acquiring", "active"}]
        /\ seq \in Nat /\ ready \in SUBSET Instances
        /\ fleet \in FleetLimits /\ cloud \in CloudLimits
    BY DEF TypeOK
  <1>c. /\ MaxAge \in Nat /\ LeaseTicks \in Nat /\ LeaseTicks > MaxAge
        /\ Idle \in Transactions
    BY ConstantsAssumption DEF Idle, Operations
  <1>1. ASSUME NEW s \in Sessions, NEW op \in {"admit", "open", "enqueue", "claim"},
               Begin(s, op)
        PROVE  TypeOK'
    <2>1. [op |-> op, age |-> 0] \in Transactions
      BY <1>c DEF Operations
    <2>2. txn' \in [Tasks -> Transactions]
      BY <1>a, <1>1, <2>1, SessionTasks DEF Begin
    <2> QED
      BY <1>a, <1>1, <2>2 DEF Begin, TypeOK
  <1>2. ASSUME NEW s \in Sessions, BeginHeartbeat(s)
        PROVE  TypeOK'
    <2>1. [op |-> "heartbeat", age |-> 0] \in Transactions
      BY <1>c DEF Operations
    <2>2. txn' \in [Tasks -> Transactions]
      BY <1>a, <1>2, <2>1, SessionTasks DEF BeginHeartbeat
    <2> QED
      BY <1>a, <1>2, <2>2 DEF BeginHeartbeat, TypeOK
  <1>3. ASSUME NEW s \in Sessions, Rollback(s)
        PROVE  TypeOK'
    <2>1. txn' \in [Tasks -> Transactions]
      BY <1>3, SessionTasks, EndedType DEF Rollback
    <2> QED
      BY <1>a, <1>3, <2>1 DEF Rollback, TypeOK
  <1>4. ASSUME NEW s \in Sessions, Admit(s)
        PROVE  TypeOK'
    <2> DEFINE age == txn[Main(s)].age
               stale == StaleSessions(age)
    <2>1. age \in 0..MaxAge
      BY <1>a, SessionTasks
    <2>2. /\ [state |-> "failed", left |-> 0] \in SessionRows
          /\ [state |-> "admitted", left |-> LeaseTicks - age] \in SessionRows
      BY <1>c, <2>1
    <2>3. ExpireSessions(stale) \in [Sessions -> SessionRows]
      BY <1>a, <2>2 DEF ExpireSessions
    <2>4. sess' \in [Sessions -> SessionRows]
      BY <1>4, <2>2, <2>3 DEF Admit
    <2>5. att' \in [Attempts -> AttemptRows]
      BY <1>4, FinishedType DEF Admit, ExpireTheirAttempts
    <2>6. txn' \in [Tasks -> Transactions]
      BY <1>4, SessionTasks, EndedType DEF Admit
    <2>7. owner' \in [Sessions -> {"new", "live", "lost", "gone"}]
      BY <1>a, <1>4 DEF Admit
    <2> QED
      BY <1>a, <1>4, <2>4, <2>5, <2>6, <2>7 DEF Admit, TypeOK
  <1>5. ASSUME NEW s \in Sessions, Heartbeat(s)
        PROVE  TypeOK'
    <2> DEFINE age == txn[Beat(s)].age
    <2>1. age \in 0..MaxAge
      BY <1>a, SessionTasks
    <2>2. LeaseTicks - age \in (-MaxAge)..LeaseTicks
      BY <1>c, <2>1
    <2>3. [sess EXCEPT ![s].left = LeaseTicks - age] \in [Sessions -> SessionRows]
      BY <1>a, <2>2
    <2>4. /\ sess' \in [Sessions -> SessionRows]
          /\ owner' \in [Sessions -> {"new", "live", "lost", "gone"}]
      BY <1>a, <1>5, <2>3 DEF Heartbeat
    <2>5. txn' \in [Tasks -> Transactions]
      BY <1>5, SessionTasks, EndedType DEF Heartbeat
    <2> QED
      BY <1>a, <1>5, <2>4, <2>5 DEF Heartbeat, TypeOK
  <1>6. ASSUME NEW s \in Sessions, HeartbeatFails(s)
        PROVE  TypeOK'
    <2>1. txn' \in [Tasks -> Transactions]
      BY <1>6, SessionTasks, EndedType DEF HeartbeatFails
    <2>2. owner' \in [Sessions -> {"new", "live", "lost", "gone"}]
      BY <1>a, <1>6 DEF HeartbeatFails
    <2> QED
      BY <1>a, <1>6, <2>1, <2>2 DEF HeartbeatFails, TypeOK
  <1>7. ASSUME NEW s \in Sessions, Open(s)
        PROVE  TypeOK'
    <2> DEFINE age == txn[Main(s)].age
    <2>1. age \in 0..MaxAge
      BY <1>a, SessionTasks
    <2>2. [state |-> "open", left |-> LeaseTicks - age] \in SessionRows
      BY <1>c, <2>1
    <2>3. sess' \in [Sessions -> SessionRows]
      BY <1>a, <1>7, <2>2 DEF Open
    <2>4. txn' \in [Tasks -> Transactions]
      BY <1>7, SessionTasks, EndedType DEF Open
    <2> QED
      BY <1>a, <1>7, <2>3, <2>4 DEF Open, TypeOK
  <1>8. ASSUME NEW s \in Sessions, NEW failed \in Verdicts, Release(s, failed)
        PROVE  TypeOK'
    <2>1. /\ [state |-> IF failed THEN "failed" ELSE "closed", left |-> 0] \in SessionRows
          /\ failed \in BOOLEAN
      BY <1>c, ConstantsAssumption
    <2>2. sess' \in [Sessions -> SessionRows]
      BY <1>a, <1>8, <2>1 DEF Release
    <2>3. att' \in [Attempts -> AttemptRows]
      BY <1>8, FinishedType DEF Release
    <2>4. txn' \in [Tasks -> Transactions]
      BY <1>8, SessionTasks, EndedType DEF Release
    <2>5. lease' \in [Attempts -> {"none", "acquiring", "active"}]
      BY <1>8, DroppedType DEF Release
    <2>6. owner' \in [Sessions -> {"new", "live", "lost", "gone"}]
      BY <1>a, <1>8 DEF Release
    <2> QED
      BY <1>a, <1>8, <2>2, <2>3, <2>4, <2>5, <2>6 DEF Release, TypeOK
  <1>9. ASSUME NEW s \in Sessions, Abandon(s)
        PROVE  TypeOK'
    <2>1. txn' \in [Tasks -> Transactions]
      BY <1>a, <1>c, <1>9, SessionTasks DEF Abandon
    <2>2. lease' \in [Attempts -> {"none", "acquiring", "active"}]
      BY <1>9, DroppedType DEF Abandon
    <2>3. owner' \in [Sessions -> {"new", "live", "lost", "gone"}]
      BY <1>a, <1>9 DEF Abandon
    <2> QED
      BY <1>a, <1>9, <2>1, <2>2, <2>3 DEF Abandon, TypeOK
  <1>10. ASSUME NEW s \in Sessions, NEW x \in Attempts, NEW p \in Requests, Enqueue(s, x, p)
         PROVE  TypeOK'
    <2> DEFINE stale == StaleAttempts(p, txn[Main(s)].age)
               row(state, i) == [state |-> state, provider |-> p, instance |-> i,
                                 seq |-> seq + 1]
    <2>1. \A i \in Instances \cup {NoInstance}, state \in {"acquiring", "queued", "failed"} :
            row(state, i) \in AttemptRows
      BY <1>a, ConstantsAssumption
    <2>2. /\ Finished(stale, "failed") \in [Attempts -> AttemptRows]
          /\ Placements(p, stale) \subseteq Instances \cup {NoInstance}
      BY FinishedType, PlacementsType
    <2>3. att' \in [Attempts -> AttemptRows]
      <3>1. CASE \E i \in Placements(p, stale) :
                    att' = [Finished(stale, "failed") EXCEPT ![x] = row("acquiring", i)]
        BY <2>1, <2>2, <3>1
      <3>2. CASE \E state \in {"queued", "failed"} :
                    att' = [Finished(stale, "failed") EXCEPT ![x] = row(state, NoInstance)]
        BY <2>1, <2>2, <3>2
      <3> QED
        BY <1>10, <3>1, <3>2 DEF Enqueue
    <2>4. lease' \in [Attempts -> {"none", "acquiring", "active"}]
      BY <1>a, <1>10 DEF Enqueue
    <2>5. txn' \in [Tasks -> Transactions]
      BY <1>10, SessionTasks, EndedType DEF Enqueue
    <2> QED
      BY <1>a, <1>10, <2>3, <2>4, <2>5 DEF Enqueue, TypeOK
  <1>11. ASSUME NEW s \in Sessions, EnqueueRefused(s)
         PROVE  TypeOK'
    <2>1. txn' \in [Tasks -> Transactions]
      BY <1>11, SessionTasks, EndedType DEF EnqueueRefused
    <2> QED
      BY <1>a, <1>11, <2>1 DEF EnqueueRefused, TypeOK
  <1>12. ASSUME NEW s \in Sessions, NEW x \in Attempts, Claim(s, x)
         PROVE  TypeOK'
    <2> DEFINE p == att[x].provider
               stale == StaleAttempts(p, txn[Main(s)].age)
    <2>1. /\ Finished(stale, "failed") \in [Attempts -> AttemptRows]
          /\ Placements(p, stale) \subseteq Instances \cup {NoInstance}
      BY FinishedType, PlacementsType
    <2>2. \A i \in Instances \cup {NoInstance} : Acquiring(x, i) \in AttemptRows
      BY <1>a, ZenonT(60) DEF Acquiring
    <2>3. att' \in [Attempts -> AttemptRows]
      <3>1. CASE \E i \in Placements(p, stale) :
                    att' = [Finished(stale, "failed") EXCEPT ![x] = Acquiring(x, i)]
        BY <2>1, <2>2, <3>1
      <3>2. CASE att' = Finished(stale, "failed") \/ att' = att
        BY <1>a, <2>1, <3>2
      <3> QED
        BY <1>12, <3>1, <3>2 DEF Claim
    <2>4. lease' \in [Attempts -> {"none", "acquiring", "active"}]
      BY <1>a, <1>12 DEF Claim
    <2>5. txn' \in [Tasks -> Transactions]
      BY <1>12, SessionTasks, EndedType DEF Claim
    <2> QED
      BY <1>a, <1>12, <2>3, <2>4, <2>5 DEF Claim, TypeOK
  <1>13. ASSUME NEW s \in Sessions, NEW x \in Attempts, Activate(s, x)
         PROVE  TypeOK'
    <2>1. [att EXCEPT ![x].state = "active"] \in [Attempts -> AttemptRows]
      BY <1>a, SMTT(30)
    <2>2. [lease EXCEPT ![x] = "active"] \in [Attempts -> {"none", "acquiring", "active"}]
      BY <1>a
    <2> QED
      BY <1>a, <1>13, <2>1, <2>2 DEF Activate, TypeOK
  <1>14. ASSUME NEW s \in Sessions, NEW x \in Attempts, NEW failed \in Verdicts,
                Finish(s, x, failed)
         PROVE  TypeOK'
    <2>1. att' \in [Attempts -> AttemptRows]
      BY <1>a, <1>14, FinishedType DEF Finish
    <2>2. lease' \in [Attempts -> {"none", "acquiring", "active"}]
      BY <1>14, DroppedType DEF Finish
    <2> QED
      BY <1>a, <1>14, <2>1, <2>2 DEF Finish, TypeOK
  <1>15. CASE Observe
    BY <1>a, <1>15, ConstantsAssumption DEF Observe, TypeOK
  <1>16. CASE ConfigureFleet
    BY <1>a, <1>16 DEF ConfigureFleet, TypeOK
  <1>17. CASE ConfigureCloud
    BY <1>a, <1>17 DEF ConfigureCloud, TypeOK
  <1>18. CASE Tick
    <2>1. ASSUME NEW t \in Tasks
          PROVE  (IF InFlight(t, "none") THEN txn[t] ELSE [txn[t] EXCEPT !.age = @ + 1])
                    \in Transactions
      <3>1. InFlight(t, "none") \/ txn[t].age + 1 \in 0..MaxAge
        BY <1>a, <1>c, <1>18 DEF Tick
      <3> QED
        BY <1>a, <3>1
    <2>2. txn' \in [Tasks -> Transactions]
      BY <1>18, <2>1 DEF Tick
    <2>3. ASSUME NEW s \in Sessions
          PROVE  (IF InLiveState(s) /\ sess[s].left > -MaxAge
                  THEN [sess[s] EXCEPT !.left = @ - 1] ELSE sess[s]) \in SessionRows
      <3>1. sess[s].left > -MaxAge => sess[s].left - 1 \in (-MaxAge)..LeaseTicks
        BY <1>a, <1>c
      <3> QED
        BY <1>a, <3>1
    <2>4. sess' \in [Sessions -> SessionRows]
      BY <1>18, <2>3 DEF Tick
    <2> QED
      BY <1>a, <1>18, <2>2, <2>4 DEF Tick, TypeOK
  <1>19. CASE UNCHANGED vars
    BY <1>a, <1>19 DEF vars, TypeOK
  <1> QED
    BY <1>1, <1>2, <1>3, <1>4, <1>5, <1>6, <1>7, <1>8, <1>9, <1>10, <1>11, <1>12, <1>13,
       <1>14, <1>15, <1>16, <1>17, <1>18, <1>19 DEF Next, SessionStep

\* The program starts in a well-formed state.
LEMMA TypeInit == Init => TypeOK
  <1> SUFFICES ASSUME Init PROVE TypeOK
    OBVIOUS
  <1>1. /\ NoSession \in SessionRows
        /\ NoAttempt \in AttemptRows
        /\ Idle \in Transactions
    BY ConstantsAssumption DEF NoSession, NoAttempt, Idle, SessionRows, AttemptRows,
       Transactions, Operations, Providers
  <1> QED
    BY <1>1, ConstantsAssumption DEF Init, TypeOK, SessionRows, AttemptRows, Transactions

\* Type correctness of the admission tables: no interleaving of the repositories'
\* transactions, expiries, crashes and clock ticks writes a row or lease out of its domain.
THEOREM TypeCorrect == Spec => []TypeOK
  BY TypeInit, TypeStep, PTL DEF Spec

--------------------------------------------------------------------------
(* What a step may do to the attempt rows: the account that capacity and the pool rest on *)

\* A step that gives the attempt no slot: it stays as it is, ends, is queued, or the slot
\* it has becomes active.
Keeps(y) ==
    \/ att'[y] = att[y]
    \/ att[y].state \notin TerminalStates /\ att'[y].state \in TerminalStates
    \/ att[y].state = "none" /\ att'[y].state = "queued"
    \/ /\ att[y].state = "acquiring" /\ att'[y].state = "active"
       /\ att'[y].instance = att[y].instance

\* A step that gives x a slot of i: the stale attempts end first, and leave room.
Gives(x, i, stale) ==
    /\ att[x].state \in {"none", "queued"}
    /\ x \notin stale
    /\ att'[x].state = "acquiring" /\ att'[x].instance = i
    /\ i \in Instances => Cardinality(Occupying(i) \ stale) < Capacity[i]
    /\ \A y \in Attempts \ {x} :
        IF y \in stale
        THEN att[y].state \in LiveAttemptStates /\ att'[y].state = "failed"
        ELSE att'[y] = att[y]

AttemptsStepOK ==
    \/ \A y \in Attempts : Keeps(y)
    \/ \E x \in Attempts, i \in Instances \cup {NoInstance}, stale \in SUBSET Attempts :
            Gives(x, i, stale)

\* Finishing live attempts gives nobody a slot.
LEMMA FinishedKeeps ==
    ASSUME TypeOK, NEW xs, NEW state \in {"completed", "failed"},
           \A y \in Attempts : y \in xs => att[y].state \in LiveAttemptStates,
           att' = Finished(xs, state)
    PROVE  \A y \in Attempts : Keeps(y)
  <1> SUFFICES ASSUME NEW y \in Attempts PROVE Keeps(y)
    OBVIOUS
  <1>1. att \in [Attempts -> AttemptRows]
    BY DEF TypeOK, AttemptRows
  <1>2. CASE y \notin xs
    BY <1>2 DEF Finished, Keeps
  <1>3. CASE y \in xs
    <2>1. att'[y] = [att[y] EXCEPT !.state = state]
      BY <1>3 DEF Finished
    <2>2. att'[y].state = state
      BY <1>1, <2>1 DEF AttemptRows
    <2> QED
      BY <1>3, <2>2 DEF Keeps, TerminalStates, LiveAttemptStates, ActiveAttemptStates
  <1> QED
    BY <1>2, <1>3

\* The stale attempts of a provider are live ones.
LEMMA StaleAttemptsLive ==
    ASSUME NEW p, NEW age
    PROVE  /\ StaleAttempts(p, age) \subseteq Attempts
           /\ \A y \in StaleAttempts(p, age) : att[y].state \in LiveAttemptStates
  BY DEF StaleAttempts

\* An attempt is placed on an instance only if the instance has room beside it.
LEMMA PlacementsFree ==
    ASSUME NEW p, NEW stale, NEW i \in Placements(p, stale), i \in Instances
    PROVE  Cardinality(Occupying(i) \ stale) < Capacity[i]
  <1>1. i # NoInstance
    BY ConstantsAssumption DEF NoInstance
  <1> QED
    BY <1>1 DEF Placements, BestInstances, FreeInstances, Occupied

\* A row written over a table whose stale attempts have been failed.
LEMMA GivesSlot ==
    ASSUME TypeOK, NEW x \in Attempts, NEW p, NEW age,
           NEW i \in Placements(p, StaleAttempts(p, age)),
           NEW r \in AttemptRows, r.state = "acquiring", r.instance = i,
           att[x].state \in {"none", "queued"}, x \notin StaleAttempts(p, age),
           att' = [Finished(StaleAttempts(p, age), "failed") EXCEPT ![x] = r]
    PROVE  AttemptsStepOK
  <1> DEFINE stale == StaleAttempts(p, age)
  <1>1. att \in [Attempts -> AttemptRows]
    BY DEF TypeOK, AttemptRows
  <1>2. Finished(stale, "failed") \in [Attempts -> AttemptRows]
    BY FinishedType
  <1>3. att'[x] = r
    BY <1>2
  <1>4. ASSUME NEW y \in Attempts \ {x}
        PROVE  IF y \in stale
               THEN att[y].state \in LiveAttemptStates /\ att'[y].state = "failed"
               ELSE att'[y] = att[y]
    <2>1. att'[y] = Finished(stale, "failed")[y]
      BY <1>2
    <2>2. CASE y \in stale
      <3>1. att'[y] = [att[y] EXCEPT !.state = "failed"]
        BY <2>1, <2>2 DEF Finished
      <3>2. att'[y].state = "failed"
        BY <1>1, <3>1 DEF AttemptRows
      <3> QED
        BY <2>2, <3>2, StaleAttemptsLive
    <2>3. CASE y \notin stale
      BY <2>1, <2>3 DEF Finished
    <2> QED
      BY <2>2, <2>3
  <1>5. i \in Instances \cup {NoInstance} /\ stale \in SUBSET Attempts
    BY PlacementsType, StaleAttemptsLive
  <1>6. i \in Instances => Cardinality(Occupying(i) \ stale) < Capacity[i]
    BY PlacementsFree
  <1>7. Gives(x, i, stale)
    BY <1>3, <1>4, <1>6 DEF Gives
  <1> QED
    BY <1>5, <1>7 DEF AttemptsStepOK

\* The attempt a session inserts next does not exist yet.
LEMMA NextIsNew ==
    ASSUME NEW s \in Sessions, NEW x \in Attempts, IsNext(s, x)
    PROVE  att[x].state = "none"
  <1>1. PICK t \in Sessions, k \in Ordinals : x = <<t, k>>
    BY DEF Attempts
  <1>2. t = s /\ x[2] = k
    BY <1>1 DEF IsNext, SessionOf
  <1>3. k \in Int
    BY ConstantsAssumption DEF Ordinals
  <1>4. k \notin Inserted(s)
    BY <1>2, <1>3 DEF IsNext
  <1> QED
    BY <1>1, <1>2, <1>4 DEF Inserted

\* Every step of the system either gives no slot at all or gives one slot, within the
\* capacity of its instance, and terminal attempts keep their rows.
LEMMA AttemptsStep ==
    ASSUME TypeOK, [Next]_vars
    PROVE  AttemptsStepOK
  <1>a. att \in [Attempts -> AttemptRows]
    BY DEF TypeOK, AttemptRows
  <1>1. CASE att' = att
    BY <1>1 DEF AttemptsStepOK, Keeps
  <1>2. ASSUME NEW s \in Sessions, Admit(s)
        PROVE  AttemptsStepOK
    <2>1. PICK xs : /\ att' = Finished(xs, "failed")
                    /\ \A y \in Attempts : y \in xs => att[y].state \in LiveAttemptStates
      BY <1>2 DEF Admit, ExpireTheirAttempts, LiveAttemptsOf
    <2> QED
      BY <2>1, FinishedKeeps DEF AttemptsStepOK
  <1>3. ASSUME NEW s \in Sessions, NEW failed \in Verdicts, Release(s, failed)
        PROVE  AttemptsStepOK
    <2>1. \A y \in Attempts : y \in LiveAttemptsOf(s) => att[y].state \in LiveAttemptStates
      BY DEF LiveAttemptsOf
    <2>2. PICK state \in {"completed", "failed"} : att' = Finished(LiveAttemptsOf(s), state)
      BY <1>3 DEF Release
    <2> QED
      BY <2>1, <2>2, FinishedKeeps DEF AttemptsStepOK
  <1>4. ASSUME NEW s \in Sessions, NEW x \in Attempts, NEW p \in Requests, Enqueue(s, x, p)
        PROVE  AttemptsStepOK
    <2> DEFINE age == txn[Main(s)].age
               stale == StaleAttempts(p, age)
               row(state, i) == [state |-> state, provider |-> p, instance |-> i,
                                 seq |-> seq + 1]
    <2>1. att[x].state = "none" /\ x \notin stale
      BY <1>4, NextIsNew DEF Enqueue, StaleAttempts, LiveAttemptStates, ActiveAttemptStates
    <2>2. CASE \E i \in Placements(p, stale) :
                  att' = [Finished(stale, "failed") EXCEPT ![x] = row("acquiring", i)]
      <3>1. PICK i \in Placements(p, stale) :
                  att' = [Finished(stale, "failed") EXCEPT ![x] = row("acquiring", i)]
        BY <2>2
      <3>2. row("acquiring", i) \in AttemptRows
        BY PlacementsType, ConstantsAssumption DEF AttemptRows, TypeOK
      <3>3. row("acquiring", i).state = "acquiring" /\ row("acquiring", i).instance = i
        OBVIOUS
      <3> HIDE DEF row, stale
      <3> QED
        BY <2>1, <3>1, <3>2, <3>3, GivesSlot DEF stale
    <2>3. CASE \E state \in {"queued", "failed"} :
                  att' = [Finished(stale, "failed") EXCEPT ![x] = row(state, NoInstance)]
      <3>1. PICK state \in {"queued", "failed"} :
                  att' = [Finished(stale, "failed") EXCEPT ![x] = row(state, NoInstance)]
        BY <2>3
      <3>2. Finished(stale, "failed") \in [Attempts -> AttemptRows]
        BY FinishedType
      <3>3. Keeps(x)
        BY <2>1, <3>1, <3>2 DEF Keeps, TerminalStates
      <3>4. ASSUME NEW y \in Attempts, y # x
            PROVE  Keeps(y)
        <4>1. att'[y] = Finished(stale, "failed")[y]
          BY <3>1, <3>2, <3>4
        <4>2. CASE y \in stale
          <5>1. att'[y] = [att[y] EXCEPT !.state = "failed"]
            BY <4>1, <4>2 DEF Finished
          <5>2. att'[y].state = "failed" /\ att[y].state \in LiveAttemptStates
            BY <1>a, <4>2, <5>1, StaleAttemptsLive DEF AttemptRows
          <5> QED
            BY <5>2 DEF Keeps, TerminalStates, LiveAttemptStates, ActiveAttemptStates
        <4>3. CASE y \notin stale
          BY <4>1, <4>3 DEF Finished, Keeps
        <4> QED
          BY <4>2, <4>3
      <3> QED
        BY <3>3, <3>4 DEF AttemptsStepOK
    <2> QED
      BY <1>4, <2>2, <2>3 DEF Enqueue
  <1>5. ASSUME NEW s \in Sessions, NEW x \in Attempts, Claim(s, x)
        PROVE  AttemptsStepOK
    <2> DEFINE p == att[x].provider
               age == txn[Main(s)].age
               stale == StaleAttempts(p, age)
    <2>1. CASE att' = Finished(stale, "failed")
      BY <2>1, FinishedKeeps, StaleAttemptsLive DEF AttemptsStepOK
    <2>2. CASE /\ HeadOfQueue(x, stale)
               /\ \E i \in Placements(p, stale) :
                    att' = [Finished(stale, "failed") EXCEPT ![x] = Acquiring(x, i)]
      <3>1. PICK i \in Placements(p, stale) :
                  att' = [Finished(stale, "failed") EXCEPT ![x] = Acquiring(x, i)]
        BY <2>2
      <3>2. i \in Instances \cup {NoInstance}
        BY PlacementsType
      <3>3. /\ Acquiring(x, i) \in AttemptRows
            /\ Acquiring(x, i).state = "acquiring" /\ Acquiring(x, i).instance = i
        BY <1>a, <3>2 DEF Acquiring, AttemptRows
      <3>4. att[x].state = "queued" /\ x \notin stale
        BY <2>2 DEF HeadOfQueue, Queued
      <3> QED
        BY <3>1, <3>3, <3>4, GivesSlot
    <2> QED
      BY <1>1, <1>5, <2>1, <2>2 DEF Claim
  <1>6. ASSUME NEW s \in Sessions, NEW x \in Attempts, Activate(s, x)
        PROVE  AttemptsStepOK
    <2>1. att'[x].state = "active" /\ att'[x].instance = att[x].instance
      BY <1>a, <1>6 DEF Activate, AttemptRows
    <2>2. att[x].state = "acquiring" /\ \A y \in Attempts \ {x} : att'[y] = att[y]
      BY <1>a, <1>6 DEF Activate
    <2> QED
      BY <2>1, <2>2 DEF AttemptsStepOK, Keeps
  <1>7. ASSUME NEW s \in Sessions, NEW x \in Attempts, NEW failed \in Verdicts,
               Finish(s, x, failed)
        PROVE  AttemptsStepOK
    <2>1. CASE att[x].state \in LiveAttemptStates
      <3>1. PICK state \in {"completed", "failed"} : att' = Finished({x}, state)
        BY <1>7, <2>1 DEF Finish
      <3> QED
        BY <2>1, <3>1, FinishedKeeps DEF AttemptsStepOK
    <2>2. CASE att[x].state \notin LiveAttemptStates
      BY <1>1, <1>7, <2>2 DEF Finish
    <2> QED
      BY <2>1, <2>2
  <1> QED
    BY <1>1, <1>2, <1>3, <1>4, <1>5, <1>6, <1>7 DEF Next, SessionStep, vars, Begin,
       BeginHeartbeat, Rollback, Heartbeat, HeartbeatFails, Open, Abandon, EnqueueRefused,
       Observe, ConfigureFleet, ConfigureCloud, Tick

--------------------------------------------------------------------------
(* Capacity *)

\* There are finitely many attempts, so what occupies an instance can be counted.
LEMMA OccupyingFinite ==
    ASSUME NEW i
    PROVE  IsFiniteSet(Occupying(i))
  <1>1. IsFiniteSet(Ordinals)
    BY FS_Interval, ConstantsAssumption DEF Ordinals
  <1>2. IsFiniteSet(Attempts)
    BY <1>1, FS_Product, ConstantsAssumption DEF Attempts
  <1>3. Occupying(i) \in SUBSET Attempts
    BY DEF Occupying
  <1> QED
    BY <1>2, <1>3, FS_Subset

\* A step that gives no slot of i frees slots of i at most.
LEMMA KeepsOccupying ==
    ASSUME NEW i, NEW y \in Attempts, Keeps(y), y \in Occupying(i)'
    PROVE  y \in Occupying(i)
  BY DEF Keeps, Occupying, ActiveAttemptStates, TerminalStates

\* A step that gives x a slot leaves x beside those that were there and are not stale.
LEMMA GivesOccupying ==
    ASSUME NEW x \in Attempts, NEW i \in Instances \cup {NoInstance},
           NEW stale \in SUBSET Attempts, Gives(x, i, stale)
    PROVE  /\ Occupying(i)' = (Occupying(i) \ stale) \cup {x}
           /\ \A j \in (Instances \cup {NoInstance}) \ {i} : Occupying(j)' = Occupying(j) \ stale
  <1>1. /\ x \in Occupying(i)'
        /\ \A j \in (Instances \cup {NoInstance}) \ {i} : x \notin Occupying(j)'
        /\ \A j \in Instances \cup {NoInstance} : x \notin Occupying(j)
    BY DEF Gives, Occupying, ActiveAttemptStates
  <1>2. ASSUME NEW y \in Attempts \ {x}, NEW j \in Instances \cup {NoInstance}
        PROVE  y \in Occupying(j)' <=> y \in Occupying(j) \ stale
    BY DEF Gives, Occupying, ActiveAttemptStates
  <1>3. \A j \in Instances \cup {NoInstance} :
            Occupying(j) \subseteq Attempts /\ Occupying(j)' \subseteq Attempts
    BY DEF Occupying
  <1> QED
    BY <1>1, <1>2, <1>3

\* The capacity of every instance survives every step.
LEMMA SlotsStep ==
    ASSUME TypeOK, SlotsWithinCapacity, [Next]_vars
    PROVE  SlotsWithinCapacity'
  <1> SUFFICES ASSUME NEW i \in Instances
               PROVE  Cardinality(Occupying(i)') <= Capacity[i]
    BY DEF SlotsWithinCapacity
  <1>1. /\ Cardinality(Occupying(i)) \in Nat
        /\ Cardinality(Occupying(i)) <= Capacity[i]
        /\ Capacity[i] \in Nat
    BY OccupyingFinite, FS_CardinalityType, ConstantsAssumption DEF SlotsWithinCapacity
  <1>2. AttemptsStepOK
    BY AttemptsStep
  <1>3. CASE Occupying(i)' \in SUBSET Occupying(i)
    <2>1. Cardinality(Occupying(i)') <= Cardinality(Occupying(i)) /\ Cardinality(Occupying(i)') \in Nat
      BY <1>3, OccupyingFinite, FS_Subset, FS_CardinalityType
    <2> QED
      BY <1>1, <2>1
  <1>4. CASE \A y \in Attempts : Keeps(y)
    <2>1. ASSUME NEW y \in Occupying(i)'
          PROVE  y \in Occupying(i)
      <3>1. y \in Attempts /\ Keeps(y)
        BY <1>4 DEF Occupying
      <3> QED
        BY <3>1, KeepsOccupying
    <2> QED
      BY <1>3, <2>1
  <1>5. ASSUME NEW x \in Attempts, NEW j \in Instances \cup {NoInstance},
               NEW stale \in SUBSET Attempts, Gives(x, j, stale)
        PROVE  Cardinality(Occupying(i)') <= Capacity[i]
    <2>1. CASE i # j
      BY <1>3, <1>5, <2>1, GivesOccupying
    <2>2. CASE i = j
      <3> DEFINE S == Occupying(i) \ stale
      <3>1. Cardinality(S) < Capacity[i] /\ Occupying(i)' = S \cup {x}
        BY <1>5, <2>2, GivesOccupying DEF Gives
      <3>2. IsFiniteSet(S) /\ Cardinality(S) \in Nat
        BY OccupyingFinite, FS_Subset, FS_CardinalityType
      <3> HIDE DEF S
      <3>3. Cardinality(S \cup {x}) = IF x \in S THEN Cardinality(S) ELSE Cardinality(S) + 1
        BY <3>2, FS_AddElement
      <3> QED
        BY <1>1, <3>1, <3>2, <3>3
    <2> QED
      BY <2>1, <2>2
  <1> QED
    BY <1>2, <1>4, <1>5 DEF AttemptsStepOK

\* At the start nothing is occupied.
LEMMA SlotsInit == Init => SlotsWithinCapacity
  <1> SUFFICES ASSUME Init, NEW i \in Instances
               PROVE  Cardinality(Occupying(i)) <= Capacity[i]
    BY DEF SlotsWithinCapacity
  <1>1. Occupying(i) = {}
    BY DEF Init, Occupying, NoAttempt, ActiveAttemptStates
  <1> QED
    BY <1>1, FS_EmptySet, ConstantsAssumption

\* No instance ever has more acquiring and active attempts than its session capacity,
\* however many API processes enqueue, claim, expire and crash, and however old the clock
\* is that each of their transactions has read.
THEOREM CapacityIsRespected == Spec => []SlotsWithinCapacity
  <1>1. Init => TypeOK /\ SlotsWithinCapacity
    BY TypeInit, SlotsInit
  <1>2. TypeOK /\ SlotsWithinCapacity /\ [Next]_vars => (TypeOK /\ SlotsWithinCapacity)'
    BY TypeStep, SlotsStep
  <1> QED
    BY <1>1, <1>2, PTL DEF Spec

--------------------------------------------------------------------------
(* Refinement of the capacity pool *)

Spent == {y \in Attempts : att[y].state \in TerminalStates}

\* The pool counts with the same Cardinality.
LEMMA PoolCardinality == \A S : Pool!Cardinality(S) = Cardinality(S)
  BY DEF Pool!Cardinality, Cardinality

\* A step that gives no slot retires the attempts it ends.
LEMMA KeepsRetires ==
    ASSUME \A y \in Attempts : Keeps(y)
    PROVE  Pool!Next
  <1>a. PICK cs \in SUBSET Attempts :
            cs = {y \in Attempts : /\ att[y].state \notin TerminalStates
                                   /\ att'[y].state \in TerminalStates}
    OBVIOUS
  <1>1. ASSUME NEW i \in Instances
        PROVE  Occupying(i)' = Occupying(i) \ cs
    BY <1>a DEF Keeps, Occupying, ActiveAttemptStates, TerminalStates
  <1>2. Spent' = Spent \cup cs
    BY <1>a DEF Keeps, Spent, TerminalStates
  <1>3. cs \in SUBSET (Attempts \ Spent)
    BY <1>a DEF Spent
  <1>4. Pool!Retire(cs)
    BY <1>1, <1>2 DEF Pool!Retire, Spent
  <1> QED
    BY <1>3, <1>4 DEF Pool!Next, Spent

\* A step that gives a slot of an instance is a grant; one of the cloud is none.
LEMMA GivesGrants ==
    ASSUME NEW x \in Attempts, NEW i \in Instances \cup {NoInstance},
           NEW stale \in SUBSET Attempts, Gives(x, i, stale)
    PROVE  Pool!Next
  <1>1. /\ Occupying(i)' = (Occupying(i) \ stale) \cup {x}
        /\ \A j \in Instances \ {i} : Occupying(j)' = Occupying(j) \ stale
    BY GivesOccupying
  <1>2. Spent' = Spent \cup stale
    BY DEF Gives, Spent, TerminalStates
  <1>3. stale \in SUBSET (Attempts \ Spent)
    BY DEF Gives, Spent, TerminalStates, LiveAttemptStates, ActiveAttemptStates
  <1>4. CASE i \in Instances
    <2>1. x \notin Spent /\ x \notin stale /\ \A j \in Instances : x \notin Occupying(j)
      BY DEF Gives, Spent, Occupying, TerminalStates, ActiveAttemptStates
    <2>2. x \notin Pool!Holders
      BY <2>1 DEF Pool!Holders
    <2>3. Pool!Cardinality(Occupying(i) \ stale) < Capacity[i]
      BY <1>4, PoolCardinality DEF Gives
    <2>4. Pool!Grant(x, i, stale)
      BY <1>1, <1>2, <1>4, <2>1, <2>2, <2>3 DEF Pool!Grant, Spent
    <2> QED
      BY <1>3, <1>4, <2>4 DEF Pool!Next, Spent
  <1>5. CASE i \notin Instances
    <2>1. Pool!Retire(stale)
      BY <1>1, <1>2, <1>5 DEF Pool!Retire, Spent
    <2> QED
      BY <1>3, <2>1 DEF Pool!Next, Spent
  <1> QED
    BY <1>4, <1>5

\* Every step of the admission transactions is a step of the capacity pool.
LEMMA PoolStep ==
    ASSUME TypeOK, [Next]_vars
    PROVE  Pool!Next
  BY AttemptsStep, KeepsRetires, GivesGrants DEF AttemptsStepOK

\* The attempt rows start as an empty pool.
LEMMA PoolInit == Init => Pool!Init
  <1> SUFFICES ASSUME Init PROVE Pool!Init
    OBVIOUS
  <1>1. \A i \in Instances : Occupying(i) = {}
    BY DEF Init, Occupying, NoAttempt, ActiveAttemptStates
  <1>2. Spent = {}
    BY DEF Init, Spent, NoAttempt, TerminalStates
  <1> QED
    BY <1>1, <1>2 DEF Pool!Init, Spent

\* The admission transactions implement the capacity pool: through every interleaving,
\* expiry, crash and reconfiguration an attempt is given at most one slot, once, within
\* the capacity of its instance, and what has ended is never given one again.
THEOREM AdmissionImplementsPool == Spec => ImplementsPool
  <1>1. Init => TypeOK /\ Pool!Init
    BY TypeInit, PoolInit
  <1>2. TypeOK /\ [Next]_vars => TypeOK'
    BY TypeStep
  <1>3. TypeOK /\ [Next]_vars => [Pool!Next]_(Pool!poolVars)
    BY PoolStep
  <1> QED
    BY <1>1, <1>2, <1>3, PTL DEF Spec, ImplementsPool, Pool!Spec

--------------------------------------------------------------------------
(* The order of the queue *)

\* The rows inserted so far have sequence numbers of their own, none beyond the sequence.
\* claim compares them with <=: only this makes the head of a queue the one that waited
\* longest, rather than one of several.
QueueNumbers ==
    \A x \in Attempts : att[x].state # "none" =>
        /\ att[x].seq <= seq
        /\ \A y \in Attempts \ {x} : att[y].state # "none" => att[y].seq # att[x].seq

\* A step that leaves the attempt its number.
NumberKept(y) ==
    /\ att'[y].seq = att[y].seq
    /\ att'[y].state = "none" <=> att[y].state = "none"

\* A step draws no number, or the next one for an attempt that is new.
NumbersDrawn ==
    \/ seq' = seq /\ \A y \in Attempts : NumberKept(y)
    \/ /\ seq' = seq + 1
       /\ \E x \in Attempts :
            /\ att[x].state = "none" /\ att'[x].seq = seq + 1
            /\ \A y \in Attempts \ {x} : NumberKept(y)

\* A step that gives x capacity while others with an unexpired lease wait for it gives it
\* to the one that waited longest.
GrantInOrder(x) ==
    att[x].state \notin ActiveAttemptStates /\ att'[x].state = "acquiring" =>
        \A y \in Attempts \ {x} :
            /\ att[y].state = "queued"
            /\ att[y].provider = att'[x].provider
            /\ Leased(SessionOf(y))
            => att[x].state = "queued" /\ att[x].seq < att[y].seq

QueueStepOK == NumbersDrawn /\ \A x \in Attempts : GrantInOrder(x)

\* A row that is finished keeps everything but its state.
LEMMA FinishedRow ==
    ASSUME TypeOK, NEW xs, NEW state \in {"completed", "failed"}, NEW y \in Attempts,
           y \in xs => att[y].state \in LiveAttemptStates
    PROVE  /\ Finished(xs, state)[y].seq = att[y].seq
           /\ Finished(xs, state)[y].state = "none" <=> att[y].state = "none"
           /\ Finished(xs, state)[y].state = "acquiring" => att[y].state = "acquiring"
  <1>1. att[y] \in AttemptRows
    BY DEF TypeOK, AttemptRows
  <1>2. CASE y \in xs
    <2>1. Finished(xs, state)[y] = [att[y] EXCEPT !.state = state]
      BY <1>2 DEF Finished
    <2>2. /\ Finished(xs, state)[y].seq = att[y].seq
          /\ Finished(xs, state)[y].state = state
      BY <1>1, <2>1 DEF AttemptRows
    <2>3. att[y].state # "none"
      BY <1>2 DEF LiveAttemptStates, ActiveAttemptStates
    <2> QED
      BY <2>2, <2>3
  <1>3. CASE y \notin xs
    BY <1>3 DEF Finished
  <1> QED
    BY <1>2, <1>3

\* A step that only finishes attempts draws no number and gives no capacity.
LEMMA FinishedInOrder ==
    ASSUME TypeOK, NEW xs, NEW state \in {"completed", "failed"},
           \A y \in Attempts : y \in xs => att[y].state \in LiveAttemptStates,
           att' = Finished(xs, state), seq' = seq
    PROVE  QueueStepOK
  BY FinishedRow DEF QueueStepOK, NumbersDrawn, NumberKept, GrantInOrder, ActiveAttemptStates

\* An attempt whose session's lease runs is stale to nobody, however old the clock is that
\* the operation read.
LEMMA LeasedNotStale ==
    ASSUME TypeOK, NEW y \in Attempts, Leased(SessionOf(y)), NEW p, NEW age \in 0..MaxAge
    PROVE  y \notin StaleAttempts(p, age)
  <1>1. SessionOf(y) \in Sessions
    BY DEF Attempts, SessionOf
  <1>2. sess[SessionOf(y)].left \in Int /\ age \in Int /\ age >= 0
    BY <1>1, ConstantsAssumption DEF TypeOK
  <1> QED
    BY <1>2 DEF Leased, StaleAttempts, Unexpired

\* Every step draws numbers and gives capacity as it should: enqueue gives capacity only
\* when nobody waits, claim only to the head of the queue.
LEMMA QueueStep ==
    ASSUME TypeOK, QueueNumbers, [Next]_vars
    PROVE  QueueStepOK
  <1>a. att \in [Attempts -> AttemptRows] /\ seq \in Nat
    BY DEF TypeOK, AttemptRows
  <1>b. ASSUME NEW s \in Sessions
        PROVE  txn[Main(s)].age \in 0..MaxAge
    BY SessionTasks DEF TypeOK
  <1>1. CASE att' = att /\ seq' = seq
    BY <1>1 DEF QueueStepOK, NumbersDrawn, NumberKept, GrantInOrder, ActiveAttemptStates
  <1>2. ASSUME NEW s \in Sessions, Admit(s)
        PROVE  QueueStepOK
    <2>1. PICK xs : /\ att' = Finished(xs, "failed")
                    /\ \A y \in Attempts : y \in xs => att[y].state \in LiveAttemptStates
      BY <1>2, SMTT(30) DEF Admit, ExpireTheirAttempts, LiveAttemptsOf
    <2> QED
      BY <1>2, <2>1, FinishedInOrder DEF Admit
  <1>3. ASSUME NEW s \in Sessions, NEW failed \in Verdicts, Release(s, failed)
        PROVE  QueueStepOK
    <2>1. \A y \in Attempts : y \in LiveAttemptsOf(s) => att[y].state \in LiveAttemptStates
      BY DEF LiveAttemptsOf
    <2>2. PICK state \in {"completed", "failed"} : att' = Finished(LiveAttemptsOf(s), state)
      BY <1>3 DEF Release
    <2> QED
      BY <1>3, <2>1, <2>2, FinishedInOrder DEF Release
  <1>4. ASSUME NEW s \in Sessions, NEW x \in Attempts, NEW p \in Requests, Enqueue(s, x, p)
        PROVE  QueueStepOK
    <2> DEFINE stale == StaleAttempts(p, txn[Main(s)].age)
    <2>1. att[x].state = "none" /\ seq' = seq + 1
      BY <1>4, NextIsNew DEF Enqueue
    <2>2. PICK row : /\ att' = [Finished(stale, "failed") EXCEPT ![x] = row]
                     /\ row.seq = seq + 1 /\ row.provider = p
                     /\ row.state = "acquiring" => Queued(p, stale) = {}
      <3> DEFINE new(state, i) == [state |-> state, provider |-> p, instance |-> i,
                                   seq |-> seq + 1]
      <3>1. \/ \E i : /\ att' = [Finished(stale, "failed") EXCEPT ![x] = new("acquiring", i)]
                      /\ Queued(p, stale) = {}
            \/ \E state \in {"queued", "failed"} :
                    att' = [Finished(stale, "failed") EXCEPT ![x] = new(state, NoInstance)]
        BY <1>4 DEF Enqueue
      <3>2. \A state, i : /\ new(state, i).seq = seq + 1 /\ new(state, i).provider = p
                          /\ new(state, i).state = state
        OBVIOUS
      <3> HIDE DEF new
      <3> QED
        BY <3>1, <3>2
    <2>3. \A y \in Attempts : y \in stale => att[y].state \in LiveAttemptStates
      BY StaleAttemptsLive
    <2>4. /\ att'[x] = row
          /\ \A y \in Attempts \ {x} : att'[y] = Finished(stale, "failed")[y]
      BY <2>2 DEF Finished
    <2>5. \A y \in Attempts \ {x} : NumberKept(y) /\ GrantInOrder(y)
      BY <2>3, <2>4, FinishedRow DEF NumberKept, GrantInOrder, ActiveAttemptStates
    <2>6. NumbersDrawn
      BY <2>1, <2>2, <2>4, <2>5 DEF NumbersDrawn
    <2>7. GrantInOrder(x)
      <3>1. SUFFICES ASSUME row.state = "acquiring", NEW y \in Attempts \ {x},
                            att[y].state = "queued", att[y].provider = p,
                            Leased(SessionOf(y))
                     PROVE  FALSE
        BY <2>2, <2>4 DEF GrantInOrder
      <3>2. y \notin stale
        BY <1>b, <3>1, LeasedNotStale
      <3> QED
        BY <2>2, <3>1, <3>2 DEF Queued
    <2> QED
      BY <2>5, <2>6, <2>7 DEF QueueStepOK
  <1>5. ASSUME NEW s \in Sessions, NEW x \in Attempts, Claim(s, x)
        PROVE  QueueStepOK
    <2> DEFINE p == att[x].provider
               stale == StaleAttempts(p, txn[Main(s)].age)
    <2>1. \A y \in Attempts : y \in stale => att[y].state \in LiveAttemptStates
      BY StaleAttemptsLive
    <2>2. CASE att' = Finished(stale, "failed")
      BY <1>5, <2>1, <2>2, FinishedInOrder DEF Claim
    <2>3. CASE /\ HeadOfQueue(x, stale)
               /\ \E i : att' = [Finished(stale, "failed") EXCEPT ![x] = Acquiring(x, i)]
      <3>1. PICK i : att' = [Finished(stale, "failed") EXCEPT ![x] = Acquiring(x, i)]
        BY <2>3
      <3>2. /\ att'[x] = Acquiring(x, i)
            /\ \A y \in Attempts \ {x} : att'[y] = Finished(stale, "failed")[y]
        BY <3>1 DEF Finished
      <3>3. /\ att'[x].seq = att[x].seq /\ att'[x].provider = p
            /\ att'[x].state = "acquiring"
        BY <1>a, <3>2 DEF Acquiring, AttemptRows
      <3>4. /\ att[x].state = "queued"
            /\ \A y \in Queued(p, stale) : att[x].seq <= att[y].seq
        BY <2>3 DEF HeadOfQueue, Queued
      <3>5. \A y \in Attempts \ {x} : NumberKept(y) /\ GrantInOrder(y)
        BY <2>1, <3>2, FinishedRow DEF NumberKept, GrantInOrder, ActiveAttemptStates
      <3>6. NumberKept(x)
        BY <3>3, <3>4 DEF NumberKept
      <3>7. GrantInOrder(x)
        <4>1. SUFFICES ASSUME NEW y \in Attempts \ {x}, att[y].state = "queued",
                              att[y].provider = p, Leased(SessionOf(y))
                       PROVE  att[x].seq < att[y].seq
          BY <3>3, <3>4 DEF GrantInOrder
        <4>2. y \in Queued(p, stale)
          BY <1>b, <4>1, LeasedNotStale DEF Queued
        <4>3. att[x].seq # att[y].seq
          BY <3>4, <4>1 DEF QueueNumbers
        <4>4. att[x].seq \in Nat /\ att[y].seq \in Nat
          BY <1>a DEF AttemptRows
        <4> QED
          BY <3>4, <4>2, <4>3, <4>4
      <3> QED
        BY <1>5, <3>5, <3>6, <3>7 DEF QueueStepOK, NumbersDrawn, Claim
    <2> QED
      BY <1>1, <1>5, <2>2, <2>3 DEF Claim
  <1>6. ASSUME NEW s \in Sessions, NEW x \in Attempts, Activate(s, x)
        PROVE  QueueStepOK
    <2>1. /\ att'[x].seq = att[x].seq /\ att'[x].state = "active"
          /\ att[x].state = "acquiring"
          /\ \A y \in Attempts \ {x} : att'[y] = att[y]
      BY <1>6, <1>a DEF Activate, AttemptRows
    <2>2. \A y \in Attempts : NumberKept(y) /\ GrantInOrder(y)
      BY <2>1 DEF NumberKept, GrantInOrder, ActiveAttemptStates
    <2> QED
      BY <1>6, <2>2 DEF Activate, QueueStepOK, NumbersDrawn
  <1>7. ASSUME NEW s \in Sessions, NEW x \in Attempts, NEW failed \in Verdicts,
               Finish(s, x, failed)
        PROVE  QueueStepOK
    <2>1. CASE att' = att
      BY <1>1, <1>7, <2>1 DEF Finish
    <2>2. CASE att' # att
      <3>1. PICK state \in {"completed", "failed"} : att' = Finished({x}, state)
        BY <1>7, <2>2 DEF Finish
      <3>2. \A y \in Attempts : y \in {x} => att[y].state \in LiveAttemptStates
        BY <1>7, <2>2 DEF Finish
      <3> QED
        BY <1>7, <3>1, <3>2, FinishedInOrder DEF Finish
    <2> QED
      BY <2>1, <2>2
  <1>8. ASSUME NEW s \in Sessions,
               \/ \E op \in {"admit", "open", "enqueue", "claim"} : Begin(s, op)
               \/ BeginHeartbeat(s) \/ Rollback(s) \/ Heartbeat(s) \/ HeartbeatFails(s)
               \/ Open(s) \/ Abandon(s) \/ EnqueueRefused(s)
        PROVE  QueueStepOK
    BY <1>1, <1>8 DEF Begin, BeginHeartbeat, Rollback, Heartbeat, HeartbeatFails, Open,
       Abandon, EnqueueRefused
  <1>9. CASE Observe \/ ConfigureFleet \/ ConfigureCloud \/ Tick \/ UNCHANGED vars
    BY <1>1, <1>9 DEF Observe, ConfigureFleet, ConfigureCloud, Tick, vars
  <1> QED
    BY <1>2, <1>3, <1>4, <1>5, <1>6, <1>7, <1>8, <1>9 DEF Next, SessionStep

\* The numbers stay distinct.
LEMMA NumbersStep ==
    ASSUME TypeOK, QueueNumbers, [Next]_vars
    PROVE  QueueNumbers'
  <1>1. NumbersDrawn
    BY QueueStep DEF QueueStepOK
  <1>2. \A y \in Attempts : att[y].seq \in Nat
    BY DEF TypeOK
  <1>3. seq \in Nat
    BY DEF TypeOK
  <1>4. CASE seq' = seq /\ \A y \in Attempts : NumberKept(y)
    BY <1>4 DEF QueueNumbers, NumberKept
  <1>5. ASSUME NEW x \in Attempts, seq' = seq + 1,
               att[x].state = "none", att'[x].seq = seq + 1,
               \A y \in Attempts \ {x} : NumberKept(y)
        PROVE  QueueNumbers'
    <2>1. \A y \in Attempts \ {x} :
            att'[y].state # "none" => att'[y].seq <= seq /\ att'[y].seq \in Nat
      BY <1>2, <1>5 DEF QueueNumbers, NumberKept
    <2>2. \A y, z \in Attempts \ {x} :
            y # z /\ att'[y].state # "none" /\ att'[z].state # "none"
                => att'[y].seq # att'[z].seq
      BY <1>5 DEF QueueNumbers, NumberKept
    <2>3. ASSUME NEW y \in Attempts, att'[y].state # "none"
          PROVE  /\ att'[y].seq <= seq'
                 /\ \A z \in Attempts \ {y} : att'[z].state # "none" => att'[z].seq # att'[y].seq
      <3>1. CASE y = x
        BY <1>3, <1>5, <2>1, <3>1
      <3>2. CASE y # x
        BY <1>3, <1>5, <2>1, <2>2, <2>3, <3>2
      <3> QED
        BY <3>1, <3>2
    <2> QED
      BY <2>3 DEF QueueNumbers
  <1> QED
    BY <1>1, <1>4, <1>5 DEF NumbersDrawn

\* Capacity is given in the order of the queue: however enqueues, claims and expiries
\* interleave, nobody overtakes a waiting attempt whose session's lease runs.
THEOREM CapacityInQueueOrder == Spec => GrantedInQueueOrder
  <1> DEFINE Ordered == \A x \in Attempts : GrantInOrder(x)
  <1>1. Init => QueueNumbers
    BY DEF Init, QueueNumbers, NoAttempt
  <1>2. TypeOK /\ QueueNumbers /\ [Next]_vars => (TypeOK /\ QueueNumbers)'
    BY TypeStep, NumbersStep
  <1>3. TypeOK /\ QueueNumbers /\ [Next]_vars => [Ordered]_vars
    BY QueueStep DEF QueueStepOK
  <1>4. [Ordered]_vars <=>
        [\A x \in Attempts :
            att[x].state \notin ActiveAttemptStates /\ att'[x].state = "acquiring" =>
                \A y \in Attempts \ {x} :
                    /\ att[y].state = "queued"
                    /\ att[y].provider = att'[x].provider
                    /\ Leased(SessionOf(y))
                    => att[x].state = "queued" /\ att[x].seq < att[y].seq]_vars
    BY DEF GrantInOrder
  <1> HIDE DEF Ordered
  <1> QED
    BY <1>1, <1>2, <1>3, <1>4, TypeInit, PTL DEF Spec, GrantedInQueueOrder

-----------------------------------------------------------------------------
(***************************************************************************)
(* Proofs about how sessions and attempts end: terminal rows are final, a  *)
(* session that is not live holds no live attempt, and while a lease runs  *)
(* only its owner ends anything; and that a session acquires one attempt   *)
(* at a time within the limit on sessions.  None is inductive: admit       *)
(* inserts a row, which overwrites nothing only because the owner that     *)
(* admits has no session yet (NewOwners), and a slot is given back by its  *)
(* holder only because an owner that is there has its lease (HeldLeases).  *)
(***************************************************************************)

\* An owner admits once, before it has a session, and beats only afterwards.
NewOwners ==
    \A s \in Sessions :
        /\ owner[s] = "new" => sess[s].state = "none"
        /\ InFlight(Main(s), "admit") => owner[s] = "new"
        /\ InFlight(Beat(s), "heartbeat") => owner[s] # "new"

\* The tasks of different sessions are different, and a session's two tasks are.
LEMMA TasksDistinct ==
    ASSUME NEW r \in Sessions, NEW s \in Sessions
    PROVE  /\ Main(r) # Beat(s)
           /\ r # s => Main(r) # Main(s) /\ Beat(r) # Beat(s)
  BY DEF Main, Beat

\* NewOwners survives every step.
LEMMA NewOwnersStep ==
    ASSUME TypeOK, NewOwners, [Next]_vars
    PROVE  NewOwners'
  <1> SUFFICES ASSUME NEW r \in Sessions
               PROVE  (/\ owner[r] = "new" => sess[r].state = "none"
                       /\ InFlight(Main(r), "admit") => owner[r] = "new"
                       /\ InFlight(Beat(r), "heartbeat") => owner[r] # "new")'
    BY DEF NewOwners
  <1> DEFINE Goal == /\ owner'[r] = "new" => sess'[r].state = "none"
                     /\ txn'[Main(r)].op = "admit" => owner'[r] = "new"
                     /\ txn'[Beat(r)].op = "heartbeat" => owner'[r] # "new"
  <1> SUFFICES Goal
    BY DEF InFlight
  <1>a. /\ sess \in [Sessions -> SessionRows]
        /\ owner \in [Sessions -> {"new", "live", "lost", "gone"}]
        /\ txn \in [Tasks -> Transactions]
    BY DEF TypeOK, SessionRows, Transactions
  <1>b. /\ owner[r] = "new" => sess[r].state = "none"
        /\ txn[Main(r)].op = "admit" => owner[r] = "new"
        /\ txn[Beat(r)].op = "heartbeat" => owner[r] # "new"
        /\ Main(r) \in Tasks /\ Beat(r) \in Tasks
    BY SessionTasks DEF NewOwners, InFlight
  <1>c. ASSUME NEW s \in Sessions
        PROVE  /\ Main(s) \in Tasks /\ Beat(s) \in Tasks
               /\ Main(r) # Beat(s) /\ Main(s) # Beat(r)
               /\ r # s => Main(r) # Main(s) /\ Beat(r) # Beat(s)
    BY TasksDistinct, SessionTasks
  <1>1. CASE UNCHANGED <<sess, owner, txn>>
    BY <1>1, <1>b
  <1>2. ASSUME NEW s \in Sessions, NEW op \in {"admit", "open", "enqueue", "claim"},
               Begin(s, op)
        PROVE  Goal
    BY <1>2, <1>a, <1>b, <1>c DEF Begin
  <1>3. ASSUME NEW s \in Sessions, BeginHeartbeat(s)
        PROVE  Goal
    BY <1>3, <1>a, <1>b, <1>c DEF BeginHeartbeat
  <1>4. ASSUME NEW s \in Sessions, Ended(Main(s)), UNCHANGED <<sess, owner>>
        PROVE  Goal
    BY <1>4, <1>a, <1>b, <1>c DEF Ended, Idle
  <1>5. ASSUME NEW s \in Sessions, Admit(s)
        PROVE  Goal
    <2>1. /\ txn' = [txn EXCEPT ![Main(s)] = Idle]
          /\ owner'[s] \in {"live", "gone"}
          /\ r # s => owner'[r] = owner[r]
      BY <1>5, <1>a DEF Admit, Ended
    <2>2. CASE r = s
      BY <1>a, <1>c, <2>1, <2>2 DEF Idle
    <2>3. CASE r # s
      <3>1. owner[r] = "new" => sess'[r] = sess[r]
        BY <1>5, <1>a, <1>b, <2>3
           DEF Admit, ExpireSessions, StaleSessions, InLiveState, LiveSessionStates
      <3>2. txn'[Main(r)] = txn[Main(r)] /\ txn'[Beat(r)] = txn[Beat(r)]
        BY <1>a, <1>b, <1>c, <2>1, <2>3
      <3> QED
        BY <1>b, <2>1, <2>3, <3>1, <3>2
    <2> QED
      BY <2>2, <2>3
  <1>6. ASSUME NEW s \in Sessions, Heartbeat(s)
        PROVE  Goal
    <2>1. sess'[r].state = sess[r].state
      <3>1. CASE sess' = sess
        BY <3>1
      <3>2. CASE \E n : sess' = [sess EXCEPT ![s].left = n]
        BY <3>2, <1>a DEF SessionRows
      <3> QED
        BY <1>6, <3>1, <3>2 DEF Heartbeat
    <2>2. owner'[r] = owner[r] \/ (r = s /\ owner'[r] = "lost")
      <3>1. owner' = owner \/ owner' = [owner EXCEPT ![s] = "lost"]
        BY <1>6 DEF Heartbeat
      <3> QED
        BY <1>a, <3>1
    <2>3. /\ txn[Beat(s)].op = "heartbeat"
          /\ txn' = [txn EXCEPT ![Beat(s)] = Idle]
      BY <1>6 DEF Heartbeat, Ended, InFlight
    <2>4. txn'[Main(r)] = txn[Main(r)]
      BY <1>a, <1>b, <1>c, <2>3
    <2>5. txn'[Beat(r)].op = "heartbeat" => r # s /\ txn'[Beat(r)] = txn[Beat(r)]
      BY <1>a, <1>b, <1>c, <2>3 DEF Idle
    <2> QED
      BY <1>b, <2>1, <2>2, <2>3, <2>4, <2>5
  <1>7. ASSUME NEW s \in Sessions, HeartbeatFails(s)
        PROVE  Goal
    BY <1>7, <1>a, <1>b, <1>c DEF HeartbeatFails, Ended, InFlight, Idle
  <1>8. ASSUME NEW s \in Sessions, Open(s)
        PROVE  Goal
    BY <1>8, <1>a, <1>b, <1>c DEF Open, Ended, Idle
  <1>9. ASSUME NEW s \in Sessions, NEW failed \in Verdicts, Release(s, failed)
        PROVE  Goal
    BY <1>9, <1>a, <1>b, <1>c DEF Release, Owns, Ended, Idle
  <1>10. ASSUME NEW s \in Sessions, Abandon(s)
         PROVE  Goal
    BY <1>10, <1>a, <1>b, <1>c DEF Abandon, Owns, Idle
  <1>11. CASE Tick
    <2>1. sess'[r].state = sess[r].state
      <3>1. sess'[r] = sess[r] \/ sess'[r] = [sess[r] EXCEPT !.left = @ - 1]
        BY <1>11 DEF Tick
      <3> QED
        BY <1>a, <3>1 DEF SessionRows
    <2>2. txn'[Main(r)].op = txn[Main(r)].op /\ txn'[Beat(r)].op = txn[Beat(r)].op
      BY <1>11, <1>a, <1>b DEF Tick, Transactions
    <2> QED
      BY <1>11, <1>b, <2>1, <2>2 DEF Tick
  <1> HIDE DEF Goal
  <1>12. ASSUME NEW s \in Sessions, NEW x \in Attempts,
                \/ \E p \in Requests : Enqueue(s, x, p)
                \/ Claim(s, x)
                \/ Activate(s, x)
                \/ \E failed \in Verdicts : Finish(s, x, failed)
         PROVE  Goal
    BY <1>1, <1>4, <1>12 DEF Enqueue, Claim, Activate, Finish
  <1>13. ASSUME NEW s \in Sessions, Rollback(s) \/ EnqueueRefused(s)
         PROVE  Goal
    BY <1>4, <1>13 DEF Rollback, EnqueueRefused
  <1>14. CASE Observe \/ ConfigureFleet \/ ConfigureCloud \/ UNCHANGED vars
    BY <1>1, <1>14 DEF Observe, ConfigureFleet, ConfigureCloud, vars
  <1> QED
    BY <1>2, <1>3, <1>5, <1>6, <1>7, <1>8, <1>9, <1>10, <1>11, <1>12, <1>13, <1>14
       DEF Next, SessionStep

--------------------------------------------------------------------------
(* What a step may do to a session *)

\* A session row that is written was not terminal, and a session that stops being live
\* takes its live attempts with it.
SessionKept(r) ==
    /\ sess[r].state \in TerminalStates => sess'[r] = sess[r]
    /\ \/ sess'[r].state = sess[r].state
       \/ sess'[r].state \in LiveSessionStates
       \/ \A x \in Attempts : SessionOf(x) = r => att'[x].state \notin LiveAttemptStates

\* Finished attempts are not live.
LEMMA FinishedEnds ==
    ASSUME TypeOK, NEW xs, NEW state \in {"completed", "failed"}, NEW y \in Attempts, y \in xs
    PROVE  Finished(xs, state)[y].state \notin LiveAttemptStates
  <1>1. Finished(xs, state)[y] = [att[y] EXCEPT !.state = state]
    BY DEF Finished
  <1>2. att[y] \in AttemptRows
    BY DEF TypeOK, AttemptRows
  <1> QED
    BY <1>1, <1>2 DEF AttemptRows, LiveAttemptStates, ActiveAttemptStates

\* SessionKept holds of every session in every step.
LEMMA SessionsStep ==
    ASSUME TypeOK, NewOwners, EndedSessionsHoldNothing, [Next]_vars, NEW r \in Sessions
    PROVE  SessionKept(r)
  <1>a. sess \in [Sessions -> SessionRows] /\ sess[r] \in SessionRows
    BY DEF TypeOK, SessionRows
  <1>1. CASE sess'[r] = sess[r]
    BY <1>1 DEF SessionKept
  <1>2. ASSUME NEW s \in Sessions, Admit(s)
        PROVE  SessionKept(r)
    <2> DEFINE stale == StaleSessions(txn[Main(s)].age)
               xs == UNION {LiveAttemptsOf(q) : q \in stale}
    <2>1. sess[s].state = "none"
      BY <1>2 DEF NewOwners, Admit
    <2>2. att' = Finished(xs, "failed")
      BY <1>2 DEF Admit, ExpireTheirAttempts
    <2>3. CASE r = s
      <3>1. ASSUME NEW x \in Attempts, SessionOf(x) = r
            PROVE  att'[x].state \notin LiveAttemptStates
        <4>1. att[x].state \notin LiveAttemptStates
          BY <2>1, <2>3, <3>1
             DEF EndedSessionsHoldNothing, InLiveState, LiveSessionStates
        <4>2. CASE x \in xs
          BY <2>2, <4>2, FinishedEnds
        <4>3. CASE x \notin xs
          BY <2>2, <4>1, <4>3 DEF Finished
        <4> QED
          BY <4>2, <4>3
      <3> QED
        BY <2>1, <2>3, <3>1 DEF SessionKept, TerminalStates
    <2>4. CASE r # s /\ r \in stale
      <3>1. ASSUME NEW x \in Attempts, SessionOf(x) = r
            PROVE  att'[x].state \notin LiveAttemptStates
        <4>1. CASE x \in xs
          BY <2>2, <4>1, FinishedEnds
        <4>2. CASE x \notin xs
          <5>1. att[x].state \notin LiveAttemptStates
            BY <2>4, <3>1, <4>2 DEF LiveAttemptsOf
          <5> QED
            BY <2>2, <4>2, <5>1 DEF Finished
        <4> QED
          BY <4>1, <4>2
      <3>2. sess[r].state \notin TerminalStates
        BY <2>4 DEF StaleSessions, InLiveState, LiveSessionStates, TerminalStates
      <3> QED
        BY <3>1, <3>2 DEF SessionKept
    <2>5. CASE r # s /\ r \notin stale
      BY <1>1, <1>2, <2>5 DEF Admit, ExpireSessions
    <2> QED
      BY <2>3, <2>4, <2>5
  <1>3. ASSUME NEW s \in Sessions, Heartbeat(s)
        PROVE  SessionKept(r)
    <2>1. CASE r # s
      BY <1>1, <1>3, <1>a, <2>1 DEF Heartbeat
    <2>2. CASE r = s /\ Unexpired(s, txn[Beat(s)].age)
      <3>1. PICK n : sess' = [sess EXCEPT ![s].left = n]
        BY <1>3, <2>2 DEF Heartbeat
      <3>2. sess'[r].state = sess[r].state
        BY <1>a, <2>2, <3>1 DEF SessionRows
      <3> QED
        BY <2>2, <3>2 DEF SessionKept, Unexpired, InLiveState, LiveSessionStates, TerminalStates
    <2>3. CASE ~Unexpired(s, txn[Beat(s)].age)
      BY <1>1, <1>3, <2>3 DEF Heartbeat
    <2> QED
      BY <2>1, <2>2, <2>3
  <1>4. ASSUME NEW s \in Sessions, Open(s)
        PROVE  SessionKept(r)
    <2>1. \/ sess' = sess
          \/ /\ sess[s].state = "admitted"
             /\ sess' = [sess EXCEPT ![s] = [state |-> "open",
                                             left |-> LeaseTicks - txn[Main(s)].age]]
      BY <1>4 DEF Open
    <2> QED
      BY <1>a, <2>1 DEF SessionKept, LiveSessionStates, TerminalStates
  <1>5. ASSUME NEW s \in Sessions, NEW failed \in Verdicts, Release(s, failed)
        PROVE  SessionKept(r)
    <2>1. CASE r # s \/ ~InLiveState(s)
      BY <1>1, <1>5, <1>a, <2>1 DEF Release
    <2>2. CASE r = s /\ InLiveState(s)
      <3>1. PICK state \in {"completed", "failed"} : att' = Finished(LiveAttemptsOf(s), state)
        BY <1>5 DEF Release
      <3>2. ASSUME NEW x \in Attempts, SessionOf(x) = r
            PROVE  att'[x].state \notin LiveAttemptStates
        <4>1. CASE x \in LiveAttemptsOf(s)
          BY <3>1, <4>1, FinishedEnds
        <4>2. CASE x \notin LiveAttemptsOf(s)
          BY <2>2, <3>1, <3>2, <4>2 DEF Finished, LiveAttemptsOf
        <4> QED
          BY <4>1, <4>2
      <3> QED
        BY <2>2, <3>2 DEF SessionKept, InLiveState, LiveSessionStates, TerminalStates
    <2> QED
      BY <2>1, <2>2
  <1>6. CASE Tick
    <2>1. CASE InLiveState(r)
      <3>1. sess'[r] = sess[r] \/ sess'[r] = [sess[r] EXCEPT !.left = @ - 1]
        BY <1>6 DEF Tick
      <3>2. sess'[r].state = sess[r].state
        BY <1>a, <3>1 DEF SessionRows
      <3> QED
        BY <2>1, <3>2 DEF SessionKept, InLiveState, LiveSessionStates, TerminalStates
    <2>2. CASE ~InLiveState(r)
      BY <1>1, <1>6, <2>2 DEF Tick
    <2> QED
      BY <2>1, <2>2
  <1>7. CASE UNCHANGED sess
    BY <1>1, <1>7
  <1>8. ASSUME NEW s \in Sessions, NEW x \in Attempts,
               \/ \E p \in Requests : Enqueue(s, x, p)
               \/ Claim(s, x)
               \/ Activate(s, x)
               \/ \E failed \in Verdicts : Finish(s, x, failed)
        PROVE  UNCHANGED sess
    BY <1>8 DEF Enqueue, Claim, Activate, Finish
  <1>9. ASSUME NEW s \in Sessions,
               \/ \E op \in {"admit", "open", "enqueue", "claim"} : Begin(s, op)
               \/ BeginHeartbeat(s) \/ Rollback(s) \/ HeartbeatFails(s) \/ Abandon(s)
               \/ EnqueueRefused(s)
        PROVE  UNCHANGED sess
    BY <1>9 DEF Begin, BeginHeartbeat, Rollback, HeartbeatFails, Abandon, EnqueueRefused
  <1>10. CASE Observe \/ ConfigureFleet \/ ConfigureCloud \/ UNCHANGED vars
    BY <1>7, <1>10 DEF Observe, ConfigureFleet, ConfigureCloud, vars
  <1> QED
    BY <1>2, <1>3, <1>4, <1>5, <1>6, <1>7, <1>8, <1>9, <1>10 DEF Next, SessionStep

--------------------------------------------------------------------------
(* What a step may do to an attempt *)

\* An attempt that becomes live belongs to a live session that the step leaves alone, and
\* that has no other live attempt or only the active one to be replaced.  No other attempt
\* becomes live with it.
Appears(x) ==
    /\ att[x].state \notin LiveAttemptStates
    /\ att'[x].state \in LiveAttemptStates
    => /\ InLiveState(SessionOf(x)) /\ sess' = sess
       /\ MayEnqueue(SessionOf(x))
       /\ \A z \in Attempts \ {x} :
            att'[z].state \in LiveAttemptStates => att[z].state \in LiveAttemptStates

\* Finishing attempts makes none live.
LEMMA FinishedMakesNoneLive ==
    ASSUME TypeOK, NEW xs, NEW state \in {"completed", "failed"}, NEW y \in Attempts
    PROVE  Finished(xs, state)[y].state \in LiveAttemptStates
               => att[y].state \in LiveAttemptStates
  <1>1. CASE y \in xs
    BY <1>1, FinishedEnds
  <1>2. CASE y \notin xs
    BY <1>2 DEF Finished
  <1> QED
    BY <1>1, <1>2

\* Only enqueue makes an attempt live, and it refuses a session that is not.
LEMMA AppearsStep ==
    ASSUME TypeOK, [Next]_vars, NEW y \in Attempts
    PROVE  Appears(y)
  <1>a. att \in [Attempts -> AttemptRows]
    BY DEF TypeOK, AttemptRows
  <1>1. CASE att'[y] = att[y]
    BY <1>1 DEF Appears
  <1>2. ASSUME NEW xs, NEW state \in {"completed", "failed"}, att' = Finished(xs, state)
        PROVE  Appears(y)
    BY <1>2, FinishedMakesNoneLive DEF Appears
  <1>3. ASSUME NEW s \in Sessions, NEW x \in Attempts, NEW p \in Requests, Enqueue(s, x, p)
        PROVE  Appears(y)
    <2>1. /\ SessionOf(x) = s /\ sess' = sess
          /\ InLiveState(s)
      BY <1>3 DEF Enqueue, IsNext, Unexpired
    <2>2. PICK xs, row : att' = [Finished(xs, "failed") EXCEPT ![x] = row]
      BY <1>3 DEF Enqueue
    <2>a. MayEnqueue(s)
      BY <1>3 DEF Enqueue
    <2>b. \A z \in Attempts \ {x} : att'[z] = Finished(xs, "failed")[z]
      BY <2>2 DEF Finished
    <2>c. \A z \in Attempts \ {x} :
            att'[z].state \in LiveAttemptStates => att[z].state \in LiveAttemptStates
      BY <2>b, FinishedMakesNoneLive
    <2>3. CASE y = x
      BY <2>1, <2>a, <2>c, <2>3 DEF Appears
    <2>4. CASE y # x
      BY <2>c, <2>4 DEF Appears
    <2> QED
      BY <2>3, <2>4
  <1>4. ASSUME NEW s \in Sessions, NEW x \in Attempts, Claim(s, x)
        PROVE  Appears(y)
    <2> DEFINE stale == StaleAttempts(att[x].provider, txn[Main(s)].age)
    <2>1. CASE att' = Finished(stale, "failed")
      BY <1>2, <2>1
    <2>2. CASE /\ HeadOfQueue(x, stale)
               /\ \E row : att' = [Finished(stale, "failed") EXCEPT ![x] = row]
      <3>1. PICK row : att' = [Finished(stale, "failed") EXCEPT ![x] = row]
        BY <2>2
      <3>2. CASE y = x
        BY <2>2, <3>2 DEF Appears, HeadOfQueue, Queued, LiveAttemptStates
      <3>3. CASE y # x
        <4>1. att'[y] = Finished(stale, "failed")[y]
          BY <3>1, <3>3 DEF Finished
        <4> QED
          BY <4>1, FinishedMakesNoneLive DEF Appears
      <3> QED
        BY <3>2, <3>3
    <2> QED
      BY <1>1, <1>4, <2>1, <2>2 DEF Claim
  <1>5. ASSUME NEW s \in Sessions, NEW x \in Attempts, Activate(s, x)
        PROVE  Appears(y)
    <2>1. CASE y = x
      BY <1>5, <2>1 DEF Activate, Appears, LiveAttemptStates, ActiveAttemptStates
    <2>2. CASE y # x
      BY <1>1, <1>5, <1>a, <2>2 DEF Activate
    <2> QED
      BY <2>1, <2>2
  <1>6. ASSUME NEW s \in Sessions, NEW x \in Attempts, NEW failed \in Verdicts,
               Finish(s, x, failed)
        PROVE  Appears(y)
    BY <1>1, <1>2, <1>6 DEF Finish
  <1>7. ASSUME NEW s \in Sessions,
               Admit(s) \/ \E failed \in Verdicts : Release(s, failed)
        PROVE  Appears(y)
    BY <1>2, <1>7 DEF Admit, ExpireTheirAttempts, Release
  <1>8. ASSUME NEW s \in Sessions,
               \/ \E op \in {"admit", "open", "enqueue", "claim"} : Begin(s, op)
               \/ BeginHeartbeat(s) \/ Rollback(s) \/ Heartbeat(s) \/ HeartbeatFails(s)
               \/ Open(s) \/ Abandon(s) \/ EnqueueRefused(s)
        PROVE  Appears(y)
    BY <1>1, <1>8 DEF Begin, BeginHeartbeat, Rollback, Heartbeat, HeartbeatFails, Open,
       Abandon, EnqueueRefused
  <1>9. CASE Observe \/ ConfigureFleet \/ ConfigureCloud \/ Tick \/ UNCHANGED vars
    BY <1>1, <1>9 DEF Observe, ConfigureFleet, ConfigureCloud, Tick, vars
  <1> QED
    BY <1>3, <1>4, <1>5, <1>6, <1>7, <1>8, <1>9 DEF Next, SessionStep

--------------------------------------------------------------------------
(* The theorems *)

EndingInv == TypeOK /\ NewOwners /\ EndedSessionsHoldNothing

\* At the start nobody has a session or an attempt.
LEMMA EndingInit == Init => EndingInv
  <1> SUFFICES ASSUME Init PROVE EndingInv
    OBVIOUS
  <1>1. NewOwners
    BY SessionTasks DEF Init, NewOwners, NoSession, InFlight, Idle
  <1>2. EndedSessionsHoldNothing
    BY DEF Init, EndedSessionsHoldNothing, NoAttempt, LiveAttemptStates, ActiveAttemptStates
  <1> QED
    BY <1>1, <1>2, TypeInit DEF EndingInv

\* The strengthened invariant survives every step.
LEMMA EndingStep ==
    ASSUME EndingInv, [Next]_vars
    PROVE  EndingInv'
  <1> USE DEF EndingInv
  <1>1. TypeOK' /\ NewOwners'
    BY TypeStep, NewOwnersStep
  <1>2. ASSUME NEW x \in Attempts, att'[x].state \in LiveAttemptStates
        PROVE  sess'[SessionOf(x)].state \in LiveSessionStates
    <2>1. SessionOf(x) \in Sessions
      BY DEF Attempts, SessionOf
    <2>2. CASE att[x].state \in LiveAttemptStates
      <3>1. sess[SessionOf(x)].state \in LiveSessionStates
        BY <2>2 DEF EndedSessionsHoldNothing, InLiveState
      <3>2. SessionKept(SessionOf(x))
        BY <2>1, SessionsStep
      <3> QED
        BY <1>2, <3>1, <3>2 DEF SessionKept
    <2>3. CASE att[x].state \notin LiveAttemptStates
      BY <1>2, <2>3, AppearsStep DEF Appears, InLiveState
    <2> QED
      BY <2>2, <2>3
  <1>3. EndedSessionsHoldNothing'
    BY <1>2 DEF EndedSessionsHoldNothing, InLiveState
  <1> QED
    BY <1>1, <1>3

\* A session that is not live never holds a queue place, an acquisition or a slot:
\* release, admit's expiry and the refusals of enqueue see to it together.
THEOREM EndedHoldNothing == Spec => []EndedSessionsHoldNothing
  <1>1. EndingInv => EndedSessionsHoldNothing
    BY DEF EndingInv
  <1> QED
    BY <1>1, EndingInit, EndingStep, PTL DEF Spec

\* A terminal session or attempt row is never written again, whoever cleans up, expires or
\* finishes it a second time.
THEOREM EndingIsFinal == Spec => TerminalIsFinal
  <1> DEFINE Final == /\ \A s \in Sessions : sess[s].state \in TerminalStates => sess'[s] = sess[s]
                      /\ \A x \in Attempts : att[x].state \in TerminalStates => att'[x] = att[x]
  <1>1. ASSUME EndingInv, [Next]_vars
        PROVE  Final
    <2>1. \A s \in Sessions : sess[s].state \in TerminalStates => sess'[s] = sess[s]
      BY <1>1, SessionsStep DEF EndingInv, SessionKept
    <2>2. AttemptsStepOK
      BY <1>1, AttemptsStep DEF EndingInv
    <2>3. \A x \in Attempts : att[x].state \in TerminalStates => att'[x] = att[x]
      BY <2>2 DEF AttemptsStepOK, Keeps, Gives, TerminalStates, LiveAttemptStates,
         ActiveAttemptStates
    <2> QED
      BY <2>1, <2>3
  <1>2. EndingInv /\ [Next]_vars => [Final]_vars
    BY <1>1
  <1> HIDE DEF Final
  <1> QED
    BY <1>2, EndingInit, EndingStep, PTL DEF Spec, TerminalIsFinal, Final

--------------------------------------------------------------------------
(* The limit on sessions *)

LiveSessions == {r \in Sessions : InLiveState(r)}

\* Only admit makes a session live, and it counts the others first.
LEMMA LiveSessionsStep ==
    ASSUME TypeOK, [Next]_vars
    PROVE  \/ LiveSessions' \subseteq LiveSessions
           \/ \E s \in Sessions, R \in SUBSET LiveSessions :
                /\ Cardinality(R) < MaxActiveSessions
                /\ LiveSessions' \subseteq R \cup {s}
  <1> DEFINE Goal == \/ LiveSessions' \subseteq LiveSessions
                     \/ \E s \in Sessions, R \in SUBSET LiveSessions :
                          /\ Cardinality(R) < MaxActiveSessions
                          /\ LiveSessions' \subseteq R \cup {s}
  <1> SUFFICES Goal
    OBVIOUS
  <1>a. sess \in [Sessions -> SessionRows]
    BY DEF TypeOK, SessionRows
  <1>b. ASSUME \A r \in Sessions : sess'[r].state \in LiveSessionStates => InLiveState(r)
        PROVE  Goal
    BY <1>b DEF LiveSessions, InLiveState
  <1>1. ASSUME NEW s \in Sessions, Admit(s)
        PROVE  Goal
    <2> DEFINE age == txn[Main(s)].age
    <2>1. \A r \in Sessions \ {s} : sess'[r].state \in LiveSessionStates => r \in Remaining(age)
      BY <1>1 DEF Admit, ExpireSessions, Remaining, InLiveState, LiveSessionStates
    <2>2. Remaining(age) \in SUBSET LiveSessions
      BY DEF Remaining, LiveSessions
    <2>3. CASE Cardinality(Remaining(age)) < MaxActiveSessions
      <3>1. LiveSessions' \subseteq Remaining(age) \cup {s}
        BY <2>1 DEF LiveSessions, InLiveState
      <3> QED
        BY <2>2, <2>3, <3>1
    <2>4. CASE ~(Cardinality(Remaining(age)) < MaxActiveSessions)
      <3>1. sess' = [ExpireSessions(StaleSessions(age)) EXCEPT
                        ![s] = [state |-> "failed", left |-> 0]]
        BY <1>1, <2>4 DEF Admit
      <3>2. sess'[s].state = "failed"
        BY <3>1 DEF ExpireSessions
      <3> QED
        BY <1>b, <2>1, <2>2, <3>2 DEF LiveSessions, LiveSessionStates
    <2> QED
      BY <2>3, <2>4
  <1>2. ASSUME NEW s \in Sessions, Heartbeat(s)
        PROVE  Goal
    <2>1. sess' = sess \/ \E n : sess' = [sess EXCEPT ![s].left = n]
      BY <1>2 DEF Heartbeat
    <2>2. \A r \in Sessions : sess'[r].state = sess[r].state
      BY <1>a, <2>1 DEF SessionRows
    <2> QED
      BY <1>b, <2>2 DEF InLiveState
  <1>3. ASSUME NEW s \in Sessions, Open(s)
        PROVE  Goal
    BY <1>3, <1>a, <1>b DEF Open, InLiveState, LiveSessionStates
  <1>4. ASSUME NEW s \in Sessions, NEW failed \in Verdicts, Release(s, failed)
        PROVE  Goal
    BY <1>4, <1>a, <1>b DEF Release, InLiveState, LiveSessionStates
  <1>5. CASE Tick
    <2>1. \A r \in Sessions : sess'[r] = sess[r] \/ sess'[r] = [sess[r] EXCEPT !.left = @ - 1]
      BY <1>5 DEF Tick
    <2>2. \A r \in Sessions : sess'[r].state = sess[r].state
      BY <1>a, <2>1 DEF SessionRows
    <2> QED
      BY <1>b, <2>2 DEF InLiveState
  <1>6. CASE UNCHANGED sess
    BY <1>6, <1>b DEF InLiveState
  <1> HIDE DEF Goal
  <1>7. ASSUME NEW s \in Sessions, NEW x \in Attempts,
               \/ \E p \in Requests : Enqueue(s, x, p)
               \/ Claim(s, x)
               \/ Activate(s, x)
               \/ \E failed \in Verdicts : Finish(s, x, failed)
        PROVE  Goal
    BY <1>6, <1>7 DEF Enqueue, Claim, Activate, Finish
  <1>8. ASSUME NEW s \in Sessions,
               \/ \E op \in {"admit", "open", "enqueue", "claim"} : Begin(s, op)
               \/ BeginHeartbeat(s) \/ Rollback(s) \/ HeartbeatFails(s) \/ Abandon(s)
               \/ EnqueueRefused(s)
        PROVE  Goal
    BY <1>6, <1>8 DEF Begin, BeginHeartbeat, Rollback, HeartbeatFails, Abandon, EnqueueRefused
  <1>9. CASE Observe \/ ConfigureFleet \/ ConfigureCloud \/ UNCHANGED vars
    BY <1>6, <1>9 DEF Observe, ConfigureFleet, ConfigureCloud, vars
  <1> QED
    BY <1>1, <1>2, <1>3, <1>4, <1>5, <1>7, <1>8, <1>9 DEF Next, SessionStep

\* The limit survives every step.
LEMMA SessionLimitStep ==
    ASSUME TypeOK, SessionsWithinCapacity, [Next]_vars
    PROVE  SessionsWithinCapacity'
  <1>1. /\ IsFiniteSet(LiveSessions)
        /\ Cardinality(LiveSessions) \in Nat
        /\ Cardinality(LiveSessions) <= MaxActiveSessions
        /\ MaxActiveSessions \in Nat
    BY FS_Subset, FS_CardinalityType, ConstantsAssumption
       DEF LiveSessions, SessionsWithinCapacity
  <1> SUFFICES Cardinality(LiveSessions') <= MaxActiveSessions
    BY DEF LiveSessions, SessionsWithinCapacity
  <1>2. CASE LiveSessions' \subseteq LiveSessions
    <2>1. Cardinality(LiveSessions') <= Cardinality(LiveSessions)
          /\ Cardinality(LiveSessions') \in Nat
      BY <1>1, <1>2, FS_Subset, FS_CardinalityType
    <2> QED
      BY <1>1, <2>1
  <1>3. ASSUME NEW s \in Sessions, NEW R \in SUBSET LiveSessions,
               Cardinality(R) < MaxActiveSessions, LiveSessions' \subseteq R \cup {s}
        PROVE  Cardinality(LiveSessions') <= MaxActiveSessions
    <2>1. IsFiniteSet(R) /\ Cardinality(R) \in Nat
      BY <1>1, FS_Subset, FS_CardinalityType
    <2>2. /\ IsFiniteSet(R \cup {s})
          /\ Cardinality(R \cup {s}) = IF s \in R THEN Cardinality(R) ELSE Cardinality(R) + 1
      BY <2>1, FS_AddElement
    <2>3. Cardinality(LiveSessions') <= Cardinality(R \cup {s})
          /\ Cardinality(LiveSessions') \in Nat
      BY <1>3, <2>2, FS_Subset, FS_CardinalityType
    <2> QED
      BY <1>1, <1>3, <2>1, <2>2, <2>3
  <1> QED
    BY <1>2, <1>3, LiveSessionsStep

\* Concurrent admissions never let more than stolosio_max_active_sessions sessions be live,
\* even counted with the leases that have expired and not been cleaned up yet.
THEOREM SessionLimitIsRespected == Spec => []SessionsWithinCapacity
  <1>1. Init => SessionsWithinCapacity
    <2> SUFFICES ASSUME Init PROVE SessionsWithinCapacity
      OBVIOUS
    <2>1. {s \in Sessions : InLiveState(s)} = {}
      BY DEF Init, InLiveState, NoSession, LiveSessionStates
    <2>2. Cardinality({s \in Sessions : InLiveState(s)}) = 0
      BY <2>1, FS_EmptySet
    <2> QED
      BY <2>2, ConstantsAssumption DEF SessionsWithinCapacity
  <1>2. TypeOK /\ SessionsWithinCapacity /\ [Next]_vars => (TypeOK /\ SessionsWithinCapacity)'
    BY TypeStep, SessionLimitStep
  <1> QED
    BY <1>1, <1>2, TypeInit, PTL DEF Spec

--------------------------------------------------------------------------
(* One acquisition at a time *)

\* A live attempt that is active stays so for as long as it is live.
LEMMA ActiveStays ==
    ASSUME TypeOK, [Next]_vars, NEW y \in Attempts,
           att[y].state = "active", att'[y].state \in LiveAttemptStates
    PROVE  att'[y].state = "active"
  <1>1. AttemptsStepOK
    BY AttemptsStep
  <1>2. CASE Keeps(y)
    BY <1>2 DEF Keeps, TerminalStates, LiveAttemptStates, ActiveAttemptStates
  <1>3. ASSUME NEW x \in Attempts, NEW i, NEW stale, Gives(x, i, stale)
        PROVE  att'[y].state = "active"
    <2>1. y # x
      BY <1>3 DEF Gives
    <2> QED
      BY <1>3, <2>1 DEF Gives, LiveAttemptStates, ActiveAttemptStates
  <1> QED
    BY <1>1, <1>2, <1>3 DEF AttemptsStepOK

\* The live attempts of a session can be counted.
LEMMA LiveAttemptsFinite ==
    ASSUME NEW s
    PROVE  IsFiniteSet(LiveAttemptsOf(s)) /\ LiveAttemptsOf(s) \in SUBSET Attempts
  <1>1. IsFiniteSet(Ordinals)
    BY FS_Interval, ConstantsAssumption DEF Ordinals
  <1>2. IsFiniteSet(Attempts)
    BY <1>1, FS_Product, ConstantsAssumption DEF Attempts
  <1>3. LiveAttemptsOf(s) \in SUBSET Attempts
    BY DEF LiveAttemptsOf
  <1> QED
    BY <1>2, <1>3, FS_Subset

\* A set within two elements has at most two.
LEMMA PairBound ==
    ASSUME NEW a, NEW b, NEW S \in SUBSET {a, b}
    PROVE  Cardinality(S) <= 2
  <1>1. IsFiniteSet({a}) /\ Cardinality({a}) = 1
    BY FS_Singleton
  <1>2. /\ IsFiniteSet({a} \cup {b})
        /\ Cardinality({a} \cup {b}) = 1 \/ Cardinality({a} \cup {b}) = 1 + 1
    BY <1>1, FS_AddElement, Zenon
  <1>3. {a, b} = {a} \cup {b}
    OBVIOUS
  <1>4. IsFiniteSet({a, b}) /\ Cardinality({a, b}) <= 2
    BY <1>2, <1>3
  <1>5. /\ IsFiniteSet(S)
        /\ Cardinality(S) <= Cardinality({a, b})
    BY <1>4, FS_Subset
  <1>6. Cardinality(S) \in Nat /\ Cardinality({a, b}) \in Nat
    BY <1>4, <1>5, FS_CardinalityType
  <1> QED
    BY <1>4, <1>5, <1>6

\* A step that makes no attempt of the session live leaves it no worse, and one that makes
\* an attempt live found it with at most the one that is replaced.
LEMMA AcquisitionStep ==
    ASSUME TypeOK, OneAcquisitionAtATime, [Next]_vars
    PROVE  OneAcquisitionAtATime'
  <1> DEFINE After(s) == {x \in Attempts : SessionOf(x) = s /\ att'[x].state \in LiveAttemptStates}
  <1>1. SUFFICES ASSUME NEW s \in Sessions
                 PROVE  /\ Cardinality(After(s)) <= 2
                        /\ \A x, y \in After(s) :
                              x = y \/ att'[x].state = "active" \/ att'[y].state = "active"
    BY DEF OneAcquisitionAtATime, LiveAttemptsOf
  <1>2. \A x \in Attempts : x \in After(s) /\ att[x].state = "active" => att'[x].state = "active"
    BY ActiveStays
  <1>3. \A x \in Attempts : x \in LiveAttemptsOf(s)
                              <=> SessionOf(x) = s /\ att[x].state \in LiveAttemptStates
    BY DEF LiveAttemptsOf
  <1>4. CASE After(s) \subseteq LiveAttemptsOf(s)
    <2>1. Cardinality(After(s)) <= Cardinality(LiveAttemptsOf(s))
      BY <1>4, LiveAttemptsFinite, FS_Subset
    <2>2. IsFiniteSet(After(s))
      BY <1>4, LiveAttemptsFinite, FS_Subset
    <2>3. Cardinality(After(s)) \in Nat /\ Cardinality(LiveAttemptsOf(s)) \in Nat
      BY <2>2, LiveAttemptsFinite, FS_CardinalityType
    <2>4. Cardinality(LiveAttemptsOf(s)) <= 2
      BY DEF OneAcquisitionAtATime
    <2>5. \A x, y \in LiveAttemptsOf(s) :
                x = y \/ att[x].state = "active" \/ att[y].state = "active"
      BY DEF OneAcquisitionAtATime
    <2> QED
      BY <1>2, <1>4, <2>1, <2>3, <2>4, <2>5
  <1>5. ASSUME NEW new \in After(s), new \notin LiveAttemptsOf(s)
        PROVE  /\ Cardinality(After(s)) <= 2
               /\ \A x, y \in After(s) :
                     x = y \/ att'[x].state = "active" \/ att'[y].state = "active"
    <2>1. Appears(new)
      BY AppearsStep
    <2>2. /\ MayEnqueue(s)
          /\ \A z \in Attempts \ {new} :
                att'[z].state \in LiveAttemptStates => att[z].state \in LiveAttemptStates
      BY <1>3, <1>5, <2>1 DEF Appears
    <2>3. After(s) \subseteq LiveAttemptsOf(s) \cup {new}
      BY <1>3, <2>2
    <2>4. PICK source \in After(s) :
                /\ After(s) \subseteq {source, new}
                /\ source = new \/ att'[source].state = "active"
      <3>1. CASE After(s) = {new}
        BY <3>1
      <3>2. CASE After(s) # {new}
        <4>1. PICK source \in LiveAttemptsOf(s) :
                /\ LiveAttemptsOf(s) = {source}
                /\ att[source].state = "active"
          BY <1>5, <2>2, <2>3, <3>2 DEF MayEnqueue
        <4>2. source \in After(s)
          BY <1>5, <2>3, <3>2, <4>1
        <4> QED
          BY <1>2, <2>3, <4>1, <4>2
      <3> QED
        BY <3>1, <3>2
    <2>5. Cardinality(After(s)) <= 2
      BY <2>4, PairBound
    <2> QED
      BY <2>4, <2>5
  <1> QED
    BY <1>4, <1>5

\* Whatever is enqueued, claimed, activated, expired and finished concurrently, a session
\* never waits for two browsers at once, and holds at most the one it is replacing beside.
THEOREM OneAcquisitionPerSession == Spec => []OneAcquisitionAtATime
  <1>1. Init => OneAcquisitionAtATime
    <2> SUFFICES ASSUME Init, NEW s \in Sessions
                 PROVE  /\ Cardinality(LiveAttemptsOf(s)) <= 2
                        /\ LiveAttemptsOf(s) = {}
      BY DEF OneAcquisitionAtATime
    <2>1. LiveAttemptsOf(s) = {}
      BY DEF Init, LiveAttemptsOf, NoAttempt, LiveAttemptStates, ActiveAttemptStates
    <2> QED
      BY <2>1, FS_EmptySet
  <1>2. TypeOK /\ OneAcquisitionAtATime /\ [Next]_vars => (TypeOK /\ OneAcquisitionAtATime)'
    BY TypeStep, AcquisitionStep
  <1> QED
    BY <1>1, <1>2, TypeInit, PTL DEF Spec

--------------------------------------------------------------------------
(* What a running lease protects *)

\* Only a live owner's heartbeat is in flight: release and abandoning cancel it.
BeatsOfLive == \A s \in Sessions : InFlight(Beat(s), "heartbeat") => owner[s] = "live"

\* An owner that is still there holds the lease of each attempt that has capacity.
HeldLeases ==
    \A x \in Attempts :
        /\ att[x].state \in ActiveAttemptStates
        /\ owner[SessionOf(x)] # "gone"
        => lease[x] # "none"

LeaseInv == EndingInv /\ BeatsOfLive /\ HeldLeases

\* An owner that is gone stays gone, and no other than a live one beats.
OwnerStepOK(r) ==
    /\ owner[r] = "gone" => owner'[r] = "gone"
    /\ txn'[Beat(r)].op = "heartbeat" => owner'[r] = "live"

\* OwnerStepOK holds of every owner in every step.
LEMMA OwnersStep ==
    ASSUME TypeOK, NewOwners, BeatsOfLive, [Next]_vars, NEW r \in Sessions
    PROVE  OwnerStepOK(r)
  <1>a. /\ owner \in [Sessions -> {"new", "live", "lost", "gone"}]
        /\ txn \in [Tasks -> Transactions]
    BY DEF TypeOK, Transactions
  <1>b. /\ txn[Main(r)].op = "admit" => owner[r] = "new"
        /\ txn[Beat(r)].op = "heartbeat" => owner[r] = "live"
        /\ Main(r) \in Tasks /\ Beat(r) \in Tasks
    BY SessionTasks DEF NewOwners, BeatsOfLive, InFlight
  <1>c. ASSUME NEW s \in Sessions
        PROVE  /\ Main(s) \in Tasks /\ Beat(s) \in Tasks
               /\ Main(r) # Beat(s) /\ Main(s) # Beat(r)
               /\ r # s => Main(r) # Main(s) /\ Beat(r) # Beat(s)
    BY TasksDistinct, SessionTasks
  <1>1. CASE owner'[r] = owner[r] /\ txn'[Beat(r)].op = txn[Beat(r)].op
    BY <1>1, <1>b DEF OwnerStepOK
  <1>2. ASSUME NEW s \in Sessions,
               \/ \E op \in {"admit", "open", "enqueue", "claim"} : Begin(s, op)
               \/ Rollback(s) \/ Open(s) \/ EnqueueRefused(s)
        PROVE  OwnerStepOK(r)
    BY <1>1, <1>2, <1>a, <1>b, <1>c DEF Begin, Rollback, Open, EnqueueRefused, Ended
  <1>3. ASSUME NEW s \in Sessions, BeginHeartbeat(s)
        PROVE  OwnerStepOK(r)
    BY <1>3, <1>a, <1>b, <1>c DEF BeginHeartbeat, OwnerStepOK
  <1>4. ASSUME NEW s \in Sessions, Admit(s)
        PROVE  OwnerStepOK(r)
    <2>1. txn'[Beat(r)] = txn[Beat(r)] /\ owner[s] = "new"
      BY <1>4, <1>a, <1>b, <1>c DEF Admit, Ended, NewOwners
    <2>2. CASE r = s
      BY <1>b, <2>1, <2>2 DEF OwnerStepOK
    <2>3. CASE r # s
      <3>1. owner'[r] = owner[r]
        BY <1>4, <1>a, <2>3 DEF Admit
      <3> QED
        BY <1>1, <2>1, <3>1
    <2> QED
      BY <2>2, <2>3
  <1>5. ASSUME NEW s \in Sessions, Heartbeat(s) \/ HeartbeatFails(s)
        PROVE  OwnerStepOK(r)
    <2>1. CASE r = s
      <3>1. owner[s] = "live" /\ txn'[Beat(s)] = Idle
        BY <1>5, <1>a, <1>c DEF Heartbeat, HeartbeatFails, Ended, BeatsOfLive
      <3> QED
        BY <2>1, <3>1 DEF OwnerStepOK, Idle
    <2>2. CASE r # s
      BY <1>1, <1>5, <1>a, <1>b, <1>c, <2>2 DEF Heartbeat, HeartbeatFails, Ended
    <2> QED
      BY <2>1, <2>2
  <1>6. ASSUME NEW s \in Sessions, Abandon(s) \/ \E failed \in Verdicts : Release(s, failed)
        PROVE  OwnerStepOK(r)
    <2>1. CASE r = s
      <3>1. owner'[s] = "gone" /\ txn'[Beat(s)] = Idle
        BY <1>6, <1>a, <1>c DEF Abandon, Release, Ended
      <3> QED
        BY <2>1, <3>1 DEF OwnerStepOK, Idle
    <2>2. CASE r # s
      BY <1>1, <1>6, <1>a, <1>b, <1>c, <2>2 DEF Abandon, Release, Ended
    <2> QED
      BY <2>1, <2>2
  <1>7. ASSUME NEW s \in Sessions, NEW x \in Attempts,
               \/ \E p \in Requests : Enqueue(s, x, p)
               \/ Claim(s, x) \/ Activate(s, x)
               \/ \E failed \in Verdicts : Finish(s, x, failed)
        PROVE  OwnerStepOK(r)
    BY <1>1, <1>7, <1>a, <1>b, <1>c DEF Enqueue, Claim, Activate, Finish, Ended
  <1>8. CASE Tick
    BY <1>1, <1>8, <1>a, <1>b DEF Tick, Transactions
  <1>9. CASE Observe \/ ConfigureFleet \/ ConfigureCloud \/ UNCHANGED vars
    BY <1>1, <1>9 DEF Observe, ConfigureFleet, ConfigureCloud, vars
  <1> QED
    BY <1>2, <1>3, <1>4, <1>5, <1>6, <1>7, <1>8, <1>9 DEF Next, SessionStep

\* A session whose lease runs is ended by its owner, who goes.
EndedByOwner(r) ==
    Leased(r) /\ sess'[r].state \notin LiveSessionStates
        => owner[r] # "gone" /\ owner'[r] = "gone"

\* Every step ends sessions with a running lease through their owners only.
LEMMA EndedByOwnerStep ==
    ASSUME TypeOK, NewOwners, [Next]_vars, NEW r \in Sessions
    PROVE  EndedByOwner(r)
  <1>a. /\ sess \in [Sessions -> SessionRows] /\ sess[r] \in SessionRows
        /\ owner \in [Sessions -> {"new", "live", "lost", "gone"}]
    BY DEF TypeOK, SessionRows
  <1>1. CASE sess'[r].state = sess[r].state
    BY <1>1 DEF EndedByOwner, Leased, InLiveState
  <1>2. ASSUME NEW s \in Sessions, Admit(s)
        PROVE  EndedByOwner(r)
    <2> DEFINE age == txn[Main(s)].age
    <2>1. age \in 0..MaxAge /\ MaxAge \in Nat /\ sess[r].left \in Int
      BY <1>a, SessionTasks, ConstantsAssumption DEF TypeOK, SessionRows
    <2>2. Leased(r) => r # s /\ r \notin StaleSessions(age)
      BY <1>2, <2>1 DEF Leased, InLiveState, LiveSessionStates, NewOwners, Admit, StaleSessions,
         Unexpired
    <2>3. Leased(r) => sess'[r] = sess[r]
      BY <1>2, <2>2 DEF Admit, ExpireSessions
    <2> QED
      BY <1>1, <2>3 DEF EndedByOwner
  <1>3. ASSUME NEW s \in Sessions, NEW failed \in Verdicts, Release(s, failed)
        PROVE  EndedByOwner(r)
    <2>1. CASE r = s
      BY <1>3, <1>a, <2>1 DEF Release, Owns, EndedByOwner
    <2>2. CASE r # s
      BY <1>1, <1>3, <1>a, <2>2 DEF Release
    <2> QED
      BY <2>1, <2>2
  <1>4. ASSUME NEW s \in Sessions, Heartbeat(s)
        PROVE  EndedByOwner(r)
    BY <1>1, <1>4, <1>a DEF Heartbeat, SessionRows
  <1>5. ASSUME NEW s \in Sessions, Open(s)
        PROVE  EndedByOwner(r)
    <2>1. sess'[r].state = sess[r].state \/ sess'[r].state = "open"
      BY <1>5, <1>a DEF Open
    <2> QED
      BY <1>1, <2>1 DEF EndedByOwner, LiveSessionStates
  <1>6. CASE Tick
    BY <1>1, <1>6, <1>a DEF Tick, SessionRows
  <1>7. ASSUME NEW s \in Sessions,
               \/ \E op \in {"admit", "open", "enqueue", "claim"} : Begin(s, op)
               \/ BeginHeartbeat(s) \/ Rollback(s) \/ HeartbeatFails(s)
               \/ Abandon(s) \/ EnqueueRefused(s)
        PROVE  EndedByOwner(r)
    BY <1>1, <1>7 DEF Begin, BeginHeartbeat, Rollback, HeartbeatFails, Abandon, EnqueueRefused
  <1>8. ASSUME NEW s \in Sessions, NEW x \in Attempts,
               \/ \E p \in Requests : Enqueue(s, x, p)
               \/ Claim(s, x) \/ Activate(s, x)
               \/ \E failed \in Verdicts : Finish(s, x, failed)
        PROVE  EndedByOwner(r)
    BY <1>1, <1>8 DEF Enqueue, Claim, Activate, Finish
  <1>9. CASE Observe \/ ConfigureFleet \/ ConfigureCloud \/ UNCHANGED vars
    BY <1>1, <1>9 DEF Observe, ConfigureFleet, ConfigureCloud, vars
  <1> QED
    BY <1>2, <1>3, <1>4, <1>5, <1>6, <1>7, <1>8, <1>9 DEF Next, SessionStep

\* Capacity under a running lease is given back by whoever holds it, and an attempt gets
\* capacity only together with a lease.
GivenBackByHolder(y) ==
    /\ /\ att[y].state \in ActiveAttemptStates
       /\ Leased(SessionOf(y))
       /\ att'[y].state \notin ActiveAttemptStates
       => lease[y] # "none" /\ lease'[y] = "none"
    /\ /\ att'[y].state \in ActiveAttemptStates
       /\ owner'[SessionOf(y)] # "gone"
       => lease'[y] # "none"

\* A step that ends attempts of expired leases only takes nothing from a running lease.
LEMMA ExpiredTakesNothing ==
    ASSUME TypeOK, HeldLeases, NEW y \in Attempts, NEW xs,
           Leased(SessionOf(y)) => y \notin xs,
           att'[y] = Finished(xs, "failed")[y], lease'[y] = lease[y],
           owner[SessionOf(y)] = "gone" => owner'[SessionOf(y)] = "gone"
    PROVE  GivenBackByHolder(y)
  <1>1. CASE y \in xs
    <2>1. att'[y].state \notin ActiveAttemptStates
      BY <1>1, FinishedEnds DEF LiveAttemptStates
    <2> QED
      BY <1>1, <2>1 DEF GivenBackByHolder
  <1>2. CASE y \notin xs
    <2>1. att'[y] = att[y]
      BY <1>2 DEF Finished
    <2> QED
      BY <2>1 DEF GivenBackByHolder, HeldLeases
  <1> QED
    BY <1>1, <1>2

\* GivenBackByHolder holds of every attempt in every step.
LEMMA GivenBackStep ==
    ASSUME TypeOK, NewOwners, BeatsOfLive, HeldLeases, [Next]_vars, NEW y \in Attempts
    PROVE  GivenBackByHolder(y)
  <1>a. /\ att \in [Attempts -> AttemptRows]
        /\ lease \in [Attempts -> {"none", "acquiring", "active"}]
        /\ owner \in [Sessions -> {"new", "live", "lost", "gone"}]
    BY DEF TypeOK, AttemptRows
  <1>b. SessionOf(y) \in Sessions
    BY DEF Attempts, SessionOf
  <1>c. owner[SessionOf(y)] = "gone" => owner'[SessionOf(y)] = "gone"
    BY <1>b, OwnersStep DEF OwnerStepOK
  <1>1. CASE att'[y] = att[y] /\ lease'[y] = lease[y]
    BY <1>1, <1>c DEF GivenBackByHolder, HeldLeases
  <1>2. ASSUME NEW s \in Sessions, Admit(s)
        PROVE  GivenBackByHolder(y)
    <2> DEFINE age == txn[Main(s)].age
               xs == UNION {LiveAttemptsOf(r) : r \in StaleSessions(age)}
    <2>1. age \in 0..MaxAge /\ MaxAge \in Nat /\ sess[SessionOf(y)].left \in Int
      BY <1>b, SessionTasks, ConstantsAssumption DEF TypeOK
    <2>2. Leased(SessionOf(y)) => SessionOf(y) \notin StaleSessions(age)
      BY <2>1 DEF Leased, StaleSessions, Unexpired
    <2>3. Leased(SessionOf(y)) => y \notin xs
      BY <2>2 DEF LiveAttemptsOf
    <2>4. att' = Finished(xs, "failed") /\ lease' = lease
      BY <1>2 DEF Admit, ExpireTheirAttempts
    <2> HIDE DEF xs
    <2> QED
      BY <1>c, <2>3, <2>4, ExpiredTakesNothing
  <1>3. ASSUME NEW s \in Sessions, NEW failed \in Verdicts, Release(s, failed)
        PROVE  GivenBackByHolder(y)
    <2>1. CASE SessionOf(y) = s
      <3>1. /\ owner[SessionOf(y)] # "gone" /\ owner'[SessionOf(y)] = "gone"
            /\ lease'[y] = "none"
        BY <1>3, <1>a, <2>1 DEF Release, Owns, Dropped
      <3> QED
        BY <3>1 DEF GivenBackByHolder, HeldLeases
    <2>2. CASE SessionOf(y) # s
      <3>1. y \notin LiveAttemptsOf(s) /\ y \notin {x \in Attempts : SessionOf(x) = s}
        BY <2>2 DEF LiveAttemptsOf
      <3>2. att'[y] = att[y] /\ lease'[y] = lease[y]
        BY <1>3, <3>1 DEF Release, Finished, Dropped
      <3> QED
        BY <1>1, <3>2
    <2> QED
      BY <2>1, <2>2
  <1>4. ASSUME NEW s \in Sessions, Abandon(s)
        PROVE  GivenBackByHolder(y)
    <2>1. att' = att
      BY <1>4 DEF Abandon
    <2>2. CASE SessionOf(y) = s
      BY <1>4, <1>a, <2>1, <2>2 DEF Abandon, GivenBackByHolder
    <2>3. CASE SessionOf(y) # s
      BY <1>1, <1>4, <2>1, <2>3 DEF Abandon, Dropped
    <2> QED
      BY <2>2, <2>3
  <1>5. ASSUME NEW s \in Sessions, NEW x \in Attempts, NEW p \in Requests, Enqueue(s, x, p)
        PROVE  GivenBackByHolder(y)
    <2> DEFINE stale == StaleAttempts(p, txn[Main(s)].age)
               row(state, i) == [state |-> state, provider |-> p, instance |-> i,
                                 seq |-> seq + 1]
    <2>1. Leased(SessionOf(y)) => y \notin stale
      BY LeasedNotStale, SessionTasks DEF TypeOK
    <2>2. att[x].state = "none"
      BY <1>5, NextIsNew DEF Enqueue
    <2>3. CASE y = x
      <3>1. \/ lease'[x] = "acquiring"
            \/ \E state \in {"queued", "failed"} : att'[x] = row(state, NoInstance)
        BY <1>5, <1>a DEF Enqueue, Finished
      <3>2. \A state : row(state, NoInstance).state = state
        OBVIOUS
      <3> HIDE DEF row
      <3>3. lease'[x] # "none" \/ att'[x].state \notin ActiveAttemptStates
        BY <3>1, <3>2 DEF ActiveAttemptStates
      <3> QED
        BY <2>2, <2>3, <3>3 DEF GivenBackByHolder, ActiveAttemptStates
    <2>4. CASE y # x
      <3>1. att'[y] = Finished(stale, "failed")[y] /\ lease'[y] = lease[y]
        BY <1>5, <1>a, <2>4 DEF Enqueue, Finished
      <3> HIDE DEF stale
      <3> QED
        BY <1>c, <2>1, <3>1, ExpiredTakesNothing
    <2> QED
      BY <2>3, <2>4
  <1>6. ASSUME NEW s \in Sessions, NEW x \in Attempts, Claim(s, x)
        PROVE  GivenBackByHolder(y)
    <2> DEFINE stale == StaleAttempts(att[x].provider, txn[Main(s)].age)
    <2>1. Leased(SessionOf(y)) => y \notin stale
      BY LeasedNotStale, SessionTasks DEF TypeOK
    <2>2. CASE att' = Finished(stale, "failed") /\ lease' = lease
      <3> HIDE DEF stale
      <3> QED
        BY <1>c, <2>1, <2>2, ExpiredTakesNothing
    <2>3. CASE /\ HeadOfQueue(x, stale)
               /\ \E row : att' = [Finished(stale, "failed") EXCEPT ![x] = row]
               /\ lease' = [lease EXCEPT ![x] = "acquiring"]
      <3>1. CASE y = x
        <4>1. att[x].state = "queued"
          BY <2>3 DEF HeadOfQueue, Queued
        <4> QED
          BY <1>a, <2>3, <3>1, <4>1 DEF GivenBackByHolder, ActiveAttemptStates
      <3>2. CASE y # x
        <4>1. att'[y] = Finished(stale, "failed")[y] /\ lease'[y] = lease[y]
          BY <1>a, <2>3, <3>2 DEF Finished
        <4> HIDE DEF stale
        <4> QED
          BY <1>c, <2>1, <4>1, ExpiredTakesNothing
      <3> QED
        BY <3>1, <3>2
    <2> QED
      BY <1>1, <1>6, <2>2, <2>3 DEF Claim
  <1>7. ASSUME NEW s \in Sessions, NEW x \in Attempts, Activate(s, x)
        PROVE  GivenBackByHolder(y)
    <2>1. CASE y = x
      BY <1>7, <1>a, <2>1 DEF Activate, GivenBackByHolder, ActiveAttemptStates, AttemptRows
    <2>2. CASE y # x
      BY <1>1, <1>7, <1>a, <2>2 DEF Activate
    <2> QED
      BY <2>1, <2>2
  <1>8. ASSUME NEW s \in Sessions, NEW x \in Attempts, NEW failed \in Verdicts,
               Finish(s, x, failed)
        PROVE  GivenBackByHolder(y)
    <2>1. CASE y = x
      <3>1. lease'[y] = "none"
        BY <1>8, <2>1 DEF Finish, Dropped
      <3>2. att[y].state \in ActiveAttemptStates => lease[y] # "none"
        BY <1>8, <2>1 DEF Finish, ActiveAttemptStates
      <3>3. att'[y].state \notin ActiveAttemptStates
        <4>1. CASE att[x].state \in LiveAttemptStates
          <5>1. PICK state \in {"completed", "failed"} : att' = Finished({x}, state)
            BY <1>8, <4>1 DEF Finish
          <5> QED
            BY <2>1, <5>1, FinishedEnds DEF LiveAttemptStates
        <4>2. CASE att[x].state \notin LiveAttemptStates
          BY <1>8, <2>1, <4>2 DEF Finish, LiveAttemptStates
        <4> QED
          BY <4>1, <4>2
      <3> QED
        BY <3>1, <3>2, <3>3 DEF GivenBackByHolder
    <2>2. CASE y # x
      BY <1>1, <1>8, <2>2 DEF Finish, Finished, Dropped
    <2> QED
      BY <2>1, <2>2
  <1>9. ASSUME NEW s \in Sessions,
               \/ \E op \in {"admit", "open", "enqueue", "claim"} : Begin(s, op)
               \/ BeginHeartbeat(s) \/ Rollback(s) \/ Heartbeat(s) \/ HeartbeatFails(s)
               \/ Open(s) \/ EnqueueRefused(s)
        PROVE  GivenBackByHolder(y)
    BY <1>1, <1>9 DEF Begin, BeginHeartbeat, Rollback, Heartbeat, HeartbeatFails, Open,
       EnqueueRefused
  <1>10. CASE Observe \/ ConfigureFleet \/ ConfigureCloud \/ Tick \/ UNCHANGED vars
    BY <1>1, <1>10 DEF Observe, ConfigureFleet, ConfigureCloud, Tick, vars
  <1> QED
    BY <1>2, <1>3, <1>4, <1>5, <1>6, <1>7, <1>8, <1>9, <1>10 DEF Next, SessionStep

\* The strengthened invariant survives every step.
LEMMA LeaseStep ==
    ASSUME LeaseInv, [Next]_vars
    PROVE  LeaseInv'
  <1> USE DEF LeaseInv, EndingInv
  <1>1. EndingInv'
    BY EndingStep
  <1>2. BeatsOfLive'
    BY OwnersStep DEF BeatsOfLive, OwnerStepOK, InFlight
  <1>3. HeldLeases'
    BY GivenBackStep DEF HeldLeases, GivenBackByHolder
  <1> QED
    BY <1>1, <1>2, <1>3

\* While a lease runs only the session's owner ends the session, and only the holder gives
\* an attempt's capacity back: no expiry of another process takes them, though it decides
\* by a clock it read before it had its locks.
THEOREM RunningLeaseProtects == Spec => LeaseProtects
  <1> DEFINE Protected ==
        /\ \A s \in Sessions :
             Leased(s) /\ ~InLiveState(s)' => owner[s] # "gone" /\ owner'[s] = "gone"
        /\ \A x \in Attempts :
             /\ att[x].state \in ActiveAttemptStates
             /\ Leased(SessionOf(x))
             /\ att'[x].state \notin ActiveAttemptStates
             => lease[x] # "none" /\ lease'[x] = "none"
  <1>1. Init => LeaseInv
    <2> SUFFICES ASSUME Init PROVE LeaseInv
      OBVIOUS
    <2>1. BeatsOfLive
      BY SessionTasks DEF Init, BeatsOfLive, InFlight, Idle
    <2>2. HeldLeases
      BY DEF Init, HeldLeases, NoAttempt, ActiveAttemptStates
    <2> QED
      BY <2>1, <2>2, EndingInit DEF LeaseInv
  <1>2. LeaseInv /\ [Next]_vars => LeaseInv'
    BY LeaseStep
  <1>3. ASSUME LeaseInv, [Next]_vars
        PROVE  Protected
    <2>1. \A s \in Sessions : EndedByOwner(s)
      BY <1>3, EndedByOwnerStep DEF LeaseInv, EndingInv
    <2>2. \A x \in Attempts : GivenBackByHolder(x)
      BY <1>3, GivenBackStep DEF LeaseInv, EndingInv
    <2> QED
      BY <2>1, <2>2 DEF EndedByOwner, GivenBackByHolder, InLiveState
  <1>4. LeaseInv /\ [Next]_vars => [Protected]_vars
    BY <1>3
  <1> HIDE DEF Protected
  <1> QED
    BY <1>1, <1>2, <1>4, PTL DEF Spec, LeaseProtects, Protected
==========================================================================
