-------------------------- MODULE FleetGatewayProofs --------------------------
(***************************************************************************)
(* Proofs about Fleet and about Gateway: the two sides of a browser's      *)
(* capacity, the workers that offer it and the connection that uses it.    *)
(*                                                                         *)
(* Fleet, for any number of Pods and attempts and any configurations: no   *)
(* worker has more attempts than the slots it was started with, and        *)
(* nothing is placed on an instance between the check that it is idle and  *)
(* its removal.                                                            *)
(*                                                                         *)
(* Gateway, for any number of policy versions: whatever races with the     *)
(* admission and the preparation of a connection, it leaves nothing        *)
(* behind, gives a slot back only behind a closed browser, and never reads *)
(* a policy older than one its replica has acknowledged.                   *)
(***************************************************************************)
EXTENDS Fleet, Gateway, FiniteSetTheorems, WellFoundedInduction, TLAPS

-----------------------------------------------------------------------------
(* Fleet.                                                                  *)

States == {"none", "starting", "ready", "draining", "unhealthy", "stopped"}
Rows == [state: States, current: BOOLEAN, capacity: Nat]
Statuses == {"absent", "starting", "ready", "terminating"}
Workers == [status: Statuses, ordinal: Nat, capacity: Nat]
Passes ==
    [phase: Phases, desired: Nat, capacity: Nat, demand: BOOLEAN, direction: Directions,
     count: Nat, listed: SUBSET Pods, open: SUBSET Pods, candidates: SUBSET Pods,
     removing: SUBSET Pods, unhealthy: SUBSET Pods]

\* The shape of the tables, the Pods and the pass; the bounds on the sizes are
\* not needed here.
Shape ==
    /\ config \in Configurations
    /\ desired \in Nat
    /\ rows \in [Pods -> Rows]
    /\ placed \in [Attempts -> {"none", "queued"} \cup Pods]
    /\ replicas \in Nat
    /\ template \in Nat
    /\ pods \in [Pods -> Workers]
    /\ pass \in Passes

\* A row knows the capacity its worker was started with, which bounds what is
\* placed there; no two Pods share an ordinal.
WorkersInv ==
    /\ \A u \in Pods : rows[u].state # "none" => rows[u].capacity = pods[u].capacity
    /\ \A u \in Pods : Cardinality(On(u)) <= pods[u].capacity
    /\ \A u, w \in Present : pods[u].ordinal = pods[w].ordinal => u = w

\* What a pass has found idle is marked, alone, and remembered until it is told
\* to the runtime.
IdleMarked(u) == rows[u].state = "draining" /\ On(u) = {}

PassInv ==
    /\ pass.phase = "drain" => \A u, w \in pass.candidates : u = w
    /\ pass.phase = "cancel" => pass.direction # "down"
    /\ pass.phase = "scale" /\ pass.direction = "down" =>
            \A u \in pass.candidates : IdleMarked(u)
    /\ pass.phase # "remove" => pass.removing = {}
    /\ pass.removing \subseteq pass.candidates
    /\ \A u \in pass.removing : IdleMarked(u)

Inv == Shape /\ WorkersInv /\ PassInv

-----------------------------------------------------------------------------
(* Rows, Pods and passes *)

\* A row keeps its capacity when its state changes.
LEMMA RowState ==
    ASSUME NEW r \in Rows, NEW s \in States
    PROVE  /\ [r EXCEPT !.state = s] \in Rows
           /\ [r EXCEPT !.state = s].state = s
           /\ [r EXCEPT !.state = s].capacity = r.capacity
BY Zenon DEF Rows

\* and keeps both when its observation is stopped or lapses.
LEMMA RowCurrent ==
    ASSUME NEW r \in Rows, NEW s \in States
    PROVE  /\ [r EXCEPT !.current = FALSE] \in Rows
           /\ [r EXCEPT !.current = FALSE].state = r.state
           /\ [r EXCEPT !.current = FALSE].capacity = r.capacity
           /\ [r EXCEPT !.state = s, !.current = FALSE] \in Rows
           /\ [r EXCEPT !.state = s, !.current = FALSE].state = s
           /\ [r EXCEPT !.state = s, !.current = FALSE].capacity = r.capacity
BY Zenon DEF Rows

\* The row an observation writes.
LEMMA RowObserved ==
    ASSUME NEW s \in States, NEW c \in Nat
    PROVE  /\ [state |-> s, current |-> TRUE, capacity |-> c] \in Rows
           /\ [state |-> s, current |-> TRUE, capacity |-> c].state = s
           /\ [state |-> s, current |-> TRUE, capacity |-> c].capacity = c
           /\ NoRow \in Rows /\ NoRow.state = "none"
BY Zenon DEF Rows, NoRow, States

\* The fields of a worker's row.
LEMMA RowFields ==
    ASSUME NEW r \in Rows
    PROVE  r.state \in States /\ r.capacity \in Nat
BY DEF Rows

\* What a pass of the reconciler remembers.
LEMMA PassFields ==
    ASSUME NEW p \in Passes
    PROVE  /\ p.phase \in Phases /\ p.direction \in Directions
           /\ p.desired \in Nat /\ p.capacity \in Nat /\ p.count \in Nat
           /\ p.listed \subseteq Pods /\ p.open \subseteq Pods /\ p.candidates \subseteq Pods
           /\ p.removing \subseteq Pods /\ p.unhealthy \subseteq Pods
BY DEF Passes

\* The pass at rest.
LEMMA NoPassFields ==
    /\ NoPass \in Passes /\ NoPass.phase = "idle" /\ NoPass.removing = {}
    /\ NoPass.candidates = {}
BY Zenon DEF NoPass, Passes, Phases, Directions

\* A pass that is between its decisions has promised nothing.
LEMMA AtRest ==
    ASSUME pass'.phase \notin {"drain", "cancel", "scale", "remove"}, pass'.removing = {}
    PROVE  PassInv'
BY DEF PassInv

\* A pass that goes on keeps what it has marked and found idle.
LEMMA PassKept ==
    ASSUME PassInv, UNCHANGED pass,
           \A u \in pass.candidates : IdleMarked(u) => IdleMarked(u)'
    PROVE  PassInv'
BY DEF PassInv

-----------------------------------------------------------------------------
(* Admission *)

\* The attempts placed on a worker can be counted.
LEMMA OnFinite ==
    ASSUME NEW u
    PROVE  IsFiniteSet(On(u)) /\ Cardinality(On(u)) \in Nat
<1>1. IsFiniteSet(Attempts) /\ On(u) \subseteq Attempts
  BY FleetAssumption DEF On
<1> QED
  BY <1>1, FS_Subset, FS_CardinalityType

\* An attempt moves, to no instance or to one that is free for it.
LEMMA PlacementMoves ==
    ASSUME Inv, NEW x \in Attempts, NEW v \in {"none", "queued"} \cup Free,
           placed' = [placed EXCEPT ![x] = v],
           UNCHANGED <<database, cluster, controller>>
    PROVE  Inv'
<1>1. UNCHANGED <<config, desired, rows, replicas, template, pods, pass>>
  BY DEF database, cluster, controller
<1>2. Free \subseteq Pods /\ Pods \cap {"none", "queued"} = {}
  BY FleetAssumption DEF Free
<1>3. Shape'
  BY <1>1, <1>2 DEF Inv, Shape
<1>4. ASSUME NEW u \in Pods
      PROVE  IF u = v THEN On(u)' \subseteq On(u) \cup {x} ELSE On(u)' \subseteq On(u)
  BY <1>2 DEF Inv, Shape, On
<1>5. ASSUME NEW u \in Pods
      PROVE  Cardinality(On(u)') <= pods[u].capacity
  <2>1. pods[u].capacity \in Nat /\ Cardinality(On(u)) <= pods[u].capacity
    BY DEF Inv, Shape, WorkersInv, Workers
  <2>2. IsFiniteSet(On(u)) /\ Cardinality(On(u)) \in Nat
    BY OnFinite
  <2>3. CASE u # v
    <3>1. On(u)' \subseteq On(u)
      BY <1>4, <2>3
    <3>2. Cardinality(On(u)') \in Nat /\ Cardinality(On(u)') <= Cardinality(On(u))
      BY <3>1, <2>2, FS_Subset, FS_CardinalityType
    <3> QED
      BY <3>2, <2>1, <2>2
  <2>4. CASE u = v
    <3>1. /\ rows[u].state = "ready" /\ Cardinality(On(u)) < rows[u].capacity
      BY <2>4, <1>2 DEF Free
    <3>2. rows[u].capacity = pods[u].capacity
      BY <3>1 DEF Inv, WorkersInv
    <3>3. /\ IsFiniteSet(On(u) \cup {x})
          /\ Cardinality(On(u) \cup {x}) <= Cardinality(On(u)) + 1
          /\ Cardinality(On(u) \cup {x}) \in Nat
      <4>1. /\ IsFiniteSet(On(u) \cup {x})
            /\ \/ Cardinality(On(u) \cup {x}) = Cardinality(On(u))
               \/ Cardinality(On(u) \cup {x}) = Cardinality(On(u)) + 1
        BY <2>2, FS_AddElement, Zenon
      <4> QED
        BY <4>1, <2>2
    <3>4. On(u)' \subseteq On(u) \cup {x}
      BY <1>4, <2>4
    <3>5. /\ Cardinality(On(u)') \in Nat
          /\ Cardinality(On(u)') <= Cardinality(On(u) \cup {x})
      BY <3>3, <3>4, FS_Subset, FS_CardinalityType
    <3> QED
      BY <3>1, <3>2, <3>3, <3>5, <2>1, <2>2
  <2> QED
    BY <2>3, <2>4
<1>6. WorkersInv'
  BY <1>1, <1>5 DEF Inv, WorkersInv, Present
<1>7. ASSUME NEW u \in pass.candidates, IdleMarked(u)
      PROVE  IdleMarked(u)'
  <2>1. u \in Pods /\ u # v
    BY <1>2, <1>7, PassFields DEF Inv, Shape, IdleMarked, Free
  <2> QED
    BY <1>1, <1>4, <1>7, <2>1 DEF IdleMarked
<1>8. PassInv'
  BY <1>1, <1>7, PassKept DEF Inv
<1> QED
  BY <1>3, <1>6, <1>8 DEF Inv

\* Admission places, claims for or finishes an attempt.
LEMMA Admits ==
    ASSUME Inv, NEW x \in Attempts, Enqueue(x) \/ Claim(x) \/ Finish(x)
    PROVE  Inv'
<1>1. \E v \in {"none", "queued"} \cup Free :
        /\ placed' = [placed EXCEPT ![x] = v]
        /\ UNCHANGED <<database, cluster, controller>>
  <2>1. CASE Enqueue(x)
    BY <2>1, Zenon DEF Enqueue
  <2>2. CASE Claim(x)
    BY <2>2, Zenon DEF Claim
  <2>3. CASE Finish(x)
    BY <2>3, Zenon DEF Finish
  <2> QED
    BY <2>1, <2>2, <2>3
<1> QED
  BY <1>1, PlacementMoves

-----------------------------------------------------------------------------
(* The reconciler *)

\* The policy's target is a number of instances.
LEMMA TargetType ==
    ASSUME Shape, NEW demand \in Nat
    PROVE  Target(demand) \in Nat
<1>1. /\ config.minimum \in Nat /\ config.maximum \in Nat
      /\ config.capacity \in Nat /\ config.capacity > 0
      /\ desired \in Nat
  BY FleetAssumption DEF Shape
<1>2. Ceil(demand, config.capacity) \in Int
  BY <1>1 DEF Ceil
<1>3. MinOf(config.maximum, MaxOf(config.minimum, Ceil(demand, config.capacity))) \in Nat
  BY <1>1, <1>2 DEF MinOf, MaxOf
<1>4. MinOf(config.maximum, desired + 1) \in Nat
  BY <1>1 DEF MinOf
<1>5. \A a, b \in Nat : MaxOf(a, b) \in Nat
  BY DEF MaxOf
<1> QED
  BY <1>3, <1>4, <1>5 DEF Target

\* A pass counts the demand and moves the desired size.
LEMMA Evaluates ==
    ASSUME Inv, Evaluate
    PROVE  Inv'
<1>1. UNCHANGED <<config, rows, placed, replicas, template, pods>>
  BY DEF Evaluate, cluster
<1>2. /\ config \in Configurations /\ config.capacity \in Nat
      /\ desired \in Nat
  BY FleetAssumption DEF Inv, Shape
<1>3. desired' \in Nat
  <2> DEFINE demand == Cardinality(Demand)
             target == Target(demand)
  <2>1. demand \in Nat
    BY FleetAssumption, FS_Subset, FS_CardinalityType DEF Demand
  <2>2. target \in Nat
    BY <2>1, TargetType DEF Inv
  <2>3. \/ desired' = desired + 1
        \/ desired' = IF Shrinks(demand, target) THEN desired - 1 ELSE desired
    BY DEF Evaluate
  <2> HIDE DEF demand, target
  <2> QED
    BY <1>2, <2>2, <2>3 DEF Shrinks
<1>4. /\ pass' = [NoPass EXCEPT !.phase = "evaluated", !.desired = desired',
                               !.capacity = config.capacity, !.demand = Cardinality(Demand) > 0]
      /\ (Cardinality(Demand) > 0) \in BOOLEAN
  <2>1. (Cardinality(Demand) > 0) \in BOOLEAN
    OBVIOUS
  <2> QED
    BY <2>1, Zenon DEF Evaluate
<1>5. pass' \in Passes /\ pass'.phase = "evaluated" /\ pass'.removing = {}
  <2>1. "evaluated" \in Phases
    BY DEF Phases
  <2> QED
    BY <1>2, <1>3, <1>4, <2>1, NoPassFields, Zenon DEF Passes
<1> QED
  BY <1>1, <1>2, <1>3, <1>5, AtRest DEF Inv, Shape, WorkersInv, On, Present

\* Of the Pods there are, some has the lowest ordinal.
LEMMA LowestOrdinal ==
    ASSUME Shape, Present # {}
    PROVE  \E u \in Present : \A w \in Present : pods[u].ordinal <= pods[w].ordinal
<1> DEFINE R == OpToRel(<, Nat)
           T == {pods[u].ordinal : u \in Present}
<1>1. T \subseteq Nat /\ T # {}
  <2>1. \A u \in Present : pods[u].ordinal \in Nat
    BY DEF Shape, Workers, Present
  <2> QED
    BY <2>1
<1>2. IsWellFoundedOn(R, Nat)
  BY NatLessThanWellFounded
<1>3. PICK n \in T : \A m \in T : ~ (<<m, n>> \in R)
  BY <1>1, <1>2, WFMin
<1>4. \A m \in T : n <= m
  <2> SUFFICES ASSUME NEW m \in T
               PROVE  n <= m
    OBVIOUS
  <2>1. n \in Nat /\ m \in Nat /\ ~ (<<m, n>> \in R)
    BY <1>1, <1>3
  <2>2. ~ (m < n)
    BY <2>1, Zenon DEF OpToRel
  <2> HIDE DEF R, T
  <2> QED
    BY <2>1, <2>2
<1> QED
  BY <1>3, <1>4

\* The capacity of the next Pods is that of the ones there are, or the one wanted.
LEMMA ScaleCapacityType ==
    ASSUME Shape
    PROVE  ScaleCapacity \in Nat
<1>1. pass.capacity \in Nat
  BY PassFields DEF Shape
<1>2. CASE Present # {}
  <2>1. (CHOOSE u \in Present : \A w \in Present : pods[u].ordinal <= pods[w].ordinal) \in Pods
    BY <1>2, LowestOrdinal DEF Present
  <2> QED
    BY <1>1, <2>1 DEF ScaleCapacity, Shape, Workers
<1> QED
  BY <1>1, <1>2 DEF ScaleCapacity

\* A pass probes the workers it has listed.
LEMMA Probes ==
    ASSUME Inv, Probe(Present, Ready), UNCHANGED <<database, placed, cluster>>
    PROVE  Inv'
<1>1. UNCHANGED <<config, desired, rows, placed, replicas, template, pods>>
  BY DEF database, cluster
<1>2. PICK us \in SUBSET Pods :
        pass' = [NoPass EXCEPT !.phase = "replace", !.listed = Present, !.open = Ready,
                               !.candidates = us]
  BY DEF Probe, Present
<1>3. Present \in SUBSET Pods /\ Ready \in SUBSET Pods
  BY DEF Present, Ready
<1>4. pass' \in Passes /\ pass'.phase = "replace" /\ pass'.removing = {}
  <2>1. "replace" \in Phases
    BY DEF Phases
  <2> QED
    BY <1>2, <1>3, <2>1, NoPassFields, Zenon DEF Passes
<1> QED
  BY <1>1, <1>4, AtRest DEF Inv, Shape, WorkersInv, On, Present

\* A pass settles on the number of workers and on what to drain for it.
LEMMA Scaling ==
    ASSUME Inv, NEW f \in {"drain", "cancel"}, NEW d \in Directions, NEW n \in Nat,
           pass.phase = "evaluated", f = "cancel" => d # "down",
           pass' = [pass EXCEPT !.phase = f, !.direction = d, !.count = n,
                                !.capacity = ScaleCapacity, !.candidates = Highest(Present)],
           UNCHANGED <<database, placed, cluster>>
    PROVE  Inv'
<1>1. UNCHANGED <<config, desired, rows, placed, replicas, template, pods>>
  BY DEF database, cluster
<1>2. Highest(Present) \in SUBSET Pods /\ f \in Phases /\ ScaleCapacity \in Nat
  BY ScaleCapacityType DEF Highest, Present, Phases, Inv
<1>3. /\ pass' \in Passes /\ pass'.phase = f /\ pass'.direction = d
      /\ pass'.candidates = Highest(Present) /\ pass'.removing = {}
  <2>1. pass \in Passes /\ pass.removing = {}
    BY DEF Inv, Shape, PassInv
  <2> QED
    BY <1>2, <2>1, Zenon DEF Passes
<1>4. \A u, w \in Highest(Present) : u = w
  <2> SUFFICES ASSUME NEW u \in Highest(Present), NEW w \in Highest(Present)
               PROVE  u = w
    OBVIOUS
  <2>1. /\ u \in Present /\ w \in Present
        /\ pods[w].ordinal <= pods[u].ordinal /\ pods[u].ordinal <= pods[w].ordinal
    BY DEF Highest
  <2>2. pods[w].ordinal \in Nat /\ pods[u].ordinal \in Nat
    BY <2>1 DEF Inv, Shape, Workers, Present
  <2> QED
    BY <2>1, <2>2 DEF Inv, WorkersInv
<1>5. PassInv'
  BY <1>3, <1>4 DEF PassInv
<1> QED
  BY <1>1, <1>3, <1>5 DEF Inv, Shape, WorkersInv, On, Present

\* A pass lists the Pods.
LEMMA Lists ==
    ASSUME Inv, ListInstances
    PROVE  Inv'
<1> DEFINE current == Cardinality(Present)
<1>1. pass.desired \in Nat /\ current \in Nat
  <2>1. IsFiniteSet(Present)
    BY FleetAssumption, FS_Subset DEF Present
  <2> QED
    BY <2>1, FS_CardinalityType, PassFields DEF Inv, Shape
<1> HIDE DEF current
<1>2. pass.phase = "evaluated" /\ UNCHANGED <<database, placed, cluster>>
  BY DEF ListInstances
<1>3. CASE Probe(Present, Ready)
  BY <1>2, <1>3, Probes
<1>4. CASE \E f \in {"drain", "cancel"}, d \in Directions, n \in Nat :
             /\ f = "cancel" => d # "down"
             /\ pass' = [pass EXCEPT !.phase = f, !.direction = d, !.count = n,
                             !.capacity = ScaleCapacity, !.candidates = Highest(Present)]
  BY <1>2, <1>4, Scaling
<1>5. /\ current > pass.desired => current - 1 \in Nat
      /\ current + 1 \in Nat
      /\ {"up", "down", "configure"} \subseteq Directions
  BY <1>1 DEF Directions
<1> QED
  BY <1>1, <1>3, <1>4, <1>5 DEF ListInstances, current

\* prepare_scale_down marks an instance that has a row.
LEMMA Marks ==
    ASSUME Shape, NEW u \in Pods, rows' = Draining(u)
    PROVE  /\ rows' \in [Pods -> Rows]
           /\ \A w \in Pods : /\ rows'[w].capacity = rows[w].capacity
                              /\ rows'[w].state = "none" <=> rows[w].state = "none"
                              /\ w # u => rows'[w] = rows[w]
           /\ rows[u].state # "none" => rows'[u].state = "draining"
<1>1. rows \in [Pods -> Rows]
  BY DEF Shape
<1>2. CASE rows[u].state = "none"
  BY <1>1, <1>2 DEF Draining
<1>3. CASE rows[u].state # "none"
  <2> DEFINE r == [rows[u] EXCEPT !.state = "draining"]
  <2>1. rows' = [rows EXCEPT ![u] = r]
    BY <1>3, Zenon DEF Draining
  <2>2. rows[u] \in Rows /\ "draining" \in States
    BY <1>1 DEF States
  <2>3. r \in Rows /\ r.state = "draining" /\ r.capacity = rows[u].capacity
    BY <2>2, RowState
  <2> HIDE DEF r
  <2>4. /\ rows' \in [Pods -> Rows]
        /\ rows'[u] = r
        /\ \A w \in Pods : w # u => rows'[w] = rows[w]
    BY <1>1, <2>1, <2>3
  <2> QED
    BY <1>3, <2>3, <2>4
<1> QED
  BY <1>2, <1>3

\* Rows that keep their capacities keep what is known of the workers.
LEMMA WorkersKept ==
    ASSUME WorkersInv, UNCHANGED <<placed, pods>>,
           \A u \in Pods : rows'[u].state # "none" =>
                /\ rows[u].state # "none"
                /\ rows'[u].capacity = rows[u].capacity
    PROVE  WorkersInv'
BY DEF WorkersInv, On, Present

\* prepare_scale_down: only workers found idle under the lock begin to drain.
LEMMA PreparesScaleDown ==
    ASSUME Inv, PrepareScaleDown
    PROVE  Inv'
<1>1. /\ pass.phase = "drain"
      /\ UNCHANGED <<config, desired, placed, replicas, template, pods>>
  BY DEF PrepareScaleDown, cluster
<1>2. PICK u \in pass.candidates :
        /\ rows' = Draining(u)
        /\ pass' = IF Drained(u) THEN [pass EXCEPT !.phase = "scale"]
                   ELSE [NoPass EXCEPT !.phase = "relist"]
  BY DEF PrepareScaleDown
<1>3. u \in Pods /\ Shape
  BY PassFields DEF Inv, Shape
<1>4. WorkersInv'
  BY <1>1, <1>2, <1>3, Marks, WorkersKept DEF Inv
<1>5. CASE Drained(u)
  <2>1. pass' = [pass EXCEPT !.phase = "scale"] /\ "scale" \in Phases
    BY <1>2, <1>5 DEF Phases
  <2>2. /\ pass' \in Passes /\ pass'.phase = "scale" /\ pass'.candidates = pass.candidates
        /\ pass'.removing = pass.removing
    BY <1>3, <2>1, Zenon DEF Passes, Shape
  <2>3. Shape'
    BY <1>1, <1>2, <1>3, <2>2, Marks DEF Shape
  <2>4. IdleMarked(u)'
    BY <1>1, <1>2, <1>3, <1>5, Marks DEF IdleMarked, Drained, On
  <2>5. \A w \in pass.candidates : w = u
    BY <1>1 DEF Inv, PassInv
  <2>6. pass.removing = {}
    BY <1>1 DEF Inv, PassInv
  <2>7. PassInv'
    BY <2>2, <2>4, <2>5, <2>6 DEF PassInv
  <2> QED
    BY <1>4, <2>3, <2>7 DEF Inv
<1>6. CASE ~Drained(u)
  <2>1. pass' = [NoPass EXCEPT !.phase = "relist"] /\ "relist" \in Phases
    BY <1>2, <1>6 DEF Phases
  <2>2. pass' \in Passes /\ pass'.phase = "relist" /\ pass'.removing = {}
    BY <2>1, NoPassFields, Zenon DEF Passes
  <2>3. Shape'
    BY <1>1, <1>2, <1>3, <2>2, Marks DEF Shape
  <2> QED
    BY <1>4, <2>2, <2>3, AtRest DEF Inv
<1> QED
  BY <1>5, <1>6

\* cancel_scale_down: draining workers are given back to admission.
LEMMA CancelsScaleDown ==
    ASSUME Inv, CancelScaleDown
    PROVE  Inv'
<1>1. /\ pass.phase = "cancel"
      /\ UNCHANGED <<config, desired, placed, replicas, template, pods>>
      /\ pass' = [pass EXCEPT !.phase = "scale"]
  BY DEF CancelScaleDown, cluster
<1>2. "scale" \in Phases /\ "starting" \in States
  BY DEF Phases, States
<1>3. /\ pass' \in Passes /\ pass'.phase = "scale" /\ pass'.direction = pass.direction
      /\ pass'.candidates = pass.candidates /\ pass'.removing = pass.removing
  BY <1>1, <1>2, Zenon DEF Passes, Inv, Shape
<1>4. ASSUME NEW u \in Pods
      PROVE  /\ rows'[u] \in Rows /\ rows'[u].capacity = rows[u].capacity
             /\ rows'[u].state # "none" => rows[u].state # "none"
  <2>1. /\ rows[u] \in Rows
        /\ \/ rows[u].state # "draining" /\ rows'[u] = rows[u]
           \/ /\ rows[u].state = "draining"
              /\ rows'[u] = [rows[u] EXCEPT !.state = "starting"]
    BY DEF CancelScaleDown, Inv, Shape
  <2>2. [rows[u] EXCEPT !.state = "starting"] \in Rows
        /\ [rows[u] EXCEPT !.state = "starting"].capacity = rows[u].capacity
    BY <1>2, <2>1, RowState, Zenon
  <2> QED
    BY <2>1, <2>2
<1>5. rows' \in [Pods -> Rows]
  <2>1. \A u \in Pods : rows'[u] \in Rows
    BY <1>4
  <2>2. rows' = [u \in Pods |-> rows'[u]]
    BY Zenon DEF CancelScaleDown
  <2> QED
    BY <2>1, <2>2, Zenon
<1>6. Shape'
  BY <1>1, <1>3, <1>5 DEF Inv, Shape
<1>7. WorkersInv'
  BY <1>1, <1>4, WorkersKept DEF Inv
<1>8. PassInv'
  BY <1>1, <1>3 DEF Inv, PassInv
<1> QED
  BY <1>6, <1>7, <1>8 DEF Inv

\* Pods that are deleted keep their capacity and their ordinal until they are gone.
LEMMA Deletes ==
    ASSUME Shape, NEW us, pods' = Deleted(us)
    PROVE  /\ pods' \in [Pods -> Workers]
           /\ \A u \in Pods : /\ pods'[u].capacity = pods[u].capacity
                              /\ pods'[u].ordinal = pods[u].ordinal
                              /\ pods'[u].status # "absent" => pods[u].status # "absent"
BY DEF Shape, Workers, Statuses, Deleted

\* Pods that come to nothing but their end keep what is known of the workers.
LEMMA WorkersEnd ==
    ASSUME WorkersInv, UNCHANGED <<placed, rows>>,
           \A u \in Pods : /\ pods'[u].capacity = pods[u].capacity
                           /\ pods'[u].status # "absent" =>
                                /\ pods[u].status # "absent"
                                /\ pods'[u].ordinal = pods[u].ordinal
    PROVE  WorkersInv'
BY DEF WorkersInv, On, Present

\* The runtime is given the new number of replicas.
LEMMA Scales ==
    ASSUME Inv, Scale
    PROVE  Inv'
<1>1. /\ UNCHANGED <<config, desired, placed, rows>>
      /\ pods' = Deleted(Outdated)
      /\ replicas' = pass.count /\ template' = pass.capacity
      /\ pass' = [NoPass EXCEPT !.phase = "relist"]
  BY DEF Scale, database
<1>2. "relist" \in Phases
  BY DEF Phases
<1>3. pass' \in Passes /\ pass'.phase = "relist" /\ pass'.removing = {}
  BY <1>1, <1>2, NoPassFields, Zenon DEF Passes
<1>4. Shape'
  BY <1>1, <1>3, PassFields, Deletes DEF Inv, Shape
<1>5. WorkersInv'
  BY <1>1, Deletes, WorkersEnd DEF Inv
<1> QED
  BY <1>3, <1>4, <1>5, AtRest DEF Inv

\* prepare_replacement: only idle workers of another capacity begin to drain.
LEMMA PreparesReplacement ==
    ASSUME Inv, PrepareReplacement
    PROVE  Inv'
<1>1. /\ pass.phase = "replace" /\ pass.removing = {}
      /\ UNCHANGED <<config, desired, placed, replicas, template, pods>>
  BY DEF PrepareReplacement, cluster, Inv, PassInv
<1>2. PICK u \in pass.candidates :
        /\ rows' = Draining(u)
        /\ pass' = IF Drained(u)
                   THEN [pass EXCEPT !.phase = "remove", !.removing = {u}]
                   ELSE [pass EXCEPT !.candidates = @ \ {u}, !.unhealthy = @ \cup {u}]
  BY DEF PrepareReplacement
<1>3. u \in Pods /\ Shape
  BY PassFields DEF Inv, Shape
<1>4. WorkersInv'
  BY <1>1, <1>2, <1>3, Marks, WorkersKept DEF Inv
<1>5. CASE Drained(u)
  <2>1. /\ pass' = [pass EXCEPT !.phase = "remove", !.removing = {u}]
        /\ "remove" \in Phases /\ {u} \in SUBSET Pods
    BY <1>2, <1>3, <1>5 DEF Phases
  <2>2. /\ pass' \in Passes /\ pass'.phase = "remove" /\ pass'.candidates = pass.candidates
        /\ pass'.removing = {u}
    BY <1>3, <2>1, Zenon DEF Passes, Shape
  <2>3. Shape'
    BY <1>1, <1>2, <1>3, <2>2, Marks DEF Shape
  <2>4. IdleMarked(u)'
    BY <1>1, <1>2, <1>3, <1>5, Marks DEF IdleMarked, Drained, On
  <2>5. PassInv'
    BY <2>2, <2>4 DEF PassInv
  <2> QED
    BY <1>4, <2>3, <2>5 DEF Inv
<1>6. CASE ~Drained(u)
  <2>1. /\ pass' = [pass EXCEPT !.candidates = pass.candidates \ {u},
                                !.unhealthy = pass.unhealthy \cup {u}]
        /\ pass.candidates \ {u} \in SUBSET Pods
        /\ pass.unhealthy \cup {u} \in SUBSET Pods
    BY <1>2, <1>3, <1>6, PassFields DEF Shape
  <2>2. pass' \in Passes /\ pass'.phase = "replace" /\ pass'.removing = {}
    BY <1>1, <1>3, <2>1, Zenon DEF Passes, Shape
  <2>3. Shape'
    BY <1>1, <1>2, <1>3, <2>2, Marks DEF Shape
  <2> QED
    BY <1>4, <2>2, <2>3, AtRest DEF Inv
<1> QED
  BY <1>5, <1>6

\* The runtime deletes the outdated workers the pass has drained.
LEMMA Removes ==
    ASSUME Inv, Remove
    PROVE  Inv'
<1>1. /\ UNCHANGED <<config, desired, placed, rows, replicas, template>>
      /\ pods' = Deleted(pass.removing)
      /\ pass' = [pass EXCEPT !.phase = "replace", !.removing = {},
                              !.listed = pass.listed \ pass.removing,
                              !.candidates = pass.candidates \ pass.removing]
  BY DEF Remove, database
<1>2. /\ "replace" \in Phases /\ {} \in SUBSET Pods
      /\ pass.listed \ pass.removing \in SUBSET Pods
      /\ pass.candidates \ pass.removing \in SUBSET Pods
  BY PassFields DEF Phases, Inv, Shape
<1>3. pass' \in Passes /\ pass'.phase = "replace" /\ pass'.removing = {}
  BY <1>1, <1>2, Zenon DEF Passes, Inv, Shape
<1>4. Shape'
  BY <1>1, <1>3, Deletes DEF Inv, Shape
<1>5. WorkersInv'
  BY <1>1, Deletes, WorkersEnd DEF Inv
<1> QED
  BY <1>3, <1>4, <1>5, AtRest DEF Inv

\* A pass writes down the workers it has seen.
LEMMA Observes ==
    ASSUME Inv, ObserveInstances
    PROVE  Inv'
<1>1. /\ UNCHANGED <<config, desired, placed, replicas, template, pods>>
      /\ pass' = NoPass
  BY DEF ObserveInstances, cluster
<1>2. ASSUME NEW u \in Pods
      PROVE  /\ rows'[u] \in Rows
             /\ rows'[u].state # "none" => rows'[u].capacity = pods[u].capacity
  <2>1. /\ rows[u] \in Rows /\ pods[u].capacity \in Nat
        /\ rows[u].state # "none" => rows[u].capacity = pods[u].capacity
    BY DEF Inv, Shape, WorkersInv, Workers
  <2>2. NextState(u) \in States /\ "stopped" \in States
    BY DEF NextState, ObservedState, States
  <2>3. \/ rows'[u] = [state |-> NextState(u), current |-> TRUE, capacity |-> pods[u].capacity]
        \/ rows'[u] = rows[u]
        \/ /\ rows[u].state # "none"
           /\ rows'[u] = [rows[u] EXCEPT !.state = "stopped", !.current = FALSE]
    BY Zenon DEF ObserveInstances, ObservedCapacity
  <2> DEFINE observed == [state |-> NextState(u), current |-> TRUE,
                          capacity |-> pods[u].capacity]
             stopped == [rows[u] EXCEPT !.state = "stopped", !.current = FALSE]
  <2>4. /\ observed \in Rows /\ observed.capacity = pods[u].capacity
        /\ stopped \in Rows /\ stopped.capacity = rows[u].capacity
    BY <2>1, <2>2, RowObserved, RowCurrent, Zenon
  <2> HIDE DEF observed, stopped
  <2>5. \/ rows'[u] = observed
        \/ rows'[u] = rows[u]
        \/ rows[u].state # "none" /\ rows'[u] = stopped
    BY <2>3 DEF observed, stopped
  <2> QED
    BY <2>1, <2>4, <2>5
<1>3. rows' \in [Pods -> Rows]
  <2>1. \A u \in Pods : rows'[u] \in Rows
    BY <1>2
  <2>2. rows' = [u \in Pods |-> rows'[u]]
    BY Zenon DEF ObserveInstances
  <2> QED
    BY <2>1, <2>2, Zenon
<1>4. Shape'
  BY <1>1, <1>3, NoPassFields DEF Inv, Shape
<1>5. WorkersInv'
  BY <1>1, <1>2 DEF Inv, WorkersInv, On, Present
<1> QED
  BY <1>1, <1>4, <1>5, NoPassFields, AtRest DEF Inv

\* A call of the pass fails, and the pass is over.
LEMMA Fails ==
    ASSUME Inv, PassFails
    PROVE  Inv'
<1>1. UNCHANGED <<config, desired, placed, rows, replicas, template, pods>> /\ pass' = NoPass
  BY DEF PassFails, database, cluster
<1> QED
  BY <1>1, NoPassFields, AtRest DEF Inv, Shape, WorkersInv, On, Present

-----------------------------------------------------------------------------
(* Operators, time and Kubernetes *)

\* An operator changes the configuration, or time passes.
LEMMA Configures ==
    ASSUME Inv, UpdateConfiguration \/ Tick
    PROVE  Inv'
<1>1. /\ UNCHANGED <<desired, placed, rows, replicas, template, pods, pass>>
      /\ config' \in Configurations
  BY DEF UpdateConfiguration, Tick, cluster, controller, Inv, Shape
<1>2. Shape' /\ WorkersInv'
  BY <1>1 DEF Inv, Shape, WorkersInv, On, Present
<1>3. PassInv'
  BY <1>1, PassKept DEF Inv, IdleMarked, On
<1> QED
  BY <1>2, <1>3 DEF Inv

\* Observations of workers that were not seen again run out.
LEMMA Lapses ==
    ASSUME Inv, ObservationsLapse
    PROVE  Inv'
<1>1. /\ UNCHANGED <<config, desired, placed, replicas, template, pods, pass>>
      /\ rows' = [u \in Pods |-> [rows[u] EXCEPT !.current = FALSE]]
  BY DEF ObservationsLapse, cluster, controller
<1>2. ASSUME NEW u \in Pods
      PROVE  /\ rows'[u] \in Rows /\ rows'[u].capacity = rows[u].capacity
             /\ rows'[u].state = rows[u].state
  <2>1. rows[u] \in Rows /\ "none" \in States
    BY DEF Inv, Shape, States
  <2>2. rows'[u] = [rows[u] EXCEPT !.current = FALSE]
    BY <1>1
  <2> QED
    BY <2>1, <2>2, RowCurrent, Zenon
<1>3. rows' \in [Pods -> Rows]
  <2>1. rows' = [u \in Pods |-> rows'[u]]
    BY <1>1, Zenon
  <2> QED
    BY <1>2, <2>1, Zenon
<1>4. Shape'
  BY <1>1, <1>3 DEF Inv, Shape
<1>5. WorkersInv'
  BY <1>1, <1>2, WorkersKept DEF Inv
<1>6. pass.candidates \subseteq Pods
  BY PassFields DEF Inv, Shape
<1>7. PassInv'
  BY <1>1, <1>2, <1>6, PassKept DEF Inv, IdleMarked, On
<1> QED
  BY <1>4, <1>5, <1>7 DEF Inv

\* The cluster starts a Pod for a replica.
LEMMA Creates ==
    ASSUME Inv, CreatePod
    PROVE  Inv'
<1>1. UNCHANGED <<config, desired, placed, replicas, template, pass>>
  BY DEF CreatePod, controller
<1>2. PICK u \in Pods, o \in 0..(replicas - 1) :
        /\ Forgotten(u)
        /\ \A w \in Present : pods[w].ordinal # o
        /\ pods' = [pods EXCEPT ![u] = [status |-> "starting", ordinal |-> o,
                                        capacity |-> template]]
        /\ rows' = [rows EXCEPT ![u] = NoRow]
  BY DEF CreatePod
<1>3. /\ On(u) = {} /\ u \notin pass.candidates /\ o \in Nat /\ template \in Nat
      /\ rows \in [Pods -> Rows]
  BY <1>2 DEF Forgotten, Inv, Shape
<1>4. /\ rows' \in [Pods -> Rows] /\ rows'[u].state = "none"
      /\ \A w \in Pods : w # u => rows'[w] = rows[w]
  <2>1. "none" \in States /\ 0 \in Nat
    BY DEF States
  <2> QED
    BY <1>2, <1>3, <2>1, RowObserved, Zenon
<1>5. /\ pods' \in [Pods -> Workers]
      /\ pods'[u].ordinal = o /\ pods'[u].capacity = template
      /\ \A w \in Pods : w # u => pods'[w] = pods[w]
  BY <1>2, <1>3 DEF Inv, Shape, Workers, Statuses
<1>6. Shape'
  BY <1>1, <1>4, <1>5 DEF Inv, Shape
<1>7. \A w \in Pods : On(w)' = On(w)
  BY <1>1 DEF On
<1>8. WorkersInv'
  <2>1. \A w \in Pods : rows'[w].state # "none" => rows'[w].capacity = pods'[w].capacity
    BY <1>4, <1>5 DEF Inv, WorkersInv
  <2>2. ASSUME NEW w \in Pods
        PROVE  Cardinality(On(w)') <= pods'[w].capacity
    <3>1. CASE w = u
      BY <1>3, <1>5, <1>7, <3>1, FS_EmptySet
    <3>2. CASE w # u
      BY <1>5, <1>7, <3>2 DEF Inv, WorkersInv
    <3> QED
      BY <3>1, <3>2
  <2>3. \A v, w \in Present' : pods'[v].ordinal = pods'[w].ordinal => v = w
    <3>1. \A w \in Present' : w # u => w \in Present /\ pods'[w] = pods[w]
      BY <1>5 DEF Present
    <3> QED
      BY <1>2, <1>5, <3>1 DEF Inv, WorkersInv
  <2> QED
    BY <2>1, <2>2, <2>3 DEF WorkersInv
<1>9. PassInv'
  <2>1. pass.candidates \subseteq Pods
    BY PassFields DEF Inv, Shape
  <2> QED
    BY <1>1, <1>3, <1>4, <1>7, <2>1, PassKept DEF Inv, IdleMarked
<1> QED
  BY <1>6, <1>8, <1>9 DEF Inv

\* The other steps of Kubernetes change how far Pods are, and who is there.
LEMMA PodsChange ==
    ASSUME Inv, CondemnPod \/ (\E u \in Pods : PodReadiness(u) \/ PodGone(u))
    PROVE  Inv'
<1>1. UNCHANGED <<config, desired, rows, placed, replicas, template, pass>>
  BY DEF CondemnPod, PodReadiness, PodGone, database, controller
<1>2. /\ pods' \in [Pods -> Workers]
      /\ \A w \in Pods : /\ pods'[w].capacity = pods[w].capacity
                         /\ pods'[w].status # "absent" =>
                              /\ pods[w].status # "absent"
                              /\ pods'[w].ordinal = pods[w].ordinal
  <2>1. CASE CondemnPod
    BY <2>1, Deletes DEF CondemnPod, Inv
  <2>2. ASSUME NEW u \in Pods, PodReadiness(u)
        PROVE  <1>2!1 /\ <1>2!2
    BY <2>2 DEF PodReadiness, Inv, Shape, Workers, Statuses
  <2>3. ASSUME NEW u \in Pods, PodGone(u)
        PROVE  <1>2!1 /\ <1>2!2
    BY <2>3 DEF PodGone, Inv, Shape, Workers, Statuses
  <2> QED
    BY <2>1, <2>2, <2>3
<1>3. Shape'
  BY <1>1, <1>2 DEF Inv, Shape
<1>4. WorkersInv'
  BY <1>1, <1>2, WorkersEnd DEF Inv
<1>5. PassInv'
  BY <1>1, PassKept DEF Inv, IdleMarked, On
<1> QED
  BY <1>3, <1>4, <1>5 DEF Inv

-----------------------------------------------------------------------------
(* The theorems *)

\* The invariant holds of a fleet without workers.
LEMMA Initially == Init => Inv
<1> SUFFICES ASSUME Init PROVE Inv
  OBVIOUS
<1>1. /\ config \in Configurations /\ config.minimum \in Nat /\ config.capacity \in Nat
  BY FleetAssumption DEF Init
<1>2. rows \in [Pods -> Rows] /\ \A u \in Pods : rows[u].state = "none"
  <2>1. "none" \in States /\ 0 \in Nat
    BY DEF States
  <2> QED
    BY <2>1, RowObserved, Zenon DEF Init
<1>3. /\ pods \in [Pods -> Workers]
      /\ \A u \in Pods : pods[u].status = "absent" /\ pods[u].capacity = 1
  BY DEF Init, NoPod, Workers, Statuses
<1>4. Shape
  BY <1>1, <1>2, <1>3, NoPassFields DEF Init, Shape
<1>5. \A u \in Pods : On(u) = {}
  BY FleetAssumption DEF Init, On
<1>6. WorkersInv
  <2>1. \A u \in Pods : Cardinality(On(u)) <= pods[u].capacity
    BY <1>3, <1>5, FS_EmptySet
  <2> QED
    BY <1>2, <1>3, <2>1 DEF WorkersInv, Present
<1>7. PassInv
  BY NoPassFields DEF Init, PassInv
<1> QED
  BY <1>4, <1>6, <1>7 DEF Inv

\* Every step keeps the invariant.
LEMMA Preserved == Inv /\ [Next]_vars => Inv'
<1> SUFFICES ASSUME Inv, [Next]_vars PROVE Inv'
  OBVIOUS
<1>1. CASE Reconcile
  BY <1>1, Evaluates, Lists, PreparesScaleDown, CancelsScaleDown, Scales, PreparesReplacement,
     Removes, Observes, Probes DEF Reconcile, Relist
<1>2. CASE PassFails
  BY <1>2, Fails
<1>3. CASE \E x \in Attempts : Enqueue(x) \/ Claim(x) \/ Finish(x)
  BY <1>3, Admits
<1>4. CASE UpdateConfiguration \/ Tick
  BY <1>4, Configures
<1>5. CASE ObservationsLapse
  BY <1>5, Lapses
<1>6. CASE CreatePod
  BY <1>6, Creates
<1>7. CASE CondemnPod \/ (\E u \in Pods : PodReadiness(u) \/ PodGone(u))
  BY <1>7, PodsChange
<1>8. CASE UNCHANGED vars
  BY <1>8 DEF vars, database, cluster, controller, Inv, Shape, WorkersInv, PassInv, On, Present,
              IdleMarked
<1> QED
  BY <1>1, <1>2, <1>3, <1>4, <1>5, <1>6, <1>7, <1>8 DEF Next

\* The invariant holds throughout.
LEMMA Invariant == Spec => []Inv
BY Initially, Preserved, PTL DEF Spec

\* A worker never has more live attempts than the slots it was started with:
\* admission counts against the observed row, and every row written by
\* observe_instances carries its own Pod's capacity, not the configured one.
THEOREM WorkersKeepTheirCapacity == Spec => []WithinWorkerCapacity
<1>1. Inv => WithinWorkerCapacity
  BY DEF Inv, WorkersInv, WithinWorkerCapacity
<1> QED
  BY <1>1, Invariant, PTL

\* From prepare_scale_down's answer to the scale or remove call nothing is
\* placed on the instance, whatever admission, operators and Kubernetes do.
THEOREM ScaleDownStaysSafe == Spec => []DrainedStayIdle
<1>1. Inv => DrainedStayIdle
  BY DEF Inv, PassInv, IdleMarked, DrainedStayIdle
<1> QED
  BY <1>1, Invariant, PTL

-----------------------------------------------------------------------------
(* Gateway.                                                                *)

Before == {"policy", "policy_lock", "policy_read", "receive"}
Waiting == {"preparing", "abandoning"}
Using == {"opening", "activating", "accepting", "relaying"}
Released == {"release_attempt", "release_session", "finished"}

\* The type invariant, of the flags and of the other variables.
GatewayFlagsOK ==
    /\ heartbeat \in BOOLEAN /\ lost \in BOOLEAN /\ stranded \in BOOLEAN
    /\ failed \in BOOLEAN /\ fresh \in BOOLEAN

GatewayTypeOK ==
    /\ pc \in Before \cup {"admitting"} \cup Waiting \cup Using \cup {"close"} \cup Released
    /\ client \in {"there", "left"} /\ budget \in {"running", "over"}
    /\ adm \in {"none", "running", "committed", "done", "refused", "cancelled"}
    /\ prep \in {"none", "acquiring", "connecting", "binding", "done", "closing",
                 "releasing", "failing", "failed"}
    /\ holds \subseteq {"session", "attempt", "provider"}
    /\ sessionRow \in {"none", "admitted", "open", "ended", "expired"}
    /\ attemptRow \in {"none", "queued", "acquiring", "active", "ended", "expired"}
    /\ socket \in {"none", "open", "closing", "closed"}
    /\ policyRow \in Nat /\ cache \in Nat /\ read \in Nat /\ acked \in Nat
    /\ lock \in {"free", "reader", "saved"}

\* The cache lock: a reader holds it from the read of the row to the write of
\* the cache, so that no update falls between the two.
PolicyInv ==
    /\ lock = "reader" => pc = "policy_read"
    /\ pc = "policy_read" => lock = "reader" /\ read = policyRow
    /\ acked <= policyRow
    /\ cache # 0 => cache >= acked

\* Where a session can be: nowhere before its admission, with the admission
\* task until connect has seen its result, then with connect; a lease that
\* nobody holds has no heartbeat, and its row counts as stranded.
SessionInv ==
    /\ pc \in Before => adm = "none"
    /\ adm \in {"running", "committed"} => pc = "admitting"
    /\ adm = "done" => pc = "admitting" \/ "session" \in holds
    /\ adm \in {"none", "running", "refused"} => sessionRow = "none"
    /\ adm = "cancelled" => sessionRow = "none" \/ stranded
    /\ heartbeat => adm = "done"

\* Where an attempt and its browser can be: with the preparation task while it
\* runs, with connect once that is done, nowhere otherwise.
AttemptInv ==
    /\ prep = "none" => attemptRow = "none" /\ socket = "none"
    /\ prep # "none" => "session" \in holds /\ pc \notin Before \cup {"admitting"}
    /\ prep \notin {"none", "done", "failed"} => pc \in Waiting
    /\ prep = "done" => pc \in Waiting \/ {"attempt", "provider"} \subseteq holds
    /\ socket = "open" => prep \in {"binding", "closing", "done"}

\* How far the cleanup is.
CleanupInv ==
    /\ pc \in Released => socket # "open"
    /\ pc = "finished" => ~heartbeat
    /\ pc = "finished" /\ "session" \in holds =>
          stranded \/ (~Live(sessionRow) /\ ~Live(attemptRow))

GatewayInv == PolicyInv /\ SessionInv /\ AttemptInv /\ CleanupInv

\* Every step keeps the flags Boolean.
LEMMA GatewayFlagsStep ==
    ASSUME GatewayFlagsOK, [ConnectNext]_connectVars
    PROVE  GatewayFlagsOK'
  <1> USE DEF GatewayFlagsOK, policyVars, rowVars, leaseVars, mainVars, taskVars
  <1>1. CASE ReadCachedPolicy
    BY Zenon, <1>1 DEF ReadCachedPolicy
  <1>2. CASE MissCachedPolicy
    BY Zenon, <1>2 DEF MissCachedPolicy
  <1>3. CASE ReadPolicyRow
    BY Zenon, <1>3 DEF ReadPolicyRow
  <1>4. CASE CachePolicy
    BY Zenon, <1>4 DEF CachePolicy
  <1>5. CASE UpdatePolicy
    BY Zenon, <1>5 DEF UpdatePolicy
  <1>6. CASE UpdateReturns
    BY Zenon, <1>6 DEF UpdateReturns
  <1>7. CASE CacheExpires
    BY Zenon, <1>7 DEF CacheExpires
  <1>8. CASE AdmissionCommits
    BY Zenon, <1>8 DEF AdmissionCommits
  <1>9. CASE AdmissionReturns
    BY Zenon, <1>9 DEF AdmissionReturns
  <1>10. CASE PrepareEnqueues
    BY Zenon, <1>10 DEF PrepareEnqueues, PrepareStep
  <1>11. CASE PrepareClaims
    BY Zenon, <1>11 DEF PrepareClaims, PrepareStep
  <1>12. CASE PrepareAcquired
    BY Zenon, <1>12 DEF PrepareAcquired, PrepareStep
  <1>13. CASE PrepareConnects
    BY Zenon, <1>13 DEF PrepareConnects, PrepareStep
  <1>14. CASE PrepareBinds
    BY Zenon, <1>14 DEF PrepareBinds, PrepareStep
  <1>15. CASE PrepareCloses
    BY Zenon, <1>15 DEF PrepareCloses, PrepareStep
  <1>16. CASE PrepareReleases
    BY Zenon, <1>16 DEF PrepareReleases, PrepareStep, Ended
  <1>17. CASE ReceiveInitial
    BY Zenon, <1>17 DEF ReceiveInitial, Leave
  <1>18. CASE AdmissionSeen
    BY Zenon, <1>18 DEF AdmissionSeen, Leave
  <1>19. CASE DisconnectWhileAdmitting
    BY Zenon, <1>19 DEF DisconnectWhileAdmitting, Leave, CancelAdmission, LateSession
  <1>20. CASE PreparationSeen
    BY Zenon, <1>20 DEF PreparationSeen, Leave, Prepared
  <1>21. CASE PreparationOvertaken
    BY Zenon, <1>21 DEF PreparationOvertaken, Abandon, CancelPreparation, Cancelled,
                        Prepared, Leave
  <1>22. CASE Abandoned
    BY Zenon, <1>22 DEF Abandoned, Leave, Prepared
  <1>23. CASE OpenSession
    BY Zenon, <1>23 DEF OpenSession, Leave
  <1>24. CASE ActivateAttempt
    BY Zenon, <1>24 DEF ActivateAttempt, Leave
  <1>25. CASE Accept
    BY Zenon, <1>25 DEF Accept, Leave
  <1>26. CASE CloseProvider
    BY Zenon, <1>26 DEF CloseProvider, CleanupStep
  <1>27. CASE ReleaseAttempt
    BY Zenon, <1>27 DEF ReleaseAttempt, CleanupStep, Ended
  <1>28. CASE ReleaseSession
    BY Zenon, <1>28 DEF ReleaseSession, CleanupStep, Ended
  <1>29. CASE RelayEnds
    BY Zenon, <1>29 DEF RelayEnds, Leave
  <1>30. CASE BudgetExpires
    BY Zenon, <1>30 DEF BudgetExpires, Leave, CancelAdmission, LateSession, Abandon,
                        CancelPreparation, Cancelled, Prepared
  <1>31. CASE ClientLeaves
    BY Zenon, <1>31 DEF ClientLeaves
  <1>32. CASE HeartbeatFails
    BY Zenon, <1>32 DEF HeartbeatFails
  <1>33. CASE LeaseExpires
    BY Zenon, <1>33 DEF LeaseExpires
  <1>34. CASE SocketCloses
    BY Zenon, <1>34 DEF SocketCloses
  <1>35. CASE Done
    BY Zenon, <1>35 DEF Done, connectVars
  <1>36. CASE UNCHANGED connectVars
    BY Zenon, <1>36 DEF connectVars
  <1> QED
    BY <1>1, <1>2, <1>3, <1>4, <1>5, <1>6, <1>7, <1>8, <1>9, <1>10, <1>11, <1>12,
       <1>13, <1>14, <1>15, <1>16, <1>17, <1>18, <1>19, <1>20, <1>21, <1>22, <1>23,
       <1>24, <1>25, <1>26, <1>27, <1>28, <1>29, <1>30, <1>31, <1>32, <1>33, <1>34,
       <1>35, <1>36
       DEF ConnectNext, Policy, Preparation, Connect

\* Every step keeps the variables well formed.
LEMMA GatewayTypeStep ==
    ASSUME GatewayTypeOK, [ConnectNext]_connectVars
    PROVE  GatewayTypeOK'
  <1> USE DEF GatewayTypeOK, Before, Waiting, Using, Released,
              policyVars, rowVars, leaseVars, mainVars, taskVars
  <1>1. CASE ReadCachedPolicy
    BY <1>1 DEF ReadCachedPolicy
  <1>2. CASE MissCachedPolicy
    BY <1>2 DEF MissCachedPolicy
  <1>3. CASE ReadPolicyRow
    BY <1>3 DEF ReadPolicyRow
  <1>4. CASE CachePolicy
    BY <1>4 DEF CachePolicy
  <1>5. CASE UpdatePolicy
    BY <1>5 DEF UpdatePolicy
  <1>6. CASE UpdateReturns
    BY <1>6 DEF UpdateReturns
  <1>7. CASE CacheExpires
    BY <1>7 DEF CacheExpires
  <1>8. CASE AdmissionCommits
    BY <1>8 DEF AdmissionCommits
  <1>9. CASE AdmissionReturns
    BY <1>9 DEF AdmissionReturns
  <1>10. CASE PrepareEnqueues
    BY <1>10 DEF PrepareEnqueues, PrepareStep
  <1>11. CASE PrepareClaims
    BY <1>11 DEF PrepareClaims, PrepareStep
  <1>12. CASE PrepareAcquired
    BY <1>12 DEF PrepareAcquired, PrepareStep
  <1>13. CASE PrepareConnects
    BY <1>13 DEF PrepareConnects, PrepareStep
  <1>14. CASE PrepareBinds
    BY <1>14 DEF PrepareBinds, PrepareStep
  <1>15. CASE PrepareCloses
    BY <1>15 DEF PrepareCloses, PrepareStep
  <1>16. CASE PrepareReleases
    BY <1>16 DEF PrepareReleases, PrepareStep, Ended
  <1>17. CASE ReceiveInitial
    BY <1>17 DEF ReceiveInitial, Leave
  <1>18. CASE AdmissionSeen
    <2>1. /\ \/ holds' = {"session"} /\ pc' = "preparing" /\ prep' = "acquiring"
                /\ UNCHANGED <<exit, failed>>
             \/ Leave("gateway_capacity_full") /\ UNCHANGED <<holds, prep>>
          /\ UNCHANGED <<adm, leaseVars, rowVars, policyVars, client, budget>>
      BY <1>18 DEF AdmissionSeen
    <2>2. CASE holds' = {"session"} /\ pc' = "preparing" /\ prep' = "acquiring"
               /\ UNCHANGED <<exit, failed>>
      BY <2>1, <2>2
    <2>3. CASE Leave("gateway_capacity_full") /\ UNCHANGED <<holds, prep>>
      BY <2>1, <2>3 DEF Leave
    <2> QED
      BY <2>1, <2>2, <2>3
  <1>19. CASE DisconnectWhileAdmitting
    BY <1>19 DEF DisconnectWhileAdmitting, Leave, CancelAdmission, LateSession
  <1>20. CASE PreparationSeen
    <2>1. holds' \subseteq {"session", "attempt", "provider"}
      BY <1>20 DEF PreparationSeen, Prepared
    <2>2. pc' \in {"opening", "close"}
      BY <1>20 DEF PreparationSeen, Leave
    <2> QED
      BY <1>20, <2>1, <2>2 DEF PreparationSeen
  <1>21. CASE PreparationOvertaken
    BY <1>21 DEF PreparationOvertaken, Abandon, CancelPreparation, Cancelled, Prepared,
                 Leave
  <1>22. CASE Abandoned
    BY <1>22 DEF Abandoned, Leave, Prepared
  <1>23. CASE OpenSession
    BY <1>23 DEF OpenSession, Leave
  <1>24. CASE ActivateAttempt
    BY <1>24 DEF ActivateAttempt, Leave
  <1>25. CASE Accept
    BY <1>25 DEF Accept, Leave
  <1>26. CASE CloseProvider
    BY <1>26 DEF CloseProvider, CleanupStep
  <1>27. CASE ReleaseAttempt
    BY <1>27 DEF ReleaseAttempt, CleanupStep, Ended
  <1>28. CASE ReleaseSession
    BY <1>28 DEF ReleaseSession, CleanupStep, Ended
  <1>29. CASE RelayEnds
    BY <1>29 DEF RelayEnds, Leave
  <1>30. CASE BudgetExpires
    BY <1>30 DEF BudgetExpires, Leave, CancelAdmission, LateSession, Abandon,
                 CancelPreparation, Cancelled, Prepared
  <1>31. CASE ClientLeaves
    BY <1>31 DEF ClientLeaves
  <1>32. CASE HeartbeatFails
    BY <1>32 DEF HeartbeatFails
  <1>33. CASE LeaseExpires
    BY <1>33 DEF LeaseExpires
  <1>34. CASE SocketCloses
    BY <1>34 DEF SocketCloses
  <1>35. CASE Done
    BY <1>35 DEF Done, connectVars
  <1>36. CASE UNCHANGED connectVars
    BY <1>36 DEF connectVars
  <1> QED
    BY <1>1, <1>2, <1>3, <1>4, <1>5, <1>6, <1>7, <1>8, <1>9, <1>10, <1>11, <1>12,
       <1>13, <1>14, <1>15, <1>16, <1>17, <1>18, <1>19, <1>20, <1>21, <1>22, <1>23,
       <1>24, <1>25, <1>26, <1>27, <1>28, <1>29, <1>30, <1>31, <1>32, <1>33, <1>34,
       <1>35, <1>36
       DEF ConnectNext, Policy, Preparation, Connect

\* Every step of the connection, of its tasks and of what races with them
\* preserves the invariant.
LEMMA GatewayInvStep ==
    ASSUME GatewayTypeOK, GatewayInv, [ConnectNext]_connectVars
    PROVE  GatewayInv'
  <1> USE DEF GatewayInv, GatewayTypeOK, PolicyInv, SessionInv, AttemptInv, CleanupInv,
              Before, Waiting, Using, Released, Live,
              policyVars, rowVars, leaseVars, mainVars, taskVars
  <1>1. CASE ReadCachedPolicy
    BY <1>1 DEF ReadCachedPolicy
  <1>2. CASE MissCachedPolicy
    BY <1>2 DEF MissCachedPolicy
  <1>3. CASE ReadPolicyRow
    BY <1>3 DEF ReadPolicyRow
  <1>4. CASE CachePolicy
    BY <1>4 DEF CachePolicy
  <1>5. CASE UpdatePolicy
    BY <1>5 DEF UpdatePolicy
  <1>6. CASE UpdateReturns
    BY <1>6 DEF UpdateReturns
  <1>7. CASE CacheExpires
    BY <1>7 DEF CacheExpires
  <1>8. CASE AdmissionCommits
    BY <1>8 DEF AdmissionCommits
  <1>9. CASE AdmissionReturns
    BY <1>9 DEF AdmissionReturns
  <1>10. CASE PrepareEnqueues
    BY <1>10 DEF PrepareEnqueues, PrepareStep
  <1>11. CASE PrepareClaims
    BY <1>11 DEF PrepareClaims, PrepareStep
  <1>12. CASE PrepareAcquired
    BY <1>12 DEF PrepareAcquired, PrepareStep
  <1>13. CASE PrepareConnects
    BY <1>13 DEF PrepareConnects, PrepareStep
  <1>14. CASE PrepareBinds
    BY <1>14 DEF PrepareBinds, PrepareStep
  <1>15. CASE PrepareCloses
    BY <1>15 DEF PrepareCloses, PrepareStep
  <1>16. CASE PrepareReleases
    BY <1>16 DEF PrepareReleases, PrepareStep, Ended
  <1>17. CASE ReceiveInitial
    BY <1>17 DEF ReceiveInitial, Leave
  <1>18. CASE AdmissionSeen
    BY <1>18 DEF AdmissionSeen, Leave
  <1>19. CASE DisconnectWhileAdmitting
    BY <1>19 DEF DisconnectWhileAdmitting, Leave, CancelAdmission, LateSession
  <1>20. CASE PreparationSeen
    BY <1>20 DEF PreparationSeen, Leave, Prepared
  <1>21. CASE PreparationOvertaken
    BY <1>21 DEF PreparationOvertaken, Abandon, CancelPreparation, Cancelled, Prepared,
                 Leave
  <1>22. CASE Abandoned
    BY <1>22 DEF Abandoned, Leave, Prepared
  <1>23. CASE OpenSession
    BY <1>23 DEF OpenSession, Leave
  <1>24. CASE ActivateAttempt
    BY <1>24 DEF ActivateAttempt, Leave
  <1>25. CASE Accept
    BY <1>25 DEF Accept, Leave
  <1>26. CASE CloseProvider
    BY <1>26 DEF CloseProvider, CleanupStep
  <1>27. CASE ReleaseAttempt
    BY <1>27 DEF ReleaseAttempt, CleanupStep, Ended
  <1>28. CASE ReleaseSession
    BY <1>28 DEF ReleaseSession, CleanupStep, Ended
  <1>29. CASE RelayEnds
    BY <1>29 DEF RelayEnds, Leave
  <1>30. CASE BudgetExpires
    <2>1. CASE pc \in Before
      BY <1>30, <2>1 DEF BudgetExpires, Leave
    <2>2. CASE pc = "admitting"
      BY <1>30, <2>2 DEF BudgetExpires, Leave, CancelAdmission, LateSession
    <2>3. CASE pc \in Waiting
      BY <1>30, <2>3
         DEF BudgetExpires, Abandon, CancelPreparation, Cancelled, Prepared, Leave
    <2>4. CASE pc \in Using
      <3>1. UNCHANGED <<adm, prep, holds, attemptRow, socket, stranded, lock, heartbeat>>
            /\ UNCHANGED <<policyRow, cache, read, acked>> /\ pc' = "close"
        BY <1>30, <2>4 DEF BudgetExpires, Leave
      <3>2. sessionRow' = sessionRow \/ sessionRow = "admitted"
        BY <1>30, <2>4 DEF BudgetExpires
      <3> QED
        BY <2>4, <3>1, <3>2
    <2> QED
      BY <1>30, <2>1, <2>2, <2>3, <2>4 DEF BudgetExpires
  <1>31. CASE ClientLeaves
    BY <1>31 DEF ClientLeaves
  <1>32. CASE HeartbeatFails
    BY <1>32 DEF HeartbeatFails
  <1>33. CASE LeaseExpires
    BY <1>33 DEF LeaseExpires
  <1>34. CASE SocketCloses
    BY <1>34 DEF SocketCloses
  <1>35. CASE Done
    BY <1>35 DEF Done, connectVars
  <1>36. CASE UNCHANGED connectVars
    BY <1>36 DEF connectVars
  <1> QED
    BY <1>1, <1>2, <1>3, <1>4, <1>5, <1>6, <1>7, <1>8, <1>9, <1>10, <1>11, <1>12,
       <1>13, <1>14, <1>15, <1>16, <1>17, <1>18, <1>19, <1>20, <1>21, <1>22, <1>23,
       <1>24, <1>25, <1>26, <1>27, <1>28, <1>29, <1>30, <1>31, <1>32, <1>33, <1>34,
       <1>35, <1>36
       DEF ConnectNext, Policy, Preparation, Connect

\* The invariant holds in every reachable state.
LEMMA GatewayInvariance == ConnectSpec => [](GatewayTypeOK /\ GatewayFlagsOK /\ GatewayInv)
  <1>1. ConnectInit => GatewayTypeOK /\ GatewayFlagsOK /\ GatewayInv
    <2>1. ConnectInit => GatewayFlagsOK
      BY Zenon DEF ConnectInit, GatewayFlagsOK
    <2>2. ConnectInit => GatewayTypeOK /\ GatewayInv
      BY DEF ConnectInit, GatewayTypeOK, GatewayInv, PolicyInv, SessionInv, AttemptInv,
             CleanupInv, Before, Waiting, Using, Released
    <2> QED
      BY <2>1, <2>2
  <1>2. GatewayTypeOK /\ GatewayFlagsOK /\ GatewayInv /\ [ConnectNext]_connectVars
        => (GatewayTypeOK /\ GatewayFlagsOK /\ GatewayInv)'
    BY GatewayTypeStep, GatewayFlagsStep, GatewayInvStep
  <1> QED
    BY <1>1, <1>2, PTL DEF ConnectSpec

\* A connection that has ended leaves nothing behind, whatever raced with it:
\* no heartbeat, no row and no socket but the ones left to the lease.
THEOREM GatewayCleansUp == ConnectSpec => []NothingLeftBehind
  <1>1. GatewayTypeOK /\ GatewayInv => NothingLeftBehind
    BY DEF GatewayTypeOK, GatewayInv, SessionInv, AttemptInv, CleanupInv, NothingLeftBehind,
           NoImmortalSession, CleanEnding, Before, Waiting, Released, Live
  <1> QED
    BY <1>1, GatewayInvariance, PTL

\* A replica never serves a policy older than an update it has acknowledged:
\* the cache lock keeps a slow reader from writing back an old version.
THEOREM GatewayPolicyFresh == ConnectSpec => []PolicyNotBehind
  <1>1. GatewayInv => PolicyNotBehind
    BY DEF GatewayInv, PolicyInv, PolicyNotBehind
  <1> QED
    BY <1>1, GatewayInvariance, PTL

\* The owner ends an attempt, in the cleanup of a connection or of a cancelled
\* preparation, only when its browser connection is no longer open.
THEOREM GatewayClosesFirst == ConnectSpec => FreedAfterClose
  <1>1. ASSUME GatewayTypeOK, GatewayInv, [ConnectNext]_connectVars,
               Live(attemptRow), attemptRow' = "ended"
        PROVE  socket # "open"
    <2> USE <1>1 DEF Live, GatewayInv, AttemptInv, CleanupInv, SessionInv,
                     GatewayTypeOK, Released, Waiting,
                     policyVars, rowVars, leaseVars, mainVars, taskVars
    <2>1. CASE PrepareReleases
      BY <2>1 DEF PrepareReleases
    <2>2. CASE pc \in {"release_attempt", "release_session"}
      BY <2>2
    <2>3. CASE ~PrepareReleases /\ pc \notin {"release_attempt", "release_session"}
      <3>1. CASE Policy \/ UpdatePolicy \/ UpdateReturns \/ CacheExpires
        BY <3>1 DEF Policy, ReadCachedPolicy, MissCachedPolicy, ReadPolicyRow, CachePolicy,
                    UpdatePolicy, UpdateReturns, CacheExpires
      <3>2. CASE AdmissionCommits \/ AdmissionReturns \/ RelayEnds \/ ClientLeaves
                 \/ HeartbeatFails \/ LeaseExpires \/ SocketCloses
        BY <3>2 DEF AdmissionCommits, AdmissionReturns, RelayEnds, ClientLeaves,
                    HeartbeatFails, LeaseExpires, SocketCloses
      <3>3. CASE Preparation
        BY <2>3, <3>3 DEF Preparation, PrepareEnqueues, PrepareClaims, PrepareAcquired,
                          PrepareConnects, PrepareBinds, PrepareCloses
      <3>4. CASE ReceiveInitial \/ AdmissionSeen \/ DisconnectWhileAdmitting
                 \/ PreparationSeen \/ PreparationOvertaken \/ Abandoned
        BY <3>4 DEF ReceiveInitial, AdmissionSeen, DisconnectWhileAdmitting,
                    PreparationSeen, PreparationOvertaken, Abandoned
      <3>5. CASE OpenSession \/ ActivateAttempt \/ Accept \/ CloseProvider
        BY <3>5 DEF OpenSession, ActivateAttempt, Accept, CloseProvider
      <3>6. CASE BudgetExpires
        BY <3>6 DEF BudgetExpires
      <3>7. CASE UNCHANGED connectVars
        BY <3>7 DEF connectVars
      <3>8. ~ReleaseAttempt /\ ~ReleaseSession
        BY <2>3 DEF ReleaseAttempt, ReleaseSession
      <3> QED
        BY <3>1, <3>2, <3>3, <3>4, <3>5, <3>6, <3>7, <3>8 DEF ConnectNext, Connect, Done
    <2> QED
      BY <2>1, <2>2, <2>3
  <1>2. GatewayTypeOK /\ GatewayInv /\ [ConnectNext]_connectVars
        => [(Live(attemptRow) /\ attemptRow' = "ended") => socket # "open"]_connectVars
    BY <1>1
  <1> QED
    BY <1>2, GatewayInvariance, PTL DEF ConnectSpec, FreedAfterClose
=============================================================================
