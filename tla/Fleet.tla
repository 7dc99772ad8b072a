------------------------------- MODULE Fleet -------------------------------
(***************************************************************************)
(* Fleet control: the scaling policy (backend/fleet/policy.py), the        *)
(* reconciler (reconciler.py) and the fleet tables (repository.py), on the *)
(* Kubernetes runtime (runtimes/kubernetes.py), beside admission, which    *)
(* places attempts on the instances the reconciler has observed.           *)
(*                                                                         *)
(* One pass of the reconciler is a sequence of transactions and API calls, *)
(* a step each: evaluate, list, drain or cancel, scale, list again, replace*)
(* the instances that stay unhealthy, observe.  Admission and Kubernetes   *)
(* act between any two of them, and any of them may fail and end the pass. *)
(* Admission is reduced to where live attempts are placed; a session that  *)
(* ends or expires ends its attempt.                                       *)
(***************************************************************************)
EXTENDS Integers, FiniteSets, FiniteSetsExt

CONSTANTS
    Pods,               \* uids of Pods; an old uid nobody remembers stands for a new one
    MaxReplicas,        \* bound on maximum_instances
    Attempts,           \* acquisition attempts; one that has ended stands for a new one
    Configurations,     \* provider_fleets settings operators save
    Cooldown,           \* scale_down_cooldown_seconds
    PodsFail            \* whether Pods may be lost, stop being ready or start too slowly

ASSUME FleetAssumption ==
    /\ IsFiniteSet(Pods) /\ IsFiniteSet(Attempts)
    /\ Pods \cap {"none", "queued"} = {}
    /\ MaxReplicas \in Nat
    /\ Cooldown \in Nat \ {0}
    /\ PodsFail \in BOOLEAN
    /\ Configurations \subseteq
            [enabled: BOOLEAN, minimum: 0..MaxReplicas, maximum: 0..MaxReplicas,
             capacity: Nat \ {0}]
    /\ \A c \in Configurations : c.minimum <= c.maximum

VARIABLES
    config,     \* provider_fleets: what operators set
    desired,    \* provider_fleets.desired_instances
    idle,       \* time since provider_fleets.idle_since, or Busy
    rows,       \* provider_instances
    placed,     \* live acquisition_attempts: queued, or the instance they are placed on
    replicas,   \* the StatefulSet's replica count
    template,   \* the session capacity in the StatefulSet's Pod template
    pods,       \* the Pods
    pass,       \* the reconciler's present pass
    suspects    \* the reconciler's _unhealthy_since

database == <<config, desired, idle, rows>>
cluster == <<replicas, template, pods>>
controller == <<pass, suspects>>
vars == <<database, placed, cluster, controller>>

Busy == -1
Capacities == {c.capacity : c \in Configurations}
Directions == {"none", "up", "down", "configure"}
NoRow == [state |-> "none", current |-> FALSE, capacity |-> 1]
NoPod == [status |-> "absent", ordinal |-> 0, capacity |-> 1]
NoPass ==
    [phase |-> "idle", desired |-> 0, capacity |-> 1, demand |-> FALSE, direction |-> "none",
     count |-> 0, listed |-> {}, open |-> {}, candidates |-> {}, removing |-> {},
     unhealthy |-> {}]

Phases == {"idle", "evaluated", "drain", "cancel", "scale", "relist", "replace", "remove"}

TypeOK ==
    /\ config \in Configurations
    /\ desired \in 0..MaxReplicas
    /\ idle \in {Busy} \cup 0..Cooldown
    /\ rows \in [Pods -> [state: {"none", "starting", "ready", "draining", "unhealthy", "stopped"},
                          current: BOOLEAN, capacity: Capacities \cup {1}]]
    /\ placed \in [Attempts -> {"none", "queued"} \cup Pods]
    /\ replicas \in 0..MaxReplicas
    /\ template \in Capacities
    /\ pods \in [Pods -> [status: {"absent", "starting", "ready", "terminating"},
                          ordinal: 0..MaxReplicas, capacity: Capacities \cup {1}]]
    /\ pass \in [phase: Phases, desired: 0..MaxReplicas, capacity: Capacities \cup {1},
                 demand: BOOLEAN, direction: Directions, count: 0..MaxReplicas,
                 listed: SUBSET Pods, open: SUBSET Pods, candidates: SUBSET Pods,
                 removing: SUBSET Pods, unhealthy: SUBSET Pods]
    /\ suspects \in SUBSET Pods

\* ensure_fleet inserts the row with the minimum as desired; the controller has not run yet.
Init ==
    /\ config \in {c \in Configurations : c.enabled}
    /\ desired = config.minimum
    /\ idle = Busy
    /\ rows = [u \in Pods |-> NoRow]
    /\ placed = [x \in Attempts |-> "none"]
    /\ replicas = 0
    /\ template = config.capacity
    /\ pods = [u \in Pods |-> NoPod]
    /\ pass = NoPass
    /\ suspects = {}

--------------------------------------------------------------------------
(* Admission *)

On(u) == {x \in Attempts : placed[x] = u}
Queued == {x \in Attempts : placed[x] = "queued"}
Demand == {x \in Attempts : placed[x] # "none"}

\* The instances with a free slot, as _select_instance sees them.
Free ==
    {u \in Pods : /\ config.enabled
                  /\ rows[u].state = "ready" /\ rows[u].current
                  /\ Cardinality(On(u)) < rows[u].capacity}

\* enqueue
Enqueue(x) ==
    /\ placed[x] = "none"
    /\ config.enabled
    /\ \/ /\ Queued = {}
          /\ \E u \in Free : placed' = [placed EXCEPT ![x] = u]
       \/ /\ Queued # {} \/ Free = {}
          /\ placed' = [placed EXCEPT ![x] = "queued"]
    /\ UNCHANGED <<database, cluster, controller>>

\* claim
Claim(x) ==
    /\ placed[x] = "queued"
    /\ \E u \in Free : placed' = [placed EXCEPT ![x] = u]
    /\ UNCHANGED <<database, cluster, controller>>

\* finish, release, or a lease that expires
Finish(x) ==
    /\ placed[x] # "none"
    /\ placed' = [placed EXCEPT ![x] = "none"]
    /\ UNCHANGED <<database, cluster, controller>>

--------------------------------------------------------------------------
(* policy.py and FleetRepository.evaluate *)

Ceil(a, b) == (a + b - 1) \div b
MaxOf(a, b) == IF a > b THEN a ELSE b
MinOf(a, b) == IF a < b THEN a ELSE b

\* The instances that are or will soon be usable, by their latest observation.
Provisioned == {u \in Pods : rows[u].state \in {"starting", "ready"} /\ rows[u].current}

\* What demand calls for within the limits; one more than desired when all that was desired
\* has come up and still does not carry the demand (capacities differ).
Target(demand) ==
    LET required == MinOf(config.maximum,
                          MaxOf(config.minimum, Ceil(demand, config.capacity)))
        short == /\ demand > 0
                 /\ Cardinality(Provisioned) >= desired
                 /\ demand > SumFunctionOnSet([u \in Pods |-> rows[u].capacity], Provisioned)
    IN  IF ~config.enabled THEN 0
        ELSE IF short THEN MaxOf(required, MinOf(config.maximum, desired + 1))
        ELSE required

\* Fault: the start of an idle period is not stored.
IdleSinceForgotten(demand) == Busy

\* idle_since of the decision when the fleet does not grow.
IdleSince(demand) == IF demand > 0 THEN Busy ELSE IF idle = Busy THEN 0 ELSE idle

\* The whole fleet has been idle for the cooldown, and is larger than it need be.
Shrinks(demand, target) == demand = 0 /\ idle = Cooldown /\ target < desired

\* evaluate: desired moves by one, up for demand and down after a cooldown without any.
Evaluate ==
    LET demand == Cardinality(Demand)
        target == Target(demand)
    IN  /\ pass.phase = "idle"
        /\ \/ /\ target > desired
              /\ desired' = desired + 1
              /\ idle' = Busy
           \/ /\ target <= desired
              /\ desired' = IF Shrinks(demand, target) THEN desired - 1 ELSE desired
              /\ idle' = IdleSince(demand)
        /\ pass' = [NoPass EXCEPT !.phase = "evaluated", !.desired = desired',
                                  !.capacity = config.capacity, !.demand = demand > 0]
        /\ UNCHANGED <<config, rows, placed, cluster, suspects>>

--------------------------------------------------------------------------
(* KubernetesRuntime *)

Present == {u \in Pods : pods[u].status # "absent"}
Ready == {u \in Pods : pods[u].status = "ready"}

\* scale_down_candidate: the highest ordinal
Highest(us) == {u \in us : \A w \in us : pods[w].ordinal <= pods[u].ordinal}

\* Deleted Pods terminate, and are listed until they are gone.
Deleted(us) ==
    [u \in Pods |-> IF u \in us /\ pods[u].status # "absent"
                    THEN [pods[u] EXCEPT !.status = "terminating"] ELSE pods[u]]

--------------------------------------------------------------------------
(* FleetReconciler.reconcile *)

\* After the last list: which instances answer, and which of the others have been
\* unhealthy for the startup timeout.
Probe(listed, open) ==
    \E expired \in SUBSET (IF PodsFail THEN (listed \ open) \cap suspects ELSE {}) :
        /\ pass' = [NoPass EXCEPT !.phase = "replace", !.listed = listed, !.open = open,
                                  !.candidates = expired]
        /\ suspects' = listed \ open

\* The session capacity new Pods are to have: only an idle fleet is reconfigured.
ScaleCapacity ==
    IF pass.demand /\ Present # {}
    THEN pods[CHOOSE u \in Present : \A w \in Present : pods[u].ordinal <= pods[w].ordinal].capacity
    ELSE pass.capacity

\* list_instances, and what to do about the number and the capacity of the instances
ListInstances ==
    LET current == Cardinality(Present)
        reconfigure == /\ \E u \in Present : pods[u].capacity # pass.capacity
                       /\ ~pass.demand
        scaling(phase, direction, count) ==
            /\ pass' = [pass EXCEPT !.phase = phase, !.direction = direction, !.count = count,
                                    !.capacity = ScaleCapacity, !.candidates = Highest(Present)]
            /\ UNCHANGED suspects
    IN  /\ pass.phase = "evaluated"
        /\ \/ current > pass.desired /\ scaling("drain", "down", current - 1)
           \/ current < pass.desired /\ scaling("cancel", "up", current + 1)
           \/ current = pass.desired /\ reconfigure /\ scaling("cancel", "configure", current)
           \/ current = pass.desired /\ ~reconfigure /\ Probe(Present, Ready)
        /\ UNCHANGED <<database, placed, cluster>>

\* Fault: idleness is verified, but new placements are not prevented.
DrainingWithoutMark(u) == rows

\* FleetRepository.prepare_scale_down marks the instance, whatever it then answers.
Draining(u) ==
    IF rows[u].state = "none" THEN rows ELSE [rows EXCEPT ![u].state = "draining"]

\* and its answer: nothing is placed on it
Drained(u) == rows[u].state # "none" /\ On(u) = {}

\* prepare_scale_down of the candidate
PrepareScaleDown ==
    /\ pass.phase = "drain"
    /\ \E u \in pass.candidates :
        /\ rows' = Draining(u)
        /\ pass' = IF Drained(u) THEN [pass EXCEPT !.phase = "scale"]
                   ELSE [NoPass EXCEPT !.phase = "relist"]
    /\ UNCHANGED <<config, desired, idle, placed, cluster, suspects>>

\* FleetRepository.cancel_scale_down
CancelScaleDown ==
    /\ pass.phase = "cancel"
    /\ rows' = [u \in Pods |-> IF rows[u].state = "draining"
                               THEN [rows[u] EXCEPT !.state = "starting"] ELSE rows[u]]
    /\ pass' = [pass EXCEPT !.phase = "scale"]
    /\ UNCHANGED <<config, desired, idle, placed, cluster, suspects>>

\* The Pod a scale call that keeps the count deletes: one with another capacity.
Outdated ==
    IF pass.count = Cardinality(Present)
    THEN Highest({u \in Present : pods[u].capacity # pass.capacity}) ELSE {}

\* KubernetesRuntime.scale patches the StatefulSet.
Scale ==
    /\ pass.phase = "scale"
    /\ replicas' = pass.count
    /\ template' = pass.capacity
    /\ pods' = Deleted(Outdated)
    /\ pass' = [NoPass EXCEPT !.phase = "relist"]
    /\ UNCHANGED <<database, placed, suspects>>

\* list_instances again, and probe
Relist ==
    /\ pass.phase = "relist"
    /\ Probe(Present, Ready)
    /\ UNCHANGED <<database, placed, cluster>>

\* prepare_scale_down of an instance that stays unhealthy
PrepareReplacement ==
    /\ pass.phase = "replace"
    /\ \E u \in pass.candidates :
        /\ rows' = Draining(u)
        /\ pass' = IF Drained(u)
                   THEN [pass EXCEPT !.phase = "remove", !.removing = {u}]
                   ELSE [pass EXCEPT !.candidates = @ \ {u}, !.unhealthy = @ \cup {u}]
    /\ UNCHANGED <<config, desired, idle, placed, cluster, suspects>>

\* KubernetesRuntime.remove
Remove ==
    /\ pass.phase = "remove"
    /\ pods' = Deleted(pass.removing)
    /\ suspects' = suspects \ pass.removing
    /\ pass' = [pass EXCEPT !.phase = "replace", !.removing = {},
                            !.listed = @ \ pass.removing,
                            !.candidates = @ \ pass.removing]
    /\ UNCHANGED <<database, placed, replicas, template>>

ObservedState(u) ==
    IF u \in pass.unhealthy THEN "unhealthy" ELSE IF u \in pass.open THEN "ready" ELSE "starting"

\* A draining instance that is ready keeps draining.
NextState(u) ==
    IF rows[u].state = "draining" /\ ObservedState(u) = "ready"
    THEN "draining" ELSE ObservedState(u)

\* Fault: the capacity the operator wants is taken for the one the worker has.
CapacityWanted(u) == config.capacity

\* observation.session_capacity: what the Pod was started with
ObservedCapacity(u) == pods[u].capacity

\* FleetRepository.observe_instances; then record_reconciliation ends the pass.
ObserveInstances ==
    /\ pass.phase = "replace"
    /\ pass.candidates = {}
    /\ rows' = [u \in Pods |->
                    IF u \in pass.listed
                    THEN [state |-> NextState(u), current |-> TRUE,
                          capacity |-> ObservedCapacity(u)]
                    ELSE IF rows[u].state = "none" THEN rows[u]
                    ELSE [rows[u] EXCEPT !.state = "stopped", !.current = FALSE]]
    /\ pass' = NoPass
    /\ UNCHANGED <<config, desired, idle, placed, cluster, suspects>>

\* A call fails and reconcile raises, or the controller restarts and forgets its suspects.
PassFails ==
    /\ pass.phase # "idle"
    /\ pass' = NoPass
    /\ suspects' \in {suspects, {}}
    /\ UNCHANGED <<database, placed, cluster>>

--------------------------------------------------------------------------
(* Operators, time and Kubernetes *)

\* FleetRepository.update_configuration
UpdateConfiguration ==
    /\ config' \in Configurations \ {config}
    /\ UNCHANGED <<desired, idle, rows, placed, cluster, controller>>

\* The observations are older than the observation_ttl_seconds.
ObservationsLapse ==
    /\ \E u \in Pods : rows[u].current
    /\ rows' = [u \in Pods |-> [rows[u] EXCEPT !.current = FALSE]]
    /\ UNCHANGED <<config, desired, idle, placed, cluster, controller>>

\* The fleet has been idle for longer.
Tick ==
    /\ idle \in 0..(Cooldown - 1)
    /\ idle' = idle + 1
    /\ UNCHANGED <<config, desired, rows, placed, cluster, controller>>

\* Neither the database nor the controller will meet this uid again.
Forgotten(u) ==
    /\ pods[u].status = "absent"
    /\ rows[u].state \in {"none", "stopped"}
    /\ On(u) = {}
    /\ u \notin suspects \cup pass.listed \cup pass.candidates

\* The StatefulSet ("podManagementPolicy": "Parallel") creates a missing Pod from its template.
CreatePod ==
    /\ \E u \in Pods, o \in 0..(replicas - 1) :
        /\ Forgotten(u)
        /\ \A w \in Present : pods[w].ordinal # o
        /\ pods' = [pods EXCEPT ![u] = [status |-> "starting", ordinal |-> o,
                                        capacity |-> template]]
        /\ rows' = [rows EXCEPT ![u] = NoRow]
    /\ UNCHANGED <<config, desired, idle, placed, replicas, template, controller>>

\* The StatefulSet deletes a Pod beyond its replicas.
CondemnPod ==
    /\ \E u \in Present :
        /\ pods[u].ordinal >= replicas
        /\ pods[u].status # "terminating"
        /\ pods' = Deleted({u})
    /\ UNCHANGED <<database, placed, replicas, template, controller>>

\* The Pod's readiness changes.
PodReadiness(u) ==
    /\ pods[u].status \in (IF PodsFail THEN {"starting", "ready"} ELSE {"starting"})
    /\ pods' = [pods EXCEPT ![u].status = IF @ = "starting" THEN "ready" ELSE "starting"]
    /\ UNCHANGED <<database, placed, replicas, template, controller>>

\* The Pod is gone: terminated, or lost with its node.
PodGone(u) ==
    /\ \/ pods[u].status = "terminating"
       \/ PodsFail /\ pods[u].status # "absent"
    /\ pods' = [pods EXCEPT ![u].status = "absent", ![u].ordinal = 0]
    /\ UNCHANGED <<database, placed, replicas, template, controller>>

Reconcile ==
    \/ Evaluate
    \/ ListInstances
    \/ PrepareScaleDown
    \/ CancelScaleDown
    \/ Scale
    \/ Relist
    \/ PrepareReplacement
    \/ Remove
    \/ ObserveInstances

Next ==
    \/ Reconcile
    \/ PassFails
    \/ \E x \in Attempts : Enqueue(x) \/ Claim(x) \/ Finish(x)
    \/ UpdateConfiguration
    \/ ObservationsLapse
    \/ Tick
    \/ CreatePod
    \/ CondemnPod
    \/ \E u \in Pods : PodReadiness(u) \/ PodGone(u)

Spec == Init /\ [][Next]_vars

\* What the deployment guarantees.  The controller runs pass after pass, and its calls do not
\* fail for ever; time passes; Kubernetes starts and stops the Pods it is asked to, and a
\* Pod that keeps running becomes ready.
Fairness ==
    /\ WF_vars(Reconcile)
    /\ <>[][~PassFails]_vars
    /\ WF_vars(Tick)
    /\ WF_vars(CreatePod)
    /\ WF_vars(CondemnPod)
    /\ \A u \in Pods :
        /\ WF_vars(pods[u].status = "terminating" /\ PodGone(u))
        /\ WF_vars(pods[u].status = "starting" /\ PodReadiness(u))

LiveSpec == Spec /\ Fairness

--------------------------------------------------------------------------
(* Correctness *)

\* A worker never has more attempts than the slots it was started with, while operators
\* change the capacity and workers of both capacities run side by side.
WithinWorkerCapacity == \A u \in Pods : Cardinality(On(u)) <= pods[u].capacity

\* From the moment prepare_scale_down has found an instance idle until the runtime is told
\* to remove it, nothing is placed on it.
DrainedStayIdle ==
    /\ pass.phase = "scale" /\ pass.direction = "down" => \A u \in pass.candidates : On(u) = {}
    /\ \A u \in pass.removing : On(u) = {}

\* The fleet an operator has configured, without demand.
Settled ==
    /\ Cardinality(Present) = IF config.enabled THEN config.minimum ELSE 0
    /\ \A u \in Present : pods[u].capacity = config.capacity

\* A fleet that stays without demand ends up with its minimum of workers, all with the
\* configured capacity: through cooldown, draining, reconfiguration and failed passes.
IdleFleetSettles ==
    <>[](Demand = {}) /\ <>[][UNCHANGED config]_vars => <>[]Settled

\* Scale-down "drains the highest ordinal, transactionally prevents new admission to it, waits
\* for its live assignments to finish, and only then lowers the replica count": nothing is
\* placed on a Pod that the StatefulSet is about to delete.  Does not hold: a pass that lists
\* while Pods are missing lowers the count without draining (FleetReplicas.cfg).
CondemnedAreIdle ==
    \A u \in Ready : pods[u].ordinal >= replicas => On(u) = {}

\* "A changed value is applied once the fleet has no live demand so existing browser
\* sessions are not interrupted."  Does not hold: the demand was counted several calls
\* earlier (FleetReconfiguration.cfg).
ReconfigurationWaits ==
    [][pass.phase = "scale" =>
        \A u \in Ready : pods'[u].status = "terminating" => On(u) = {}]_vars
==========================================================================
