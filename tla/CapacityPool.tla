--------------------------- MODULE CapacityPool ---------------------------
(***************************************************************************)
(* What transactional admission promises about managed browsers: a set of  *)
(* pools (instances) with a fixed number of slots each, and clients        *)
(* (acquisition attempts) that are given at most one slot, once.           *)
(*                                                                         *)
(* A step may retire any clients, which frees what they hold for good, and *)
(* give one slot to one client that has neither held one nor been retired. *)
(***************************************************************************)
EXTENDS Naturals, FiniteSets

CONSTANTS Clients, Pools, Capacity

VARIABLES
    used,   \* the clients holding a slot of each pool
    spent   \* clients that are done and will hold nothing any more

poolVars == <<used, spent>>

Holders == UNION {used[p] : p \in Pools}

Init ==
    /\ used = [p \in Pools |-> {}]
    /\ spent = {}

Retire(cs) ==
    /\ used' = [p \in Pools |-> used[p] \ cs]
    /\ spent' = spent \cup cs

Grant(c, p, cs) ==
    /\ c \notin spent \cup cs \cup Holders
    /\ Cardinality(used[p] \ cs) < Capacity[p]
    /\ used' = [q \in Pools |-> IF q = p THEN (used[q] \ cs) \cup {c} ELSE used[q] \ cs]
    /\ spent' = spent \cup cs

Next ==
    \E cs \in SUBSET (Clients \ spent) :
        \/ Retire(cs)
        \/ \E c \in Clients, p \in Pools : Grant(c, p, cs)

Spec == Init /\ [][Next]_poolVars
===========================================================================
