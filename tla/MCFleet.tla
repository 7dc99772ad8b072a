------------------------------ MODULE MCFleet ------------------------------
(* Instances of Fleet for TLC. *)
EXTENDS Fleet, TLC

CONSTANTS u1, u2, a1, a2

FleetSymmetry == Permutations(Pods) \cup Permutations(Attempts)

Limits(minimum, maximum, capacity) ==
    [enabled |-> TRUE, minimum |-> minimum, maximum |-> maximum, capacity |-> capacity]

AnySize == {Limits(0, 2, 1), Limits(2, 2, 1), [Limits(2, 2, 1) EXCEPT !.enabled = FALSE]}
AlwaysTwo == {Limits(2, 2, 1)}
Resized == {Limits(1, 1, 1), Limits(0, 1, 2)}
============================================================================
