-------------------------- MODULE MCDomainPacing --------------------------
(* Instances of DomainPacing for TLC. *)
EXTENDS DomainPacing

CONSTANTS c1, c2, c3

CaptureSymmetry == Permutations(Captures)

Narrow ==
    [default_concurrency |-> 2, default_spacing |-> 1, maximum_concurrency |-> 3,
     minimum_spacing |-> 1, maximum_spacing |-> 2, learned_ttl |-> 3,
     healthy_samples |-> 2, overload_samples |-> 2, cooldown |-> 1]

Slow ==
    [default_concurrency |-> 1, default_spacing |-> 2, maximum_concurrency |-> 2,
     minimum_spacing |-> 2, maximum_spacing |-> 2, learned_ttl |-> 2,
     healthy_samples |-> 2, overload_samples |-> 2, cooldown |-> 1]

TwoSettings == {Narrow, Slow}
===========================================================================
