--------------------------- MODULE MCAdmission ---------------------------
(* Instances of Admission for TLC. *)
EXTENDS Admission, TLC

CONSTANTS s1, s2, s3

TwoSessions == {s1, s2}
ThreeSessions == {s1, s2, s3}
SessionSymmetry == Permutations(Sessions)

OneSlot == [i \in {1} |-> 1]
TwoSlots == [i \in {1, 2} |-> 1]

Managed == {Browserless}
AnyProvider == Providers
Failed == {TRUE}
AlwaysReady == {Instances}
OnAndOff == {{}, Instances}

OneFleet == {[enabled |-> TRUE, maxQueued |-> 1]}
TwoFleets == {[enabled |-> TRUE, maxQueued |-> 1], [enabled |-> FALSE, maxQueued |-> 1]}
DeepQueue == {[enabled |-> TRUE, maxQueued |-> 2]}

NoCloud == {[enabled |-> FALSE, maxActive |-> 0, maxQueued |-> 0]}
TwoClouds == {[enabled |-> TRUE, maxActive |-> 1, maxQueued |-> 1],
              [enabled |-> FALSE, maxActive |-> 1, maxQueued |-> 1]}
==========================================================================
