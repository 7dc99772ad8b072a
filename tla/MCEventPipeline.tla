--------------------------- MODULE MCEventPipeline ---------------------------
EXTENDS EventPipeline, TLC

CONSTANT a1

\* The attempt navigates and ends; one message is to be rejected.
MCEvents == {<<a1, "navigation">>, <<a1, "closed">>, <<a1, "foreign">>}

\* Four methods for three rows, one of which is there; times that do not divide.
MCUsage == a1 :> << [method |-> "m2", count |-> 2, ms |-> 3],
                    [method |-> "m1", count |-> 1, ms |-> 4],
                    [method |-> "m3", count |-> 1, ms |-> 2],
                    [method |-> "m4", count |-> 1, ms |-> 1] >>

\* The browser was connected for less time than its commands took together.
MCMeasured == a1 :> [occupied |-> 8, connected |-> 7]

MCEarlierStats == "m1" :> [count |-> 1, ms |-> 1, cost |-> 1]
=============================================================================
