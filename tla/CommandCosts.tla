---------------------------- MODULE CommandCosts ----------------------------
(***************************************************************************)
(* What an attempt is charged when it ends (proxy/postgres/usage.py), and  *)
(* how the recorder folds its command summary into the aggregate of its    *)
(* provider (workers/maintenance/recorder.py).                             *)
(*                                                                         *)
(* A summary is the sequence of the methods an attempt used, in the order  *)
(* the observer met them, each once: [method, count, ms].  The aggregate   *)
(* is a function from the methods that have a row to [count, ms, cost].    *)
(***************************************************************************)
EXTENDS Integers, Sequences, FiniteSets, FiniteSetsExt

CONSTANTS
    Overhead,      \* _SESSION_OVERHEAD_METHOD
    Other,         \* OTHER_COMMAND_METHOD
    MaxMethods     \* _MAX_RETAINED_METHODS_PER_PROVIDER

ASSUME MethodsAssumption == MaxMethods \in Nat \ {0} /\ Overhead # Other

LeastOf(x, y) == IF x < y THEN x ELSE y
Positive(x) == IF x < 0 THEN 0 ELSE x

\* finalize_attempt_usage: the row of an attempt that had got as far as
\* `reached' when it ended, charged for the time it occupied a slot at the
\* rate of this moment (units per second, rounded up).  A NULL of the row is
\* read as 0, except that an attempt without a cost is not billed.
Finalized(measured, reached, rate) ==
    LET occupied == IF reached = "waiting" THEN 0 ELSE measured.occupied
    IN [browser |-> IF reached = "active" THEN measured.connected ELSE 0,
        chargeable |-> occupied,
        cost |-> (occupied * rate + 999) \div 1000,
        billed |-> reached # "waiting"]

\* _retained_command_methods: a method that has a row keeps it, new ones get
\* one while there is room, the rest share the row of Other.
RetainedMethod(existing, usage, i) ==
    LET method == usage[i].method
        new == {j \in 1..(i - 1) : usage[j].method \notin existing \cup {Overhead}}
        available == Positive(MaxMethods - 1 - Cardinality(existing \ {Other}))
    IN CASE method = Overhead -> Other
         [] method # Overhead /\ method \in existing -> method
         [] OTHER -> IF Cardinality(new) < available THEN method ELSE Other

\* The sum of a field over some rows of a table.
SumOf(table, I, field) == MapThenSumSet(LAMBDA i : table[i][field], I)

ProviderMs(usage) == SumOf(usage, DOMAIN usage, "ms")

\* What a method of the summary contributes: its share of the browser time
\* and of the cost, both rounded down.
Share(usage, attempt, i) ==
    LET total == ProviderMs(usage)
        ms == IF total = 0 THEN 0
              ELSE (LeastOf(attempt.browser, total) * usage[i].ms) \div total
    IN [method |-> usage[i].method, count |-> usage[i].count, ms |-> ms,
        cost |-> IF attempt.chargeable = 0 THEN 0
                 ELSE (attempt.cost * ms) \div attempt.chargeable]

Shares(usage, attempt) == [i \in DOMAIN usage |-> Share(usage, attempt, i)]

\* What the methods leave of the attempt.
Unattributed(shares, attempt) ==
    [count |-> 0,
     ms |-> Positive(attempt.browser - SumOf(shares, DOMAIN shares, "ms")),
     cost |-> Positive(attempt.cost - SumOf(shares, DOMAIN shares, "cost"))]

\* _accumulate_command_cost: the rows an attempt contributes.
ContributedRows(existing, shares, rest) ==
    LET of(m) == {i \in DOMAIN shares : RetainedMethod(existing, shares, i) = m}
        methods == {RetainedMethod(existing, shares, i) : i \in DOMAIN shares}
                     \cup (IF rest.ms # 0 \/ rest.cost # 0 THEN {Overhead} ELSE {})
    IN [m \in methods |->
          IF m = Overhead THEN rest
          ELSE [f \in {"count", "ms", "cost"} |-> SumOf(shares, of(m), f)]]

\* _upsert_command_costs: the rows are added to those of the provider.
Upserted(stats, rows) ==
    LET old(m) == IF m \in DOMAIN stats THEN stats[m]
                  ELSE [count |-> 0, ms |-> 0, cost |-> 0]
        add(m) == [f \in {"count", "ms", "cost"} |-> old(m)[f] + rows[m][f]]
    IN [m \in DOMAIN stats \cup DOMAIN rows |->
          IF m \in DOMAIN rows THEN add(m) ELSE stats[m]]

Projected(stats, shares, rest) ==
    Upserted(stats, ContributedRows(DOMAIN stats \ {Overhead}, shares, rest))

Total(stats, field) == SumOf(stats, DOMAIN stats, field)
=============================================================================
