------------------------- MODULE EventPipelineProofs -------------------------
(***************************************************************************)
(* Proofs about EventPipeline, for any attempts, rates and bounds:         *)
(* whatever is redelivered, published twice, lost with the stream or cut   *)
(* off between two transactions, an event of the outbox does not leave the *)
(* table before the stream has taken it, what the recorder has             *)
(* acknowledged is in the projections, and these hold every attempt once.  *)
(***************************************************************************)
EXTENDS EventPipeline, FiniteSetTheorems, FunctionTheorems, WellFoundedInduction, TLAPS

Kinds == {"navigation", "summary", "closed", "foreign"}

\* The events that have happened: an attempt's end, and what the gateway has
\* observed.
Known ==
    {e \in Attempts \X Kinds :
        IF e[2] = "closed" THEN e[1] \in finished ELSE e \in emitted}

\* Those of them that a stream has taken.
Seen == Known \cap accepted

Messages ==
    [event : Seen, state : {"ready", "held", "dead", "acked"}, delivered : Nat]

\* What is waiting to be published has happened, and what is marked as
\* published, or about to be, was taken by a stream.
SourcesOK ==
    /\ rows \in Seq(Known) /\ replay \in Seq(Known)
    /\ outbox \in [on : BOOLEAN, left : Seq(Known), sent : SUBSET accepted]
    /\ published \subseteq accepted

StreamOK == stream \in Seq(Messages)

\* The recorder works on messages of the stream it is subscribed to: a stream
\* that was replaced is one it is not subscribed to before it has let go of
\* its batch.
BatchOK ==
    /\ rec = [pc |-> rec.pc, batch |-> rec.batch]
    /\ rec.pc \in {"idle", "check", "project", "ack"} /\ IsFiniteSet(rec.batch)
    /\ \A m \in rec.batch : m.at \in Nat /\ m.event \in Seen
    /\ worker # "up" => rec.pc = "idle"
    /\ rec.pc = "idle" => rec.batch = {}
    /\ subscribed =>
         \A m \in rec.batch : m.at \in DOMAIN stream /\ stream[m.at].event = m.event

\* An attempt that has a domain has navigated, so that it is billed when it
\* ends; one that is located and ended is in the cost of its domain, in
\* whichever order the two were recorded.
AttemptsOK ==
    /\ \A a \in finished : <<a, "navigation">> \in emitted => final[a].billed
    /\ \A a \in domainOf : <<a, "navigation">> \in emitted
    /\ summaryDone \subseteq finished
    /\ summaryDone \cap domainOf \subseteq costDone

\* What is acknowledged, or is about to be, was recorded.
Handled(e) ==
    /\ e[2] = "closed" => e[1] \in summaryDone
    /\ e[2] = "navigation" => e[1] \in domainOf

HandledOK ==
    /\ \A i \in DOMAIN stream : stream[i].state = "acked" => Handled(stream[i].event)
    /\ rec.pc = "ack" => \A m \in rec.batch : Handled(m.event)

Inv == SourcesOK /\ StreamOK /\ BatchOK /\ AttemptsOK /\ HandledOK /\ OutboxNotLost

-----------------------------------------------------------------------------
(* The operators of the model.                                             *)

\* A sequence stays one over more elements.
LEMMA SeqOver ==
    ASSUME NEW S, NEW T, S \subseteq T, NEW s \in Seq(S)
    PROVE  s \in Seq(T)
  OBVIOUS

\* A function on the domain of a sequence is a sequence.
LEMMA SeqLike ==
    ASSUME NEW S, NEW T, NEW s \in Seq(S), NEW t \in [DOMAIN s -> T]
    PROVE  t \in Seq(T)
  <1>1. DOMAIN s = 1..Len(s) /\ Len(s) \in Nat
    OBVIOUS
  <1> QED
    BY <1>1

\* The elements of a sequence after one more.
LEMMA AfterAppend ==
    ASSUME NEW S, NEW s \in Seq(S), NEW e \in S
    PROVE  /\ Append(s, e) \in Seq(S)
           /\ ToSet(Append(s, e)) = ToSet(s) \cup {e}
  <1> DEFINE t == Append(s, e)
  <1>1. /\ t \in Seq(S) /\ Len(t) = Len(s) + 1 /\ Len(s) \in Nat
        /\ DOMAIN t = 1..Len(t) /\ DOMAIN s = 1..Len(s)
        /\ t[Len(s) + 1] = e /\ \A i \in 1..Len(s) : t[i] = s[i]
    OBVIOUS
  <1> HIDE DEF t
  <1>2. ToSet(t) = ToSet(s) \cup {e}
    BY <1>1 DEF ToSet
  <1> QED
    BY <1>1, <1>2 DEF t

\* The elements of two sequences after another.
LEMMA AfterConcat ==
    ASSUME NEW S, NEW s \in Seq(S), NEW u \in Seq(S)
    PROVE  /\ s \o u \in Seq(S)
           /\ ToSet(s \o u) = ToSet(s) \cup ToSet(u)
  <1> DEFINE t == s \o u
  <1>1. /\ t \in Seq(S) /\ Len(t) = Len(s) + Len(u) /\ Len(s) \in Nat /\ Len(u) \in Nat
        /\ DOMAIN t = 1..Len(t) /\ DOMAIN s = 1..Len(s) /\ DOMAIN u = 1..Len(u)
        /\ \A i \in 1..Len(s) : t[i] = s[i]
        /\ \A i \in 1..Len(u) : t[Len(s) + i] = u[i]
    OBVIOUS
  <1> HIDE DEF t
  <1>2. ToSet(t) \subseteq ToSet(s) \cup ToSet(u)
    <2>1. ASSUME NEW i \in 1..Len(t)
          PROVE  t[i] \in ToSet(s) \cup ToSet(u)
      <3>1. CASE i <= Len(s)
        BY <1>1, <3>1 DEF ToSet
      <3>2. CASE i > Len(s)
        <4>1. i - Len(s) \in 1..Len(u) /\ i = Len(s) + (i - Len(s))
          BY <1>1, <3>2
        <4> QED
          BY <1>1, <4>1 DEF ToSet
      <3> QED
        BY <1>1, <3>1, <3>2
    <2> QED
      BY <1>1, <2>1 DEF ToSet
  <1>3. ToSet(s) \cup ToSet(u) \subseteq ToSet(t)
    <2>1. \A i \in 1..Len(u) : Len(s) + i \in 1..Len(t)
      BY <1>1
    <2>2. \A i \in 1..Len(s) : i \in 1..Len(t)
      BY <1>1
    <2> QED
      BY <1>1, <2>1, <2>2 DEF ToSet
  <1> QED
    BY <1>1, <1>2, <1>3 DEF t

\* Two sequences without repetition that have no element in common.
LEMMA ConcatRepeatsNothing ==
    ASSUME NEW S, NEW s \in Seq(S), NEW u \in Seq(S), ToSet(s) \cap ToSet(u) = {},
           \A i, j \in DOMAIN s : s[i] = s[j] => i = j,
           \A i, j \in DOMAIN u : u[i] = u[j] => i = j
    PROVE  \A i, j \in DOMAIN (s \o u) : (s \o u)[i] = (s \o u)[j] => i = j
  <1> DEFINE t == s \o u
  <1>1. /\ Len(t) = Len(s) + Len(u) /\ Len(s) \in Nat /\ Len(u) \in Nat
        /\ DOMAIN t = 1..Len(t) /\ DOMAIN s = 1..Len(s) /\ DOMAIN u = 1..Len(u)
        /\ \A i \in 1..Len(s) : t[i] = s[i]
        /\ \A i \in 1..Len(u) : t[Len(s) + i] = u[i]
    OBVIOUS
  <1> HIDE DEF t
  <1>2. ASSUME NEW i \in 1..Len(t)
        PROVE  \/ i \in DOMAIN s /\ t[i] = s[i] /\ t[i] \in ToSet(s)
               \/ \E k \in DOMAIN u : i = Len(s) + k /\ t[i] = u[k] /\ t[i] \in ToSet(u)
    <2>1. CASE i <= Len(s)
      BY <1>1, <2>1 DEF ToSet
    <2>2. CASE i > Len(s)
      <3>1. PICK k \in 1..Len(u) : i = Len(s) + k
        <4>1. i - Len(s) \in 1..Len(u) /\ i = Len(s) + (i - Len(s))
          BY <1>1, <2>2
        <4> QED
          BY <4>1
      <3>2. t[i] = u[k] /\ k \in DOMAIN u
        BY <1>1, <3>1
      <3> QED
        BY <3>1, <3>2 DEF ToSet
    <2> QED
      BY <1>1, <2>1, <2>2
  <1>3. ASSUME NEW i \in 1..Len(t), NEW j \in 1..Len(t), t[i] = t[j]
        PROVE  i = j
    <2>1. CASE i \in DOMAIN s /\ t[i] = s[i] /\ t[i] \in ToSet(s)
      <3>1. t[j] \notin ToSet(u)
        BY <1>3, <2>1
      <3>2. j \in DOMAIN s /\ t[j] = s[j]
        BY <1>2, <3>1
      <3> QED
        BY <1>3, <2>1, <3>2
    <2>2. CASE \E k \in DOMAIN u : i = Len(s) + k /\ t[i] = u[k] /\ t[i] \in ToSet(u)
      <3>1. PICK k \in DOMAIN u : i = Len(s) + k /\ t[i] = u[k] /\ t[i] \in ToSet(u)
        BY <2>2
      <3>2. t[j] \notin ToSet(s)
        BY <1>3, <3>1
      <3>3. PICK l \in DOMAIN u : j = Len(s) + l /\ t[j] = u[l]
        BY <1>2, <3>2
      <3>4. k = l
        BY <1>3, <3>1, <3>3
      <3> QED
        BY <3>1, <3>3, <3>4
    <2> QED
      BY <1>2, <2>1, <2>2
  <1> QED
    BY <1>1, <1>3 DEF t

\* The elements of a sequence without its first.
LEMMA HeadAndTail ==
    ASSUME NEW S, NEW s \in Seq(S), s # <<>>
    PROVE  Head(s) \in S /\ Tail(s) \in Seq(S)
  OBVIOUS

\* Ascending lists the elements of a finite set of numbers.
LEMMA AscendingLists ==
    ASSUME NEW S \in SUBSET Int, IsFiniteSet(S)
    PROVE  /\ Ascending(S) \in [1..Cardinality(S) -> S] /\ Cardinality(S) \in Nat
           /\ \A e \in S : \E k \in 1..Cardinality(S) : Ascending(S)[k] = e
  <1> DEFINE Below(e) == {d \in S : d < e}
             n == Cardinality(S)
             rank == [e \in S |-> Cardinality(Below(e))]
  <1>1. IsFiniteSet(S) /\ n \in Nat
    BY FS_CardinalityType
  <1>0. S \subseteq Int
    OBVIOUS
  <1>2. ASSUME NEW e \in S
        PROVE  /\ IsFiniteSet(Below(e)) /\ Cardinality(Below(e)) \in 0..(n - 1)
               /\ \A f \in S : e < f => Cardinality(Below(e)) < Cardinality(Below(f))
    <2>1. IsFiniteSet(Below(e)) /\ Cardinality(Below(e)) \in Nat
      BY <1>1, FS_Subset, FS_CardinalityType
    <2>2. \A T \in SUBSET S : Below(e) \subseteq T /\ e \in T
                                  => Cardinality(Below(e)) < Cardinality(T)
      <3> TAKE T \in SUBSET S
      <3> HAVE Below(e) \subseteq T /\ e \in T
      <3>1. IsFiniteSet(T) /\ Cardinality(T) \in Nat
        BY <1>1, FS_Subset, FS_CardinalityType
      <3>2. e \notin Below(e)
        BY <1>0
      <3>3. Cardinality(Below(e)) <= Cardinality(T)
            /\ (Cardinality(T) = Cardinality(Below(e)) => T = Below(e))
        BY <3>1, FS_Subset
      <3> QED
        BY <2>1, <3>1, <3>2, <3>3
    <2>3. Cardinality(Below(e)) < n
      BY <2>2
    <2>4. ASSUME NEW f \in S, e < f
          PROVE  Cardinality(Below(e)) < Cardinality(Below(f))
      <3>1. Below(e) \subseteq Below(f) /\ e \in Below(f) /\ Below(f) \in SUBSET S
        <4>1. e \in Int /\ f \in Int /\ \A d \in S : d \in Int
          BY <1>0
        <4>2. \A d \in S : d < e => d < f
          BY <2>4, <4>1
        <4> QED
          BY <2>4, <4>2
      <3> QED
        BY <2>2, <3>1
    <2> QED
      BY <1>1, <2>1, <2>3, <2>4
  <1>3. rank \in Injection(S, 0..(n - 1))
    <2>1. rank \in [S -> 0..(n - 1)]
      BY <1>2
    <2>2. ASSUME NEW e \in S, NEW f \in S, e # f
          PROVE  rank[e] # rank[f]
      <3>1. e < f \/ f < e
        BY <1>0, <2>2
      <3>2. rank[e] = Cardinality(Below(e)) /\ rank[f] = Cardinality(Below(f))
        OBVIOUS
      <3>3. Cardinality(Below(e)) \in Int /\ Cardinality(Below(f)) \in Int
        <4>1. Cardinality(Below(e)) \in 0..(n - 1) /\ Cardinality(Below(f)) \in 0..(n - 1)
          BY <1>2
        <4> HIDE DEF Below
        <4> QED
          BY <1>1, <4>1
      <3> HIDE DEF rank, Below
      <3> QED
        BY <1>2, <3>1, <3>2, <3>3
    <2> QED
      BY <2>1, <2>2 DEF Injection, IsInjective
  <1>4. rank \in Surjection(S, 0..(n - 1))
    <2>1. IsFiniteSet(0..(n - 1)) /\ Cardinality(0..(n - 1)) = n
      <3>1. 0 \in Int /\ n - 1 \in Int
        BY <1>1
      <3>2. /\ IsFiniteSet(0..(n - 1))
            /\ Cardinality(0..(n - 1)) = IF 0 > n - 1 THEN 0 ELSE (n - 1) - 0 + 1
        BY <3>1, FS_Interval, Zenon
      <3> QED
        BY <1>1, <3>2
    <2> QED
      BY <1>3, <2>1, FS_Injection
  <1>5. ASSUME NEW i \in 1..n
        PROVE  Ascending(S)[i] \in S /\ rank[Ascending(S)[i]] = i - 1
    <2>1. \E e \in S : rank[e] = i - 1
      <3>1. i - 1 \in 0..(n - 1)
        BY <1>1
      <3> HIDE DEF rank
      <3> QED
        BY <1>4, <3>1 DEF Surjection
    <2>2. Ascending(S)[i] = CHOOSE e \in S : Cardinality(Below(e)) = i - 1
      BY DEF Ascending
    <2> HIDE DEF Below
    <2> QED
      BY <2>1, <2>2
  <1>6. DOMAIN Ascending(S) = 1..n
    BY DEF Ascending
  <1>7. Ascending(S) \in [1..n -> S]
    BY <1>5, <1>6 DEF Ascending
  <1> HIDE DEF rank
  <1>8. ASSUME NEW e \in S
         PROVE  \E i \in 1..n : Ascending(S)[i] = e
    <2>1. rank[e] \in 0..(n - 1)
      BY <1>3 DEF Injection
    <2>2. rank[e] + 1 \in 1..n
      BY <1>1, <2>1
    <2>3. rank[Ascending(S)[rank[e] + 1]] = rank[e] /\ Ascending(S)[rank[e] + 1] \in S
      BY <1>1, <1>5, <2>1, <2>2
    <2>4. Ascending(S)[rank[e] + 1] = e
      BY <1>3, <2>3 DEF Injection, IsInjective
    <2> QED
      BY <2>2, <2>4
  <1> QED
    BY <1>1, <1>7, <1>8

\* Selected lists what a function has at the positions of a finite set.
LEMMA SelectedLists ==
    ASSUME NEW I \in SUBSET Int, IsFiniteSet(I), NEW T, NEW s, \A i \in I : s[i] \in T
    PROVE  /\ Selected(s, I) \in Seq(T)
           /\ ToSet(Selected(s, I)) = {s[i] : i \in I}
  <1> DEFINE n == Cardinality(I)
             A == Ascending(I)
             t == [k \in 1..n |-> s[A[k]]]
  <1>1. /\ A \in [1..n -> I] /\ n \in Nat
        /\ \A e \in I : \E k \in 1..n : A[k] = e
    BY AscendingLists
  <1> HIDE DEF A, n
  <1>2. Selected(s, I) = t
    BY DEF Selected, A, n
  <1>3. t \in [1..n -> T]
    BY <1>1
  <1>4. t \in Seq(T)
    BY <1>1, <1>3
  <1>5. ToSet(t) = {t[k] : k \in 1..n}
    BY DEF ToSet
  <1>6. {t[k] : k \in 1..n} = {s[i] : i \in I}
    <2>1. ASSUME NEW k \in 1..n
          PROVE  t[k] \in {s[i] : i \in I}
      BY <1>1
    <2>2. ASSUME NEW i \in I
          PROVE  s[i] \in {t[k] : k \in 1..n}
      <3>1. PICK k \in 1..n : A[k] = i
        BY <1>1
      <3>2. t[k] = s[i]
        BY <3>1
      <3> QED
        BY <3>2
    <2> QED
      BY <2>1, <2>2
  <1> QED
    BY <1>2, <1>4, <1>5, <1>6

\* SetToSeq lists the elements of a finite set.
LEMMA SetToSeqLists ==
    ASSUME NEW S, IsFiniteSet(S)
    PROVE  /\ SetToSeq(S) \in Seq(S) /\ ToSet(SetToSeq(S)) = S
           /\ \A i, j \in DOMAIN SetToSeq(S) : SetToSeq(S)[i] = SetToSeq(S)[j] => i = j
  <1> DEFINE n == Cardinality(S)
             f == SetToSeq(S)
  <1>1. n \in Nat /\ ExistsBijection(1..n, S)
    BY FS_CardinalityType
  <1>2. \E g \in [1..n -> S] : IsInjective(g)
    BY <1>1 DEF ExistsBijection, Bijection, Injection
  <1>3. f \in [1..n -> S] /\ IsInjective(f)
    BY <1>2 DEF SetToSeq
  <1>4. f \in Injection(1..n, S)
    BY <1>3 DEF Injection
  <1>5. Cardinality(1..n) = n
    <2>1. Cardinality(1..n) = IF 1 > n THEN 0 ELSE n - 1 + 1
      BY <1>1, FS_Interval
    <2> QED
      BY <1>1, <2>1
  <1> HIDE DEF f
  <1>6. f \in Surjection(1..n, S)
    BY <1>4, <1>5, FS_Injection
  <1>7. f \in Seq(S)
    BY <1>1, <1>3
  <1>8. \A i, j \in DOMAIN f : f[i] = f[j] => i = j
    BY <1>3 DEF IsInjective
  <1> QED
    BY <1>3, <1>6, <1>7, <1>8 DEF Surjection, ToSet, f

-----------------------------------------------------------------------------
(* Adding up a field of the rows of a table.                               *)

\* In a nonempty family of subsets of a finite set, some member has none of its
\* subsets with one element fewer in the family: the step of an induction over the set.
LEMMA SmallestSet ==
    ASSUME NEW D, IsFiniteSet(D), NEW B \in SUBSET (SUBSET D), B # {}
    PROVE  \E s \in B : \A x \in s : s \ {x} \notin B
  <1> DEFINE R == StrictSubsetOrdering(D)
  <1>1. IsWellFoundedOn(R, SUBSET D)
    BY FS_StrictSubsetOrderingWellFounded, FS_FiniteSubsetsOfFinite
  <1>2. PICK s \in B : \A w \in B : ~ (<<w, s>> \in R)
    BY <1>1, WFMin
  <1>3. ASSUME NEW x \in s, s \ {x} \in B
        PROVE  FALSE
    <2>1. <<s \ {x}, s>> \in R
      BY <1>2, <1>3 DEF StrictSubsetOrdering
    <2> QED
      BY <1>2, <1>3, <2>1
  <1> QED
    BY <1>2, <1>3

\* The element that a sum over the set s takes.
Chosen(s) == CHOOSE x \in s : TRUE

\* What a sum takes is of its set.
LEMMA ChosenIn == ASSUME NEW s, s # {} PROVE Chosen(s) \in s
  BY DEF Chosen

\* The units that a field of the rows of s stands for, one by one.
Units(t, field, s) == {p \in s \X Nat : 1 <= p[2] /\ p[2] <= t[p[1]][field]}

\* A row more stands for as many units more as its field says.
LEMMA UnitsGrow ==
    ASSUME NEW t, NEW field, NEW s, NEW x, x \notin s, t[x][field] \in Nat, IsFiniteSet(Units(t, field, s))
    PROVE  /\ IsFiniteSet(Units(t, field, s \cup {x}))
           /\ Cardinality(Units(t, field, s)) \in Nat
           /\ Cardinality(Units(t, field, s \cup {x})) = t[x][field] + Cardinality(Units(t, field, s))
  <1>0. PICK n \in Nat : n = t[x][field]
    OBVIOUS
  <1> DEFINE P == {x} \X (1..n)
  <1>1. IsFiniteSet({x}) /\ Cardinality({x}) = 1
    BY FS_Singleton
  <1>2. IsFiniteSet(1..n) /\ Cardinality(1..n) = n
    <2>1. IsFiniteSet(1..n) /\ Cardinality(1..n) = IF 1 > n THEN 0 ELSE n - 1 + 1
      BY FS_Interval
    <2> QED
      BY <2>1
  <1>3. IsFiniteSet(P) /\ Cardinality(P) = n
    <2>1. PICK S, T : S = {x} /\ T = 1..n
      OBVIOUS
    <2>2. IsFiniteSet(S) /\ IsFiniteSet(T) /\ Cardinality(S) = 1 /\ Cardinality(T) = n
      BY <1>1, <1>2, <2>1
    <2>3. IsFiniteSet(S \X T) /\ Cardinality(S \X T) = Cardinality(S) * Cardinality(T)
      BY <2>2, FS_Product
    <2> QED
      BY <2>1, <2>2, <2>3
  <1>4. Units(t, field, s \cup {x}) = Units(t, field, s) \cup P
    BY <1>0 DEF Units
  <1>5. Units(t, field, s) \cap P = {}
    BY DEF Units
  <1>6. Cardinality(Units(t, field, s)) \in Nat /\ Cardinality({}) = 0
    BY FS_CardinalityType, FS_EmptySet
  <1> HIDE DEF P
  <1>7. PICK A : A = Units(t, field, s)
    OBVIOUS
  <1>8. /\ IsFiniteSet(A \cup P)
        /\ Cardinality(A \cup P) = Cardinality(A) + Cardinality(P) - Cardinality(A \cap P)
    BY <1>3, <1>7, FS_Union
  <1>9. Cardinality(A) \in Nat /\ Cardinality(A \cap P) = 0 /\ Cardinality(P) = n
    BY <1>3, <1>5, <1>6, <1>7
  <1>10. Cardinality(A \cup P) = n + Cardinality(A)
    BY <1>8, <1>9
  <1>11. Units(t, field, s \cup {x}) = A \cup P
    BY <1>4, <1>7
  <1> QED
    BY <1>0, <1>7, <1>8, <1>9, <1>10, <1>11

\* The rows of a finite set stand for finitely many units.
LEMMA UnitsFinite ==
    ASSUME NEW t, NEW field, NEW D, IsFiniteSet(D), \A m \in D : t[m][field] \in Nat
    PROVE  \A s \in SUBSET D : IsFiniteSet(Units(t, field, s))
  <1> DEFINE B == {s \in SUBSET D : ~ IsFiniteSet(Units(t, field, s))}
  <1>1. SUFFICES ASSUME B # {}
                 PROVE  FALSE
    OBVIOUS
  <1>2. B \in SUBSET (SUBSET D)
    OBVIOUS
  <1>3. PICK s \in B : \A x \in s : s \ {x} \notin B
    BY <1>1, <1>2, SmallestSet, Zenon
  <1>4. s \in SUBSET D /\ ~ IsFiniteSet(Units(t, field, s))
    BY <1>3
  <1>5. CASE s = {}
    <2>1. Units(t, field, s) = {}
      BY <1>5 DEF Units
    <2> QED
      BY <1>4, <2>1, FS_EmptySet
  <1>6. CASE s # {}
    <2>1. PICK x \in s : TRUE
      BY <1>6
    <2>2. IsFiniteSet(Units(t, field, s \ {x})) /\ t[x][field] \in Nat
      BY <1>3, <1>4, <2>1
    <2>3. IsFiniteSet(Units(t, field, (s \ {x}) \cup {x}))
      BY <2>2, UnitsGrow
    <2>4. (s \ {x}) \cup {x} = s
      BY <2>1
    <2> QED
      BY <1>4, <2>3, <2>4
  <1> QED
    BY <1>5, <1>6

\* The sums over each of the subsets of D.
SumsAll(f, t, field, D) ==
    f = [s \in SUBSET D |-> IF s = {} THEN 0
                            ELSE t[Chosen(s)][field] + f[s \ {Chosen(s)}]]

\* A sum is the number of units its rows stand for.
LEMMA SumIs ==
    ASSUME NEW t, NEW field, NEW D, IsFiniteSet(D), \A m \in D : t[m][field] \in Nat
    PROVE  /\ IsFiniteSet(Units(t, field, D))
           /\ SumOf(t, D, field) = Cardinality(Units(t, field, D))
           /\ SumOf(t, D, field) \in Nat
  <1> DEFINE g == [s \in SUBSET D |-> Cardinality(Units(t, field, s))]
             f == CHOOSE h : SumsAll(h, t, field, D)
  <1>1. \A s \in SUBSET D : IsFiniteSet(Units(t, field, s)) /\ g[s] \in Nat
    BY UnitsFinite, FS_CardinalityType
  <1>2. ASSUME NEW s \in SUBSET D
        PROVE  g[s] = IF s = {} THEN 0 ELSE t[Chosen(s)][field] + g[s \ {Chosen(s)}]
    <2>1. CASE s = {}
      <3>1. Units(t, field, s) = {}
        BY <2>1 DEF Units
      <3> QED
        BY <2>1, <3>1, FS_EmptySet
    <2>2. CASE s # {}
      <3>1. PICK x \in s : x = Chosen(s)
        BY <2>2, ChosenIn
      <3>2. PICK w : w = s \ {x}
        OBVIOUS
      <3>3. w \in SUBSET D /\ IsFiniteSet(Units(t, field, w)) /\ t[x][field] \in Nat /\ x \notin w
        BY <1>1, <3>2
      <3>4. Cardinality(Units(t, field, w \cup {x})) = t[x][field] + Cardinality(Units(t, field, w))
        BY <3>3, UnitsGrow
      <3>5. w \cup {x} = s
        BY <3>1, <3>2
      <3>6. g[s] = t[x][field] + g[w]
        BY <3>3, <3>4, <3>5
      <3> HIDE DEF g
      <3> QED
        BY <2>2, <3>1, <3>2, <3>6
    <2> QED
      BY <2>1, <2>2
  <1>3. g = [s \in SUBSET D |-> g[s]]
    OBVIOUS
  <1>4. SumsAll(g, t, field, D)
    <2> HIDE DEF g
    <2> QED
      BY <1>2, <1>3, Zenon DEF SumsAll
  <1>5. SumsAll(f, t, field, D)
    BY <1>4
  <1>6. SumOf(t, D, field) = f[D]
    BY Zenon DEF SumOf, MapThenSumSet, MapThenFoldSet, SumsAll, Chosen
  <1> DEFINE B == {s \in SUBSET D : f[s] # g[s]}
  <1> HIDE DEF f, g
  <1>7. B = {}
    <2> SUFFICES ASSUME B # {}
                 PROVE  FALSE
      OBVIOUS
    <2>1. PICK s \in B : \A x \in s : s \ {x} \notin B
      BY SmallestSet, Zenon
    <2>2. s \in SUBSET D /\ f[s] # g[s]
      BY <2>1
    <2>3. CASE s = {}
      BY <1>2, <1>5, <2>2, <2>3, Zenon DEF SumsAll
    <2>4. CASE s # {}
      <3>1. PICK x \in s : x = Chosen(s)
        BY <2>4, ChosenIn
      <3>2. f[s \ {x}] = g[s \ {x}]
        BY <2>1, <2>2, <3>1
      <3>3. f[s] = t[x][field] + f[s \ {x}]
        BY <1>5, <2>2, <2>4, <3>1, Zenon DEF SumsAll
      <3>4. g[s] = t[x][field] + g[s \ {x}]
        BY <1>2, <2>2, <2>4, <3>1, Zenon
      <3> QED
        BY <2>2, <3>2, <3>3, <3>4
    <2> QED
      BY <2>3, <2>4
  <1>8. f[D] = g[D]
    BY <1>7
  <1>9. g[D] = Cardinality(Units(t, field, D))
    BY DEF g
  <1> QED
    BY <1>1, <1>6, <1>8, <1>9

\* A finite set of rows whose field is a number.
Addable(t, I, field) == IsFiniteSet(I) /\ \A i \in I : t[i][field] \in Nat

\* Fewer rows, and one more.
LEMMA AddableRows ==
    ASSUME NEW t, NEW I, NEW field, Addable(t, I, field)
    PROVE  /\ SumOf(t, I, field) \in Nat
           /\ \A J \in SUBSET I : Addable(t, J, field)
           /\ \A x : t[x][field] \in Nat => Addable(t, I \cup {x}, field)
  <1>1. SumOf(t, I, field) \in Nat
    BY SumIs DEF Addable
  <1>2. ASSUME NEW J \in SUBSET I
        PROVE  Addable(t, J, field)
    BY FS_Subset DEF Addable
  <1>3. ASSUME NEW x, t[x][field] \in Nat
        PROVE  Addable(t, I \cup {x}, field)
    BY <1>3, FS_AddElement DEF Addable
  <1> QED
    BY <1>1, <1>2, <1>3

\* A sum over one row more.
LEMMA SumAdds ==
    ASSUME NEW t, NEW I, NEW field, Addable(t, I, field), NEW x, x \notin I,
           t[x][field] \in Nat
    PROVE  SumOf(t, I \cup {x}, field) = SumOf(t, I, field) + t[x][field]
  <1>1. IsFiniteSet(I) /\ Addable(t, I \cup {x}, field)
    BY AddableRows DEF Addable
  <1>2. IsFiniteSet(Units(t, field, I)) /\ SumOf(t, I, field) = Cardinality(Units(t, field, I))
    BY SumIs DEF Addable
  <1>3. SumOf(t, I \cup {x}, field) = Cardinality(Units(t, field, I \cup {x}))
    BY <1>1, SumIs DEF Addable
  <1>4. /\ Cardinality(Units(t, field, I)) \in Nat
        /\ Cardinality(Units(t, field, I \cup {x}))
             = t[x][field] + Cardinality(Units(t, field, I))
    BY <1>2, UnitsGrow
  <1> QED
    BY <1>2, <1>3, <1>4

\* A sum over no row.
LEMMA SumOfNone ==
    ASSUME NEW t, NEW field
    PROVE  SumOf(t, {}, field) = 0
  <1>1. SumOf(t, {}, field) = Cardinality(Units(t, field, {}))
    BY SumIs, FS_EmptySet
  <1>2. Units(t, field, {}) = {}
    BY DEF Units
  <1> QED
    BY <1>1, <1>2, FS_EmptySet

\* What holds of the empty set, and of a set with one element more whenever it
\* holds of the set, holds of every finite set: G is the family of the subsets
\* of D that it holds of.
LEMMA FiniteInduction ==
    ASSUME NEW D, IsFiniteSet(D), NEW G,
           {} \in G, \A s \in SUBSET D : \A x \in D \ s : s \in G => s \cup {x} \in G
    PROVE  D \in G
  <1> DEFINE B == {s \in SUBSET D : s \notin G}
  <1>1. SUFFICES ASSUME B # {}
                 PROVE  FALSE
    OBVIOUS
  <1>2. PICK s \in B : \A x \in s : s \ {x} \notin B
    <2>1. B \in SUBSET (SUBSET D)
      OBVIOUS
    <2> QED
      BY <1>1, <2>1, SmallestSet, Zenon
  <1>3. PICK x \in s : TRUE
    BY <1>2
  <1>4. s \ {x} \in G /\ x \in D \ (s \ {x}) /\ (s \ {x}) \cup {x} = s
    BY <1>2, <1>3
  <1> QED
    BY <1>2, <1>4

\* A sum depends on nothing but the values it adds up.
LEMMA SumAgrees ==
    ASSUME NEW t, NEW f, NEW u, NEW g, NEW I, Addable(t, I, f),
           \A i \in I : u[i][g] = t[i][f]
    PROVE  Addable(u, I, g) /\ SumOf(u, I, g) = SumOf(t, I, f)
  <1> DEFINE G == {s \in SUBSET I : SumOf(u, s, g) = SumOf(t, s, f)}
  <1>0. Addable(u, I, g) /\ IsFiniteSet(I) /\ \A i \in I : t[i][f] \in Nat
    BY DEF Addable
  <1>1. {} \in G
    BY SumOfNone
  <1>2. ASSUME NEW s \in SUBSET I, NEW x \in I \ s, s \in G
        PROVE  s \cup {x} \in G
    <2>1. Addable(t, s, f) /\ Addable(u, s, g)
      BY <1>0, AddableRows
    <2>2. x \notin s /\ t[x][f] \in Nat /\ u[x][g] = t[x][f]
      BY <1>0
    <2>3. SumOf(t, s \cup {x}, f) = SumOf(t, s, f) + t[x][f]
      BY <2>1, <2>2, SumAdds
    <2>4. SumOf(u, s \cup {x}, g) = SumOf(u, s, g) + u[x][g]
      BY <2>1, <2>2, SumAdds
    <2> QED
      BY <1>2, <2>2, <2>3, <2>4
  <1> HIDE DEF G
  <1>3. I \in G
    BY <1>0, <1>1, <1>2, FiniteInduction
  <1> QED
    BY <1>0, <1>3 DEF G

\* The sum over two sets that have nothing in common.
LEMMA SumOfUnion ==
    ASSUME NEW t, NEW f, NEW I, Addable(t, I, f), NEW J, Addable(t, J, f), I \cap J = {}
    PROVE  /\ Addable(t, I \cup J, f)
           /\ SumOf(t, I \cup J, f) = SumOf(t, I, f) + SumOf(t, J, f)
  <1> DEFINE G == {s \in SUBSET J : SumOf(t, I \cup s, f) = SumOf(t, I, f) + SumOf(t, s, f)}
  <1>0. /\ Addable(t, I \cup J, f) /\ IsFiniteSet(J) /\ \A i \in J : t[i][f] \in Nat
        /\ SumOf(t, I, f) \in Nat
    BY FS_Union, AddableRows DEF Addable
  <1>1. {} \in G
    <2>1. I \cup {} = I
      OBVIOUS
    <2> QED
      BY <1>0, <2>1, SumOfNone
  <1>2. ASSUME NEW s \in SUBSET J, NEW x \in J \ s, s \in G
        PROVE  s \cup {x} \in G
    <2>1. Addable(t, s, f) /\ Addable(t, I \cup s, f)
      BY <1>0, AddableRows
    <2>2. x \notin s /\ x \notin I \cup s /\ t[x][f] \in Nat
      BY <1>0
    <2>3. SumOf(t, s \cup {x}, f) = SumOf(t, s, f) + t[x][f] /\ SumOf(t, s, f) \in Nat
      BY <2>1, <2>2, SumAdds, AddableRows
    <2>4. SumOf(t, (I \cup s) \cup {x}, f) = SumOf(t, I \cup s, f) + t[x][f]
      BY <2>1, <2>2, SumAdds
    <2>5. (I \cup s) \cup {x} = I \cup (s \cup {x})
      OBVIOUS
    <2>6. SumOf(t, I \cup s, f) = SumOf(t, I, f) + SumOf(t, s, f)
      BY <1>2
    <2>7. PICK U : U = I \cup (s \cup {x}) /\ U = (I \cup s) \cup {x}
      BY <2>5
    <2>8. SumOf(t, U, f) = SumOf(t, I \cup s, f) + t[x][f]
      BY <2>4, <2>7, Zenon
    <2>9. SumOf(t, U, f) = SumOf(t, I, f) + SumOf(t, s \cup {x}, f)
      BY <1>0, <2>2, <2>3, <2>6, <2>8
    <2> QED
      BY <2>7, <2>9
  <1> HIDE DEF G
  <1>3. J \in G
    BY <1>0, <1>1, <1>2, FiniteInduction
  <1> QED
    BY <1>0, <1>3 DEF G

\* The rows of two tables added one by one.
LEMMA SumOfBoth ==
    ASSUME NEW t, NEW u, NEW w, NEW f, NEW I, Addable(t, I, f), Addable(u, I, f),
           \A i \in I : w[i][f] = t[i][f] + u[i][f]
    PROVE  /\ Addable(w, I, f)
           /\ SumOf(w, I, f) = SumOf(t, I, f) + SumOf(u, I, f)
  <1> DEFINE G == {s \in SUBSET I : SumOf(w, s, f) = SumOf(t, s, f) + SumOf(u, s, f)}
  <1>0. /\ Addable(w, I, f) /\ IsFiniteSet(I)
        /\ \A i \in I : t[i][f] \in Nat /\ u[i][f] \in Nat
    BY DEF Addable
  <1>1. {} \in G
    BY SumOfNone
  <1>2. ASSUME NEW s \in SUBSET I, NEW x \in I \ s, s \in G
        PROVE  s \cup {x} \in G
    <2>1. Addable(t, s, f) /\ Addable(u, s, f) /\ Addable(w, s, f)
      BY <1>0, AddableRows
    <2>2. x \notin s /\ t[x][f] \in Nat /\ u[x][f] \in Nat /\ w[x][f] = t[x][f] + u[x][f]
      BY <1>0
    <2>3. w[x][f] \in Nat
      BY <2>2
    <2>4. SumOf(t, s \cup {x}, f) = SumOf(t, s, f) + t[x][f] /\ SumOf(t, s, f) \in Nat
      BY <2>1, <2>2, SumAdds, AddableRows
    <2>5. SumOf(u, s \cup {x}, f) = SumOf(u, s, f) + u[x][f] /\ SumOf(u, s, f) \in Nat
      BY <2>1, <2>2, SumAdds, AddableRows
    <2>6. SumOf(w, s \cup {x}, f) = SumOf(w, s, f) + w[x][f]
      BY <2>1, <2>2, <2>3, SumAdds
    <2>7. SumOf(w, s, f) = SumOf(t, s, f) + SumOf(u, s, f)
      BY <1>2
    <2> QED
      BY <2>2, <2>4, <2>5, <2>6, <2>7
  <1> HIDE DEF G
  <1>3. I \in G
    BY <1>0, <1>1, <1>2, FiniteInduction
  <1> QED
    BY <1>0, <1>3 DEF G

\* u has the sums of the groups that k divides the rows I of t into.
Grouped(u, M, group, k, t, I, f) ==
    /\ k \in [I -> M] /\ group \in [M -> SUBSET I]
    /\ \A m \in M : \A i \in I : i \in group[m] <=> k[i] = m
    /\ \A m \in M : u[m][f] = SumOf(t, group[m], f)

\* The sum of the sums of the groups.
LEMMA SumOfGroups ==
    ASSUME NEW t, NEW u, NEW f, NEW I, Addable(t, I, f), NEW M, IsFiniteSet(M),
           NEW k, NEW group, Grouped(u, M, group, k, t, I, f)
    PROVE  Addable(u, M, f) /\ SumOf(u, M, f) = SumOf(t, I, f)
  <1> DEFINE In(s) == {i \in I : k[i] \in s}
             Of(m) == group[m]
             G == {s \in SUBSET M : SumOf(u, s, f) = SumOf(t, In(s), f)}
  <1>1. \A m \in M : Addable(t, Of(m), f) /\ u[m][f] = SumOf(t, Of(m), f)
    BY AddableRows DEF Grouped
  <1>2. \A s \in SUBSET M : Addable(t, In(s), f)
    BY AddableRows
  <1>3. {} \in G
    <2>1. In({}) = {}
      OBVIOUS
    <2> QED
      BY <2>1, SumOfNone
  <1>4. \A s \in SUBSET M : \A x \in M \ s :
            In(s) \cap Of(x) = {} /\ In(s \cup {x}) = In(s) \cup Of(x)
    BY DEF Grouped
  <1>5. In(M) = I
    BY DEF Grouped
  <1> HIDE DEF In, Of
  <1>6. \A m \in M : u[m][f] \in Nat
    BY <1>1, AddableRows
  <1>7. Addable(u, M, f)
    BY <1>6 DEF Addable
  <1>8. ASSUME NEW s \in SUBSET M, NEW x \in M \ s, s \in G
        PROVE  s \cup {x} \in G
    <2>1. Addable(u, s, f) /\ x \notin s /\ u[x][f] \in Nat
      BY <1>6, <1>7, AddableRows
    <2>2. SumOf(u, s \cup {x}, f) = SumOf(u, s, f) + u[x][f]
      BY <2>1, SumAdds
    <2>3. Addable(t, In(s), f) /\ Addable(t, Of(x), f) /\ In(s) \cap Of(x) = {}
      BY <1>1, <1>2, <1>4
    <2>4. SumOf(t, In(s) \cup Of(x), f) = SumOf(t, In(s), f) + SumOf(t, Of(x), f)
      BY <2>3, SumOfUnion
    <2>5. /\ In(s \cup {x}) = In(s) \cup Of(x) /\ u[x][f] = SumOf(t, Of(x), f)
          /\ SumOf(u, s, f) = SumOf(t, In(s), f)
      BY <1>1, <1>4, <1>8
    <2> QED
      BY <2>2, <2>4, <2>5
  <1> HIDE DEF G
  <1>9. M \in G
    BY <1>3, <1>8, FiniteInduction
  <1> QED
    BY <1>5, <1>7, <1>9 DEF G

\* The sum over the rows that an injection names.
LEMMA SumRenamed ==
    ASSUME NEW t, NEW u, NEW f, NEW I, Addable(u, I, f), NEW h,
           \A i, j \in I : h[i] = h[j] => i = j,
           \A i \in I : u[i][f] = t[h[i]][f], NEW J, J = {h[i] : i \in I}
    PROVE  Addable(t, J, f) /\ SumOf(u, I, f) = SumOf(t, J, f)
  <1> DEFINE Im(s) == {h[i] : i \in s}
             G == {s \in SUBSET I : Addable(t, Im(s), f) /\ SumOf(u, s, f) = SumOf(t, Im(s), f)}
  <1>0. IsFiniteSet(I) /\ \A i \in I : u[i][f] \in Nat
    BY DEF Addable
  <1>1. {} \in G
    <2>1. Im({}) = {}
      OBVIOUS
    <2> QED
      BY <2>1, SumOfNone, FS_EmptySet DEF Addable
  <1>2. \A s \in SUBSET I : \A x \in I \ s :
            Im(s \cup {x}) = Im(s) \cup {h[x]} /\ h[x] \notin Im(s)
    OBVIOUS
  <1> HIDE DEF Im
  <1>3. ASSUME NEW s \in SUBSET I, NEW x \in I \ s, s \in G
        PROVE  s \cup {x} \in G
    <2>1. Addable(u, s, f) /\ x \notin s /\ u[x][f] \in Nat /\ u[x][f] = t[h[x]][f]
      BY <1>0, AddableRows
    <2>2. SumOf(u, s \cup {x}, f) = SumOf(u, s, f) + u[x][f]
      BY <2>1, SumAdds
    <2>3. Im(s \cup {x}) = Im(s) \cup {h[x]} /\ h[x] \notin Im(s)
      BY <1>2
    <2>4. Addable(t, Im(s), f) /\ SumOf(u, s, f) = SumOf(t, Im(s), f)
      BY <1>3
    <2>5. SumOf(t, Im(s) \cup {h[x]}, f) = SumOf(t, Im(s), f) + t[h[x]][f]
      BY <2>1, <2>3, <2>4, SumAdds
    <2>6. Addable(t, Im(s) \cup {h[x]}, f)
      BY <2>1, <2>4, AddableRows
    <2> QED
      BY <2>1, <2>2, <2>3, <2>4, <2>5, <2>6
  <1> HIDE DEF G
  <1>4. I \in G
    BY <1>0, <1>1, <1>3, FiniteInduction
  <1> QED
    BY <1>4 DEF G, Im

\* Shares that are rounded down do not exceed the whole: a times the part of
\* each row, divided by d.
LEMMA SumOfShares ==
    ASSUME NEW t, NEW u, NEW f, NEW g, NEW I, Addable(t, I, f),
           NEW a \in Nat, NEW d \in Nat, d > 0,
           \A i \in I : u[i][g] = (a * t[i][f]) \div d
    PROVE  /\ Addable(u, I, g)
           /\ d * SumOf(u, I, g) <= a * SumOf(t, I, f)
  <1> DEFINE G == {s \in SUBSET I : d * SumOf(u, s, g) <= a * SumOf(t, s, f)}
  <1>0. IsFiniteSet(I) /\ \A i \in I : t[i][f] \in Nat
    BY DEF Addable
  <1>1. \A i \in I : u[i][g] \in Nat /\ d * u[i][g] <= a * t[i][f]
    <2>1. ASSUME NEW b \in Nat
          PROVE  (a * b) \div d \in Nat /\ d * ((a * b) \div d) <= a * b
      <3>1. PICK p \in Nat : p = a * b
        OBVIOUS
      <3>2. p \div d \in Nat /\ d * (p \div d) <= p
        OBVIOUS
      <3> QED
        BY <3>1, <3>2
    <2> QED
      BY <1>0, <2>1
  <1>2. Addable(u, I, g)
    BY <1>0, <1>1 DEF Addable
  <1>3. {} \in G
    BY SumOfNone
  <1>4. ASSUME NEW s \in SUBSET I, NEW x \in I \ s, s \in G
        PROVE  s \cup {x} \in G
    <2>1. Addable(t, s, f) /\ Addable(u, s, g)
      BY <1>2, AddableRows
    <2>2. /\ x \notin s /\ t[x][f] \in Nat /\ u[x][g] \in Nat
          /\ d * u[x][g] <= a * t[x][f]
      BY <1>0, <1>1
    <2>3. SumOf(t, s \cup {x}, f) = SumOf(t, s, f) + t[x][f] /\ SumOf(t, s, f) \in Nat
      BY <2>1, <2>2, SumAdds, AddableRows
    <2>4. SumOf(u, s \cup {x}, g) = SumOf(u, s, g) + u[x][g] /\ SumOf(u, s, g) \in Nat
      BY <2>1, <2>2, SumAdds, AddableRows
    <2>5. \A v, w, y, z \in Nat : d * v <= a * w /\ d * y <= a * z
                                     => d * (v + y) <= a * (w + z)
      OBVIOUS
    <2>6. d * SumOf(u, s, g) <= a * SumOf(t, s, f)
      BY <1>4
    <2> QED
      BY <2>2, <2>3, <2>4, <2>5, <2>6
  <1> HIDE DEF G
  <1>5. I \in G
    BY <1>0, <1>3, <1>4, FiniteInduction
  <1> QED
    BY <1>2, <1>5 DEF G

\* Rows that add nothing.
LEMMA SumOfZeros ==
    ASSUME NEW t, NEW f, NEW I, IsFiniteSet(I), \A i \in I : t[i][f] = 0
    PROVE  Addable(t, I, f) /\ SumOf(t, I, f) = 0
  <1> DEFINE G == {s \in SUBSET I : SumOf(t, s, f) = 0}
  <1>1. Addable(t, I, f)
    BY DEF Addable
  <1>2. {} \in G
    BY SumOfNone
  <1>3. ASSUME NEW s \in SUBSET I, NEW x \in I \ s, s \in G
        PROVE  s \cup {x} \in G
    <2>1. Addable(t, s, f)
      BY <1>1, AddableRows
    <2>2. SumOf(t, s \cup {x}, f) = SumOf(t, s, f) + t[x][f]
      BY <2>1, SumAdds
    <2> QED
      BY <1>3, <2>2
  <1> HIDE DEF G
  <1>4. I \in G
    BY <1>2, <1>3, FiniteInduction
  <1> QED
    BY <1>1, <1>4 DEF G

\* A sum that goes on over rows that add nothing.
LEMMA SumPadded ==
    ASSUME NEW t, NEW f, NEW I, Addable(t, I, f), NEW J, IsFiniteSet(J), I \subseteq J,
           \A i \in J \ I : t[i][f] = 0
    PROVE  Addable(t, J, f) /\ SumOf(t, J, f) = SumOf(t, I, f)
  <1>1. PICK K : K = J \ I
    OBVIOUS
  <1>2. IsFiniteSet(K) /\ I \cap K = {} /\ I \cup K = J /\ \A i \in K : t[i][f] = 0
    BY <1>1, FS_Subset
  <1>3. Addable(t, K, f) /\ SumOf(t, K, f) = 0
    BY <1>2, SumOfZeros
  <1>4. /\ Addable(t, I \cup K, f)
        /\ SumOf(t, I \cup K, f) = SumOf(t, I, f) + SumOf(t, K, f)
    BY <1>2, <1>3, SumOfUnion
  <1>5. SumOf(t, I, f) \in Nat
    BY AddableRows
  <1>6. SumOf(t, I \cup K, f) = SumOf(t, I, f)
    BY <1>3, <1>4, <1>5
  <1> QED
    BY <1>2, <1>4, <1>6, Zenon

-----------------------------------------------------------------------------
(* What an attempt adds to the aggregate of its provider.                  *)

Fields == {"count", "ms", "cost"}

\* A table of counts, milliseconds and units.
IsStats(t) == \A f \in Fields : Addable(t, DOMAIN t, f)

\* The rows of an attempt are added to those of its provider, whether there
\* was a row of the method or not.
LEMMA UpsertedAdds ==
    ASSUME NEW stats, NEW rows0, IsStats(stats), IsStats(rows0)
    PROVE  /\ IsStats(Upserted(stats, rows0))
           /\ \A f \in Fields : Total(Upserted(stats, rows0), f)
                                  = Total(stats, f) + Total(rows0, f)
  <1> DEFINE D == DOMAIN stats
             R == DOMAIN rows0
             zero == [count |-> 0, ms |-> 0, cost |-> 0]
             old == [m \in D \cup R |-> IF m \in D THEN stats[m] ELSE zero]
             new == [m \in D \cup R |-> IF m \in R THEN rows0[m] ELSE zero]
             W == Upserted(stats, rows0)
  <1>1. DOMAIN W = D \cup R
    BY DEF Upserted
  <1>2. ASSUME NEW f \in Fields
        PROVE  Addable(W, D \cup R, f) /\ SumOf(W, D \cup R, f) = SumOf(stats, D, f) + SumOf(rows0, R, f)
    <2>1. /\ Addable(stats, D, f) /\ Addable(rows0, R, f)
          /\ IsFiniteSet(D) /\ IsFiniteSet(R) /\ IsFiniteSet(D \cup R)
      BY FS_Union DEF IsStats, Addable
    <2>2. zero[f] = 0
      BY DEF Fields
    <2>3. /\ \A m \in D : old[m][f] = stats[m][f]
          /\ \A m \in (D \cup R) \ D : old[m][f] = 0
          /\ \A m \in R : new[m][f] = rows0[m][f]
          /\ \A m \in (D \cup R) \ R : new[m][f] = 0
      BY <2>2
    <2>4. \A m \in D \cup R : W[m][f] = old[m][f] + new[m][f]
      <3>1. \A m \in D : stats[m][f] \in Nat
        BY <2>1 DEF Addable
      <3>2. \A m \in R : W[m][f] = (IF m \in D THEN stats[m] ELSE zero)[f] + rows0[m][f]
        BY DEF Upserted, Fields
      <3>3. \A m \in D \ R : W[m] = stats[m]
        BY DEF Upserted
      <3> HIDE DEF W, zero
      <3> QED
        BY <2>2, <2>3, <3>1, <3>2, <3>3
    <2> HIDE DEF old, new, W, D, R
    <2>5. Addable(old, D, f) /\ SumOf(old, D, f) = SumOf(stats, D, f)
      BY <2>1, <2>3, SumAgrees
    <2>6. Addable(new, R, f) /\ SumOf(new, R, f) = SumOf(rows0, R, f)
      BY <2>1, <2>3, SumAgrees
    <2>7. Addable(old, D \cup R, f) /\ SumOf(old, D \cup R, f) = SumOf(old, D, f)
      BY <2>1, <2>3, <2>5, SumPadded
    <2>8. Addable(new, D \cup R, f) /\ SumOf(new, D \cup R, f) = SumOf(new, R, f)
      BY <2>1, <2>3, <2>6, SumPadded
    <2>9. /\ Addable(W, D \cup R, f)
          /\ SumOf(W, D \cup R, f) = SumOf(old, D \cup R, f) + SumOf(new, D \cup R, f)
      BY <2>4, <2>7, <2>8, SumOfBoth
    <2> QED
      BY <2>5, <2>6, <2>7, <2>8, <2>9
  <1> HIDE DEF W, old, new, zero
  <1> QED
    BY <1>1, <1>2 DEF IsStats, Total, W

\* The rows that an attempt contributes hold its shares and what they leave.
LEMMA ContributedAre ==
    ASSUME NEW existing, Overhead \notin existing,
           NEW shares, IsStats(shares), IsFiniteSet(DOMAIN shares),
           NEW rest, \A f \in Fields : rest[f] \in Nat, rest["count"] = 0
    PROVE  /\ IsStats(ContributedRows(existing, shares, rest))
           /\ \A f \in Fields : Total(ContributedRows(existing, shares, rest), f)
                                  = SumOf(shares, DOMAIN shares, f) + rest[f]
  <1> DEFINE I == DOMAIN shares
             k == [i \in I |-> RetainedMethod(existing, shares, i)]
             M == {k[i] : i \in I}
             C == ContributedRows(existing, shares, rest)
             left == rest.ms # 0 \/ rest.cost # 0
  <1>1. IsFiniteSet(M)
    <2>1. k \in Surjection(I, M)
      BY DEF Surjection
    <2> QED
      BY <2>1, FS_Surjection
  <1>2. Overhead \notin M
    <2>1. ASSUME NEW i \in I
          PROVE  RetainedMethod(existing, shares, i) # Overhead
      BY MethodsAssumption DEF RetainedMethod
    <2> QED
      BY <2>1
  <1>3. DOMAIN C = M \cup (IF left THEN {Overhead} ELSE {})
    BY DEF ContributedRows
  <1>4. left => C[Overhead] = rest
    BY <1>3 DEF ContributedRows
  <1>5. ASSUME NEW m \in M, NEW f \in Fields
        PROVE  C[m][f] = SumOf(shares, {i \in I : k[i] = m}, f)
    <2>1. m # Overhead /\ m \in DOMAIN C
      BY <1>2, <1>3
    <2>2. {i \in I : k[i] = m} = {i \in DOMAIN shares : RetainedMethod(existing, shares, i) = m}
      OBVIOUS
    <2>3. C[m] = [g \in {"count", "ms", "cost"} |->
                    SumOf(shares, {i \in DOMAIN shares : RetainedMethod(existing, shares, i) = m}, g)]
      BY <1>3, <2>1 DEF ContributedRows
    <2> QED
      BY <2>2, <2>3 DEF Fields
  <1>6. ASSUME NEW f \in Fields
        PROVE  Addable(C, DOMAIN C, f) /\ SumOf(C, DOMAIN C, f) = SumOf(shares, I, f) + rest[f]
    <2>1. Addable(shares, I, f) /\ k \in [I -> M] /\ rest[f] \in Nat
      BY DEF IsStats
    <2> HIDE DEF I, k, M, C
    <2> DEFINE group == [m \in M |-> {i \in I : k[i] = m}]
    <2>5. /\ group \in [M -> SUBSET I]
          /\ \A m \in M : \A i \in I : i \in group[m] <=> k[i] = m
          /\ \A m \in M : C[m][f] = SumOf(shares, group[m], f)
      BY <1>5
    <2> HIDE DEF group
    <2>2. Addable(C, M, f) /\ SumOf(C, M, f) = SumOf(shares, I, f)
      <3>1. Grouped(C, M, group, k, shares, I, f)
        BY <2>1, <2>5 DEF Grouped
      <3> QED
        BY <1>1, <2>1, <3>1, SumOfGroups
    <2>3. CASE left
      <3>1. C[Overhead][f] \in Nat /\ C[Overhead][f] = rest[f]
        BY <1>4, <2>1, <2>3
      <3>2. SumOf(C, M \cup {Overhead}, f) = SumOf(C, M, f) + C[Overhead][f]
        BY <1>2, <2>2, <3>1, SumAdds
      <3>3. Addable(C, M \cup {Overhead}, f)
        BY <2>2, <3>1, AddableRows
      <3> QED
        BY <1>3, <2>2, <2>3, <3>1, <3>2, <3>3
    <2>4. CASE ~left
      <3>1. rest[f] = 0 /\ DOMAIN C = M
        BY <1>3, <2>4 DEF Fields
      <3>2. SumOf(shares, I, f) \in Nat
        BY <2>1, AddableRows
      <3> QED
        BY <2>2, <3>1, <3>2
    <2> QED
      BY <2>3, <2>4
  <1> HIDE DEF C
  <1> QED
    BY <1>6 DEF IsStats, Total, C

\* The row of an attempt that has ended.
RowOK(r) ==
    /\ Addable(r.summary, DOMAIN r.summary, "count")
    /\ Addable(r.summary, DOMAIN r.summary, "ms")
    /\ r.browser \in Nat /\ r.chargeable \in Nat /\ r.cost \in Nat
    /\ r.browser <= r.chargeable

\* What it adds to each field.
Amount(r) ==
    [count |-> SumOf(r.summary, DOMAIN r.summary, "count"), ms |-> r.browser, cost |-> r.cost]

\* The shares of the methods, rounded down, and what they leave are together
\* what the attempt has used: nothing is lost and nothing charged twice.
LEMMA SharesAre ==
    ASSUME NEW r, RowOK(r), NEW shares, shares = Shares(r.summary, r),
           NEW rest, rest = Unattributed(shares, r)
    PROVE  /\ IsStats(shares) /\ IsFiniteSet(DOMAIN shares)
           /\ \A f \in Fields : rest[f] \in Nat
           /\ rest["count"] = 0
           /\ \A f \in Fields : SumOf(shares, DOMAIN shares, f) + rest[f] = Amount(r)[f]
  <1> DEFINE usage == r.summary
             I == DOMAIN usage
             total == SumOf(usage, I, "ms")
             part == LeastOf(r.browser, total)
  <1>1. /\ DOMAIN shares = I /\ IsFiniteSet(I) /\ total \in Nat /\ part \in Nat
        /\ part <= total /\ part <= r.browser
        /\ r.browser \in Nat /\ r.chargeable \in Nat /\ r.cost \in Nat
        /\ r.browser <= r.chargeable
    <2>1. total \in Nat /\ IsFiniteSet(I)
      BY AddableRows DEF RowOK, Addable
    <2>2. DOMAIN shares = I
      BY DEF Shares
    <2> HIDE DEF total
    <2> QED
      BY <2>1, <2>2 DEF RowOK, LeastOf
  <1>2. ASSUME NEW i \in I
        PROVE  /\ shares[i]["count"] = usage[i]["count"]
               /\ shares[i]["ms"] = IF total = 0 THEN 0 ELSE (part * usage[i]["ms"]) \div total
               /\ shares[i]["cost"] = IF r.chargeable = 0 THEN 0
                                      ELSE (r.cost * shares[i]["ms"]) \div r.chargeable
    <2>1. shares[i] = Share(usage, r, i)
      BY DEF Shares
    <2>2. ProviderMs(usage) = total
      BY DEF ProviderMs
    <2> HIDE DEF total
    <2> QED
      BY <2>1, <2>2 DEF Share
  <1> HIDE DEF total, part
  <1>3. Addable(shares, I, "count") /\ SumOf(shares, I, "count") = SumOf(usage, I, "count")
    <2>1. Addable(usage, I, "count")
      BY DEF RowOK
    <2> QED
      BY <1>2, <2>1, SumAgrees
  <1>4. Addable(shares, I, "ms") /\ SumOf(shares, I, "ms") <= r.browser
    <2>1. CASE total = 0
      <3>1. \A i \in I : shares[i]["ms"] = 0
        BY <1>2, <2>1
      <3> QED
        BY <1>1, <3>1, SumOfZeros
    <2>2. CASE total # 0
      <3>1. PICK c \in Nat, d \in Nat : c = part /\ d = total /\ d > 0
        BY <1>1, <2>2
      <3>2. \A i \in I : shares[i]["ms"] = (c * usage[i]["ms"]) \div d
        BY <1>2, <2>2, <3>1
      <3>3. Addable(usage, I, "ms")
        BY DEF RowOK
      <3>4. /\ Addable(shares, I, "ms")
            /\ d * SumOf(shares, I, "ms") <= c * SumOf(usage, I, "ms")
        BY <3>1, <3>2, <3>3, SumOfShares
      <3>5. PICK n \in Nat : n = SumOf(shares, I, "ms")
        BY <3>4, AddableRows
      <3>6. d * n <= c * d
        BY <3>1, <3>4, <3>5 DEF total
      <3>7. n <= c
        BY <3>1, <3>5, <3>6
      <3> QED
        BY <1>1, <3>1, <3>4, <3>5, <3>7
    <2> QED
      BY <2>1, <2>2
  <1>5. Addable(shares, I, "cost") /\ SumOf(shares, I, "cost") <= r.cost
    <2>1. CASE r.chargeable = 0
      <3>1. \A i \in I : shares[i]["cost"] = 0
        BY <1>2, <2>1
      <3> QED
        BY <1>1, <3>1, SumOfZeros
    <2>2. CASE r.chargeable # 0
      <3>1. PICK c \in Nat, d \in Nat : c = r.cost /\ d = r.chargeable /\ d > 0
        BY <1>1, <2>2
      <3>2. \A i \in I : shares[i]["cost"] = (c * shares[i]["ms"]) \div d
        BY <1>2, <2>2, <3>1
      <3>3. /\ Addable(shares, I, "cost")
            /\ d * SumOf(shares, I, "cost") <= c * SumOf(shares, I, "ms")
        BY <1>4, <3>1, <3>2, SumOfShares
      <3>4. PICK n \in Nat, m \in Nat : n = SumOf(shares, I, "cost") /\ m = SumOf(shares, I, "ms")
        BY <1>4, <3>3, AddableRows
      <3>5. m <= d /\ d * n <= c * m
        BY <1>1, <1>4, <3>1, <3>3, <3>4
      <3>6. c * m <= c * d
        BY <3>1, <3>4, <3>5
      <3>7. d * n <= c * d
        BY <3>5, <3>6
      <3>8. n <= c
        BY <3>1, <3>4, <3>7
      <3> QED
        BY <3>1, <3>3, <3>4, <3>8
    <2> QED
      BY <2>1, <2>2
  <1>6. /\ SumOf(shares, I, "count") \in Nat /\ SumOf(shares, I, "ms") \in Nat
        /\ SumOf(shares, I, "cost") \in Nat
    BY <1>3, <1>4, <1>5, AddableRows
  <1>7. /\ rest["count"] = 0
        /\ rest["ms"] = Positive(r.browser - SumOf(shares, I, "ms"))
        /\ rest["cost"] = Positive(r.cost - SumOf(shares, I, "cost"))
    BY <1>1 DEF Unattributed
  <1>8. /\ rest["ms"] \in Nat /\ rest["cost"] \in Nat
        /\ SumOf(shares, I, "ms") + rest["ms"] = r.browser
        /\ SumOf(shares, I, "cost") + rest["cost"] = r.cost
    BY <1>1, <1>4, <1>5, <1>6, <1>7 DEF Positive
  <1>9. IsStats(shares)
    BY <1>1, <1>3, <1>4, <1>5 DEF IsStats, Fields
  <1>10. ASSUME NEW f \in Fields
         PROVE  rest[f] \in Nat /\ SumOf(shares, I, f) + rest[f] = Amount(r)[f]
    <2>1. CASE f = "count"
      BY <1>3, <1>6, <1>7, <2>1 DEF Amount
    <2>2. CASE f = "ms"
      BY <1>8, <2>2 DEF Amount
    <2>3. CASE f = "cost"
      BY <1>8, <2>3 DEF Amount
    <2> QED
      BY <2>1, <2>2, <2>3 DEF Fields
  <1> QED
    BY <1>1, <1>7, <1>9, <1>10

\* What the projection of an attempt makes of the aggregate.
LEMMA ProjectedAdds ==
    ASSUME NEW stats, IsStats(stats), NEW r, RowOK(r),
           NEW shares, shares = Shares(r.summary, r),
           NEW rest, rest = Unattributed(shares, r)
    PROVE  /\ IsStats(Projected(stats, shares, rest))
           /\ \A f \in Fields : Total(Projected(stats, shares, rest), f)
                                  = Total(stats, f) + Amount(r)[f]
  <1> DEFINE existing == DOMAIN stats \ {Overhead}
             C == ContributedRows(existing, shares, rest)
  <1>1. /\ IsStats(shares) /\ IsFiniteSet(DOMAIN shares)
        /\ \A f \in Fields : rest[f] \in Nat
        /\ rest["count"] = 0
        /\ \A f \in Fields : SumOf(shares, DOMAIN shares, f) + rest[f] = Amount(r)[f]
    BY SharesAre
  <1>2. Overhead \notin existing
    OBVIOUS
  <1> HIDE DEF existing
  <1>3. /\ IsStats(C)
        /\ \A f \in Fields : Total(C, f) = SumOf(shares, DOMAIN shares, f) + rest[f]
    BY <1>1, <1>2, ContributedAre
  <1>4. Projected(stats, shares, rest) = Upserted(stats, C)
    BY DEF Projected, existing
  <1> HIDE DEF C
  <1>5. /\ IsStats(Upserted(stats, C))
        /\ \A f \in Fields : Total(Upserted(stats, C), f) = Total(stats, f) + Total(C, f)
    BY <1>3, UpsertedAdds
  <1> QED
    BY <1>1, <1>3, <1>4, <1>5

-----------------------------------------------------------------------------
(* The aggregate once the attempts of a sequence are projected.            *)

\* A finite set of numbers has a greatest.
LEMMA MaxIn ==
    ASSUME NEW s \in SUBSET Int, IsFiniteSet(s), s # {}
    PROVE  Max(s) \in s
  <1> DEFINE G == {w \in SUBSET s : w = {} \/ \E x \in w : \A y \in w : x >= y}
  <1>1. {} \in G
    OBVIOUS
  <1>2. ASSUME NEW w \in SUBSET s, NEW z \in s \ w, w \in G
        PROVE  w \cup {z} \in G
    <2>1. CASE w = {}
      <3>1. \A y \in w \cup {z} : z >= y
        BY <2>1
      <3> QED
        BY <3>1
    <2>2. CASE w # {}
      <3>1. PICK x \in w : \A y \in w : x >= y
        BY <1>2, <2>2
      <3>2. CASE x >= z
        BY <3>1, <3>2
      <3>3. CASE z > x
        <4>1. \A y \in w \cup {z} : z >= y
          BY <3>1, <3>3
        <4> QED
          BY <4>1
      <3> QED
        BY <3>2, <3>3
    <2> QED
      BY <2>1, <2>2
  <1> HIDE DEF G
  <1>3. s \in G
    BY <1>1, <1>2, FiniteInduction
  <1>4. \E x \in s : \A y \in s : x >= y
    BY <1>3 DEF G
  <1> QED
    BY <1>4 DEF Max

\* The aggregate after the attempt at a place of the sequence.
After(i, stats) == Projected(stats, SharesOf[folded[i]], RestOf[folded[i]])

\* f gives, for each set of places, the aggregate once their attempts are
\* projected in order.
FoldsAll(f, S) ==
    f = [s \in SUBSET S |-> IF s = {} THEN EarlierStats
                            ELSE After(Max(s), f[s \ {Max(s)}])]

\* There is one way to project the attempts of a set of places in order.
LEMMA FoldsAgree ==
    ASSUME NEW S \in SUBSET Int, NEW T, NEW f, NEW g, IsFiniteSet(S),
           FoldsAll(f, S), FoldsAll(g, T)
    PROVE  \A s \in SUBSET S : s \in SUBSET T => f[s] = g[s]
  <1> DEFINE B == {s \in SUBSET S : s \in SUBSET T /\ f[s] # g[s]}
  <1>1. SUFFICES ASSUME B # {}
                 PROVE  FALSE
    OBVIOUS
  <1>2. B \in SUBSET (SUBSET S)
    OBVIOUS
  <1>3. PICK s \in B : \A x \in s : s \ {x} \notin B
    BY <1>1, <1>2, SmallestSet, Zenon
  <1>4. s \in SUBSET S /\ s \in SUBSET T /\ f[s] # g[s]
    BY <1>3
  <1>5. CASE s = {}
    BY <1>4, <1>5 DEF FoldsAll
  <1>6. CASE s # {}
    <2>1. PICK x : x = Max(s) /\ x \in s
      BY <1>4, <1>6, MaxIn, FS_Subset
    <2>2. f[s \ {x}] = g[s \ {x}]
      BY <1>3, <1>4, <2>1
    <2>3. f[s] = After(x, f[s \ {x}])
      BY <1>4, <1>6, <2>1, Zenon DEF FoldsAll
    <2>4. g[s] = After(x, g[s \ {x}])
      BY <1>4, <1>6, <2>1, Zenon DEF FoldsAll
    <2> QED
      BY <1>4, <2>2, <2>3, <2>4
  <1> QED
    BY <1>5, <1>6

\* There is one.
LEMMA FoldsExist ==
    ASSUME NEW S \in SUBSET Int, IsFiniteSet(S)
    PROVE  \E f : FoldsAll(f, S)
  <1> DEFINE B == {s \in SUBSET S : ~ \E f : FoldsAll(f, s)}
  <1>1. SUFFICES ASSUME B # {}
                 PROVE  FALSE
    OBVIOUS
  <1>2. B \in SUBSET (SUBSET S)
    OBVIOUS
  <1>3. PICK s \in B : \A x \in s : s \ {x} \notin B
    BY <1>1, <1>2, SmallestSet, Zenon
  <1>4. s \in SUBSET S /\ ~ \E f : FoldsAll(f, s)
    BY <1>3
  <1>5. \A x \in s : \E f : FoldsAll(f, s \ {x})
    BY <1>3, <1>4
  <1> DEFINE less(x) == CHOOSE f : FoldsAll(f, s \ {x})
             value(w) == IF w = {} THEN EarlierStats
                         ELSE After(Max(w), less(Max(w))[w \ {Max(w)}])
             g == [w \in SUBSET s |-> value(w)]
  <1>6. \A x \in s : FoldsAll(less(x), s \ {x})
    BY <1>5
  <1> HIDE DEF less
  <1>7. ASSUME NEW x \in s, NEW w \in SUBSET (s \ {x})
        PROVE  less(x)[w] = g[w]
    <2>1. CASE w = {}
      BY <1>6, <2>1, Zenon DEF FoldsAll
    <2>2. CASE w # {}
      <3>1. PICK y : y = Max(w) /\ y \in w
        BY <1>4, <2>2, MaxIn, FS_Subset
      <3>2. PICK v : v = w \ {y}
        OBVIOUS
      <3>3. less(x)[w] = After(y, less(x)[v])
        BY <1>6, <2>2, <3>1, <3>2, Zenon DEF FoldsAll
      <3>4. g[w] = After(y, less(y)[v])
        BY <2>2, <3>1, <3>2
      <3>5. v \in SUBSET (s \ {x}) /\ v \in SUBSET (s \ {y}) /\ y \in s
        BY <3>1, <3>2
      <3>6. IsFiniteSet(s \ {x})
        BY <1>4, FS_Subset
      <3>7. FoldsAll(less(x), s \ {x}) /\ FoldsAll(less(y), s \ {y})
        BY <1>6, <3>5
      <3>8. less(x)[v] = less(y)[v]
        BY <3>5, <3>6, <3>7, FoldsAgree
      <3> QED
        BY <3>3, <3>4, <3>8
    <2> QED
      BY <2>1, <2>2
  <1>8. ASSUME NEW w \in SUBSET s
        PROVE  g[w] = IF w = {} THEN EarlierStats ELSE After(Max(w), g[w \ {Max(w)}])
    <2>1. CASE w = {}
      BY <2>1
    <2>2. CASE w # {}
      <3>1. Max(w) \in w /\ Max(w) \in s
        BY <1>4, <2>2, MaxIn, FS_Subset
      <3>2. w \ {Max(w)} \in SUBSET (s \ {Max(w)})
        OBVIOUS
      <3>3. less(Max(w))[w \ {Max(w)}] = g[w \ {Max(w)}]
        BY <1>7, <3>1, <3>2
      <3> QED
        BY <2>2, <3>3
    <2> QED
      BY <2>1, <2>2
  <1>9. g = [w \in SUBSET s |-> g[w]]
    OBVIOUS
  <1> HIDE DEF g
  <1>10. FoldsAll(g, s)
    BY <1>8, <1>9, Zenon DEF FoldsAll
  <1> QED
    BY <1>4, <1>10

\* The aggregate is that of the attempts of the whole sequence.
LEMMA StatsFolds ==
    ASSUME DOMAIN folded \in SUBSET Int, IsFiniteSet(DOMAIN folded)
    PROVE  \E f : FoldsAll(f, DOMAIN folded) /\ Stats = f[DOMAIN folded]
  <1> DEFINE f == CHOOSE g : FoldsAll(g, DOMAIN folded)
  <1>1. FoldsAll(f, DOMAIN folded)
    BY FoldsExist
  <1>2. Stats = f[DOMAIN folded]
    BY Zenon DEF Stats, FoldLeft, MapThenFoldSet, FoldsAll, After
  <1> HIDE DEF f
  <1> QED
    BY <1>1, <1>2

\* What the attempts that have ended add.
Amounts == [a \in finished |-> Amount(final[a])]

\* The aggregate is what earlier attempts have left and what those of the
\* sequence add, each once.
LEMMA StatsAre ==
    ASSUME \A a \in finished : RowOK(final[a]), folded \in Seq(finished),
           \A i, j \in DOMAIN folded : folded[i] = folded[j] => i = j
    PROVE  /\ \A f \in Fields : Addable(Amounts, ToSet(folded), f)
           /\ \A f \in Fields :
                  Total(Stats, f) = Total(EarlierStats, f) + SumOf(Amounts, ToSet(folded), f)
           /\ \A f \in Fields : Total(EarlierStats, f) \in Nat
  <1> DEFINE D == DOMAIN folded
             u == [i \in D |-> Amounts[folded[i]]]
  <1>1. D \in SUBSET Int /\ IsFiniteSet(D) /\ \A i \in D : folded[i] \in finished
    <2>1. D = 1..Len(folded) /\ Len(folded) \in Nat
      OBVIOUS
    <2> QED
      BY <2>1, FS_Interval
  <1>2. \A a \in finished : \A f \in Fields : Amounts[a][f] \in Nat
    <2>1. ASSUME NEW a \in finished
          PROVE  /\ Amounts[a]["count"] \in Nat /\ Amounts[a]["ms"] \in Nat
                 /\ Amounts[a]["cost"] \in Nat
      <3>1. Amounts[a] = Amount(final[a]) /\ RowOK(final[a])
        BY DEF Amounts
      <3>2. SumOf(final[a].summary, DOMAIN final[a].summary, "count") \in Nat
        BY <3>1, AddableRows DEF RowOK
      <3> QED
        BY <3>1, <3>2 DEF Amount, RowOK
    <2> QED
      BY <2>1 DEF Fields
  <1>3. \A f \in Fields : Addable(u, D, f)
    BY <1>1, <1>2 DEF Addable
  <1>4. PICK g : FoldsAll(g, D) /\ Stats = g[D]
    BY <1>1, StatsFolds
  <1>5. IsStats(EarlierStats) /\ \A f \in Fields : Total(EarlierStats, f) \in Nat
    <2>1. IsStats(EarlierStats)
      BY UsageAssumption DEF IsStats, Addable, Fields
    <2> QED
      BY <2>1, AddableRows DEF IsStats, Total
  <1> DEFINE Good(s) == /\ IsStats(g[s])
                        /\ \A f \in Fields : Total(g[s], f)
                                               = Total(EarlierStats, f) + SumOf(u, s, f)
             B == {s \in SUBSET D : ~ Good(s)}
  <1>6. \A i \in D : \A f \in Fields : u[i][f] \in Nat /\ u[i][f] = Amount(final[folded[i]])[f]
    BY <1>1, <1>2 DEF Amounts
  <1> HIDE DEF u
  <1>7. B = {}
    <2> SUFFICES ASSUME B # {}
                 PROVE  FALSE
      OBVIOUS
    <2>1. PICK s \in B : \A x \in s : s \ {x} \notin B
      BY <1>1, SmallestSet, Zenon
    <2>2. s \in SUBSET D /\ ~ Good(s)
      BY <2>1
    <2>3. CASE s = {}
      <3>1. g[s] = EarlierStats
        BY <1>4, <2>3, Zenon DEF FoldsAll
      <3>2. \A f \in Fields : SumOf(u, s, f) = 0
        BY <2>3, SumOfNone
      <3> QED
        BY <1>5, <2>2, <3>1, <3>2
    <2>4. CASE s # {}
      <3>1. PICK x \in s : x = Max(s)
        BY <1>1, <2>2, <2>4, MaxIn, FS_Subset
      <3>2. PICK w : w = s \ {x}
        OBVIOUS
      <3>3. w \in SUBSET D /\ x \notin w /\ x \in D /\ w \cup {x} = s /\ Good(w)
        BY <2>1, <2>2, <3>1, <3>2
      <3>4. g[s] = After(x, g[w])
        BY <1>4, <2>2, <2>4, <3>1, <3>2, Zenon DEF FoldsAll
      <3>5. PICK r, shares, rest :
              /\ r = final[folded[x]] /\ RowOK(r)
              /\ shares = Shares(r.summary, r) /\ rest = Unattributed(shares, r)
              /\ g[s] = Projected(g[w], shares, rest)
        <4>1. folded[x] \in finished
          BY <1>1, <3>3
        <4>2. /\ SharesOf[folded[x]] = Shares(final[folded[x]].summary, final[folded[x]])
              /\ RestOf[folded[x]] = Unattributed(SharesOf[folded[x]], final[folded[x]])
          BY <4>1 DEF SharesOf, RestOf
        <4> QED
          BY <3>4, <4>1, <4>2 DEF After
      <3>6. /\ IsStats(g[s])
            /\ \A f \in Fields : Total(g[s], f) = Total(g[w], f) + Amount(r)[f]
        BY <3>3, <3>5, ProjectedAdds
      <3>7. ASSUME NEW f \in Fields
            PROVE  Total(g[s], f) = Total(EarlierStats, f) + SumOf(u, s, f)
        <4>1. Addable(u, w, f) /\ u[x][f] \in Nat /\ Amount(r)[f] = u[x][f]
          BY <1>3, <1>6, <3>3, <3>5, AddableRows
        <4>2. SumOf(u, w \cup {x}, f) = SumOf(u, w, f) + u[x][f] /\ SumOf(u, w, f) \in Nat
          BY <3>3, <4>1, SumAdds, AddableRows
        <4>3. SumOf(u, s, f) = SumOf(u, w, f) + u[x][f]
          BY <3>3, <4>2
        <4>4. /\ Total(g[s], f) = Total(g[w], f) + u[x][f]
              /\ Total(g[w], f) = Total(EarlierStats, f) + SumOf(u, w, f)
              /\ Total(EarlierStats, f) \in Nat
          BY <1>5, <3>3, <3>6, <4>1
        <4> QED
          BY <4>1, <4>2, <4>3, <4>4
      <3> QED
        BY <2>2, <3>6, <3>7
    <2> QED
      BY <2>3, <2>4
  <1>8. Good(D)
    BY <1>7
  <1>9. ASSUME NEW f \in Fields
        PROVE  Addable(Amounts, ToSet(folded), f) /\ SumOf(u, D, f) = SumOf(Amounts, ToSet(folded), f)
    <2>1. Addable(u, D, f) /\ \A i \in D : u[i][f] = Amounts[folded[i]][f]
      BY <1>3 DEF u
    <2>2. PICK J : J = ToSet(folded) /\ J = {folded[i] : i \in D}
      BY DEF ToSet
    <2>3. \A i, j \in D : folded[i] = folded[j] => i = j
      OBVIOUS
    <2> HIDE DEF D, Good, B
    <2>4. Addable(Amounts, J, f) /\ SumOf(u, D, f) = SumOf(Amounts, J, f)
      BY <2>1, <2>2, <2>3, SumRenamed
    <2> QED
      BY <2>2, <2>4
  <1> QED
    BY <1>4, <1>5, <1>8, <1>9

-----------------------------------------------------------------------------
(* The steps.                                                              *)

\* A step that neither adds nor acknowledges anything: what is published was
\* taken by the stream, and the recorder keeps its batch or lets go of it.
LEMMA QuietStep ==
    ASSUME Inv,
           UNCHANGED <<final, domainOf, costDone, summaryDone, rows, emitted, stream, accepted>>,
           published' \subseteq accepted,
           replay' \in Seq(Known),
           outbox' \in [on : BOOLEAN, left : Seq(Known), sent : SUBSET accepted],
           rec' \in {rec, IdleRecorder}, worker' # "up" => rec'.pc = "idle",
           subscribed' => rec'.batch = {} \/ subscribed
    PROVE  Inv'
  <1>1. Known' = Known /\ Seen' = Seen /\ Messages' = Messages
    BY DEF Known, Seen, Messages, finished
  <1>2. SourcesOK'
    BY <1>1 DEF Inv, SourcesOK
  <1>3. StreamOK'
    BY <1>1 DEF Inv, StreamOK
  <1>4. BatchOK'
    <2>1. CASE rec' = rec
      BY <1>1, <2>1 DEF Inv, BatchOK
    <2>2. CASE rec' = IdleRecorder
      BY <1>1, <2>2, FS_EmptySet DEF BatchOK, IdleRecorder
    <2> QED
      BY <2>1, <2>2
  <1>5. AttemptsOK'
    BY DEF Inv, AttemptsOK, finished
  <1>6. HandledOK'
    <2>1. CASE rec' = rec
      BY <2>1 DEF Inv, HandledOK, Handled
    <2>2. CASE rec' = IdleRecorder
      BY <2>2 DEF Inv, HandledOK, Handled, IdleRecorder
    <2> QED
      BY <2>1, <2>2
  <1>7. OutboxNotLost'
    BY DEF Inv, OutboxNotLost, finished
  <1> QED
    BY <1>2, <1>3, <1>4, <1>5, <1>6, <1>7 DEF Inv

\* A new rate, an idle pass, and what the worker does on its own.
LEMMA QuietActions ==
    ASSUME Inv,
           \/ \E r \in Rates : UpdateRate(r)
           \/ OutboxSelect \/ OutboxCommit \/ OutboxFails \/ OutboxIdle
           \/ CreateStream \/ RecorderFails
           \/ WorkerStarts \/ WorkerReady \/ WorkerFails
           \/ UNCHANGED vars
    PROVE  Inv'
  <1> USE DEF attemptVars, rateVars, tableVars, streamVars, workerVars
  <1>0. /\ published \subseteq accepted /\ replay \in Seq(Known) /\ rows \in Seq(Known)
        /\ outbox \in [on : BOOLEAN, left : Seq(Known), sent : SUBSET accepted]
        /\ worker # "up" => rec.pc = "idle"
        /\ rec.pc = "idle" => rec.batch = {}
    BY DEF Inv, SourcesOK, BatchOK
  <1>i. /\ IdleOutbox \in [on : BOOLEAN, left : Seq(Known), sent : SUBSET accepted]
        /\ <<>> \in Seq(Known)
        /\ IdleRecorder.pc = "idle" /\ IdleRecorder.batch = {}
    BY DEF IdleOutbox, IdleRecorder
  <1>1. CASE \E r \in Rates : UpdateRate(r)
    BY <1>0, <1>1, QuietStep DEF UpdateRate
  <1>2. CASE OutboxSelect
    <2> DEFINE I == {i \in DOMAIN rows : rows[i] \notin published}
    <2>1. I \in SUBSET Int /\ IsFiniteSet(I) /\ \A i \in I : rows[i] \in Known
      <3>1. DOMAIN rows = 1..Len(rows) /\ Len(rows) \in Nat
        BY <1>0
      <3>2. IsFiniteSet(DOMAIN rows)
        BY <3>1, FS_Interval
      <3> QED
        BY <1>0, <3>1, <3>2, FS_Subset
    <2>2. Selected(rows, I) \in Seq(Known)
      BY <2>1, SelectedLists
    <2> HIDE DEF I
    <2>3. outbox' = [on |-> TRUE, left |-> Selected(rows, I), sent |-> {}]
      BY <1>2 DEF OutboxSelect, I
    <2>4. outbox' \in [on : BOOLEAN, left : Seq(Known), sent : SUBSET accepted]
      BY <2>2, <2>3
    <2> QED
      BY <1>0, <1>2, <2>4, QuietStep DEF OutboxSelect
  <1>3. CASE OutboxCommit
    BY <1>0, <1>3, <1>i, QuietStep DEF OutboxCommit
  <1>4. CASE OutboxFails
    BY <1>0, <1>4, <1>i, QuietStep DEF OutboxFails
  <1>5. CASE OutboxIdle \/ UNCHANGED vars
    BY <1>0, <1>5, QuietStep DEF OutboxIdle, vars
  <1>6. CASE CreateStream
    BY <1>0, <1>6, QuietStep DEF CreateStream
  <1>7. CASE RecorderFails
    <2>1. rec' = IdleRecorder
      BY <1>7 DEF RecorderFails, RecorderStep, IdleRecorder
    <2> QED
      BY <1>0, <1>7, <1>i, <2>1, QuietStep DEF RecorderFails, RecorderStep
  <1>8. CASE WorkerStarts
    BY <1>0, <1>8, QuietStep DEF WorkerStarts
  <1>9. CASE WorkerReady
    BY <1>0, <1>9, QuietStep DEF WorkerReady
  <1>10. CASE WorkerFails
    BY <1>0, <1>10, <1>i, QuietStep DEF WorkerFails
  <1> QED
    BY <1>1, <1>2, <1>3, <1>4, <1>5, <1>6, <1>7, <1>8, <1>9, <1>10

\* NATS is replaced: the batch is not one of the new stream.
LEMMA StreamLostStep ==
    ASSUME Inv, StreamLost
    PROVE  Inv'
  <1> USE DEF attemptVars, rateVars, tableVars
  <1>1. Known' = Known /\ Seen' = Seen /\ Messages' = Messages
    BY DEF StreamLost, Known, Seen, Messages, finished
  <1>2. SourcesOK'
    BY <1>1 DEF Inv, SourcesOK, StreamLost
  <1>3. StreamOK'
    BY <1>1 DEF StreamOK, StreamLost
  <1>4. BatchOK'
    BY <1>1 DEF Inv, BatchOK, StreamLost
  <1>5. AttemptsOK'
    BY DEF Inv, AttemptsOK, finished, StreamLost
  <1>6. HandledOK'
    BY DEF Inv, HandledOK, Handled, StreamLost
  <1>7. OutboxNotLost'
    BY DEF Inv, OutboxNotLost, finished, StreamLost
  <1> QED
    BY <1>2, <1>3, <1>4, <1>5, <1>6, <1>7 DEF Inv

\* A message more, of an event that has happened: the recorder's messages are
\* where they were, and nothing new is acknowledged.
LEMMA MessageAdded ==
    ASSUME Inv, Known \subseteq Known', accepted \subseteq accepted',
           NEW e \in Known',
           \/ stream' = stream
           \/ stream' = Append(stream, Message(e)) /\ e \in accepted',
           UNCHANGED <<worker, subscribed, rec, summaryDone, domainOf>>
    PROVE  StreamOK' /\ BatchOK' /\ HandledOK'
  <1>1. Seen \subseteq Seen'
    BY DEF Seen
  <1>2. Messages \subseteq Messages'
    BY <1>1 DEF Messages
  <1>3. stream \in Seq(Messages)
    BY DEF Inv, StreamOK
  <1>4. stream \in Seq(Messages')
    BY <1>2, <1>3, SeqOver
  <1>5. /\ stream' \in Seq(Messages') /\ DOMAIN stream \subseteq DOMAIN stream'
        /\ \A i \in DOMAIN stream : stream'[i] = stream[i]
        /\ \A i \in DOMAIN stream' : i \in DOMAIN stream \/ stream'[i].state = "ready"
    <2>1. CASE stream' = stream
      BY <1>4, <2>1
    <2>2. CASE stream' = Append(stream, Message(e)) /\ e \in accepted'
      <3>1. Message(e) \in Messages' /\ Message(e).state = "ready"
        BY <2>2 DEF Message, Messages, Seen
      <3> HIDE DEF Messages
      <3>2. /\ stream' \in Seq(Messages') /\ Len(stream') = Len(stream) + 1
            /\ DOMAIN stream' = 1..Len(stream') /\ DOMAIN stream = 1..Len(stream)
            /\ Len(stream) \in Nat /\ stream'[Len(stream) + 1] = Message(e)
            /\ \A i \in 1..Len(stream) : stream'[i] = stream[i]
        BY <1>4, <2>2, <3>1
      <3> QED
        BY <3>1, <3>2
    <2> QED
      BY <2>1, <2>2
  <1>6. StreamOK'
    BY <1>5 DEF StreamOK
  <1>7. BatchOK'
    BY <1>1, <1>5 DEF Inv, BatchOK
  <1>8. HandledOK'
    BY <1>5 DEF Inv, HandledOK, Handled
  <1> QED
    BY <1>6, <1>7, <1>8

\* What publishing an event does to the stream.
LEMMA Published ==
    ASSUME Inv, NEW e, Publish(e)
    PROVE  /\ e \in accepted' /\ accepted' = accepted \cup {e}
           /\ stream' = stream \/ stream' = Append(stream, Message(e))
  <1>1. \A i \in DOMAIN stream : stream[i].event \in accepted
    <2>1. \A i \in DOMAIN stream : stream[i] \in Messages
      BY DEF Inv, StreamOK
    <2> QED
      BY <2>1 DEF Messages, Seen
  <1> QED
    BY <1>1 DEF Publish, AddMessage, InStream, streamVars

\* The outbox and a rehydration publish what they have read from the table.
LEMMA PublishingActions ==
    ASSUME Inv, OutboxPublish \/ Rehydrate
    PROVE  Inv'
  <1> USE DEF attemptVars, rateVars, tableVars
  <1>1. PICK e \in Known :
          /\ Publish(e)
          /\ UNCHANGED <<final, domainOf, costDone, summaryDone, rows, published, emitted,
                         worker, subscribed, rec>>
          /\ replay' \in Seq(Known)
          /\ outbox' \in [on : BOOLEAN, left : Seq(Known), sent : SUBSET (accepted \cup {e})]
    <2>1. /\ replay \in Seq(Known)
          /\ outbox \in [on : BOOLEAN, left : Seq(Known), sent : SUBSET accepted]
      BY DEF Inv, SourcesOK
    <2>2. CASE OutboxPublish
      <3>1. Head(outbox.left) \in Known /\ Tail(outbox.left) \in Seq(Known)
        BY <2>1, <2>2, HeadAndTail DEF OutboxPublish
      <3> QED
        BY <2>1, <2>2, <3>1 DEF OutboxPublish
    <2>3. CASE Rehydrate
      <3>1. Head(replay) \in Known /\ Tail(replay) \in Seq(Known)
        BY <2>1, <2>3, HeadAndTail DEF Rehydrate
      <3> QED
        BY <2>1, <2>3, <3>1 DEF Rehydrate
    <2> QED
      BY <2>2, <2>3
  <1>2. /\ e \in accepted' /\ accepted' = accepted \cup {e}
        /\ stream' = stream \/ stream' = Append(stream, Message(e))
    BY <1>1, Published
  <1>3. Known' = Known
    BY <1>1 DEF Known, finished
  <1>4. StreamOK' /\ BatchOK' /\ HandledOK'
    BY <1>1, <1>2, <1>3, MessageAdded
  <1>5. SourcesOK'
    BY <1>1, <1>2, <1>3 DEF Inv, SourcesOK
  <1>6. AttemptsOK'
    BY <1>1 DEF Inv, AttemptsOK, finished
  <1>7. OutboxNotLost'
    BY <1>1, <1>2 DEF Inv, OutboxNotLost, finished
  <1> QED
    BY <1>4, <1>5, <1>6, <1>7 DEF Inv

\* The gateway publishes an observation: a navigation is one of an attempt
\* that has not ended.
LEMMA EmitStep ==
    ASSUME Inv, NEW e \in Events, Emit(e)
    PROVE  Inv'
  <1> USE DEF attemptVars, rateVars, tableVars, streamVars, workerVars
  <1>1. /\ e \in Attempts \X Kinds /\ e[2] # "closed"
        /\ e[2] = "navigation" => e[1] \notin finished
        /\ emitted' = emitted \cup {e}
        /\ UNCHANGED <<final, domainOf, costDone, summaryDone, rows, published, replay, outbox,
                       worker, subscribed, rec>>
    BY PipelineAssumption DEF Emit, Kinds
  <1>2. \/ stream' = stream /\ accepted' = accepted
        \/ stream' = Append(stream, Message(e)) /\ accepted' = accepted \cup {e}
    BY DEF Emit, AddMessage
  <1>3. Known \subseteq Known' /\ e \in Known'
    BY <1>1 DEF Known, finished
  <1>4. StreamOK' /\ BatchOK' /\ HandledOK'
    BY <1>1, <1>2, <1>3, MessageAdded
  <1>5. SourcesOK'
    <2>1. rows \in Seq(Known') /\ replay \in Seq(Known') /\ outbox.left \in Seq(Known')
      BY <1>3, SeqOver DEF Inv, SourcesOK
    <2> QED
      BY <1>1, <1>2, <2>1 DEF Inv, SourcesOK
  <1>6. AttemptsOK'
    BY <1>1 DEF Inv, AttemptsOK, finished
  <1>7. OutboxNotLost'
    BY <1>1, <1>2 DEF Inv, OutboxNotLost, finished
  <1> QED
    BY <1>4, <1>5, <1>6, <1>7 DEF Inv

\* An attempt ends: its event is a row, and one that has navigated is billed.
LEMMA FinishAttemptStep ==
    ASSUME Inv, NEW a \in Attempts, FinishAttempt(a)
    PROVE  Inv'
  <1> USE DEF rateVars, streamVars, workerVars
  <1>1. /\ a \notin finished /\ rows' = Append(rows, <<a, "closed">>)
        /\ UNCHANGED <<domainOf, costDone, summaryDone, published, emitted, stream, accepted,
                       worker, subscribed, replay, outbox, rec>>
    BY DEF FinishAttempt
  <1>2. /\ finished' = finished \cup {a}
        /\ \A b \in finished : final'[b] = final[b]
        /\ <<a, "navigation">> \in emitted => final'[a].billed
    <2>1. PICK reached \in {"waiting", "acquiring", "active"} :
            /\ <<a, "navigation">> \in emitted => reached = "active"
            /\ final' = [b \in finished \cup {a} |->
                           IF b = a THEN EndedRow(a, reached) ELSE final[b]]
      BY DEF FinishAttempt
    <2>2. EndedRow(a, reached).billed = (reached # "waiting")
      BY DEF Finalized, EndedRow
    <2> QED
      BY <1>1, <2>1, <2>2 DEF finished
  <1>3. Known \subseteq Known' /\ <<a, "closed">> \in Known'
    BY <1>1, <1>2 DEF Known, Kinds
  <1>4. StreamOK' /\ BatchOK' /\ HandledOK'
    BY <1>1, <1>3, MessageAdded
  <1>5. rows \in Seq(Known') /\ replay \in Seq(Known') /\ outbox.left \in Seq(Known')
    BY <1>3, SeqOver DEF Inv, SourcesOK
  <1>6. rows' \in Seq(Known') /\ ToSet(rows') = ToSet(rows) \cup {<<a, "closed">>}
    BY <1>1, <1>3, <1>5, AfterAppend
  <1>7. SourcesOK'
    BY <1>1, <1>5, <1>6 DEF Inv, SourcesOK
  <1>8. AttemptsOK'
    BY <1>1, <1>2 DEF Inv, AttemptsOK
  <1>9. OutboxNotLost'
    BY <1>1, <1>2, <1>6 DEF Inv, SourcesOK, OutboxNotLost
  <1> QED
    BY <1>4, <1>7, <1>8, <1>9 DEF Inv

\* A step that changes the states of messages only, and acknowledges what was
\* recorded, leaves the batch of the recorder to look at.
LEMMA StatesChanged ==
    ASSUME Inv,
           UNCHANGED <<final, domainOf, costDone, summaryDone, rows, published, emitted, accepted,
                       replay, outbox>>,
           stream' \in [DOMAIN stream -> Messages],
           \A i \in DOMAIN stream :
               /\ stream'[i].event = stream[i].event
               /\ stream'[i].state = "acked" => Handled(stream[i].event),
           BatchOK',
           rec'.pc = "ack" => rec' = rec
    PROVE  Inv'
  <1>1. Known' = Known /\ Seen' = Seen /\ Messages' = Messages
    BY DEF Known, Seen, Messages, finished
  <1>2. SourcesOK'
    BY <1>1 DEF Inv, SourcesOK
  <1>3. StreamOK'
    BY <1>1, SeqLike DEF Inv, StreamOK
  <1>4. AttemptsOK'
    BY DEF Inv, AttemptsOK, finished
  <1>5. HandledOK'
    BY DEF Inv, HandledOK, Handled
  <1>6. OutboxNotLost'
    BY DEF Inv, OutboxNotLost, finished
  <1> QED
    BY <1>2, <1>3, <1>4, <1>5, <1>6 DEF Inv

\* The recorder takes messages, each with its place and its event.
LEMMA FetchStep ==
    ASSUME Inv, Fetch
    PROVE  Inv'
  <1> USE DEF attemptVars, rateVars, tableVars
  <1>1. PICK last \in Ready :
          /\ stream' = [i \in DOMAIN stream |->
                          IF i \in {j \in Ready : j <= last}
                          THEN [stream[i] EXCEPT !.state = "held", !.delivered = @ + 1]
                          ELSE stream[i]]
          /\ RecorderStep("check", {[at |-> i, event |-> stream[i].event] :
                                      i \in {j \in Ready : j <= last}})
    BY DEF Fetch
  <1> DEFINE B == {j \in Ready : j <= last}
             batch == {[at |-> i, event |-> stream[i].event] : i \in B}
  <1>2. /\ \A i \in DOMAIN stream : stream[i] \in Messages
        /\ DOMAIN stream = 1..Len(stream) /\ Len(stream) \in Nat
    BY DEF Inv, StreamOK
  <1>3. B \subseteq DOMAIN stream
    BY DEF Ready
  <1>4. stream' \in [DOMAIN stream -> Messages]
        /\ \A i \in DOMAIN stream :
               /\ stream'[i].event = stream[i].event
               /\ stream'[i].state = "acked" => stream[i].state = "acked"
    <2>1. ASSUME NEW i \in DOMAIN stream, NEW r,
                 r = [stream[i] EXCEPT !.state = "held", !.delivered = @ + 1]
          PROVE  r \in Messages /\ r.event = stream[i].event /\ r.state = "held"
      <3>1. /\ stream[i].event \in Seen /\ stream[i].delivered \in Nat
            /\ stream[i] = [event |-> stream[i].event, state |-> stream[i].state,
                            delivered |-> stream[i].delivered]
        BY <1>2 DEF Messages
      <3>2. stream[i].delivered + 1 \in Nat
        BY <3>1
      <3>3. r = [event |-> stream[i].event, state |-> "held",
                 delivered |-> stream[i].delivered + 1]
        BY <2>1, <3>1
      <3> QED
        BY <3>1, <3>2, <3>3 DEF Messages
    <2> HIDE DEF Messages
    <2> QED
      BY <1>1, <1>2, <2>1
  <1>5. IsFiniteSet(batch)
    <2>1. IsFiniteSet(DOMAIN stream)
      BY <1>2, FS_Interval
    <2>2. IsFiniteSet(B)
      BY <1>3, <2>1, FS_Subset
    <2> DEFINE f == [i \in B |-> [at |-> i, event |-> stream[i].event]]
    <2>3. f \in Surjection(B, batch)
      BY DEF Surjection
    <2> QED
      BY <2>2, <2>3, FS_Surjection
  <1>6. /\ rec' = [pc |-> "check", batch |-> batch] /\ worker = "up"
        /\ UNCHANGED <<worker, subscribed, accepted, replay, outbox, emitted, final, domainOf,
                       costDone, summaryDone, rows, published>>
    BY <1>1 DEF Fetch, RecorderStep
  <1>7. \A m \in batch : m.at \in Nat /\ m.at \in DOMAIN stream' /\ m.event \in Seen
                         /\ stream'[m.at].event = m.event
    <2>1. \A i \in B : i \in Nat /\ i \in DOMAIN stream' /\ stream[i].event \in Seen
                       /\ stream'[i].event = stream[i].event
      BY <1>2, <1>3, <1>4 DEF Messages
    <2> QED
      BY <2>1
  <1>8. Seen' = Seen
    BY <1>6 DEF Seen, Known, finished
  <1>9. BatchOK'
    BY <1>5, <1>6, <1>7, <1>8 DEF BatchOK
  <1> QED
    BY <1>4, <1>6, <1>9, StatesChanged DEF Inv, HandledOK

\* A message goes back to the stream, or to the dead letters, because it is
\* rejected or because its acknowledgement is overdue.
LEMMA GivenBackStep ==
    ASSUME Inv, Reject \/ \E i \in DOMAIN stream : AckWaitExpires(i)
    PROVE  Inv'
  <1> USE DEF attemptVars, rateVars, tableVars, workerVars
  <1>1. stream \in Seq(Messages) /\ \A i \in DOMAIN stream : stream[i] \in Messages
    BY DEF Inv, StreamOK
  <1>2. ASSUME NEW i \in DOMAIN stream, NEW state \in {"ready", "dead"}, SetState(i, state)
        PROVE  /\ stream' \in [DOMAIN stream -> Messages]
               /\ \A j \in DOMAIN stream :
                      /\ stream'[j].event = stream[j].event
                      /\ stream'[j].state = "acked" => stream[j].state = "acked"
    <2>1. [stream[i] EXCEPT !.state = state] \in Messages
      BY <1>1 DEF Messages
    <2>2. /\ [stream[i] EXCEPT !.state = state].event = stream[i].event
          /\ [stream[i] EXCEPT !.state = state].state = state
      BY <1>1 DEF Messages
    <2>3. stream' = [stream EXCEPT ![i] = [stream[i] EXCEPT !.state = state]]
      BY <1>2 DEF SetState
    <2> HIDE DEF Messages
    <2> QED
      BY <1>1, <2>1, <2>2, <2>3
  <1>3. /\ stream' \in [DOMAIN stream -> Messages]
        /\ \A j \in DOMAIN stream :
               /\ stream'[j].event = stream[j].event
               /\ stream'[j].state = "acked" => stream[j].state = "acked"
    <2>1. CASE Reject
      <3>1. PICK m \in rec.batch :
              IF ~subscribed THEN UNCHANGED stream
              ELSE SetState(m.at, IF stream[m.at].delivered < MaxDeliver
                                  THEN "ready" ELSE "dead")
        BY <2>1 DEF Reject
      <3>2. CASE ~subscribed
        BY <1>1, <3>1, <3>2
      <3>3. CASE subscribed
        <4>1. m.at \in DOMAIN stream
          BY <3>3 DEF Inv, BatchOK
        <4> QED
          BY <1>2, <3>1, <3>3, <4>1
      <3> QED
        BY <3>2, <3>3
    <2>2. CASE \E i \in DOMAIN stream : AckWaitExpires(i)
      BY <1>2, <2>2 DEF AckWaitExpires
    <2> QED
      BY <2>1, <2>2
  <1>4. /\ UNCHANGED <<worker, subscribed, accepted, replay, outbox, emitted, final, domainOf,
                       costDone, summaryDone, rows, published>>
        /\ \/ rec' = rec
           \/ /\ rec' = [pc |-> rec'.pc, batch |-> rec'.batch]
              /\ rec'.pc \in {"idle", "check"} /\ rec'.batch \subseteq rec.batch
              /\ rec.pc # "idle"
              /\ rec'.pc = "idle" => rec'.batch = {}
    BY DEF Reject, AckWaitExpires, RecorderStep
  <1>5. Seen' = Seen
    BY <1>4 DEF Seen, Known, finished
  <1>6. BatchOK'
    <2>1. IsFiniteSet(rec'.batch)
      BY <1>4, FS_Subset DEF Inv, BatchOK
    <2>2. /\ rec' = [pc |-> rec'.pc, batch |-> rec'.batch]
          /\ rec'.pc \in {"idle", "check", "project", "ack"}
          /\ rec'.batch \subseteq rec.batch
          /\ rec'.pc = "idle" => rec'.batch = {}
          /\ worker' # "up" => rec'.pc = "idle"
      <3>1. CASE rec' = rec
        BY <1>4, <3>1 DEF Inv, BatchOK
      <3>2. CASE rec' # rec
        BY <1>4, <3>2 DEF Inv, BatchOK
      <3> QED
        BY <3>1, <3>2
    <2>3. \A m \in rec'.batch : m.at \in Nat /\ m.event \in Seen'
      BY <1>5, <2>2 DEF Inv, BatchOK
    <2>4. subscribed' => \A m \in rec'.batch :
                             m.at \in DOMAIN stream' /\ stream'[m.at].event = m.event
      BY <1>3, <1>4, <2>2 DEF Inv, BatchOK
    <2> QED
      BY <2>1, <2>2, <2>3, <2>4 DEF BatchOK
  <1> QED
    BY <1>3, <1>4, <1>6, StatesChanged DEF Inv, HandledOK

\* What is acknowledged was recorded, and is what the recorder was given.
LEMMA AckStep ==
    ASSUME Inv, Ack
    PROVE  Inv'
  <1> USE DEF attemptVars, rateVars, tableVars
  <1>1. \A i \in DOMAIN stream : stream[i] \in Messages
    BY DEF Inv, StreamOK
  <1>2. /\ stream' = [i \in DOMAIN stream |->
                        IF subscribed /\ i \in Taken
                        THEN [stream[i] EXCEPT !.state = "acked"] ELSE stream[i]]
        /\ rec.pc = "ack" /\ rec' = [pc |-> "idle", batch |-> {}]
        /\ UNCHANGED <<worker, subscribed, accepted, replay, outbox, emitted, final, domainOf,
                       costDone, summaryDone, rows, published>>
    BY DEF Ack, RecorderStep
  <1>3. ASSUME NEW i \in DOMAIN stream
        PROVE  /\ stream'[i] \in Messages /\ stream'[i].event = stream[i].event
               /\ stream'[i].state = "acked" => Handled(stream[i].event)
    <2>1. CASE subscribed /\ i \in Taken
      <3>1. PICK m \in rec.batch : m.at = i
        BY <2>1 DEF Taken
      <3>2. stream[i].event = m.event /\ Handled(m.event)
        BY <1>2, <2>1, <3>1 DEF Inv, BatchOK, HandledOK
      <3>3. stream'[i] = [stream[i] EXCEPT !.state = "acked"]
        BY <1>2, <2>1
      <3>4. stream'[i] \in Messages /\ stream'[i].event = stream[i].event
        BY <1>1, <3>3 DEF Messages
      <3> QED
        BY <3>2, <3>4
    <2>2. CASE ~(subscribed /\ i \in Taken)
      <3>1. stream'[i] = stream[i]
        BY <1>2, <2>2
      <3> QED
        BY <1>1, <3>1 DEF Inv, HandledOK
    <2> QED
      BY <2>1, <2>2
  <1>4. stream' \in [DOMAIN stream -> Messages]
    BY <1>2, <1>3
  <1>5. BatchOK'
    BY <1>2, FS_EmptySet DEF BatchOK
  <1> QED
    BY <1>2, <1>3, <1>4, <1>5, StatesChanged

\* The rows of a batch are new ones of events that the stream has taken.
LEMMA RecordRowsStep ==
    ASSUME Inv, RecordRows
    PROVE  Inv'
  <1> USE DEF attemptVars, rateVars
  <1> DEFINE arrived == [i \in Taken |-> (CHOOSE m \in rec.batch : m.at = i).event]
             first(i) == \A j \in Taken : arrived[j] = arrived[i] => i <= j
             I == {i \in Taken : arrived[i] \notin ToSet(rows) /\ first(i)}
             new == Selected(arrived, I)
  <1>1. /\ rec.pc = "check" /\ rec' = [pc |-> "project", batch |-> rec.batch]
        /\ rows' = rows \o new /\ published' = published \cup ToSet(new)
        /\ UNCHANGED <<worker, subscribed, accepted, replay, outbox, emitted, final, domainOf,
                       costDone, summaryDone, stream>>
    BY DEF RecordRows, RecorderStep
  <1>2. Taken \in SUBSET Int /\ IsFiniteSet(Taken)
    <2> DEFINE f == [m \in rec.batch |-> m.at]
    <2>1. f \in Surjection(rec.batch, Taken)
      BY DEF Surjection, Taken
    <2>2. IsFiniteSet(rec.batch) /\ \A m \in rec.batch : m.at \in Nat
      BY DEF Inv, BatchOK
    <2>3. IsFiniteSet(Taken)
      BY <2>1, <2>2, FS_Surjection
    <2> QED
      BY <2>2, <2>3 DEF Taken
  <1>3. \A i \in Taken : arrived[i] \in Seen
    <2>1. ASSUME NEW i \in Taken
          PROVE  arrived[i] \in Seen
      <3>1. \E m \in rec.batch : m.at = i
        BY DEF Taken
      <3>2. (CHOOSE m \in rec.batch : m.at = i) \in rec.batch
        BY <3>1
      <3> QED
        BY <3>2 DEF Inv, BatchOK
    <2> QED
      BY <2>1
  <1>4. new \in Seq(Seen) /\ ToSet(new) = {arrived[i] : i \in I}
    <2>1. I \in SUBSET Int /\ IsFiniteSet(I) /\ I \subseteq Taken
      BY <1>2, FS_Subset
    <2> HIDE DEF I, arrived
    <2> QED
      BY <1>3, <2>1, SelectedLists
  <1>5. ToSet(new) \subseteq Seen
    <2>1. I \subseteq Taken
      OBVIOUS
    <2> HIDE DEF new, I, arrived
    <2> QED
      BY <1>3, <1>4, <2>1
  <1> HIDE DEF new
  <1>6. Known' = Known /\ Seen' = Seen /\ Messages' = Messages /\ Seen \subseteq Known
    BY <1>1 DEF Known, Seen, Messages, finished
  <1>7. rows \in Seq(Known) /\ new \in Seq(Known)
    BY <1>4, <1>6, SeqOver DEF Inv, SourcesOK
  <1>8. rows' \in Seq(Known) /\ ToSet(rows') = ToSet(rows) \cup ToSet(new)
    BY <1>1, <1>7, AfterConcat
  <1>9. SourcesOK'
    BY <1>1, <1>5, <1>6, <1>8 DEF Inv, SourcesOK, Seen
  <1>10. StreamOK'
    BY <1>1, <1>6 DEF Inv, StreamOK
  <1>11. BatchOK'
    BY <1>1, <1>6 DEF Inv, BatchOK
  <1>12. AttemptsOK'
    BY <1>1 DEF Inv, AttemptsOK, finished
  <1>13. HandledOK'
    BY <1>1 DEF Inv, HandledOK, Handled
  <1>14. OutboxNotLost'
    BY <1>1, <1>5, <1>8 DEF Inv, OutboxNotLost, finished, Seen
  <1> QED
    BY <1>9, <1>10, <1>11, <1>12, <1>13, <1>14 DEF Inv

\* The attempts of a batch are finitely many.
LEMMA BatchIsFinite ==
    ASSUME Inv
    PROVE  IsFiniteSet(Located) /\ IsFiniteSet(Summarised)
  <1> DEFINE f == [m \in rec.batch |-> m.event[1]]
             T == {m.event[1] : m \in rec.batch}
  <1>1. f \in Surjection(rec.batch, T)
    BY DEF Surjection
  <1>2. IsFiniteSet(T)
    BY <1>1, FS_Surjection DEF Inv, BatchOK
  <1>3. ASSUME NEW a, NEW k, <<a, k>> \in BatchEvents
        PROVE  a \in T
    <2>1. PICK m \in rec.batch : m.event = <<a, k>>
      BY <1>3 DEF BatchEvents
    <2>2. m.event[1] = a
      BY <2>1
    <2> QED
      BY <2>2
  <1> HIDE DEF T
  <1>4. Located \subseteq T
    BY <1>3 DEF Located
  <1>5. Summarised \subseteq T
    BY <1>3 DEF Summarised
  <1> QED
    BY <1>2, <1>4, <1>5, FS_Subset

\* The attempts of a batch are projected: whichever of its domain and its end
\* comes second finds the other, and the cost is added then.
LEMMA ProjectAttemptsStep ==
    ASSUME Inv, ProjectAttempts
    PROVE  Inv'
  <1> USE DEF rateVars, tableVars
  <1> DEFINE costly == {a \in CostProjectedWith : CostDue(a)}
             due == {a \in Summarised : SummaryDue(a)}
  <1>1. IsFiniteSet(due)
    BY BatchIsFinite, FS_Subset
  <1>2. /\ domainOf' = domainOf \cup Located
        /\ costDone' = costDone \cup costly
        /\ summaryDone' = summaryDone \cup due
        /\ rec.pc = "project" /\ rec' = [pc |-> "ack", batch |-> rec.batch]
        /\ UNCHANGED <<worker, subscribed, accepted, replay, outbox, emitted, final, rows,
                       published, stream>>
    <2>1. ToSet(SetToSeq(due)) = due
      BY <1>1, SetToSeqLists
    <2> QED
      BY <2>1 DEF ProjectAttempts, RecorderStep
  <1>3. Known' = Known /\ Seen' = Seen /\ Messages' = Messages
    BY <1>2 DEF Known, Seen, Messages, finished
  <1>4. \A m \in rec.batch : m.event \in Known
    BY DEF Inv, BatchOK, Seen
  <1>5. \A a \in Located : <<a, "navigation">> \in emitted
    BY <1>4 DEF Located, BatchEvents, Known
  <1>6. \A m \in rec.batch : Handled(m.event)'
    <2>1. ASSUME NEW m \in rec.batch
          PROVE  Handled(m.event)'
      <3>1. PICK a \in Attempts, k \in Kinds : m.event = <<a, k>>
        BY <1>4 DEF Known
      <3>2. k = "closed" => a \in summaryDone'
        <4>1. SUFFICES ASSUME k = "closed"
                       PROVE  a \in summaryDone'
          OBVIOUS
        <4>2. a \in Summarised
          BY <3>1, <4>1 DEF Summarised, BatchEvents
        <4>3. a \in finished
          BY <1>4, <3>1, <4>1 DEF Known
        <4> QED
          BY <1>2, <4>2, <4>3 DEF SummaryDue
      <3>3. k = "navigation" => a \in domainOf'
        BY <1>2, <3>1 DEF Located, BatchEvents
      <3> QED
        BY <3>1, <3>2, <3>3 DEF Handled
    <2> QED
      BY <2>1
  <1>7. AttemptsOK'
    <2>1. summaryDone' \subseteq finished /\ finished' = finished
      BY <1>2 DEF Inv, AttemptsOK, SummaryDue, finished
    <2>2. \A a \in domainOf' : <<a, "navigation">> \in emitted
      BY <1>2, <1>5 DEF Inv, AttemptsOK
    <2>3. ASSUME NEW a \in summaryDone' \cap domainOf'
          PROVE  a \in costDone'
      <3>1. a \in finished /\ final[a].billed
        BY <2>1, <2>2 DEF Inv, AttemptsOK
      <3>2. CASE a \in summaryDone /\ a \in domainOf
        BY <1>2, <3>2 DEF Inv, AttemptsOK
      <3>3. CASE a \notin summaryDone \/ a \notin domainOf
        <4>1. a \in CostProjectedWith /\ a \in domainOf \cup Located
          BY <1>2, <3>3 DEF CostProjectedWith
        <4> QED
          BY <1>2, <3>1, <4>1 DEF CostDue
      <3> QED
        BY <3>2, <3>3
    <2> QED
      BY <1>2, <2>1, <2>2, <2>3 DEF Inv, AttemptsOK
  <1>8. HandledOK'
    BY <1>2, <1>6 DEF Inv, HandledOK, Handled
  <1>9. BatchOK'
    BY <1>2, <1>3 DEF Inv, BatchOK
  <1>10. SourcesOK' /\ StreamOK'
    BY <1>2, <1>3 DEF Inv, SourcesOK, StreamOK
  <1>11. OutboxNotLost'
    BY <1>2 DEF Inv, OutboxNotLost, finished
  <1> QED
    BY <1>7, <1>8, <1>9, <1>10, <1>11 DEF Inv

\* Retention removes rows that were published, and no others.
LEMMA PurgeEventsStep ==
    ASSUME Inv, PurgeEvents
    PROVE  Inv'
  <1> USE DEF attemptVars, rateVars, streamVars, workerVars
  <1>1. PICK old \in SUBSET published :
          /\ rows' = Selected(rows, {i \in DOMAIN rows : rows[i] \notin old})
          /\ published' = published \ old
          /\ UNCHANGED <<worker, subscribed, accepted, replay, outbox, emitted, final, domainOf,
                         costDone, summaryDone, stream, rec>>
    <2> DEFINE settled(e) == \A i \in DOMAIN stream :
                               stream[i].event = e => stream[i].state \in {"acked", "dead"}
               old == {e \in ToSet(rows) \cap published : settled(e)}
    <2>1. old \in SUBSET published
      OBVIOUS
    <2> QED
      BY <2>1 DEF PurgeEvents
  <1> DEFINE I == {i \in DOMAIN rows : rows[i] \notin old}
  <1>2. rows \in Seq(Known) /\ DOMAIN rows = 1..Len(rows) /\ Len(rows) \in Nat
    BY DEF Inv, SourcesOK
  <1>3. I \in SUBSET Int /\ IsFiniteSet(I) /\ \A i \in I : rows[i] \in Known
    <2>1. IsFiniteSet(DOMAIN rows)
      BY <1>2, FS_Interval
    <2> QED
      BY <1>2, <2>1, FS_Subset
  <1>4. rows' \in Seq(Known) /\ ToSet(rows') = {rows[i] : i \in I}
    <2>1. rows' = Selected(rows, I)
      BY <1>1
    <2> HIDE DEF I
    <2> QED
      BY <1>3, <2>1, SelectedLists
  <1>5. ToSet(rows') = ToSet(rows) \ old
    BY <1>4 DEF ToSet
  <1>6. Known' = Known /\ Seen' = Seen /\ Messages' = Messages
    BY <1>1 DEF Known, Seen, Messages, finished
  <1>7. SourcesOK' /\ StreamOK'
    BY <1>1, <1>4, <1>6 DEF Inv, SourcesOK, StreamOK
  <1>8. BatchOK'
    BY <1>1, <1>6 DEF Inv, BatchOK
  <1>9. AttemptsOK'
    BY <1>1 DEF Inv, AttemptsOK, finished
  <1>10. HandledOK'
    BY <1>1 DEF Inv, HandledOK, Handled
  <1>11. OutboxNotLost'
    BY <1>1, <1>5 DEF Inv, OutboxNotLost, finished
  <1> QED
    BY <1>7, <1>8, <1>9, <1>10, <1>11 DEF Inv

-----------------------------------------------------------------------------
(* What the aggregates hold.                                               *)

\* Every attempt that is marked as projected was added, once, from a row that
\* did not change since.
CostsOK ==
    /\ rate \in Nat
    /\ \A a \in finished : RowOK(final[a])
    /\ folded \in Seq(finished) /\ ToSet(folded) = summaryDone
    /\ \A i, j \in DOMAIN folded : folded[i] = folded[j] => i = j
    /\ costDone \subseteq finished /\ IsFiniteSet(costDone)
    /\ domainStat = [count |-> Cardinality(costDone), cost |-> SumOf(final, costDone, "cost")]

\* The cost of a set of attempts that have ended can be added up.
LEMMA CostsAddable ==
    ASSUME CostsOK, NEW I, I \subseteq finished, IsFiniteSet(I)
    PROVE  Addable(final, I, "cost")
  BY DEF CostsOK, Addable, RowOK

\* The row that finalize_attempt_usage leaves.
LEMMA EndedRowOK ==
    ASSUME NEW a \in Attempts, NEW reached \in {"waiting", "acquiring", "active"}, rate \in Nat
    PROVE  RowOK(EndedRow(a, reached))
  <1> DEFINE r == EndedRow(a, reached)
             m == Measured[a]
             usage == Finalized(m, reached, rate)
  <1>1. /\ r.summary = (IF reached = "active" THEN Usage[a] ELSE <<>>)
        /\ r.browser = usage.browser /\ r.chargeable = usage.chargeable /\ r.cost = usage.cost
    BY DEF EndedRow
  <1>2. m.occupied \in Nat /\ m.connected \in Nat /\ m.connected <= m.occupied
    BY UsageAssumption
  <1>3. /\ Addable(Usage[a], DOMAIN Usage[a], "count")
        /\ Addable(Usage[a], DOMAIN Usage[a], "ms")
    BY UsageAssumption DEF Addable
  <1>4. Addable(<<>>, DOMAIN <<>>, "count") /\ Addable(<<>>, DOMAIN <<>>, "ms")
    <2>1. DOMAIN <<>> = {}
      OBVIOUS
    <2> QED
      BY <2>1, FS_EmptySet DEF Addable
  <1>5. Addable(r.summary, DOMAIN r.summary, "count") /\ Addable(r.summary, DOMAIN r.summary, "ms")
    <2> HIDE DEF r
    <2>1. CASE reached = "active"
      <3>1. r.summary = Usage[a]
        BY <1>1, <2>1
      <3> QED
        BY <1>3, <3>1
    <2>2. CASE reached # "active"
      <3>1. r.summary = <<>>
        BY <1>1, <2>2
      <3> QED
        BY <1>4, <3>1
    <2> QED
      BY <2>1, <2>2
  <1>6. /\ r.browser \in Nat /\ r.chargeable \in Nat /\ r.cost \in Nat
        /\ r.browser <= r.chargeable
    <2> DEFINE occupied == IF reached = "waiting" THEN 0 ELSE m.occupied
    <2>1. /\ r.browser = (IF reached = "active" THEN m.connected ELSE 0)
          /\ r.chargeable = occupied /\ r.cost = (occupied * rate + 999) \div 1000
      <3> HIDE DEF r, m
      <3> QED
        BY <1>1 DEF Finalized
    <2>2. occupied \in Nat
      BY <1>2
    <2>3. r.browser \in Nat /\ r.browser <= occupied
      <3> HIDE DEF r, m
      <3> QED
        BY <1>2, <2>1
    <2> HIDE DEF occupied
    <2>4. occupied * rate \in Nat
      BY <2>2
    <2>5. (occupied * rate + 999) \div 1000 \in Nat
      <3>1. PICK n \in Nat : n = occupied * rate
        BY <2>4
      <3> QED
        BY <3>1
    <2> QED
      BY <2>1, <2>2, <2>3, <2>5
  <1> QED
    BY <1>5, <1>6 DEF RowOK

\* An attempt ends: the rows of the others stay as they are.
LEMMA EndedCosts ==
    ASSUME CostsOK, NEW a \in Attempts, FinishAttempt(a)
    PROVE  CostsOK'
  <1>1. PICK reached \in {"waiting", "acquiring", "active"} :
          final' = [b \in finished \cup {a} |->
                      IF b = a THEN EndedRow(a, reached) ELSE final[b]]
    BY DEF FinishAttempt
  <1>2. /\ a \notin finished
        /\ UNCHANGED <<rate, costDone, summaryDone, domainStat, folded>>
    BY DEF FinishAttempt, rateVars
  <1>3. RowOK(EndedRow(a, reached))
    BY EndedRowOK DEF CostsOK
  <1>4. /\ finished' = finished \cup {a} /\ final'[a] = EndedRow(a, reached)
        /\ \A b \in finished : final'[b] = final[b]
    BY <1>1, <1>2 DEF finished
  <1>5. \A b \in finished' : RowOK(final'[b])
    <2>1. ASSUME NEW b \in finished'
          PROVE  RowOK(final'[b])
      <3>1. CASE b = a
        BY <1>3, <1>4, <3>1
      <3>2. CASE b \in finished
        <4>1. final'[b] = final[b] /\ RowOK(final[b])
          BY <1>4, <3>2 DEF CostsOK
        <4> QED
          BY <4>1
      <3> QED
        BY <1>4, <3>1, <3>2
    <2> QED
      BY <2>1
  <1>6. folded' \in Seq(finished')
    BY <1>2, <1>4, SeqOver DEF CostsOK
  <1>7. SumOf(final', costDone, "cost") = SumOf(final, costDone, "cost")
    <2>1. Addable(final, costDone, "cost")
      BY CostsAddable DEF CostsOK
    <2>2. \A b \in costDone : final'[b]["cost"] = final[b]["cost"]
      BY <1>4 DEF CostsOK
    <2> QED
      BY <2>1, <2>2, SumAgrees
  <1>8. costDone' \subseteq finished'
    BY <1>2, <1>4 DEF CostsOK
  <1>9. \A b \in finished' : RowOK(final[b])'
    BY <1>5 DEF RowOK, Addable
  <1> QED
    BY <1>2, <1>6, <1>7, <1>8, <1>9 DEF CostsOK

\* A batch is projected: the attempts that are added have ended and were not
\* added before.
LEMMA ProjectedCosts ==
    ASSUME Inv, CostsOK, ProjectAttempts
    PROVE  CostsOK'
  <1> DEFINE costly == {a \in CostProjectedWith : CostDue(a)}
             due == {a \in Summarised : SummaryDue(a)}
             summed == SetToSeq(due)
  <1>1. /\ UNCHANGED <<final, rate>>
        /\ costDone' = costDone \cup costly
        /\ domainStat' = [count |-> domainStat.count + Cardinality(costly),
                          cost |-> domainStat.cost + SumOf(final, costly, "cost")]
        /\ summaryDone' = summaryDone \cup ToSet(summed)
        /\ folded' = folded \o summed
    BY DEF ProjectAttempts, rateVars
  <1>2. IsFiniteSet(costly) /\ IsFiniteSet(due)
    <2>1. IsFiniteSet(CostProjectedWith) /\ IsFiniteSet(Summarised)
      BY BatchIsFinite, FS_Union DEF CostProjectedWith
    <2> QED
      BY <2>1, FS_Subset
  <1>3. /\ costly \subseteq finished /\ costDone \cap costly = {}
        /\ due \subseteq finished /\ summaryDone \cap due = {}
    BY DEF CostDue, SummaryDue
  <1>4. /\ summed \in Seq(finished) /\ ToSet(summed) = due
        /\ \A i, j \in DOMAIN summed : summed[i] = summed[j] => i = j
    BY <1>2, <1>3, SetToSeqLists, SeqOver
  <1> HIDE DEF costly, due, summed
  <1>5. finished' = finished
    BY <1>1 DEF finished
  <1>6. folded' \in Seq(finished') /\ ToSet(folded') = summaryDone'
    BY <1>1, <1>4, <1>5, AfterConcat DEF CostsOK
  <1>7. \A i, j \in DOMAIN folded' : folded'[i] = folded'[j] => i = j
    <2>1. /\ folded \in Seq(finished) /\ ToSet(folded) \cap ToSet(summed) = {}
          /\ \A i, j \in DOMAIN folded : folded[i] = folded[j] => i = j
      BY <1>3, <1>4 DEF CostsOK
    <2>2. \A i, j \in DOMAIN (folded \o summed) :
            (folded \o summed)[i] = (folded \o summed)[j] => i = j
      BY <1>4, <2>1, ConcatRepeatsNothing
    <2> QED
      BY <1>1, <2>2
  <1>8. costDone' \subseteq finished' /\ IsFiniteSet(costDone')
    BY <1>1, <1>2, <1>3, <1>5, FS_Union DEF CostsOK
  <1>9. domainStat' = [count |-> Cardinality(costDone'), cost |-> SumOf(final', costDone', "cost")]
    <2>1. Cardinality(costDone \cup costly) = Cardinality(costDone) + Cardinality(costly)
      <3>1. IsFiniteSet(costDone) /\ Cardinality(costDone) \in Nat /\ Cardinality(costly) \in Nat
        BY <1>2, FS_CardinalityType DEF CostsOK
      <3>2. Cardinality(costDone \cap costly) = 0
        BY <1>3, FS_EmptySet
      <3>3. Cardinality(costDone \cup costly)
              = Cardinality(costDone) + Cardinality(costly) - Cardinality(costDone \cap costly)
        BY <1>2, <3>1, FS_Union
      <3> QED
        BY <3>1, <3>2, <3>3
    <2>2. SumOf(final, costDone \cup costly, "cost")
            = SumOf(final, costDone, "cost") + SumOf(final, costly, "cost")
      <3>1. Addable(final, costDone, "cost") /\ Addable(final, costly, "cost")
        BY <1>2, <1>3, CostsAddable DEF CostsOK
      <3> QED
        BY <1>3, <3>1, SumOfUnion
    <2>3. domainStat.count = Cardinality(costDone) /\ domainStat.cost = SumOf(final, costDone, "cost")
      BY DEF CostsOK
    <2> QED
      BY <1>1, <2>1, <2>2, <2>3
  <1>10. \A b \in finished' : RowOK(final[b])'
    BY <1>1, <1>5 DEF CostsOK, RowOK, Addable
  <1> QED
    BY <1>1, <1>6, <1>7, <1>8, <1>9, <1>10 DEF CostsOK

\* Nothing else touches the attempts or their aggregates.
LEMMA OtherCosts ==
    ASSUME CostsOK, Next \/ UNCHANGED vars, ~ ProjectAttempts,
           ~ \E a \in Attempts : FinishAttempt(a)
    PROVE  CostsOK'
  <1>1. /\ UNCHANGED <<final, costDone, summaryDone, domainStat, folded>>
        /\ rate' \in {rate} \cup Rates
    <2> USE DEF attemptVars, rateVars
    <2>1. CASE \E r \in Rates : UpdateRate(r)
      BY <2>1 DEF UpdateRate
    <2>2. CASE (\E e \in Events : Emit(e)) \/ PurgeEvents
      BY <2>2 DEF Emit, PurgeEvents
    <2>3. CASE Outbox \/ OutboxIdle
      BY <2>3 DEF Outbox, OutboxSelect, OutboxPublish, OutboxCommit, OutboxFails, OutboxIdle, vars
    <2>4. CASE Topology \/ WorkerStarts \/ WorkerReady \/ WorkerFails \/ StreamLost
      BY <2>4 DEF Topology, CreateStream, Rehydrate, WorkerStarts, WorkerReady, WorkerFails,
                  StreamLost
    <2>5. CASE Fetch \/ Reject \/ RecordRows \/ Ack \/ RecorderFails
      BY <2>5 DEF Fetch, Reject, RecordRows, Ack, RecorderFails
    <2>6. CASE (\E i \in DOMAIN stream : AckWaitExpires(i)) \/ UNCHANGED vars
      BY <2>6 DEF AckWaitExpires, vars
    <2> QED
      BY <2>1, <2>2, <2>3, <2>4, <2>5, <2>6 DEF Next, Recorder
  <1>2. rate' \in Nat
    BY <1>1, PipelineAssumption DEF CostsOK
  <1>3. finished' = finished
    BY <1>1 DEF finished
  <1>4. \A b \in finished' : RowOK(final[b])'
    BY <1>1, <1>3 DEF CostsOK, RowOK, Addable
  <1> QED
    BY <1>1, <1>2, <1>3, <1>4 DEF CostsOK

-----------------------------------------------------------------------------
(* The theorems.                                                           *)

\* Nothing is published, fetched, recorded or acknowledged that did not
\* happen, or before the stream has taken it, in every reachable state.
LEMMA Invariance == Spec => []Inv
  <1>1. Init => Inv
    <2> SUFFICES ASSUME Init
                 PROVE  Inv
      OBVIOUS
    <2>1. SourcesOK
      BY DEF Init, SourcesOK, IdleOutbox
    <2>2. StreamOK
      BY DEF Init, StreamOK
    <2>3. BatchOK
      BY FS_EmptySet DEF Init, BatchOK, IdleRecorder
    <2>4. finished = {}
      BY DEF Init, finished
    <2>5. AttemptsOK /\ OutboxNotLost
      BY <2>4 DEF Init, AttemptsOK, OutboxNotLost
    <2>6. HandledOK
      BY DEF Init, HandledOK, IdleRecorder
    <2> QED
      BY <2>1, <2>2, <2>3, <2>5, <2>6 DEF Inv
  <1>2. Inv /\ [Next]_vars => Inv'
    BY QuietActions, StreamLostStep, PublishingActions, EmitStep, FinishAttemptStep, FetchStep,
       GivenBackStep, AckStep, RecordRowsStep, ProjectAttemptsStep, PurgeEventsStep
       DEF Next, Outbox, Topology, Recorder
  <1> QED
    BY <1>1, <1>2, PTL DEF Spec

\* No event is lost on its way from the outbox through the stream into the
\* projections: published_at is never ahead of the publication, and once both
\* what locates an attempt and what ends it are acknowledged, in whichever
\* order, however often they were delivered and whatever failed in between,
\* its cost and its commands are in the aggregates.
THEOREM PipelineLosesNothing == Spec => []NothingLost
  <1>1. Inv => NothingLost
    <2> SUFFICES ASSUME Inv
                 PROVE  NothingLost
      OBVIOUS
    <2>1. \A e : Acked(e) => Handled(e)
      BY DEF Inv, HandledOK, Acked
    <2>2. AckedIsProjected
      <3>1. ASSUME NEW a \in Attempts, Acked(<<a, "closed">>)
            PROVE  a \in summaryDone /\ (Acked(<<a, "navigation">>) => a \in costDone)
        <4>1. a \in summaryDone
          BY <2>1, <3>1 DEF Handled
        <4>2. Acked(<<a, "navigation">>) => a \in domainOf
          BY <2>1 DEF Handled
        <4> QED
          BY <4>1, <4>2 DEF Inv, AttemptsOK
      <3> QED
        BY <3>1 DEF AckedIsProjected
    <2> QED
      BY <2>2 DEF Inv, NothingLost
  <1> QED
    BY <1>1, Invariance, PTL

\* Every attempt is counted once: whatever was redelivered, published twice or
\* cut off between two transactions, the aggregates hold exactly the cost, the
\* browser time and the commands of the attempts marked as projected, at the
\* rates they ended under, however the shares of their methods were rounded and
\* whichever methods had to share a row.
THEOREM EachAttemptProjectedOnce == Spec => []ProjectedOnce
  <1>1. Init => CostsOK
    <2> SUFFICES ASSUME Init
                 PROVE  CostsOK
      OBVIOUS
    <2>1. finished = {} /\ rate \in Nat
      BY PipelineAssumption DEF Init, finished
    <2>2. folded = <<>> /\ summaryDone = {} /\ costDone = {} /\ domainStat = [count |-> 0, cost |-> 0]
      BY DEF Init
    <2>3. ToSet(<<>>) = {}
      BY DEF ToSet
    <2>4. IsFiniteSet({}) /\ Cardinality({}) = 0 /\ SumOf(final, {}, "cost") = 0
      BY FS_EmptySet, SumOfNone
    <2> QED
      BY <2>1, <2>2, <2>3, <2>4 DEF CostsOK
  <1>2. Inv /\ CostsOK /\ [Next]_vars => CostsOK'
    BY EndedCosts, ProjectedCosts, OtherCosts
  <1>3. CostsOK => ProjectedOnce
    <2> SUFFICES ASSUME CostsOK
                 PROVE  ProjectedOnce
      OBVIOUS
    <2>1. \A a \in finished : RowOK(final[a])
      BY DEF CostsOK
    <2>2. /\ \A f \in Fields : Addable(Amounts, summaryDone, f)
          /\ \A f \in Fields :
                 Total(Stats, f) = Total(EarlierStats, f) + SumOf(Amounts, summaryDone, f)
          /\ \A f \in Fields : Total(EarlierStats, f) \in Nat
      BY <2>1, StatsAre DEF CostsOK
    <2>3. \A f \in Fields : Added(f) = SumOf(Amounts, summaryDone, f)
      <3>1. ASSUME NEW f \in Fields
            PROVE  Added(f) = SumOf(Amounts, summaryDone, f)
        <4>1. SumOf(Amounts, summaryDone, f) \in Nat
          BY <2>2, AddableRows
        <4> QED
          BY <2>2, <4>1 DEF Added
      <3> QED
        BY <3>1
    <2>4. summaryDone \subseteq finished
      BY DEF CostsOK, ToSet
    <2>5. \A a \in summaryDone :
            /\ Amounts[a]["cost"] = final[a]["cost"]
            /\ Amounts[a]["ms"] = final[a]["browser"]
            /\ Amounts[a]["count"] = CommandsOf[a]["count"]
      BY <2>4 DEF Amounts, Amount, CommandsOf
    <2>6. SumOf(final, summaryDone, "cost") = SumOf(Amounts, summaryDone, "cost")
      BY <2>2, <2>5, SumAgrees DEF Fields
    <2>7. SumOf(final, summaryDone, "browser") = SumOf(Amounts, summaryDone, "ms")
      BY <2>2, <2>5, SumAgrees DEF Fields
    <2>8. SumOf(CommandsOf, summaryDone, "count") = SumOf(Amounts, summaryDone, "count")
      BY <2>2, <2>5, SumAgrees DEF Fields
    <2> QED
      BY <2>3, <2>6, <2>7, <2>8 DEF ProjectedOnce, CostsOK, Fields
  <1> QED
    BY <1>1, <1>2, <1>3, Invariance, PTL DEF Spec
=============================================================================
