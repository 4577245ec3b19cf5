----------------------------- MODULE GraphProofs ----------------------------
(***************************************************************************)
(* A graph keeps what its lists promise, whatever is inserted, deleted and *)
(* compacted, and a walk over one holds the nearest of what it has seen.   *)
(*                                                                         *)
(* The loops of the code are folds (InTurn).  What one ends in is proved   *)
(* by naming a family of sets S[0], S[1] .. that each of its steps moves   *)
(* along by one: a lemma named after the loop, with In at the end, for     *)
(* each, since a lemma with the step as a parameter could not be used.     *)
(***************************************************************************)
EXTENDS HnswGraph, Loops, FiniteSetTheorems, TLAPS

-----------------------------------------------------------------------------
(* Candidates in their order.                                              *)

\* Every node has a vector.
Placed(g) == g.at \in Seq(Points)

\* Distances have an order, a NaN the last of them.
LEMMA PrecedesOrders ==
  /\ \A x, y \in Distances : Precedes(x, y) => ~Precedes(y, x) /\ x # y
  /\ \A x, y \in Distances : x = y \/ Precedes(x, y) \/ Precedes(y, x)
  /\ \A x, y, z \in Distances : Precedes(x, y) /\ Precedes(y, z) => Precedes(x, z)
BY DistanceAssumption DEF Distances, Precedes

\* Where neither is a NaN, less is before.
LEMMA LessPrecedes ==
  /\ \A x, y \in Distances : Less(x, y) => x # Undefined /\ y # Undefined
  /\ \A x, y \in Distances : y # Undefined /\ ~Less(x, y) => ~Precedes(x, y)
  /\ \A x, y \in Distances : y # Undefined /\ ~Precedes(y, x) => x # Undefined
BY DistanceAssumption DEF Distances, Precedes, Less

\* The order of candidates is strict and total: equal distances fall to the ids.
LEMMA NearerOrders ==
  ASSUME NEW g, Placed(g), NEW p \in Points
  PROVE  /\ \A a \in Ids(g) : Away(g, p, a) \in Distances /\ a \in Nat \ {0}
         /\ \A a, b \in Ids(g) : Nearer(g, p, a, b) => ~Precedes(Away(g, p, b), Away(g, p, a))
         /\ \A a, b \in Ids(g) : Nearer(g, p, a, b) => ~Nearer(g, p, b, a) /\ a # b
         /\ \A a, b \in Ids(g) : a = b \/ Nearer(g, p, a, b) \/ Nearer(g, p, b, a)
         /\ \A a, b, c \in Ids(g) :
              Nearer(g, p, a, b) /\ Nearer(g, p, b, c) => Nearer(g, p, a, c)
<1>1. \A a \in Ids(g) : Away(g, p, a) \in Distances /\ a \in Nat \ {0}
  BY DistanceAssumption DEF Placed, Ids, Size, Away
<1> DEFINE far(a) == Away(g, p, a)
<1>2. \A a, b : Nearer(g, p, a, b) <=> (Precedes(far(a), far(b)) \/ (far(a) = far(b) /\ a < b))
  BY DEF Nearer
<1> HIDE DEF far
<1>3. \A a \in Ids(g) : far(a) \in Distances /\ a \in Nat \ {0}
  BY <1>1 DEF far
<1>4. \A a, b \in Ids(g) : Nearer(g, p, a, b) => ~Precedes(far(b), far(a))
  BY <1>2, <1>3, PrecedesOrders
<1>5. \A a, b \in Ids(g) : Nearer(g, p, a, b) => ~Nearer(g, p, b, a) /\ a # b
  BY <1>2, <1>3, PrecedesOrders
<1>6. \A a, b \in Ids(g) : a = b \/ Nearer(g, p, a, b) \/ Nearer(g, p, b, a)
  BY <1>2, <1>3, PrecedesOrders
<1>7. \A a, b, c \in Ids(g) :
        Nearer(g, p, a, b) /\ Nearer(g, p, b, c) => Nearer(g, p, a, c)
  <2> SUFFICES ASSUME NEW a \in Ids(g), NEW b \in Ids(g), NEW c \in Ids(g),
                      Nearer(g, p, a, b), Nearer(g, p, b, c)
               PROVE  Nearer(g, p, a, c)
    OBVIOUS
  <2>1. CASE Precedes(far(a), far(b)) \/ Precedes(far(b), far(c))
    BY <1>2, <1>3, <2>1, PrecedesOrders
  <2>2. CASE ~Precedes(far(a), far(b)) /\ ~Precedes(far(b), far(c))
    BY <1>2, <1>3, <2>2
  <2> QED BY <2>1, <2>2
<1> QED BY <1>3, <1>4, <1>5, <1>6, <1>7 DEF far

\* The ids of a graph are finitely many, as many as its size.
LEMMA IdsFinite ==
  ASSUME NEW g, Placed(g)
  PROVE  /\ Size(g) \in Nat /\ IsFiniteSet(Ids(g)) /\ Cardinality(Ids(g)) = Size(g)
         /\ \A S \in SUBSET Ids(g) : IsFiniteSet(S) /\ Cardinality(S) \in Nat
<1>1. Size(g) \in Nat /\ IsFiniteSet(Ids(g)) /\ Cardinality(Ids(g)) = Size(g)
  BY FS_Interval DEF Placed, Ids, Size
<1> QED BY <1>1, FS_Subset, FS_CardinalityType

\* How many of S come before a.
Ahead(g, p, S, a) == {b \in S : Nearer(g, p, b, a)}

\* The nearer of two candidates has fewer ahead of it.
LEMMA RanksGrow ==
  ASSUME NEW g, Placed(g), NEW p \in Points, NEW S \in SUBSET Ids(g), NEW a \in S, NEW b \in S,
         Nearer(g, p, a, b)
  PROVE  Cardinality(Ahead(g, p, S, a)) < Cardinality(Ahead(g, p, S, b))
<1>1. Ahead(g, p, S, a) \subseteq Ahead(g, p, S, b) /\ a \in Ahead(g, p, S, b)
      /\ a \notin Ahead(g, p, S, a) /\ Ahead(g, p, S, b) \in SUBSET Ids(g)
  BY NearerOrders DEF Ahead
<1>2. Ahead(g, p, S, a) # Ahead(g, p, S, b)
  BY <1>1
<1> QED BY <1>1, <1>2, IdsFinite, FS_Subset

\* Every rank is somebody's.
LEMMA RankOnto ==
  ASSUME NEW g, Placed(g), NEW p \in Points, NEW S \in SUBSET Ids(g)
  PROVE  \A k \in 1 .. Cardinality(S) : \E a \in S : Cardinality(Ahead(g, p, S, a)) = k - 1
<1> DEFINE n == Cardinality(S)
           T == 0 .. n - 1
           rank == [a \in S |-> Cardinality(Ahead(g, p, S, a))]
<1>1. n \in Nat /\ IsFiniteSet(S)
  BY IdsFinite
<1>2. \A a \in S : rank[a] \in T
  <2> SUFFICES ASSUME NEW a \in S PROVE Cardinality(Ahead(g, p, S, a)) \in T
    OBVIOUS
  <2>1. Ahead(g, p, S, a) \in SUBSET S /\ a \notin Ahead(g, p, S, a)
    BY NearerOrders DEF Ahead
  <2>2. Ahead(g, p, S, a) # S
    BY <2>1
  <2> QED BY <1>1, <2>1, <2>2, FS_Subset, FS_CardinalityType
<1>3. \A a, b \in S : rank[a] = rank[b] => a = b
  <2> SUFFICES ASSUME NEW a \in S, NEW b \in S, a # b PROVE rank[a] # rank[b]
    OBVIOUS
  <2>1. Nearer(g, p, a, b) \/ Nearer(g, p, b, a)
    BY NearerOrders
  <2>2. rank[a] < rank[b] \/ rank[b] < rank[a]
    BY <2>1, RanksGrow
  <2> QED BY <1>2, <2>2
<1>4. rank \in Injection(S, T)
  BY <1>2, <1>3 DEF Injection, IsInjective
<1>5. IsFiniteSet(T) /\ Cardinality(T) = n
  BY <1>1, FS_Interval, SMTT(30)
<1>6. rank \in Surjection(S, T)
  BY <1>4, <1>5, FS_Injection
<1>7. \A k \in 1 .. n : k - 1 \in T
  BY <1>1
<1> QED BY <1>6, <1>7 DEF Surjection

\* Ranked lists every candidate once, the nearer first.
LEMMA RankedOK ==
  ASSUME NEW g, Placed(g), NEW p \in Points, NEW S \in SUBSET Ids(g)
  PROVE  LET r == Ranked(g, p, S) IN
         /\ Cardinality(S) \in Nat /\ r \in Seq(S) /\ Len(r) = Cardinality(S)
         /\ DOMAIN r = 1 .. Cardinality(S)
         /\ \A k \in 1 .. Cardinality(S) : r[k] \in S
         /\ \A a \in S : \E k \in 1 .. Cardinality(S) : r[k] = a
         /\ \A j, k \in 1 .. Cardinality(S) : j < k => Nearer(g, p, r[j], r[k])
<1> DEFINE n == Cardinality(S)
           rank(a) == Cardinality({b \in S : Nearer(g, p, b, a)})
           r == Ranked(g, p, S)
<1>1. n \in Nat
  BY IdsFinite
<1>2. r = [k \in 1 .. n |-> CHOOSE a \in S : rank(a) = k - 1]
  BY DEF Ranked
<1>3. \A a \in S : rank(a) = Cardinality(Ahead(g, p, S, a))
  BY DEF Ahead
<1> HIDE DEF rank, r, n
<1>4. \A k \in 1 .. n : r[k] \in S /\ rank(r[k]) = k - 1
  BY <1>2, <1>3, RankOnto DEF n
<1>5. r \in Seq(S) /\ Len(r) = n /\ DOMAIN r = 1 .. n
  BY <1>1, <1>2, <1>4
<1>6. \A a, b \in S : Nearer(g, p, a, b) => rank(a) < rank(b)
  BY <1>3, RanksGrow
<1>7. ASSUME NEW j \in 1 .. n, NEW k \in 1 .. n, j < k PROVE Nearer(g, p, r[j], r[k])
  <2>1. r[j] \in S /\ r[k] \in S /\ rank(r[j]) < rank(r[k])
    BY <1>1, <1>4, <1>7
  <2>2. ~Nearer(g, p, r[k], r[j]) /\ r[j] # r[k]
    BY <1>1, <1>4, <1>6, <2>1
  <2> QED BY <2>1, <2>2, NearerOrders
<1>8. ASSUME NEW a \in S PROVE \E k \in 1 .. n : r[k] = a
  <2>1. rank(a) \in 0 .. n - 1
    <3>1. Ahead(g, p, S, a) \in SUBSET S /\ a \notin Ahead(g, p, S, a)
      BY NearerOrders DEF Ahead
    <3>2. Ahead(g, p, S, a) # S
      BY <3>1, <1>8
    <3> QED BY <1>3, <3>1, <3>2, IdsFinite, FS_Subset, FS_CardinalityType DEF n
  <2>2. rank(a) + 1 \in 1 .. n
    BY <1>1, <2>1
  <2>3. r[rank(a) + 1] \in S /\ rank(r[rank(a) + 1]) = rank(a)
    BY <1>4, <2>1, <2>2
  <2>4. r[rank(a) + 1] = a
    <3>1. r[rank(a) + 1] = a \/ Nearer(g, p, r[rank(a) + 1], a) \/ Nearer(g, p, a, r[rank(a) + 1])
      BY <2>3, NearerOrders
    <3> QED BY <1>6, <2>1, <2>3, <3>1
  <2> QED BY <2>2, <2>4
<1> QED BY <1>1, <1>4, <1>5, <1>7, <1>8 DEF n, r

\* The ends of the order.
LEMMA NearestOK ==
  ASSUME NEW g, Placed(g), NEW p \in Points, NEW S \in SUBSET Ids(g), S # {}
  PROVE  /\ Nearest(g, p, S) \in S
         /\ \A b \in S \ {Nearest(g, p, S)} : Nearer(g, p, Nearest(g, p, S), b)
<1> DEFINE n == Cardinality(S)
           r == Ranked(g, p, S)
<1>1. /\ n \in Nat /\ \A k \in 1 .. n : r[k] \in S
      /\ \A a \in S : \E k \in 1 .. n : r[k] = a
      /\ \A j, k \in 1 .. n : j < k => Nearer(g, p, r[j], r[k])
  BY RankedOK
<1> HIDE DEF n, r
<1>2. 1 \in 1 .. n
  BY <1>1
<1>3. \A b \in S \ {r[1]} : Nearer(g, p, r[1], b)
  BY <1>1, <1>2
<1> QED BY <1>1, <1>2, <1>3 DEF Nearest

\* A candidate of a set is the farthest of it.
LEMMA FarthestOK ==
  ASSUME NEW g, Placed(g), NEW p \in Points, NEW S \in SUBSET Ids(g), S # {}
  PROVE  /\ Farthest(g, p, S) \in S
         /\ \A b \in S \ {Farthest(g, p, S)} : Nearer(g, p, b, Farthest(g, p, S))
<1> DEFINE n == Cardinality(S)
           r == Ranked(g, p, S)
<1>1. /\ n \in Nat /\ \A k \in 1 .. n : r[k] \in S
      /\ \A a \in S : \E k \in 1 .. n : r[k] = a
      /\ \A j, k \in 1 .. n : j < k => Nearer(g, p, r[j], r[k])
  BY RankedOK
<1> HIDE DEF n, r
<1>2. n \in 1 .. n
  BY <1>1
<1>3. \A b \in S \ {r[n]} : Nearer(g, p, b, r[n])
  BY <1>1, <1>2
<1> QED BY <1>1, <1>2, <1>3 DEF Farthest

-----------------------------------------------------------------------------
(* Sequences without repetition.                                           *)

\* No element comes twice.
Distinct(s) == \A j, k \in 1 .. Len(s) : s[j] = s[k] => j = k

\* A sequence without repetition is as long as it has elements.
LEMMA DistinctLen ==
  ASSUME NEW s, s \in Seq(ToSet(s)), Distinct(s)
  PROVE  IsFiniteSet(ToSet(s)) /\ Cardinality(ToSet(s)) = Len(s)
<1> DEFINE n == Len(s)
<1>1. n \in Nat /\ DOMAIN s = 1 .. n /\ s \in [1 .. n -> ToSet(s)]
  OBVIOUS
<1>2. \A x \in ToSet(s) : \E k \in 1 .. n : s[k] = x
  BY <1>1 DEF ToSet
<1>3. s \in Injection(1 .. n, ToSet(s)) /\ s \in Surjection(1 .. n, ToSet(s))
  BY <1>1, <1>2 DEF Distinct, Injection, IsInjective, Surjection
<1>4. IsFiniteSet(1 .. n) /\ Cardinality(1 .. n) = n
  BY <1>1, FS_Interval, SMTT(30)
<1> QED BY <1>3, <1>4, FS_Surjection, SMTT(30)

\* One element more.
LEMMA AppendOK ==
  ASSUME NEW X, NEW c \in Seq(X), NEW e \in X
  PROVE  /\ Append(c, e) \in Seq(X) /\ Len(c) \in Nat /\ Len(Append(c, e)) = Len(c) + 1
         /\ \A j \in 1 .. Len(c) : Append(c, e)[j] = c[j]
         /\ Append(c, e)[Len(c) + 1] = e
         /\ \A j \in 1 .. Len(Append(c, e)) : j \in 1 .. Len(c) \/ j = Len(c) + 1
OBVIOUS

\* What is new is no repetition.
LEMMA DistinctAppend ==
  ASSUME NEW X, NEW c \in Seq(X), NEW e \in X, Distinct(c), \A j \in 1 .. Len(c) : c[j] # e
  PROVE  Distinct(Append(c, e))
<1> DEFINE d == Append(c, e)
<1>1. /\ \A j \in 1 .. Len(c) : d[j] = c[j]
      /\ d[Len(c) + 1] = e
      /\ \A j \in 1 .. Len(d) : j \in 1 .. Len(c) \/ j = Len(c) + 1
  BY AppendOK
<1> HIDE DEF d
<1>2. Distinct(d)
  BY <1>1 DEF Distinct
<1> QED BY <1>2 DEF d

\* No candidate is ranked twice.
LEMMA RankedDistinct ==
  ASSUME NEW g, Placed(g), NEW p \in Points, NEW S \in SUBSET Ids(g)
  PROVE  Distinct(Ranked(g, p, S))
<1> DEFINE r == Ranked(g, p, S)
           n == Len(r)
<1>1. /\ n \in Nat /\ \A k \in 1 .. n : r[k] \in Ids(g)
      /\ \A i, j \in 1 .. n : i < j => Nearer(g, p, r[i], r[j])
  BY RankedOK
<1> HIDE DEF n, r
<1>2. \A i, j \in 1 .. n : i < j => r[i] # r[j]
  BY <1>1, NearerOrders
<1>3. \A i, j \in 1 .. n : r[i] = r[j] => i = j
  BY <1>1, <1>2
<1> QED BY <1>3 DEF Distinct, n, r

\* One step of Select.
SelectStep(T, r, x) == IF x \in T THEN Append(r, x) ELSE r

\* What Select ends in, when every element keeps to a family of sets.
LEMMA SelectIn ==
  ASSUME NEW s, NEW T, Len(s) \in Nat, NEW S,
         <<>> \in S[0],
         \A k \in 1 .. Len(s) : \A c \in S[k - 1] : SelectStep(T, c, s[k]) \in S[k]
  PROVE  Select(s, T) \in S[Len(s)]
<1> DEFINE Step(c, x) == SelectStep(T, c, x)
           first == <<>>
           Eq(f, q) == f = [k \in 0 .. Len(q) |-> IF k = 0 THEN first ELSE
                                CHOOSE r \in {Step(c, q[k]) : c \in {f[k - 1]}} : TRUE]
           Through(q) == (CHOOSE f : Eq(f, q))[Len(q)]
           n == Len(s)
           F == [x \in (UNION {S[k] : k \in 0 .. n}) \X (1 .. n) |-> Step(x[1], s[x[2]])]
<1>1. Select(s, T) = CHOOSE r \in {Through(q) : q \in {s}} : TRUE
  BY DEF Select, InTurn, SelectStep
<1>2. /\ n \in Nat /\ first \in S[0]
      /\ \A k \in 1 .. n : \A c \in S[k - 1] : Step(c, s[k]) \in S[k]
  OBVIOUS
<1> HIDE DEF Step, n, first
<1>3. Select(s, T) = Through(s)
  <2> HIDE DEF Through
  <2> QED BY <1>1, Once
<1>4. \A k \in 1 .. n : \A c \in S[k - 1] : F[<<c, k>>] = Step(c, s[k])
  <2> SUFFICES ASSUME NEW k \in 1 .. n, NEW c \in S[k - 1] PROVE F[<<c, k>>] = Step(c, s[k])
    OBVIOUS
  <2>1. <<c, k>> \in (UNION {S[j] : j \in 0 .. n}) \X (1 .. n)
    BY <1>2
  <2> QED BY <2>1
<1> HIDE DEF F
<1>5. PICK run : Runs(run, first, F, n) /\ \A k \in 0 .. n : run[k] \in S[k]
  <2>1. \A k \in 1 .. n : \A c \in S[k - 1] : F[<<c, k>>] \in S[k]
    BY <1>2, <1>4
  <2> QED BY <1>2, <2>1, RunIn
<1>6. \A f, k : (CHOOSE r \in {Step(c, s[k]) : c \in {f[k - 1]}} : TRUE) = Step(f[k - 1], s[k])
  BY Once
<1>7. Eq(run, s)
  <2>1. \A k \in 1 .. n : run[k] = Step(run[k - 1], s[k])
    <3>1. \A k \in 1 .. n : run[k - 1] \in S[k - 1]
      BY <1>2, <1>5
    <3> QED BY <1>4, <1>5, <3>1 DEF Runs
  <2>2. \A k \in 0 .. n : run[k] = IF k = 0 THEN first ELSE
          CHOOSE r \in {Step(c, s[k]) : c \in {run[k - 1]}} : TRUE
    <3> SUFFICES ASSUME NEW k \in 0 .. n
                 PROVE  run[k] = IF k = 0 THEN first ELSE
                          CHOOSE r \in {Step(c, s[k]) : c \in {run[k - 1]}} : TRUE
      OBVIOUS
    <3>1. CASE k = 0
      BY <1>5, <3>1 DEF Runs
    <3>2. CASE k # 0
      <4>1. run[k] = Step(run[k - 1], s[k])
        BY <1>2, <2>1, <3>2
      <4>2. (CHOOSE r \in {Step(c, s[k]) : c \in {run[k - 1]}} : TRUE) = Step(run[k - 1], s[k])
        BY <1>6
      <4> QED BY <3>2, <4>1, <4>2
    <3> QED BY <3>1, <3>2
  <2>3. run = [k \in 0 .. n |-> run[k]]
    BY <1>5 DEF Runs
  <2> QED BY <2>2, <2>3 DEF n
<1> DEFINE after == CHOOSE f : Eq(f, s)
<1>8. Eq(after, s)
  <2> HIDE DEF Eq
  <2> QED BY <1>7
<1> HIDE DEF after
<1>9. after[0] = first /\ \A k \in 1 .. n : after[k] = Step(after[k - 1], s[k])
  BY <1>2, <1>6, <1>8 DEF n
<1>10. \A k \in 0 .. n : after[k] \in S[k]
  BY <1>2, <1>9, RunStays
<1> QED BY <1>2, <1>3, <1>10 DEF n, after, first

\* Select keeps exactly the elements of the set, and repeats none.
LEMMA SelectOK ==
  ASSUME NEW X, NEW s \in Seq(X), NEW T
  PROVE  LET r == Select(s, T) IN
         /\ r \in Seq(X \cap T) /\ ToSet(r) = ToSet(s) \cap T
         /\ Distinct(s) => Distinct(r)
<1> DEFINE n == Len(s)
           So(k) == {r \in Seq(X \cap T) :
                       /\ \A j \in 1 .. Len(r) : \E i \in 1 .. k : s[i] = r[j]
                       /\ \A i \in 1 .. k : s[i] \in T => \E j \in 1 .. Len(r) : r[j] = s[i]
                       /\ Distinct(s) => Distinct(r)}
           Y == [k \in 0 .. n |-> So(k)]
<1>1. n \in Nat /\ DOMAIN s = 1 .. n /\ \A k \in 1 .. n : s[k] \in X
  OBVIOUS
<1>2. Distinct(s) <=> \A j, k \in 1 .. n : s[j] = s[k] => j = k
  BY DEF Distinct
<1> HIDE DEF n
<1>3. \A k \in 0 .. n : Y[k] = So(k)
  OBVIOUS
<1> HIDE DEF Y
<1>4. <<>> \in Y[0]
  <2>1. <<>> \in Seq(X \cap T) /\ Len(<<>>) = 0 /\ Distinct(<<>>)
    BY DEF Distinct
  <2>2. <<>> \in So(0)
    BY <2>1
  <2> HIDE DEF So
  <2> QED BY <1>1, <1>3, <2>2
<1>5. ASSUME NEW k \in 1 .. n, NEW c \in Y[k - 1] PROVE SelectStep(T, c, s[k]) \in Y[k]
  <2>1. s[k] \in X /\ k \in 0 .. n /\ k - 1 \in 0 .. n
    BY <1>1
  <2>2. Y[k] = So(k) /\ c \in So(k - 1)
    BY <1>3, <1>5, <2>1
  <2>3. CASE s[k] \notin T
    <3>1. c \in So(k)
      BY <2>1, <2>2, <2>3
    <3> QED BY <2>2, <2>3, <3>1 DEF SelectStep
  <2>4. CASE s[k] \in T
    <3> DEFINE r == Append(c, s[k])
    <3>1. s[k] \in X \cap T /\ c \in Seq(X \cap T)
      BY <2>1, <2>2, <2>4
    <3>2. /\ r \in Seq(X \cap T) /\ Len(c) \in Nat /\ Len(r) = Len(c) + 1
          /\ \A j \in 1 .. Len(c) : r[j] = c[j]
          /\ r[Len(c) + 1] = s[k]
          /\ \A j \in 1 .. Len(r) : j \in 1 .. Len(c) \/ j = Len(c) + 1
      BY <3>1, AppendOK
    <3>3. Distinct(s) => Distinct(r)
      <4> SUFFICES ASSUME Distinct(s) PROVE Distinct(r)
        OBVIOUS
      <4>1. \A j \in 1 .. Len(c) : c[j] # s[k]
        <5> SUFFICES ASSUME NEW j \in 1 .. Len(c), c[j] = s[k] PROVE FALSE
          OBVIOUS
        <5>1. PICK i \in 1 .. k - 1 : s[i] = c[j]
          BY <2>2
        <5> QED BY <1>1, <1>2, <5>1
      <4> QED BY <2>2, <3>1, <4>1, DistinctAppend
    <3>4. r = SelectStep(T, c, s[k])
      BY <2>4 DEF SelectStep
    <3> HIDE DEF r
    <3>5. ASSUME NEW j \in 1 .. Len(r) PROVE \E i \in 1 .. k : s[i] = r[j]
      <4>1. CASE j \in 1 .. Len(c)
        <5>1. PICK i \in 1 .. k - 1 : s[i] = c[j]
          BY <2>2, <4>1
        <5> QED BY <2>1, <3>2, <4>1, <5>1
      <4> QED BY <2>1, <3>2, <4>1
    <3>6. ASSUME NEW i \in 1 .. k, s[i] \in T PROVE \E j \in 1 .. Len(r) : r[j] = s[i]
      <4>1. CASE i = k
        BY <3>2, <4>1
      <4>2. CASE i # k
        <5>1. PICK j \in 1 .. Len(c) : c[j] = s[i]
          BY <2>1, <2>2, <3>6, <4>2
        <5> QED BY <3>2, <5>1
      <4> QED BY <4>1, <4>2
    <3>7. r \in So(k)
      BY <3>2, <3>3, <3>5, <3>6
    <3> QED BY <2>2, <3>4, <3>7
  <2> QED BY <2>3, <2>4
<1>6. Select(s, T) \in So(n)
  <2>1. Select(s, T) \in Y[n]
    <3> HIDE DEF So
    <3> QED BY <1>1, <1>4, <1>5, SelectIn DEF n
  <2> HIDE DEF So
  <2> QED BY <1>1, <1>3, <2>1
<1> DEFINE r == Select(s, T)
<1>7. /\ r \in Seq(X \cap T) /\ DOMAIN r = 1 .. Len(r)
      /\ \A j \in 1 .. Len(r) : \E i \in 1 .. n : s[i] = r[j]
      /\ \A i \in 1 .. n : s[i] \in T => \E j \in 1 .. Len(r) : r[j] = s[i]
      /\ Distinct(s) => Distinct(r)
  BY <1>6
<1> HIDE DEF r
<1>8. \A j \in 1 .. Len(r) : r[j] \in T
  BY <1>7
<1>9. ToSet(r) = ToSet(s) \cap T
  <2>1. ToSet(r) \subseteq ToSet(s) \cap T
    BY <1>1, <1>7, <1>8 DEF ToSet
  <2>2. ToSet(s) \cap T \subseteq ToSet(r)
    <3> SUFFICES ASSUME NEW x \in ToSet(s), x \in T PROVE x \in ToSet(r)
      OBVIOUS
    <3>1. PICK i \in 1 .. n : s[i] = x
      BY <1>1 DEF ToSet
    <3>2. PICK j \in 1 .. Len(r) : r[j] = x
      BY <1>7, <3>1
    <3> QED BY <1>7, <3>2 DEF ToSet
  <2> QED BY <2>1, <2>2
<1> QED BY <1>7, <1>9 DEF r

-----------------------------------------------------------------------------
(* Neighbour selection.                                                    *)

\* One step of Diverse.
DiverseStep(g, p, m, chosen, c) ==
  IF /\ Len(chosen) < m
     /\ \A k \in DOMAIN chosen : ~Less(Away(g, g.at[c], chosen[k]), Away(g, p, c))
  THEN Append(chosen, c) ELSE chosen

\* What the diverse choice ends in, when every step keeps to a family of sets.
LEMMA DiverseIn ==
  ASSUME NEW g, NEW p, NEW cands, NEW m, Len(Ranked(g, p, cands)) \in Nat, NEW S,
         <<>> \in S[0],
         \A k \in 1 .. Len(Ranked(g, p, cands)) : \A c \in S[k - 1] :
           DiverseStep(g, p, m, c, Ranked(g, p, cands)[k]) \in S[k]
  PROVE  Diverse(g, p, cands, m) \in S[Len(Ranked(g, p, cands))]
<1> DEFINE Step(c, x) == DiverseStep(g, p, m, c, x)
           first == <<>>
           list == Ranked(g, p, cands)
           Eq(f, q) == f = [k \in 0 .. Len(q) |-> IF k = 0 THEN first ELSE
                                CHOOSE r \in {Step(c, q[k]) : c \in {f[k - 1]}} : TRUE]
           Through(q) == (CHOOSE f : Eq(f, q))[Len(q)]
           n == Len(list)
           F == [x \in (UNION {S[k] : k \in 0 .. n}) \X (1 .. n) |-> Step(x[1], list[x[2]])]
<1>1. Diverse(g, p, cands, m) = CHOOSE r \in {Through(q) : q \in {list}} : TRUE
  BY DEF Diverse, InTurn, DiverseStep
<1>2. /\ n \in Nat /\ first \in S[0]
      /\ \A k \in 1 .. n : \A c \in S[k - 1] : Step(c, list[k]) \in S[k]
  OBVIOUS
<1> HIDE DEF Step, n, first, list
<1>3. Diverse(g, p, cands, m) = Through(list)
  <2> HIDE DEF Through
  <2> QED BY <1>1, Once
<1>4. \A k \in 1 .. n : \A c \in S[k - 1] : F[<<c, k>>] = Step(c, list[k])
  <2> SUFFICES ASSUME NEW k \in 1 .. n, NEW c \in S[k - 1] PROVE F[<<c, k>>] = Step(c, list[k])
    OBVIOUS
  <2>1. <<c, k>> \in (UNION {S[j] : j \in 0 .. n}) \X (1 .. n)
    BY <1>2
  <2> QED BY <2>1
<1> HIDE DEF F
<1>5. PICK run : Runs(run, first, F, n) /\ \A k \in 0 .. n : run[k] \in S[k]
  <2>1. \A k \in 1 .. n : \A c \in S[k - 1] : F[<<c, k>>] \in S[k]
    BY <1>2, <1>4
  <2> QED BY <1>2, <2>1, RunIn
<1>6. \A f, k : (CHOOSE r \in {Step(c, list[k]) : c \in {f[k - 1]}} : TRUE)
                = Step(f[k - 1], list[k])
  BY Once
<1>7. Eq(run, list)
  <2>1. \A k \in 1 .. n : run[k] = Step(run[k - 1], list[k])
    <3>1. \A k \in 1 .. n : run[k - 1] \in S[k - 1]
      BY <1>2, <1>5
    <3> QED BY <1>4, <1>5, <3>1 DEF Runs
  <2>2. \A k \in 0 .. n : run[k] = IF k = 0 THEN first ELSE
          CHOOSE r \in {Step(c, list[k]) : c \in {run[k - 1]}} : TRUE
    <3> SUFFICES ASSUME NEW k \in 0 .. n
                 PROVE  run[k] = IF k = 0 THEN first ELSE
                          CHOOSE r \in {Step(c, list[k]) : c \in {run[k - 1]}} : TRUE
      OBVIOUS
    <3>1. CASE k = 0
      BY <1>5, <3>1 DEF Runs
    <3>2. CASE k # 0
      <4>1. run[k] = Step(run[k - 1], list[k])
        BY <1>2, <2>1, <3>2
      <4>2. (CHOOSE r \in {Step(c, list[k]) : c \in {run[k - 1]}} : TRUE)
            = Step(run[k - 1], list[k])
        BY <1>6
      <4> QED BY <3>2, <4>1, <4>2
    <3> QED BY <3>1, <3>2
  <2>3. run = [k \in 0 .. n |-> run[k]]
    BY <1>5 DEF Runs
  <2> QED BY <2>2, <2>3 DEF n
<1> DEFINE after == CHOOSE f : Eq(f, list)
<1>8. Eq(after, list)
  <2> HIDE DEF Eq
  <2> QED BY <1>7
<1> HIDE DEF after
<1>9. after[0] = first /\ \A k \in 1 .. n : after[k] = Step(after[k - 1], list[k])
  BY <1>2, <1>6, <1>8 DEF n
<1>10. \A k \in 0 .. n : after[k] \in S[k]
  BY <1>2, <1>9, RunStays
<1> QED BY <1>2, <1>3, <1>10 DEF n, after, first, list

\* No more than m of the candidates are chosen for being diverse, none of them twice.
LEMMA DiverseOK ==
  ASSUME NEW g, Placed(g), NEW p \in Points, NEW cands \in SUBSET Ids(g), NEW m \in Nat
  PROVE  LET c == Diverse(g, p, cands, m) IN
         c \in Seq(cands) /\ Distinct(c) /\ Len(c) <= m
<1> DEFINE r == Ranked(g, p, cands)
           n == Len(r)
           Upto(k) == {c \in Seq(cands) :
                         /\ Distinct(c) /\ Len(c) <= m
                         /\ \A j \in 1 .. Len(c) : \E i \in 1 .. k : r[i] = c[j]}
           Y == [k \in 0 .. n |-> Upto(k)]
<1>1. n \in Nat /\ \A k \in 1 .. n : r[k] \in cands
  BY RankedOK
<1>2. \A i, j \in 1 .. n : r[i] = r[j] => i = j
  BY RankedDistinct DEF Distinct
<1> HIDE DEF n
<1>3. \A k \in 0 .. n : Y[k] = Upto(k)
  OBVIOUS
<1> HIDE DEF Y, r
<1>4. <<>> \in Y[0]
  <2>1. <<>> \in Seq(cands) /\ Len(<<>>) = 0 /\ Distinct(<<>>)
    BY DEF Distinct
  <2>2. <<>> \in Upto(0)
    BY <2>1
  <2> HIDE DEF Upto
  <2> QED BY <1>1, <1>3, <2>2
<1>5. ASSUME NEW k \in 1 .. n, NEW c \in Y[k - 1] PROVE DiverseStep(g, p, m, c, r[k]) \in Y[k]
  <2>1. r[k] \in cands /\ k \in 0 .. n /\ k - 1 \in 0 .. n
    BY <1>1
  <2>2. Y[k] = Upto(k) /\ c \in Upto(k - 1)
    BY <1>3, <1>5, <2>1
  <2>3. c \in Upto(k)
    <3>1. \A i \in 1 .. k - 1 : i \in 1 .. k
      BY <1>1
    <3>2. \A j \in 1 .. Len(c) : \E i \in 1 .. k - 1 : r[i] = c[j]
      BY <2>2
    <3> QED BY <2>2, <3>1, <3>2
  <2>4. ASSUME Len(c) < m PROVE Append(c, r[k]) \in Upto(k)
    <3> DEFINE d == Append(c, r[k])
    <3>1. /\ d \in Seq(cands) /\ Len(c) \in Nat /\ Len(d) = Len(c) + 1
          /\ \A j \in 1 .. Len(c) : d[j] = c[j]
          /\ d[Len(c) + 1] = r[k]
          /\ \A j \in 1 .. Len(d) : j \in 1 .. Len(c) \/ j = Len(c) + 1
      BY <2>1, <2>2, AppendOK
    <3>2. Distinct(d)
      <4>1. \A j \in 1 .. Len(c) : c[j] # r[k]
        <5> SUFFICES ASSUME NEW j \in 1 .. Len(c), c[j] = r[k] PROVE FALSE
          OBVIOUS
        <5>1. PICK i \in 1 .. k - 1 : r[i] = c[j]
          BY <2>2
        <5> QED BY <1>1, <1>2, <5>1
      <4> QED BY <2>1, <2>2, <4>1, DistinctAppend
    <3> HIDE DEF d
    <3>3. ASSUME NEW j \in 1 .. Len(d) PROVE \E i \in 1 .. k : r[i] = d[j]
      <4>1. CASE j \in 1 .. Len(c)
        <5>1. PICK i \in 1 .. k - 1 : r[i] = c[j]
          BY <2>2, <4>1
        <5> QED BY <2>1, <3>1, <4>1, <5>1
      <4> QED BY <2>1, <3>1, <4>1
    <3>4. d \in Upto(k)
      BY <2>4, <3>1, <3>2, <3>3
    <3> QED BY <3>4 DEF d
  <2> QED BY <2>2, <2>3, <2>4 DEF DiverseStep
<1>6. Diverse(g, p, cands, m) \in Upto(n)
  <2>1. Diverse(g, p, cands, m) \in Y[n]
    <3> HIDE DEF Upto
    <3> QED BY <1>1, <1>4, <1>5, DiverseIn DEF n, r
  <2> HIDE DEF Upto
  <2> QED BY <1>1, <1>3, <2>1
<1> QED BY <1>6

\* One sequence after another, without an element in common.
LEMMA DistinctConcat ==
  ASSUME NEW X, NEW c \in Seq(X), NEW d \in Seq(X), Distinct(c), Distinct(d),
         \A j \in 1 .. Len(c), k \in 1 .. Len(d) : c[j] # d[k]
  PROVE  c \o d \in Seq(X) /\ Len(c \o d) = Len(c) + Len(d) /\ Distinct(c \o d)
<1> DEFINE e == c \o d
<1>1. e \in Seq(X) /\ Len(e) = Len(c) + Len(d) /\ Len(c) \in Nat /\ Len(d) \in Nat
  OBVIOUS
<1>2. /\ \A j \in 1 .. Len(c) : e[j] = c[j]
      /\ \A j \in Len(c) + 1 .. Len(c) + Len(d) : e[j] = d[j - Len(c)]
  OBVIOUS
<1> HIDE DEF e
<1>3. ASSUME NEW j \in 1 .. Len(e), NEW k \in 1 .. Len(e), e[j] = e[k] PROVE j = k
  <2>1. CASE j \in 1 .. Len(c) /\ k \in 1 .. Len(c)
    BY <1>2, <1>3, <2>1 DEF Distinct
  <2>2. CASE j \notin 1 .. Len(c) /\ k \notin 1 .. Len(c)
    <3>1. /\ j - Len(c) \in 1 .. Len(d) /\ k - Len(c) \in 1 .. Len(d)
          /\ d[j - Len(c)] = d[k - Len(c)]
      BY <1>1, <1>2, <1>3, <2>2
    <3>2. j - Len(c) = k - Len(c)
      BY <3>1 DEF Distinct
    <3> QED BY <1>1, <3>2
  <2>3. CASE j \in 1 .. Len(c) /\ k \notin 1 .. Len(c)
    <3>1. k \in Len(c) + 1 .. Len(c) + Len(d) /\ k - Len(c) \in 1 .. Len(d)
      BY <1>1, <2>3
    <3>2. c[j] = d[k - Len(c)]
      BY <1>2, <1>3, <2>3, <3>1
    <3> QED BY <2>3, <3>1, <3>2
  <2>4. CASE j \notin 1 .. Len(c) /\ k \in 1 .. Len(c)
    <3>1. j \in Len(c) + 1 .. Len(c) + Len(d) /\ j - Len(c) \in 1 .. Len(d)
      BY <1>1, <2>4
    <3>2. c[k] = d[j - Len(c)]
      BY <1>2, <1>3, <2>4, <3>1
    <3> QED BY <2>4, <3>1, <3>2
  <2> QED BY <2>1, <2>2, <2>3, <2>4
<1>4. Distinct(e)
  BY <1>3 DEF Distinct
<1> QED BY <1>1, <1>4 DEF e

\* The first of a sequence.
LEMMA TakeOK ==
  ASSUME NEW X, NEW s \in Seq(X), NEW n \in Nat
  PROVE  LET t == Take(s, n) IN
         /\ t \in Seq(X) /\ Len(t) = IF n < Len(s) THEN n ELSE Len(s)
         /\ \A k \in 1 .. Len(t) : t[k] = s[k]
         /\ Distinct(s) => Distinct(t)
<1> DEFINE t == Take(s, n)
<1>1. /\ Len(s) \in Nat /\ t \in Seq(X) /\ Len(t) = IF n < Len(s) THEN n ELSE Len(s)
      /\ \A k \in 1 .. Len(t) : t[k] = s[k]
  BY DEF Take
<1> HIDE DEF t
<1>2. Distinct(s) => Distinct(t)
  BY <1>1 DEF Distinct
<1> QED BY <1>1, <1>2 DEF t

\* Neighbours are chosen from the candidates, none twice, and as many as there may be.
LEMMA SelectedOK ==
  ASSUME NEW g, Placed(g), NEW p \in Points, NEW cands \in SUBSET Ids(g), NEW m \in Nat
  PROVE  LET s == SelectNeighbors(g, p, cands, m) IN
         /\ s \in Seq(cands) /\ Distinct(s) /\ Cardinality(cands) \in Nat
         /\ Len(s) = IF Cardinality(cands) < m THEN Cardinality(cands) ELSE m
<1> DEFINE c == Diverse(g, p, cands, m)
<1>1. c \in Seq(cands) /\ Distinct(c) /\ Len(c) <= m
  BY DiverseOK
<1> HIDE DEF c
<1> DEFINE rest == cands \ ToSet(c)
           r == Ranked(g, p, rest)
           t == Take(r, m - Len(c))
<1>2. /\ Len(c) \in Nat /\ c \in Seq(ToSet(c)) /\ ToSet(c) \subseteq cands
      /\ \A j \in 1 .. Len(c) : c[j] \in ToSet(c)
  BY <1>1 DEF ToSet
<1>3. /\ IsFiniteSet(cands) /\ Cardinality(cands) \in Nat
      /\ IsFiniteSet(ToSet(c)) /\ Cardinality(ToSet(c)) = Len(c)
  BY <1>1, <1>2, IdsFinite, DistinctLen
<1>4. Cardinality(rest) \in Nat /\ Cardinality(rest) = Cardinality(cands) - Len(c)
  <2>1. IsFiniteSet(rest) /\ rest \cap ToSet(c) = {} /\ rest \cup ToSet(c) = cands
    BY <1>2, <1>3, FS_Subset
  <2>2. Cardinality(rest) \in Nat
    BY <2>1, FS_CardinalityType
  <2> HIDE DEF rest
  <2>3. Cardinality(rest \cup ToSet(c))
          = Cardinality(rest) + Cardinality(ToSet(c)) - Cardinality(rest \cap ToSet(c))
    BY <1>3, <2>1, FS_Union
  <2>4. Cardinality(cands) = Cardinality(rest) + Len(c) - 0
    BY <1>3, <2>1, <2>3, FS_EmptySet
  <2> QED BY <1>2, <1>3, <2>2, <2>4
<1>5. r \in Seq(rest) /\ Len(r) = Cardinality(rest) /\ Distinct(r)
  <2>1. rest \in SUBSET Ids(g)
    OBVIOUS
  <2> HIDE DEF rest
  <2> QED BY <2>1, RankedOK, RankedDistinct
<1> HIDE DEF rest, r
<1>6. m - Len(c) \in Nat
  BY <1>1, <1>2
<1>7. t \in Seq(rest) /\ Distinct(t)
      /\ Len(t) = IF m - Len(c) < Len(r) THEN m - Len(c) ELSE Len(r)
  BY <1>5, <1>6, TakeOK
<1> HIDE DEF t
<1>8. SelectNeighbors(g, p, cands, m) = c \o t
  BY DEF SelectNeighbors, c, r, t, rest
<1>9. t \in Seq(cands) /\ \A k \in 1 .. Len(t) : t[k] \notin ToSet(c)
  BY <1>7 DEF rest
<1>10. \A j \in 1 .. Len(c), k \in 1 .. Len(t) : c[j] # t[k]
  BY <1>2, <1>9
<1>11. c \o t \in Seq(cands) /\ Len(c \o t) = Len(c) + Len(t) /\ Distinct(c \o t)
  BY <1>1, <1>7, <1>9, <1>10, DistinctConcat
<1> QED BY <1>1, <1>2, <1>3, <1>4, <1>5, <1>7, <1>8, <1>11

-----------------------------------------------------------------------------
(* Walks: a beam, and the nodes W that a search may come to.               *)

\* A search t that can come to no node but those of W.
Walkable(t, W) ==
  /\ Placed(t.g) /\ t.query \in Points /\ t.ef \in Nat \ {0} /\ W \subseteq Ids(t.g)
  /\ \A n \in W : Neighbors(t.g, n, t.layer) \in Seq(W)

\* The nodes seen that may be results.
Seen(t, b) == {id \in b.visited : Admissible(t, id)}

\* No node of S is nearer than one of R, unless it is in R itself.
NothingNearer(t, R, S) ==
  \A r \in R, x \in S \ R : ~Precedes(Away(t.g, t.query, x), Away(t.g, t.query, r))

\* R holds some of S, as many as the beam is wide, and the nearest of them unless a
\* distance in R is a NaN.
HoldsNearest(t, R, S) ==
  /\ R \subseteq S
  /\ Cardinality(R) = IF Cardinality(S) < t.ef THEN Cardinality(S) ELSE t.ef
  /\ (\A r \in R : Away(t.g, t.query, r) # Undefined) => NothingNearer(t, R, S)

\* Beams of nodes of W.
BeamsOver(W) == [visited : SUBSET W, frontier : SUBSET W, results : SUBSET W,
                 deferred : SUBSET W, detours : Nat, expansions : Nat]

\* Beams that a walk may have: the results are the nearest of what was seen.
Walks(t, W) ==
  {b \in BeamsOver(W) : /\ b.frontier \subseteq b.visited /\ b.deferred \subseteq b.visited
                        /\ HoldsNearest(t, b.results, Seen(t, b))}

\* A beam that has room, or whose farthest result a number is less than, has left nothing
\* nearer out.
LEMMA NothingLeftOut ==
  ASSUME NEW t, Placed(t.g), t.query \in Points, t.ef \in Nat \ {0},
         NEW S \in SUBSET Ids(t.g), NEW R, HoldsNearest(t, R, S), NEW id \in Ids(t.g),
         \/ Cardinality(R) < t.ef
         \/ /\ R # {}
            /\ Less(Away(t.g, t.query, id), Away(t.g, t.query, Farthest(t.g, t.query, R)))
  PROVE  NothingNearer(t, R, S)
<1> DEFINE f == Farthest(t.g, t.query, R)
           far(a) == Away(t.g, t.query, a)
<1>1. /\ IsFiniteSet(S) /\ IsFiniteSet(R) /\ Cardinality(S) \in Nat /\ Cardinality(R) \in Nat
      /\ R \subseteq S /\ R \in SUBSET Ids(t.g)
  BY IdsFinite DEF HoldsNearest
<1>2. CASE Cardinality(R) < t.ef
  <2>1. Cardinality(R) = Cardinality(S)
    BY <1>1, <1>2 DEF HoldsNearest
  <2>2. R = S
    BY <1>1, <2>1, FS_Subset
  <2> QED BY <2>2 DEF NothingNearer
<1>3. CASE R # {} /\ Less(far(id), far(f))
  <2>1. f \in R /\ \A a \in R \ {f} : Nearer(t.g, t.query, a, f)
    BY <1>1, <1>3, FarthestOK
  <2>2. far(id) \in Distances /\ \A a \in R : far(a) \in Distances
    BY <1>1, NearerOrders
  <2>3. \A a \in R \ {f} : ~Precedes(far(f), far(a))
    BY <1>1, <2>1, NearerOrders
  <2> HIDE DEF f, far
  <2>4. far(f) # Undefined
    BY <1>3, <2>1, <2>2, LessPrecedes
  <2>5. \A a \in R : far(a) # Undefined
    BY <2>1, <2>2, <2>3, <2>4, LessPrecedes
  <2> QED BY <2>5 DEF HoldsNearest, far
<1> QED BY <1>2, <1>3

\* A node admitted to a beam that has left nothing nearer out leaves nothing nearer out.
LEMMA AdmitKeepsNearest ==
  ASSUME NEW t, Placed(t.g), t.query \in Points, t.ef \in Nat \ {0},
         NEW S \in SUBSET Ids(t.g), NEW R, HoldsNearest(t, R, S), NothingNearer(t, R, S),
         NEW id \in Ids(t.g) \ S, NEW K, K = R \cup {id}
  PROVE  LET L == IF Cardinality(K) > t.ef THEN K \ {Farthest(t.g, t.query, K)} ELSE K IN
         HoldsNearest(t, L, S \cup {id}) /\ NothingNearer(t, L, S \cup {id})
<1> DEFINE f == Farthest(t.g, t.query, K)
           far(a) == Away(t.g, t.query, a)
           AsNear(a, x) == ~Precedes(far(x), far(a))
<1>1. /\ IsFiniteSet(S) /\ IsFiniteSet(R) /\ Cardinality(S) \in Nat /\ Cardinality(R) \in Nat
      /\ R \subseteq S /\ id \notin R /\ K \in SUBSET Ids(t.g) /\ IsFiniteSet(K)
  BY IdsFinite DEF HoldsNearest
<1>2. Cardinality(K) = Cardinality(R) + 1 /\ Cardinality(S \cup {id}) = Cardinality(S) + 1
  BY <1>1, FS_AddElement
<1>3. CASE Cardinality(K) > t.ef
  <2>1. f \in K /\ \A a \in K \ {f} : AsNear(a, f)
    <3>1. f \in K /\ \A a \in K \ {f} : Nearer(t.g, t.query, a, f)
      BY <1>1, FarthestOK
    <3> HIDE DEF f
    <3>2. \A a \in K \ {f} : ~Precedes(far(f), far(a))
      BY <1>1, <3>1, NearerOrders
    <3> QED BY <3>1, <3>2
  <2>2. Cardinality(R) = t.ef /\ Cardinality(S) >= t.ef
    BY <1>1, <1>2, <1>3 DEF HoldsNearest
  <2>3. Cardinality(K \ {f}) = t.ef
    <3>1. Cardinality(K \ {f}) = Cardinality(K) - 1
      BY <1>1, <2>1, FS_RemoveElement
    <3> QED BY <1>2, <2>2, <3>1
  <2>4. \A a \in S \cup {id} : far(a) \in Distances
    BY NearerOrders
  <2>5. \A a \in R, x \in S \ R : AsNear(a, x)
    BY DEF NothingNearer
  <2> HIDE DEF f, far
  <2>6. \A a, b, c \in S \cup {id} : AsNear(a, b) /\ AsNear(b, c) => AsNear(a, c)
    BY <2>4, PrecedesOrders
  <2> HIDE DEF AsNear
  <2>7. ASSUME NEW r \in K \ {f}, NEW x \in (S \cup {id}) \ (K \ {f}) PROVE AsNear(r, x)
    <3>1. CASE x = f
      BY <2>1, <3>1
    <3>2. CASE x # f
      <4>1. x \in S \ R
        BY <1>1, <2>7, <3>2
      <4>2. \A a \in R : AsNear(a, x)
        BY <4>1, <2>5
      <4>3. CASE r \in R
        BY <4>2, <4>3
      <4>4. CASE r \notin R
        <5>1. r = id /\ f \in R
          BY <2>1, <2>7, <4>4
        <5>2. AsNear(r, f) /\ AsNear(f, x)
          BY <2>1, <2>7, <4>2, <5>1
        <5> QED BY <1>1, <2>6, <4>1, <5>1, <5>2
      <4> QED BY <4>3, <4>4
    <3> QED BY <3>1, <3>2
  <2>8. NothingNearer(t, K \ {f}, S \cup {id})
    BY <2>7 DEF NothingNearer, AsNear, far
  <2>9. K \ {f} \subseteq S \cup {id}
    BY <1>1
  <2>10. HoldsNearest(t, K \ {f}, S \cup {id})
    BY <1>1, <1>2, <2>2, <2>3, <2>8, <2>9 DEF HoldsNearest
  <2> QED BY <1>3, <2>8, <2>10 DEF f
<1>4. CASE ~(Cardinality(K) > t.ef)
  <2>1. Cardinality(R) = Cardinality(S)
    BY <1>1, <1>2, <1>4 DEF HoldsNearest
  <2>2. R = S
    BY <1>1, <2>1, FS_Subset
  <2> QED BY <1>1, <1>2, <1>4, <2>2 DEF HoldsNearest, NothingNearer
<1> QED BY <1>3, <1>4

\* A node that is passed over because it is not less far than a full beam's farthest
\* result leaves the beam what it was.
LEMMA PassKeepsNearest ==
  ASSUME NEW t, Placed(t.g), t.query \in Points, t.ef \in Nat \ {0},
         NEW S \in SUBSET Ids(t.g), NEW R, HoldsNearest(t, R, S), NEW id \in Ids(t.g) \ S,
         Cardinality(R) >= t.ef,
         ~Less(Away(t.g, t.query, id), Away(t.g, t.query, Farthest(t.g, t.query, R)))
  PROVE  HoldsNearest(t, R, S \cup {id})
<1> DEFINE f == Farthest(t.g, t.query, R)
           far(a) == Away(t.g, t.query, a)
<1>1. /\ IsFiniteSet(S) /\ IsFiniteSet(R) /\ Cardinality(S) \in Nat /\ Cardinality(R) \in Nat
      /\ R \subseteq S /\ id \notin R /\ R \in SUBSET Ids(t.g)
  BY IdsFinite DEF HoldsNearest
<1>2. Cardinality(S \cup {id}) = Cardinality(S) + 1
  BY <1>1, FS_AddElement
<1>3. R # {}
  BY <1>1, FS_EmptySet
<1>4. f \in R /\ \A a \in R \ {f} : ~Precedes(far(f), far(a))
  <2>1. f \in R /\ \A a \in R \ {f} : Nearer(t.g, t.query, a, f)
    BY <1>1, <1>3, FarthestOK
  <2> QED BY <1>1, <2>1, NearerOrders
<1>5. far(id) \in Distances /\ \A a \in R : far(a) \in Distances
  BY <1>1, NearerOrders
<1>6. ~Less(far(id), far(f))
  OBVIOUS
<1>7. Cardinality(R) = t.ef /\ Cardinality(S) >= t.ef
  BY <1>1 DEF HoldsNearest
<1>8. ASSUME \A r \in R : far(r) # Undefined PROVE NothingNearer(t, R, S \cup {id})
  <2>1. \A r \in R, x \in S \ R : ~Precedes(far(x), far(r))
    BY <1>8 DEF HoldsNearest, NothingNearer
  <2> HIDE DEF f, far
  <2>2. ~Precedes(far(id), far(f))
    BY <1>4, <1>5, <1>6, <1>8, LessPrecedes
  <2>3. \A r \in R : ~Precedes(far(id), far(r))
    BY <1>4, <1>5, <2>2, PrecedesOrders
  <2> QED BY <2>1, <2>3 DEF NothingNearer, far
<1> QED BY <1>1, <1>2, <1>7, <1>8 DEF HoldsNearest

\* How full a beam is follows from what it has seen.
LEMMA FullWhenSeen ==
  ASSUME NEW t, NEW W, Walkable(t, W), NEW b \in Walks(t, W)
  PROVE  /\ Seen(t, b) \in SUBSET Ids(t.g) /\ IsFiniteSet(Seen(t, b))
         /\ Cardinality(Seen(t, b)) \in Nat
         /\ Full(t, b) <=> Cardinality(Seen(t, b)) >= t.ef
         /\ b.results = {} <=> Seen(t, b) = {}
<1>1. /\ b.visited \subseteq W /\ W \subseteq Ids(t.g) /\ Placed(t.g) /\ t.ef \in Nat \ {0}
      /\ HoldsNearest(t, b.results, Seen(t, b))
  BY DEF Walks, BeamsOver, Walkable
<1>2. Seen(t, b) \in SUBSET Ids(t.g) /\ b.results \in SUBSET Ids(t.g)
  BY <1>1 DEF Seen, HoldsNearest
<1>3. /\ IsFiniteSet(Seen(t, b)) /\ Cardinality(Seen(t, b)) \in Nat
      /\ IsFiniteSet(b.results) /\ Cardinality(b.results) \in Nat
  BY <1>1, <1>2, IdsFinite
<1>4. Full(t, b) <=> Cardinality(Seen(t, b)) >= t.ef
  BY <1>1, <1>3 DEF HoldsNearest, Full
<1>5. b.results = {} <=> Seen(t, b) = {}
  <2>1. /\ Cardinality(b.results) = 0 <=> b.results = {}
        /\ Cardinality(Seen(t, b)) = 0 <=> Seen(t, b) = {}
    BY <1>3, FS_EmptySet
  <2>2. Cardinality(b.results) = 0 <=> Cardinality(Seen(t, b)) = 0
    BY <1>1, <1>3 DEF HoldsNearest
  <2> QED BY <2>1, <2>2
<1> QED BY <1>2, <1>3, <1>4, <1>5

\* What a step of a walk keeps of the beam before it.
Onward(t, b, c) ==
  /\ b.visited \subseteq c.visited /\ b.frontier \subseteq c.frontier
  /\ c.frontier \ b.frontier \subseteq c.visited \ b.visited
  /\ c.deferred = b.deferred /\ c.expansions = b.expansions
  /\ ~Full(t, c) => c.visited \ b.visited \subseteq c.frontier
  /\ ~Full(t, b) /\ c.frontier = b.frontier => c.visited = b.visited

\* A walk that goes on does not become less full.
LEMMA FullStays ==
  ASSUME NEW t, NEW W, Walkable(t, W), NEW b \in Walks(t, W), NEW c \in Walks(t, W),
         b.visited \subseteq c.visited
  PROVE  (Full(t, b) => Full(t, c)) /\ (b.results # {} => c.results # {})
<1>1. /\ Seen(t, c) \in SUBSET Ids(t.g) /\ IsFiniteSet(Seen(t, c))
      /\ Cardinality(Seen(t, b)) \in Nat /\ Cardinality(Seen(t, c)) \in Nat
      /\ Full(t, b) <=> Cardinality(Seen(t, b)) >= t.ef
      /\ Full(t, c) <=> Cardinality(Seen(t, c)) >= t.ef
      /\ b.results = {} <=> Seen(t, b) = {}
      /\ c.results = {} <=> Seen(t, c) = {}
  BY FullWhenSeen
<1>2. Seen(t, b) \subseteq Seen(t, c)
  BY DEF Seen
<1>3. Cardinality(Seen(t, b)) <= Cardinality(Seen(t, c))
  BY <1>1, <1>2, FS_Subset
<1>4. t.ef \in Nat
  BY DEF Walkable
<1> QED BY <1>1, <1>2, <1>3, <1>4

\* Going on twice is going on.
LEMMA OnwardOn ==
  ASSUME NEW t, NEW W, Walkable(t, W), NEW b \in Walks(t, W), NEW c \in Walks(t, W),
         NEW d \in Walks(t, W),
         Onward(t, b, c), Onward(t, c, d)
  PROVE  Onward(t, b, d)
<1>1. /\ b.visited \subseteq d.visited /\ b.frontier \subseteq d.frontier
      /\ d.frontier \ b.frontier \subseteq d.visited \ b.visited
      /\ d.deferred = b.deferred /\ d.expansions = b.expansions
      /\ ~Full(t, d) => d.visited \ b.visited \subseteq d.frontier
  BY FullStays DEF Onward
<1>2. ASSUME ~Full(t, b), d.frontier = b.frontier PROVE d.visited = b.visited
  <2>1. c.frontier = b.frontier /\ d.frontier = c.frontier
    BY <1>2 DEF Onward
  <2>2. c.visited = b.visited
    BY <1>2, <2>1 DEF Onward
  <2>3. Full(t, c) => Full(t, b)
    BY <2>2, FullStays
  <2>4. d.visited = c.visited
    BY <1>2, <2>1, <2>3 DEF Onward
  <2> QED BY <2>2, <2>4
<1> QED BY <1>1, <1>2 DEF Onward

\* A beam that remembers one node more.
LEMMA NotedOK ==
  ASSUME NEW t, NEW W, Walkable(t, W), NEW b \in Walks(t, W), NEW id \in W, id \notin b.visited
  PROVE  LET c == Noted(b, id) IN
         /\ c \in BeamsOver(W) /\ c.visited = b.visited \cup {id} /\ c.results = b.results
         /\ c.frontier = b.frontier /\ c.deferred = b.deferred
         /\ c.detours = b.detours /\ c.expansions = b.expansions
         /\ Placed(t.g) /\ t.query \in Points /\ t.ef \in Nat \ {0}
         /\ HoldsNearest(t, b.results, Seen(t, b))
         /\ b.frontier \subseteq b.visited /\ b.deferred \subseteq b.visited
         /\ Seen(t, b) \in SUBSET Ids(t.g) /\ id \in Ids(t.g) \ Seen(t, b)
         /\ Cardinality(b.results) \in Nat /\ Cardinality(Seen(t, b)) \in Nat
<1>1. /\ b \in BeamsOver(W) /\ HoldsNearest(t, b.results, Seen(t, b))
      /\ b.frontier \subseteq b.visited /\ b.deferred \subseteq b.visited
  BY DEF Walks
<1>2. /\ Placed(t.g) /\ t.query \in Points /\ t.ef \in Nat \ {0} /\ W \subseteq Ids(t.g)
      /\ Seen(t, b) \in SUBSET Ids(t.g) /\ id \in Ids(t.g) /\ id \notin Seen(t, b)
  BY FullWhenSeen DEF Walkable, Seen
<1>3. b.results \in SUBSET Ids(t.g)
  BY <1>1, <1>2 DEF HoldsNearest
<1>4. Cardinality(b.results) \in Nat /\ Cardinality(Seen(t, b)) \in Nat
  BY <1>2, <1>3, IdsFinite
<1> DEFINE c == Noted(b, id)
<1>5. /\ c \in BeamsOver(W) /\ c.visited = b.visited \cup {id} /\ c.results = b.results
      /\ c.frontier = b.frontier /\ c.deferred = b.deferred
      /\ c.detours = b.detours /\ c.expansions = b.expansions
  BY <1>1 DEF BeamsOver, Noted
<1> HIDE DEF c
<1> QED BY <1>1, <1>2, <1>4, <1>5 DEF c

\* A node that is queued for the first time: by a beam that has left nothing nearer out, or
\* for being less far than its farthest result.
LEMMA PushNew ==
  ASSUME NEW t, NEW W, Walkable(t, W), NEW b \in Walks(t, W), NEW id \in W, id \notin b.visited,
         NothingNearer(t, b.results, Seen(t, b)) \/ ~Full(t, b) \/ Improves(t, b, id)
  PROVE  LET c == Push(t, Noted(b, id), id) IN
         /\ c \in Walks(t, W) /\ c.visited = b.visited \cup {id}
         /\ c.frontier = b.frontier \cup {id} /\ c.deferred = b.deferred
         /\ c.detours = b.detours /\ c.expansions = b.expansions
         /\ NothingNearer(t, c.results, Seen(t, c))
<1> DEFINE seen == Noted(b, id)
           c == Push(t, Noted(b, id), id)
           kept == b.results \cup {id}
           trimmed == IF Cardinality(kept) > t.ef
                      THEN kept \ {Farthest(t.g, t.query, kept)} ELSE kept
<1>1. /\ seen \in BeamsOver(W) /\ seen.visited = b.visited \cup {id} /\ seen.results = b.results
      /\ seen.frontier = b.frontier /\ seen.deferred = b.deferred
      /\ seen.detours = b.detours /\ seen.expansions = b.expansions
      /\ Placed(t.g) /\ t.query \in Points /\ t.ef \in Nat \ {0}
      /\ HoldsNearest(t, b.results, Seen(t, b))
      /\ b.frontier \subseteq b.visited /\ b.deferred \subseteq b.visited
      /\ Seen(t, b) \in SUBSET Ids(t.g) /\ id \in Ids(t.g) \ Seen(t, b)
      /\ Cardinality(b.results) \in Nat /\ Cardinality(Seen(t, b)) \in Nat
  BY NotedOK
<1>2. c = Push(t, seen, id)
  OBVIOUS
<1> HIDE DEF seen
<1>3. /\ c = [seen EXCEPT !.frontier = b.frontier \cup {id}, !.results = c.results]
      /\ Admissible(t, id) => c.results = trimmed
      /\ ~Admissible(t, id) =>
           c.results = IF Cardinality(b.results) > t.ef
                       THEN b.results \ {Farthest(t.g, t.query, b.results)} ELSE b.results
  <2>1. b.results \cup {} = b.results
    OBVIOUS
  <2> QED BY <1>1, <1>2, <2>1, ZenonT(30) DEF Push, BeamsOver
<1> HIDE DEF c, trimmed
<1>4a. NothingNearer(t, b.results, Seen(t, b))
  <2>1. b.results = {} => Cardinality(b.results) = 0
    BY FS_EmptySet
  <2>2. Full(t, b) <=> ~(Cardinality(b.results) < t.ef)
    BY <1>1 DEF Full
  <2>3. CASE ~Full(t, b)
    <3>1. Cardinality(b.results) < t.ef
      BY <2>2, <2>3
    <3> QED BY <1>1, <3>1, NothingLeftOut
  <2>4. CASE Full(t, b) /\ Improves(t, b, id)
    <3>1. b.results # {}
      BY <1>1, <2>1, <2>2, <2>4
    <3>2. Less(Away(t.g, t.query, id), Away(t.g, t.query, Farthest(t.g, t.query, b.results)))
      BY <2>4, <3>1 DEF Improves, Reach
    <3> QED BY <1>1, <3>1, <3>2, NothingLeftOut
  <2> QED BY <2>3, <2>4 DEF Full
<1>4. /\ HoldsNearest(t, c.results, Seen(t, seen))
      /\ NothingNearer(t, c.results, Seen(t, seen))
  <2>1. CASE Admissible(t, id)
    <3>1. Seen(t, seen) = Seen(t, b) \cup {id}
      BY <1>1, <2>1 DEF Seen
    <3>2. /\ HoldsNearest(t, trimmed, Seen(t, b) \cup {id})
          /\ NothingNearer(t, trimmed, Seen(t, b) \cup {id})
      BY <1>1, <1>4a, AdmitKeepsNearest DEF trimmed
    <3> QED BY <1>3, <2>1, <3>1, <3>2
  <2>2. CASE ~Admissible(t, id)
    <3>1. Seen(t, seen) = Seen(t, b)
      BY <1>1, <2>2 DEF Seen
    <3>2. ~(Cardinality(b.results) > t.ef)
      BY <1>1 DEF HoldsNearest
    <3> QED BY <1>1, <1>3, <1>4a, <2>2, <3>1, <3>2
  <2> QED BY <2>1, <2>2
<1>5. /\ c.visited = seen.visited /\ c.frontier = b.frontier \cup {id}
      /\ c.deferred = b.deferred /\ c.detours = b.detours /\ c.expansions = b.expansions
  BY <1>1, <1>3 DEF BeamsOver
<1>6. Seen(t, c) = Seen(t, seen) /\ c.results \subseteq W
  <2>1. Seen(t, c) = Seen(t, seen)
    BY <1>5 DEF Seen
  <2>2. Seen(t, seen) \subseteq W
    BY <1>1 DEF Seen, BeamsOver
  <2> QED BY <1>4, <2>1, <2>2 DEF HoldsNearest
<1>7. c \in BeamsOver(W)
  BY <1>1, <1>3, <1>5, <1>6 DEF BeamsOver
<1>8. c \in Walks(t, W)
  BY <1>1, <1>4, <1>5, <1>6, <1>7 DEF Walks
<1> QED BY <1>1, <1>4, <1>5, <1>6, <1>8 DEF c

\* A node that is looked at for the first time.
LEMMA VisitNew ==
  ASSUME NEW t, NEW W, Walkable(t, W), NEW b \in Walks(t, W), NEW id \in W, id \notin b.visited
  PROVE  LET c == Visit(t, b, id) IN
         /\ c \in Walks(t, W) /\ Onward(t, b, c)
         /\ c.visited = b.visited \cup {id} /\ c.detours = b.detours
         /\ c.frontier = b.frontier \/ c.frontier = b.frontier \cup {id}
<1> DEFINE seen == Noted(b, id)
           c == Visit(t, b, id)
<1>1. /\ seen \in BeamsOver(W) /\ seen.visited = b.visited \cup {id} /\ seen.results = b.results
      /\ seen.frontier = b.frontier /\ seen.deferred = b.deferred
      /\ seen.detours = b.detours /\ seen.expansions = b.expansions
      /\ Placed(t.g) /\ t.query \in Points /\ t.ef \in Nat \ {0}
      /\ HoldsNearest(t, b.results, Seen(t, b))
      /\ b.frontier \subseteq b.visited /\ b.deferred \subseteq b.visited
      /\ Seen(t, b) \in SUBSET Ids(t.g) /\ id \in Ids(t.g) \ Seen(t, b)
  BY NotedOK
<1>2. CASE Full(t, b) /\ ~Improves(t, b, id)
  <2>1. c = seen
    BY <1>2 DEF Visit
  <2> HIDE DEF seen
  <2>2. HoldsNearest(t, b.results, Seen(t, b) \cup {id})
    <3>1. b.results # {}
      BY <1>2 DEF Improves
    <3>2. ~Less(Away(t.g, t.query, id), Away(t.g, t.query, Farthest(t.g, t.query, b.results)))
      BY <1>2 DEF Improves, Reach
    <3> QED BY <1>1, <1>2, <3>2, PassKeepsNearest DEF Full
  <2>3. HoldsNearest(t, b.results, Seen(t, seen))
    <3>1. Seen(t, seen) = Seen(t, b) \/ Seen(t, seen) = Seen(t, b) \cup {id}
      BY <1>1 DEF Seen
    <3> QED BY <1>1, <2>2, <3>1
  <2>4. seen \in Walks(t, W)
    BY <1>1, <2>3 DEF Walks
  <2>5. Full(t, seen)
    BY <1>1, <1>2 DEF Full
  <2> HIDE DEF c
  <2>6. Onward(t, b, c)
    BY <1>1, <1>2, <2>1, <2>5 DEF Onward
  <2> QED BY <1>1, <2>1, <2>4, <2>6 DEF c
<1>3. CASE ~(Full(t, b) /\ ~Improves(t, b, id))
  <2>1. c = Push(t, Noted(b, id), id)
    BY <1>3 DEF Visit
  <2>2. /\ c \in Walks(t, W) /\ c.visited = b.visited \cup {id}
        /\ c.frontier = b.frontier \cup {id} /\ c.deferred = b.deferred
        /\ c.detours = b.detours /\ c.expansions = b.expansions
    BY <1>3, <2>1, PushNew
  <2> HIDE DEF c, seen
  <2>3. c.frontier # b.frontier
    BY <1>1, <2>2
  <2>4. Onward(t, b, c)
    BY <1>1, <2>2, <2>3 DEF Onward
  <2> QED BY <2>2, <2>4 DEF c
<1> QED BY <1>2, <1>3

\* A beam goes on from itself.
LEMMA OnwardSelf ==
  ASSUME NEW t, NEW b
  PROVE  Onward(t, b, b)
BY DEF Onward

\* A node is looked at: seen, and queued at most once.
LEMMA VisitOK ==
  ASSUME NEW t, NEW W, Walkable(t, W), NEW b \in Walks(t, W), NEW id \in W
  PROVE  LET c == Visit(t, b, id) IN
         /\ c \in Walks(t, W) /\ Onward(t, b, c) /\ id \in c.visited /\ c.detours = b.detours
         /\ c.frontier = b.frontier
            \/ (id \notin b.frontier /\ c.frontier = b.frontier \cup {id})
<1>1. CASE id \in b.visited
  BY <1>1, OnwardSelf DEF Visit
<1>2. CASE id \notin b.visited
  <2>1. b.frontier \subseteq b.visited
    BY DEF Walks
  <2> QED BY <1>2, <2>1, VisitNew
<1> QED BY <1>1, <1>2

\* What VisitAll ends in, when every step keeps to a family of sets.
LEMMA VisitAllIn ==
  ASSUME NEW t, NEW b, NEW ids, Len(ids) \in Nat, NEW S,
         b \in S[0],
         \A k \in 1 .. Len(ids) : \A c \in S[k - 1] : Visit(t, c, ids[k]) \in S[k]
  PROVE  VisitAll(t, b, ids) \in S[Len(ids)]
<1> DEFINE Step(c, x) == Visit(t, c, x)
           Eq(f, q) == f = [k \in 0 .. Len(q) |-> IF k = 0 THEN b ELSE
                                CHOOSE r \in {Step(c, q[k]) : c \in {f[k - 1]}} : TRUE]
           Through(q) == (CHOOSE f : Eq(f, q))[Len(q)]
           n == Len(ids)
           F == [x \in (UNION {S[k] : k \in 0 .. n}) \X (1 .. n) |-> Step(x[1], ids[x[2]])]
<1>1. VisitAll(t, b, ids) = CHOOSE r \in {Through(q) : q \in {ids}} : TRUE
  BY DEF VisitAll, InTurn
<1>2. /\ n \in Nat /\ b \in S[0]
      /\ \A k \in 1 .. n : \A c \in S[k - 1] : Step(c, ids[k]) \in S[k]
  OBVIOUS
<1> HIDE DEF Step, n
<1>3. VisitAll(t, b, ids) = Through(ids)
  <2> HIDE DEF Through
  <2> QED BY <1>1, Once
<1>4. \A k \in 1 .. n : \A c \in S[k - 1] : F[<<c, k>>] = Step(c, ids[k])
  <2> SUFFICES ASSUME NEW k \in 1 .. n, NEW c \in S[k - 1] PROVE F[<<c, k>>] = Step(c, ids[k])
    OBVIOUS
  <2>1. <<c, k>> \in (UNION {S[j] : j \in 0 .. n}) \X (1 .. n)
    BY <1>2
  <2> QED BY <2>1
<1> HIDE DEF F
<1>5. PICK run : Runs(run, b, F, n) /\ \A k \in 0 .. n : run[k] \in S[k]
  <2>1. \A k \in 1 .. n : \A c \in S[k - 1] : F[<<c, k>>] \in S[k]
    BY <1>2, <1>4
  <2> QED BY <1>2, <2>1, RunIn
<1>6. \A f, k : (CHOOSE r \in {Step(c, ids[k]) : c \in {f[k - 1]}} : TRUE)
                = Step(f[k - 1], ids[k])
  BY Once
<1>7. Eq(run, ids)
  <2>1. \A k \in 1 .. n : run[k] = Step(run[k - 1], ids[k])
    <3>1. \A k \in 1 .. n : run[k - 1] \in S[k - 1]
      BY <1>2, <1>5
    <3> QED BY <1>4, <1>5, <3>1 DEF Runs
  <2>2. \A k \in 0 .. n : run[k] = IF k = 0 THEN b ELSE
          CHOOSE r \in {Step(c, ids[k]) : c \in {run[k - 1]}} : TRUE
    <3> SUFFICES ASSUME NEW k \in 0 .. n
                 PROVE  run[k] = IF k = 0 THEN b ELSE
                          CHOOSE r \in {Step(c, ids[k]) : c \in {run[k - 1]}} : TRUE
      OBVIOUS
    <3>1. CASE k = 0
      BY <1>5, <3>1 DEF Runs
    <3>2. CASE k # 0
      <4>1. run[k] = Step(run[k - 1], ids[k])
        BY <1>2, <2>1, <3>2
      <4>2. (CHOOSE r \in {Step(c, ids[k]) : c \in {run[k - 1]}} : TRUE)
            = Step(run[k - 1], ids[k])
        BY <1>6
      <4> QED BY <3>2, <4>1, <4>2
    <3> QED BY <3>1, <3>2
  <2>3. run = [k \in 0 .. n |-> run[k]]
    BY <1>5 DEF Runs
  <2> QED BY <2>2, <2>3 DEF n
<1> DEFINE after == CHOOSE f : Eq(f, ids)
<1>8. Eq(after, ids)
  <2> HIDE DEF Eq
  <2> QED BY <1>7
<1> HIDE DEF after
<1>9. after[0] = b /\ \A k \in 1 .. n : after[k] = Step(after[k - 1], ids[k])
  BY <1>2, <1>6, <1>8 DEF n
<1>10. \A k \in 0 .. n : after[k] \in S[k]
  BY <1>2, <1>9, RunStays
<1> QED BY <1>2, <1>3, <1>10 DEF n, after

\* All of a list has been seen after it.
LEMMA VisitAllOK ==
  ASSUME NEW t, NEW W, Walkable(t, W), NEW b \in Walks(t, W), NEW ids \in Seq(W)
  PROVE  LET c == VisitAll(t, b, ids) IN
         /\ c \in Walks(t, W) /\ Onward(t, b, c) /\ c.detours = b.detours
         /\ ToSet(ids) \subseteq c.visited
<1> DEFINE n == Len(ids)
           At(k) == {c \in Walks(t, W) : /\ Onward(t, b, c) /\ c.detours = b.detours
                                         /\ \A j \in 1 .. k : ids[j] \in c.visited}
           S == [k \in 0 .. n |-> At(k)]
<1>1. n \in Nat /\ DOMAIN ids = 1 .. n /\ \A k \in 1 .. n : ids[k] \in W
  OBVIOUS
<1> HIDE DEF n
<1>2. \A k \in 0 .. n : S[k] = At(k)
  OBVIOUS
<1> HIDE DEF S
<1>3. b \in S[0]
  <2>1. b \in At(0)
    BY OnwardSelf
  <2> HIDE DEF At
  <2> QED BY <1>1, <1>2, <2>1
<1>4. ASSUME NEW k \in 1 .. n, NEW c \in S[k - 1] PROVE Visit(t, c, ids[k]) \in S[k]
  <2>1. k \in 0 .. n /\ k - 1 \in 0 .. n /\ ids[k] \in W
    BY <1>1
  <2>2. S[k] = At(k) /\ c \in At(k - 1)
    BY <1>2, <1>4, <2>1
  <2> DEFINE d == Visit(t, c, ids[k])
  <2>3. d \in Walks(t, W) /\ Onward(t, c, d) /\ d.detours = c.detours /\ ids[k] \in d.visited
    BY <2>1, <2>2, VisitOK
  <2> HIDE DEF d
  <2>4. Onward(t, b, d)
    BY <2>2, <2>3, OnwardOn
  <2>5. \A j \in 1 .. k : ids[j] \in d.visited
    <3>1. \A j \in 1 .. k : j = k \/ j \in 1 .. k - 1
      BY <2>1
    <3> QED BY <2>2, <2>3, <3>1 DEF Onward
  <2>6. d \in At(k)
    BY <2>2, <2>3, <2>4, <2>5
  <2> QED BY <2>2, <2>6 DEF d
<1>5. VisitAll(t, b, ids) \in At(n)
  <2>1. VisitAll(t, b, ids) \in S[n]
    <3> HIDE DEF At
    <3> QED BY <1>1, <1>3, <1>4, VisitAllIn DEF n
  <2> HIDE DEF At
  <2> QED BY <1>1, <1>2, <2>1
<1>6. \A c \in At(n) : ToSet(ids) \subseteq c.visited
  BY <1>1 DEF ToSet
<1> QED BY <1>5, <1>6

\* What BridgeOut ends in, when every step keeps to a family of sets.
LEMMA BridgeOutIn ==
  ASSUME NEW t, NEW b, NEW id, Len(Neighbors(t.g, id, t.layer)) \in Nat, NEW S,
         b \in S[0],
         \A k \in 1 .. Len(Neighbors(t.g, id, t.layer)) : \A c \in S[k - 1] :
           Detour(t, c, Neighbors(t.g, id, t.layer)[k]) \in S[k]
  PROVE  BridgeOut(t, b, id) \in S[Len(Neighbors(t.g, id, t.layer))]
<1> DEFINE Step(c, x) == Detour(t, c, x)
           list == Neighbors(t.g, id, t.layer)
           Eq(f, q) == f = [k \in 0 .. Len(q) |-> IF k = 0 THEN b ELSE
                                CHOOSE r \in {Step(c, q[k]) : c \in {f[k - 1]}} : TRUE]
           Through(q) == (CHOOSE f : Eq(f, q))[Len(q)]
           n == Len(list)
           F == [x \in (UNION {S[k] : k \in 0 .. n}) \X (1 .. n) |-> Step(x[1], list[x[2]])]
<1>1. BridgeOut(t, b, id) = CHOOSE r \in {Through(q) : q \in {list}} : TRUE
  BY DEF BridgeOut, InTurn
<1>2. /\ n \in Nat /\ b \in S[0]
      /\ \A k \in 1 .. n : \A c \in S[k - 1] : Step(c, list[k]) \in S[k]
  OBVIOUS
<1> HIDE DEF Step, n, list
<1>3. BridgeOut(t, b, id) = Through(list)
  <2> HIDE DEF Through
  <2> QED BY <1>1, Once
<1>4. \A k \in 1 .. n : \A c \in S[k - 1] : F[<<c, k>>] = Step(c, list[k])
  <2> SUFFICES ASSUME NEW k \in 1 .. n, NEW c \in S[k - 1] PROVE F[<<c, k>>] = Step(c, list[k])
    OBVIOUS
  <2>1. <<c, k>> \in (UNION {S[j] : j \in 0 .. n}) \X (1 .. n)
    BY <1>2
  <2> QED BY <2>1
<1> HIDE DEF F
<1>5. PICK run : Runs(run, b, F, n) /\ \A k \in 0 .. n : run[k] \in S[k]
  <2>1. \A k \in 1 .. n : \A c \in S[k - 1] : F[<<c, k>>] \in S[k]
    BY <1>2, <1>4
  <2> QED BY <1>2, <2>1, RunIn
<1>6. \A f, k : (CHOOSE r \in {Step(c, list[k]) : c \in {f[k - 1]}} : TRUE)
                = Step(f[k - 1], list[k])
  BY Once
<1>7. Eq(run, list)
  <2>1. \A k \in 1 .. n : run[k] = Step(run[k - 1], list[k])
    <3>1. \A k \in 1 .. n : run[k - 1] \in S[k - 1]
      BY <1>2, <1>5
    <3> QED BY <1>4, <1>5, <3>1 DEF Runs
  <2>2. \A k \in 0 .. n : run[k] = IF k = 0 THEN b ELSE
          CHOOSE r \in {Step(c, list[k]) : c \in {run[k - 1]}} : TRUE
    <3> SUFFICES ASSUME NEW k \in 0 .. n
                 PROVE  run[k] = IF k = 0 THEN b ELSE
                          CHOOSE r \in {Step(c, list[k]) : c \in {run[k - 1]}} : TRUE
      OBVIOUS
    <3>1. CASE k = 0
      BY <1>5, <3>1 DEF Runs
    <3>2. CASE k # 0
      <4>1. run[k] = Step(run[k - 1], list[k])
        BY <1>2, <2>1, <3>2
      <4>2. (CHOOSE r \in {Step(c, list[k]) : c \in {run[k - 1]}} : TRUE)
            = Step(run[k - 1], list[k])
        BY <1>6
      <4> QED BY <3>2, <4>1, <4>2
    <3> QED BY <3>1, <3>2
  <2>3. run = [k \in 0 .. n |-> run[k]]
    BY <1>5 DEF Runs
  <2> QED BY <2>2, <2>3 DEF n
<1> DEFINE after == CHOOSE f : Eq(f, list)
<1>8. Eq(after, list)
  <2> HIDE DEF Eq
  <2> QED BY <1>7
<1> HIDE DEF after
<1>9. after[0] = b /\ \A k \in 1 .. n : after[k] = Step(after[k - 1], list[k])
  BY <1>2, <1>6, <1>8 DEF n
<1>10. \A k \in 0 .. n : after[k] \in S[k]
  BY <1>2, <1>9, RunStays
<1> QED BY <1>2, <1>3, <1>10 DEF n, after, list

\* A detour is paid for when it queues a node, and nothing more happens once none is left.
LEMMA DetourOK ==
  ASSUME NEW t, NEW W, Walkable(t, W), NEW b \in Walks(t, W), NEW id \in W
  PROVE  LET c == Detour(t, b, id) IN
         /\ c \in Walks(t, W) /\ Onward(t, b, c)
         /\ c.detours # 0 => b.detours # 0 /\ id \in c.visited
         /\ \/ c.frontier = b.frontier /\ c.detours = b.detours
            \/ /\ id \notin b.frontier /\ c.frontier = b.frontier \cup {id}
               /\ c.detours = b.detours - 1
<1> DEFINE after == Visit(t, b, id)
           c == Detour(t, b, id)
<1>1. /\ after \in Walks(t, W) /\ Onward(t, b, after) /\ id \in after.visited
      /\ after.detours = b.detours
      /\ after.frontier = b.frontier
         \/ (id \notin b.frontier /\ after.frontier = b.frontier \cup {id})
  BY VisitOK
<1>2. b.detours \in Nat
  BY DEF Walks, BeamsOver
<1>3. CASE b.detours = 0
  <2>1. c = b
    BY <1>3 DEF Detour
  <2> HIDE DEF c
  <2>2. Onward(t, b, c)
    BY <2>1, OnwardSelf
  <2> QED BY <1>3, <2>1, <2>2 DEF c
<1>4. CASE b.detours # 0 /\ after.frontier = b.frontier
  <2>1. c = after
    BY <1>4 DEF Detour
  <2> HIDE DEF c, after
  <2> QED BY <1>1, <1>4, <2>1 DEF c
<1>5. CASE b.detours # 0 /\ after.frontier # b.frontier
  <2>1. c = [after EXCEPT !.detours = @ - 1]
    BY <1>5 DEF Detour
  <2> HIDE DEF c, after
  <2>2. /\ after \in BeamsOver(W)
        /\ c = [after EXCEPT !.detours = b.detours - 1] /\ b.detours - 1 \in Nat
    BY <1>1, <1>2, <1>5, <2>1 DEF Walks
  <2>3. /\ c \in BeamsOver(W) /\ c.visited = after.visited /\ c.frontier = after.frontier
        /\ c.results = after.results /\ c.deferred = after.deferred
        /\ c.detours = b.detours - 1 /\ c.expansions = after.expansions
    BY <2>2 DEF BeamsOver
  <2>4. Seen(t, c) = Seen(t, after) /\ (Full(t, c) <=> Full(t, after))
    BY <2>3 DEF Seen, Full
  <2>5. c \in Walks(t, W)
    BY <1>1, <2>3, <2>4 DEF Walks
  <2>6. Onward(t, b, c)
    BY <1>1, <2>3, <2>4 DEF Onward
  <2> QED BY <1>1, <1>5, <2>3, <2>5, <2>6 DEF c
<1> QED BY <1>3, <1>4, <1>5

\* What a node's detours cost is what they queue; its neighbours are all seen if an
\* allowance is left.
LEMMA BridgeOutOK ==
  ASSUME NEW t, NEW W, Walkable(t, W), NEW b \in Walks(t, W), NEW id \in W
  PROVE  LET c == BridgeOut(t, b, id) IN
         /\ c \in Walks(t, W) /\ Onward(t, b, c)
         /\ IsFiniteSet(c.frontier \ b.frontier)
         /\ Cardinality(c.frontier \ b.frontier) + c.detours = b.detours
         /\ c.detours # 0 => ToSet(Neighbors(t.g, id, t.layer)) \subseteq c.visited
<1> DEFINE ids == Neighbors(t.g, id, t.layer)
           n == Len(ids)
           At(k) == {c \in Walks(t, W) :
                       /\ Onward(t, b, c) /\ IsFiniteSet(c.frontier \ b.frontier)
                       /\ Cardinality(c.frontier \ b.frontier) + c.detours = b.detours
                       /\ c.detours # 0 => \A j \in 1 .. k : ids[j] \in c.visited}
           S == [k \in 0 .. n |-> At(k)]
<1>1. ids \in Seq(W)
  BY DEF Walkable
<1> HIDE DEF ids
<1>2. n \in Nat /\ DOMAIN ids = 1 .. n /\ \A k \in 1 .. n : ids[k] \in W
  BY <1>1
<1> HIDE DEF n
<1>3. \A k \in 0 .. n : S[k] = At(k)
  OBVIOUS
<1> HIDE DEF S
<1>4. b \in S[0]
  <2>1. b.frontier \ b.frontier = {} /\ b.detours \in Nat
    BY DEF Walks, BeamsOver
  <2>2. b \in At(0)
    BY <2>1, OnwardSelf, FS_EmptySet
  <2> HIDE DEF At
  <2> QED BY <1>2, <1>3, <2>2
<1>5. ASSUME NEW k \in 1 .. n, NEW c \in S[k - 1] PROVE Detour(t, c, ids[k]) \in S[k]
  <2>1. k \in 0 .. n /\ k - 1 \in 0 .. n /\ ids[k] \in W
    BY <1>2
  <2>2. S[k] = At(k) /\ c \in At(k - 1)
    BY <1>3, <1>5, <2>1
  <2>9. /\ c \in Walks(t, W) /\ Onward(t, b, c) /\ IsFiniteSet(c.frontier \ b.frontier)
        /\ Cardinality(c.frontier \ b.frontier) + c.detours = b.detours
        /\ c.detours # 0 => \A j \in 1 .. k - 1 : ids[j] \in c.visited
    BY <2>2
  <2> DEFINE d == Detour(t, c, ids[k])
  <2>3. /\ d \in Walks(t, W) /\ Onward(t, c, d)
        /\ d.detours # 0 => c.detours # 0 /\ ids[k] \in d.visited
        /\ \/ d.frontier = c.frontier /\ d.detours = c.detours
           \/ /\ ids[k] \notin c.frontier /\ d.frontier = c.frontier \cup {ids[k]}
              /\ d.detours = c.detours - 1
    <3>1. c \in Walks(t, W) /\ ids[k] \in W
      BY <2>1, <2>9
    <3> QED BY <3>1, DetourOK
  <2> HIDE DEF d
  <2>4. Onward(t, b, d)
    BY <2>9, <2>3, OnwardOn
  <2>5. d.detours # 0 => \A j \in 1 .. k : ids[j] \in d.visited
    <3>1. \A j \in 1 .. k : j = k \/ j \in 1 .. k - 1
      BY <2>1
    <3> HIDE DEF At
    <3> QED BY <2>9, <2>3, <3>1 DEF Onward
  <2>6. /\ IsFiniteSet(d.frontier \ b.frontier)
        /\ Cardinality(d.frontier \ b.frontier) + d.detours = b.detours
    <3> DEFINE C == c.frontier \ b.frontier
    <3> HIDE DEF At
    <3>1. IsFiniteSet(C) /\ Cardinality(C) + c.detours = b.detours /\ Cardinality(C) \in Nat
          /\ c.detours \in Nat
      BY <2>9, FS_CardinalityType DEF Walks, BeamsOver
    <3>2. CASE d.frontier = c.frontier /\ d.detours = c.detours
      <4>1. d.frontier \ b.frontier = C
        BY <3>2
      <4> HIDE DEF C
      <4> QED BY <3>1, <3>2, <4>1
    <3>3. ASSUME ids[k] \notin c.frontier, d.frontier = c.frontier \cup {ids[k]},
                 d.detours = c.detours - 1
          PROVE  /\ IsFiniteSet(d.frontier \ b.frontier)
                 /\ Cardinality(d.frontier \ b.frontier) + d.detours = b.detours
      <4>1. d.frontier \ b.frontier = C \cup {ids[k]} /\ ids[k] \notin C
        BY <2>9, <2>1, <3>3 DEF Onward, Walks
      <4> HIDE DEF C
      <4>2. IsFiniteSet(C \cup {ids[k]}) /\ Cardinality(C \cup {ids[k]}) = Cardinality(C) + 1
        BY <3>1, <4>1, FS_AddElement
      <4>3. Cardinality(C \cup {ids[k]}) + d.detours = b.detours
        <5>1. d.detours = c.detours - 1
          BY <3>3
        <5> QED BY <3>1, <4>2, <5>1
      <4> QED BY <4>1, <4>2, <4>3
    <3>4. \/ d.frontier = c.frontier /\ d.detours = c.detours
          \/ /\ ids[k] \notin c.frontier /\ d.frontier = c.frontier \cup {ids[k]}
             /\ d.detours = c.detours - 1
      BY <2>3
    <3> HIDE DEF C
    <3> QED BY <3>2, <3>3, <3>4
  <2>7. d \in At(k)
    BY <2>3, <2>4, <2>5, <2>6
  <2> QED BY <2>2, <2>7 DEF d
<1>6. BridgeOut(t, b, id) \in At(n)
  <2>1. BridgeOut(t, b, id) \in S[n]
    <3> HIDE DEF At
    <3> QED BY <1>2, <1>4, <1>5, BridgeOutIn DEF n, ids
  <2> HIDE DEF At
  <2> QED BY <1>2, <1>3, <2>1
<1>7. \A c \in At(n) : c.detours # 0 => ToSet(ids) \subseteq c.visited
  BY <1>2 DEF ToSet
<1> QED BY <1>6, <1>7 DEF ids

\* What Start ends in, when every step keeps to a family of sets.
LEMMA StartIn ==
  ASSUME NEW t, NEW seeds, NEW detours, NEW expansions, Len(seeds) \in Nat, NEW S,
         Fresh(detours, expansions) \in S[0],
         \A k \in 1 .. Len(seeds) : \A c \in S[k - 1] : Seed(t, c, seeds[k]) \in S[k]
  PROVE  Start(t, seeds, detours, expansions) \in S[Len(seeds)]
<1> DEFINE Step(c, x) == Seed(t, c, x)
           first == Fresh(detours, expansions)
           Eq(f, q) == f = [k \in 0 .. Len(q) |-> IF k = 0 THEN first ELSE
                                CHOOSE r \in {Step(c, q[k]) : c \in {f[k - 1]}} : TRUE]
           Through(q) == (CHOOSE f : Eq(f, q))[Len(q)]
           n == Len(seeds)
           F == [x \in (UNION {S[k] : k \in 0 .. n}) \X (1 .. n) |-> Step(x[1], seeds[x[2]])]
<1>1. Start(t, seeds, detours, expansions) = CHOOSE r \in {Through(q) : q \in {seeds}} : TRUE
  BY DEF Start, InTurn
<1>2. /\ n \in Nat /\ first \in S[0]
      /\ \A k \in 1 .. n : \A c \in S[k - 1] : Step(c, seeds[k]) \in S[k]
  OBVIOUS
<1> HIDE DEF Step, n, first
<1>3. Start(t, seeds, detours, expansions) = Through(seeds)
  <2> HIDE DEF Through
  <2> QED BY <1>1, Once
<1>4. \A k \in 1 .. n : \A c \in S[k - 1] : F[<<c, k>>] = Step(c, seeds[k])
  <2> SUFFICES ASSUME NEW k \in 1 .. n, NEW c \in S[k - 1] PROVE F[<<c, k>>] = Step(c, seeds[k])
    OBVIOUS
  <2>1. <<c, k>> \in (UNION {S[j] : j \in 0 .. n}) \X (1 .. n)
    BY <1>2
  <2> QED BY <2>1
<1> HIDE DEF F
<1>5. PICK run : Runs(run, first, F, n) /\ \A k \in 0 .. n : run[k] \in S[k]
  <2>1. \A k \in 1 .. n : \A c \in S[k - 1] : F[<<c, k>>] \in S[k]
    BY <1>2, <1>4
  <2> QED BY <1>2, <2>1, RunIn
<1>6. \A f, k : (CHOOSE r \in {Step(c, seeds[k]) : c \in {f[k - 1]}} : TRUE)
                = Step(f[k - 1], seeds[k])
  BY Once
<1>7. Eq(run, seeds)
  <2>1. \A k \in 1 .. n : run[k] = Step(run[k - 1], seeds[k])
    <3>1. \A k \in 1 .. n : run[k - 1] \in S[k - 1]
      BY <1>2, <1>5
    <3> QED BY <1>4, <1>5, <3>1 DEF Runs
  <2>2. \A k \in 0 .. n : run[k] = IF k = 0 THEN first ELSE
          CHOOSE r \in {Step(c, seeds[k]) : c \in {run[k - 1]}} : TRUE
    <3> SUFFICES ASSUME NEW k \in 0 .. n
                 PROVE  run[k] = IF k = 0 THEN first ELSE
                          CHOOSE r \in {Step(c, seeds[k]) : c \in {run[k - 1]}} : TRUE
      OBVIOUS
    <3>1. CASE k = 0
      BY <1>5, <3>1 DEF Runs
    <3>2. CASE k # 0
      <4>1. run[k] = Step(run[k - 1], seeds[k])
        BY <1>2, <2>1, <3>2
      <4>2. (CHOOSE r \in {Step(c, seeds[k]) : c \in {run[k - 1]}} : TRUE)
            = Step(run[k - 1], seeds[k])
        BY <1>6
      <4> QED BY <3>2, <4>1, <4>2
    <3> QED BY <3>1, <3>2
  <2>3. run = [k \in 0 .. n |-> run[k]]
    BY <1>5 DEF Runs
  <2> QED BY <2>2, <2>3 DEF n
<1> DEFINE after == CHOOSE f : Eq(f, seeds)
<1>8. Eq(after, seeds)
  <2> HIDE DEF Eq
  <2> QED BY <1>7
<1> HIDE DEF after
<1>9. after[0] = first /\ \A k \in 1 .. n : after[k] = Step(after[k - 1], seeds[k])
  BY <1>2, <1>6, <1>8 DEF n
<1>10. \A k \in 0 .. n : after[k] \in S[k]
  BY <1>2, <1>9, RunStays
<1> QED BY <1>2, <1>3, <1>10 DEF n, after, first

\* A search begins with its seeds, all of them queued.
LEMMA StartOK ==
  ASSUME NEW t, NEW W, Walkable(t, W), NEW seeds \in Seq(W), NEW d \in Nat, NEW e \in Nat
  PROVE  LET c == Start(t, seeds, d, e) IN
         /\ c \in Walks(t, W) /\ c.frontier = c.visited /\ c.deferred = {}
         /\ c.detours = d /\ c.expansions = e
         /\ ToSet(seeds) \subseteq c.visited
<1> DEFINE n == Len(seeds)
           At(k) == {c \in Walks(t, W) : /\ NothingNearer(t, c.results, Seen(t, c))
                                         /\ c.frontier = c.visited /\ c.deferred = {}
                                         /\ c.detours = d /\ c.expansions = e
                                         /\ \A j \in 1 .. k : seeds[j] \in c.visited}
           S == [k \in 0 .. n |-> At(k)]
<1>1. n \in Nat /\ DOMAIN seeds = 1 .. n /\ \A k \in 1 .. n : seeds[k] \in W
  OBVIOUS
<1> HIDE DEF n
<1>2. \A k \in 0 .. n : S[k] = At(k)
  OBVIOUS
<1> HIDE DEF S
<1>3. Fresh(d, e) \in S[0]
  <2> DEFINE c == Fresh(d, e)
  <2>1. /\ c \in BeamsOver(W) /\ c.frontier = {} /\ c.visited = {} /\ c.deferred = {}
        /\ c.results = {} /\ c.detours = d /\ c.expansions = e
    BY DEF BeamsOver, Fresh
  <2> HIDE DEF c
  <2>2. Seen(t, c) = {}
    BY <2>1 DEF Seen
  <2>3. HoldsNearest(t, c.results, Seen(t, c))
    BY <2>1, <2>2, FS_EmptySet DEF HoldsNearest, NothingNearer, Walkable
  <2>4. c \in Walks(t, W) /\ NothingNearer(t, c.results, Seen(t, c))
    BY <2>1, <2>2, <2>3 DEF Walks, NothingNearer
  <2>6. \A j \in 1 .. 0 : seeds[j] \in c.visited
    OBVIOUS
  <2>5. c \in At(0)
    BY ONLY <2>1, <2>4, <2>6
  <2> HIDE DEF At
  <2> QED BY <1>1, <1>2, <2>5 DEF c
<1>4. ASSUME NEW k \in 1 .. n, NEW c \in S[k - 1] PROVE Seed(t, c, seeds[k]) \in S[k]
  <2>1. k \in 0 .. n /\ k - 1 \in 0 .. n /\ seeds[k] \in W
        /\ \A j \in 1 .. k : j = k \/ j \in 1 .. k - 1
    BY <1>1
  <2>2. S[k] = At(k) /\ c \in At(k - 1)
    BY <1>2, <1>4, <2>1
  <2>3. CASE seeds[k] \in c.visited
    <3>1. c \in At(k)
      BY <2>1, <2>2, <2>3
    <3> QED BY <2>2, <2>3, <3>1 DEF Seed
  <2>4. CASE seeds[k] \notin c.visited
    <3> DEFINE s == Seed(t, c, seeds[k])
    <3>1. /\ s \in Walks(t, W) /\ s.visited = c.visited \cup {seeds[k]}
          /\ s.frontier = c.frontier \cup {seeds[k]} /\ s.detours = c.detours
          /\ s.deferred = c.deferred /\ s.expansions = c.expansions
          /\ NothingNearer(t, s.results, Seen(t, s))
      <4>1. /\ c \in Walks(t, W) /\ s = Push(t, Noted(c, seeds[k]), seeds[k])
            /\ NothingNearer(t, c.results, Seen(t, c))
        BY <2>2, <2>4 DEF Seed
      <4> HIDE DEF s, At
      <4> QED BY <2>1, <2>4, <4>1, PushNew
    <3> HIDE DEF s
    <3>2. s \in At(k)
      BY <2>1, <2>2, <3>1
    <3> QED BY <2>2, <3>2 DEF s
  <2> QED BY <2>3, <2>4
<1>5. Start(t, seeds, d, e) \in At(n)
  <2>1. Start(t, seeds, d, e) \in S[n]
    <3> HIDE DEF At
    <3> QED BY <1>1, <1>3, <1>4, StartIn DEF n
  <2> HIDE DEF At
  <2> QED BY <1>1, <1>2, <2>1
<1>6. \A c \in At(n) : ToSet(seeds) \subseteq c.visited
  BY <1>1 DEF ToSet
<1> QED BY <1>5, <1>6

\* What Beyond ends in, when every step keeps to a family of sets.
LEMMA BeyondIn ==
  ASSUME NEW t, NEW ids, Len(ids) \in Nat, NEW S,
         <<>> \in S[0],
         \A k \in 1 .. Len(ids) : \A c \in S[k - 1] :
           (c \o Select(Neighbors(t.g, ids[k], t.layer), Matching(t))) \in S[k]
  PROVE  Beyond(t, ids) \in S[Len(ids)]
<1> DEFINE Step(c, x) == (c \o Select(Neighbors(t.g, x, t.layer), Matching(t)))
           first == <<>>
           Eq(f, q) == f = [k \in 0 .. Len(q) |-> IF k = 0 THEN first ELSE
                                CHOOSE r \in {Step(c, q[k]) : c \in {f[k - 1]}} : TRUE]
           Through(q) == (CHOOSE f : Eq(f, q))[Len(q)]
           n == Len(ids)
           F == [x \in (UNION {S[k] : k \in 0 .. n}) \X (1 .. n) |-> Step(x[1], ids[x[2]])]
<1>1. Beyond(t, ids) = CHOOSE r \in {Through(q) : q \in {ids}} : TRUE
  BY DEF Beyond, InTurn
<1>2. /\ n \in Nat /\ first \in S[0]
      /\ \A k \in 1 .. n : \A c \in S[k - 1] : Step(c, ids[k]) \in S[k]
  OBVIOUS
<1> HIDE DEF Step, n, first
<1>3. Beyond(t, ids) = Through(ids)
  <2> HIDE DEF Through
  <2> QED BY <1>1, Once
<1>4. \A k \in 1 .. n : \A c \in S[k - 1] : F[<<c, k>>] = Step(c, ids[k])
  <2> SUFFICES ASSUME NEW k \in 1 .. n, NEW c \in S[k - 1] PROVE F[<<c, k>>] = Step(c, ids[k])
    OBVIOUS
  <2>1. <<c, k>> \in (UNION {S[j] : j \in 0 .. n}) \X (1 .. n)
    BY <1>2
  <2> QED BY <2>1
<1> HIDE DEF F
<1>5. PICK run : Runs(run, first, F, n) /\ \A k \in 0 .. n : run[k] \in S[k]
  <2>1. \A k \in 1 .. n : \A c \in S[k - 1] : F[<<c, k>>] \in S[k]
    BY <1>2, <1>4
  <2> QED BY <1>2, <2>1, RunIn
<1>6. \A f, k : (CHOOSE r \in {Step(c, ids[k]) : c \in {f[k - 1]}} : TRUE)
                = Step(f[k - 1], ids[k])
  BY Once
<1>7. Eq(run, ids)
  <2>1. \A k \in 1 .. n : run[k] = Step(run[k - 1], ids[k])
    <3>1. \A k \in 1 .. n : run[k - 1] \in S[k - 1]
      BY <1>2, <1>5
    <3> QED BY <1>4, <1>5, <3>1 DEF Runs
  <2>2. \A k \in 0 .. n : run[k] = IF k = 0 THEN first ELSE
          CHOOSE r \in {Step(c, ids[k]) : c \in {run[k - 1]}} : TRUE
    <3> SUFFICES ASSUME NEW k \in 0 .. n
                 PROVE  run[k] = IF k = 0 THEN first ELSE
                          CHOOSE r \in {Step(c, ids[k]) : c \in {run[k - 1]}} : TRUE
      OBVIOUS
    <3>1. CASE k = 0
      BY <1>5, <3>1 DEF Runs
    <3>2. CASE k # 0
      <4>1. run[k] = Step(run[k - 1], ids[k])
        BY <1>2, <2>1, <3>2
      <4>2. (CHOOSE r \in {Step(c, ids[k]) : c \in {run[k - 1]}} : TRUE)
            = Step(run[k - 1], ids[k])
        BY <1>6
      <4> QED BY <3>2, <4>1, <4>2
    <3> QED BY <3>1, <3>2
  <2>3. run = [k \in 0 .. n |-> run[k]]
    BY <1>5 DEF Runs
  <2> QED BY <2>2, <2>3 DEF n
<1> DEFINE after == CHOOSE f : Eq(f, ids)
<1>8. Eq(after, ids)
  <2> HIDE DEF Eq
  <2> QED BY <1>7
<1> HIDE DEF after
<1>9. after[0] = first /\ \A k \in 1 .. n : after[k] = Step(after[k - 1], ids[k])
  BY <1>2, <1>6, <1>8 DEF n
<1>10. \A k \in 0 .. n : after[k] \in S[k]
  BY <1>2, <1>9, RunStays
<1> QED BY <1>2, <1>3, <1>10 DEF n, after, first

\* An expansion looks at nodes that the walk may come to.
LEMMA WithinTwoHopsOK ==
  ASSUME NEW t, NEW W, Walkable(t, W), NEW id \in W
  PROVE  WithinTwoHops(t, id) \in Seq(W)
<1> DEFINE near == Neighbors(t.g, id, t.layer)
           matching == Select(near, Matching(t))
           bridges == Take(Select(near, Ids(t.g) \ Matching(t)), M)
           beyond == Beyond(t, bridges)
<1>1. \A n \in W : \A T : Select(Neighbors(t.g, n, t.layer), T) \in Seq(W)
  <2> SUFFICES ASSUME NEW n \in W, NEW T PROVE Select(Neighbors(t.g, n, t.layer), T) \in Seq(W)
    OBVIOUS
  <2>1. Neighbors(t.g, n, t.layer) \in Seq(W)
    BY DEF Walkable
  <2>2. Select(Neighbors(t.g, n, t.layer), T) \in Seq(W \cap T)
    BY <2>1, SelectOK
  <2> QED BY <2>2
<1>2. matching \in Seq(W) /\ Select(near, Ids(t.g) \ Matching(t)) \in Seq(W)
  BY <1>1
<1>3. bridges \in Seq(W)
  BY <1>2, DegreeAssumption, TakeOK
<1> HIDE DEF near, matching, bridges
<1>4. beyond \in Seq(W)
  <2> DEFINE n == Len(bridges)
             S == [k \in 0 .. n |-> Seq(W)]
  <2>1. n \in Nat /\ \A k \in 1 .. n : bridges[k] \in W
    BY <1>3
  <2> HIDE DEF n
  <2>2. \A k \in 0 .. n : S[k] = Seq(W)
    OBVIOUS
  <2> HIDE DEF S
  <2>3. <<>> \in S[0]
    <3>1. <<>> \in Seq(W) /\ 0 \in 0 .. n
      BY <2>1
    <3> QED BY <2>2, <3>1
  <2>4. ASSUME NEW k \in 1 .. n, NEW c \in S[k - 1]
        PROVE  (c \o Select(Neighbors(t.g, bridges[k], t.layer), Matching(t))) \in S[k]
    <3>1. k \in 0 .. n /\ k - 1 \in 0 .. n /\ bridges[k] \in W
      BY <2>1
    <3>2. c \in Seq(W) /\ S[k] = Seq(W)
      BY <2>2, <2>4, <3>1
    <3>3. Select(Neighbors(t.g, bridges[k], t.layer), Matching(t)) \in Seq(W)
      BY <1>1, <3>1
    <3> QED BY <3>2, <3>3
  <2>5. Beyond(t, bridges) \in S[n]
    BY <2>1, <2>3, <2>4, BeyondIn DEF n
  <2> QED BY <2>1, <2>2, <2>5
<1> HIDE DEF beyond
<1>5. Take(beyond, M - Len(matching)) \in Seq(W)
  <2>1. Len(matching) \in Nat
    BY <1>2
  <2> QED BY <1>4, <2>1, DegreeAssumption DEF Take
<1>6. WithinTwoHops(t, id) = matching \o Take(beyond, M - Len(matching))
  BY DEF WithinTwoHops, near, matching, bridges, beyond
<1> QED BY <1>2, <1>5, <1>6

\* A beam that has taken its next node off the frontier.
LEMMA PopOK ==
  ASSUME NEW t, NEW W, Walkable(t, W), NEW b \in Walks(t, W)
  PROVE  LET p == Pop(t, b) IN
         /\ p \in Walks(t, W) /\ p.visited = b.visited /\ p.results = b.results
         /\ p.deferred = b.deferred /\ p.detours = b.detours /\ p.expansions = b.expansions
         /\ b.frontier = {} => p.frontier = {}
         /\ b.frontier # {} => /\ Upcoming(t, b) \in b.frontier
                               /\ p.frontier = b.frontier \ {Upcoming(t, b)}
<1> DEFINE p == Pop(t, b)
<1>1. b \in BeamsOver(W) /\ b.frontier \subseteq b.visited
  BY DEF Walks
<1>2. /\ p = [b EXCEPT !.frontier = p.frontier] /\ p.frontier \subseteq b.frontier
      /\ b.frontier = {} => p.frontier = {}
      /\ b.frontier # {} => p.frontier = b.frontier \ {Upcoming(t, b)}
  BY <1>1 DEF Pop, BeamsOver
<1> HIDE DEF p
<1>3. /\ p \in BeamsOver(W) /\ p.visited = b.visited /\ p.results = b.results
      /\ p.deferred = b.deferred /\ p.detours = b.detours /\ p.expansions = b.expansions
  BY <1>1, <1>2 DEF BeamsOver
<1>4. Seen(t, p) = Seen(t, b)
  BY <1>3 DEF Seen
<1>5. p \in Walks(t, W)
  BY <1>1, <1>2, <1>3, <1>4 DEF Walks
<1>6. b.frontier # {} => Upcoming(t, b) \in b.frontier
  <2>1. b.frontier \in SUBSET Ids(t.g) /\ Placed(t.g) /\ t.query \in Points
    BY <1>1 DEF BeamsOver, Walkable
  <2> QED BY <2>1, NearestOK DEF Upcoming
<1> QED BY <1>2, <1>3, <1>5, <1>6 DEF p

\* One turn.  c is the node expanded.
LEMMA TurnOK ==
  ASSUME NEW t, NEW W, Walkable(t, W), NEW b \in Walks(t, W), b.frontier # {},
         Filtered(t) => b.expansions # 0
  PROVE  LET d == Turn(t, b)  c == Upcoming(t, b) IN
         /\ d \in Walks(t, W) /\ c \in b.frontier
         /\ b.visited \subseteq d.visited /\ b.frontier \ {c} \subseteq d.frontier
         /\ d.frontier \ (b.frontier \ {c}) \subseteq d.visited \ b.visited
         /\ ~Full(t, d) => d.visited \ b.visited \subseteq d.frontier
         /\ d.expansions = IF Filtered(t) THEN b.expansions - 1 ELSE b.expansions
         /\ ~(Filtered(t) /\ Stranded(t, c)) => d.detours = b.detours
         /\ d.deferred = IF Filtered(t) /\ ~Stranded(t, c) THEN b.deferred \cup {c}
                         ELSE b.deferred
         /\ Filtered(t) /\ Stranded(t, c) =>
              /\ IsFiniteSet(d.frontier \ b.frontier)
              /\ Cardinality(d.frontier \ b.frontier) + d.detours = b.detours
              /\ d.detours # 0 => ToSet(Neighbors(t.g, c, t.layer)) \subseteq d.visited
<1> DEFINE c == Upcoming(t, b)
           p == Pop(t, b)
           paid == [p EXCEPT !.expansions = IF Filtered(t) THEN @ - 1 ELSE @]
           after == Expand(t, paid, c)
           d == Turn(t, b)
<1>1. /\ p \in Walks(t, W) /\ p.visited = b.visited /\ p.results = b.results
      /\ p.deferred = b.deferred /\ p.detours = b.detours /\ p.expansions = b.expansions
      /\ c \in b.frontier /\ p.frontier = b.frontier \ {c}
  BY PopOK
<1>2. d = IF Filtered(t) /\ ~Stranded(t, c) THEN [after EXCEPT !.deferred = @ \cup {c}] ELSE after
  BY DEF Turn
<1>3. b.expansions \in Nat /\ c \in W /\ c \in b.visited /\ b.frontier \subseteq b.visited
  BY <1>1 DEF Walks, BeamsOver
<1> HIDE DEF c, p, d
<1>4. /\ paid \in BeamsOver(W) /\ paid.visited = p.visited /\ paid.frontier = p.frontier
      /\ paid.results = p.results /\ paid.deferred = p.deferred /\ paid.detours = p.detours
      /\ paid.expansions = IF Filtered(t) THEN b.expansions - 1 ELSE b.expansions
  <2>1. p \in BeamsOver(W)
    BY <1>1 DEF Walks
  <2>2. (IF Filtered(t) THEN p.expansions - 1 ELSE p.expansions) \in Nat
    BY <1>1, <1>3
  <2> QED BY <1>1, <2>1, <2>2 DEF BeamsOver
<1> HIDE DEF paid
<1>5. paid \in Walks(t, W)
  <2>1. Seen(t, paid) = Seen(t, p)
    BY <1>4 DEF Seen
  <2> QED BY <1>1, <1>4, <2>1 DEF Walks
<1>6. /\ after \in Walks(t, W) /\ Onward(t, paid, after)
      /\ ~(Filtered(t) /\ Stranded(t, c)) => after.detours = paid.detours
      /\ Filtered(t) /\ Stranded(t, c) =>
           /\ IsFiniteSet(after.frontier \ paid.frontier)
           /\ Cardinality(after.frontier \ paid.frontier) + after.detours = paid.detours
           /\ after.detours # 0 => ToSet(Neighbors(t.g, c, t.layer)) \subseteq after.visited
  <2>1. CASE ~Filtered(t)
    <3>1. after = VisitAll(t, paid, Neighbors(t.g, c, t.layer))
          /\ Neighbors(t.g, c, t.layer) \in Seq(W)
      BY <1>3, <2>1 DEF Expand, Walkable
    <3> HIDE DEF after
    <3> QED BY <1>5, <2>1, <3>1, VisitAllOK
  <2>2. CASE Filtered(t) /\ Stranded(t, c)
    <3>1. after = BridgeOut(t, paid, c)
      BY <2>2 DEF Expand
    <3> HIDE DEF after
    <3> QED BY <1>3, <1>5, <2>2, <3>1, BridgeOutOK
  <2>3. CASE Filtered(t) /\ ~Stranded(t, c)
    <3>1. after = VisitAll(t, paid, WithinTwoHops(t, c)) /\ WithinTwoHops(t, c) \in Seq(W)
      BY <1>3, <2>3, WithinTwoHopsOK DEF Expand
    <3> HIDE DEF after
    <3> QED BY <1>5, <2>3, <3>1, VisitAllOK
  <2> QED BY <2>1, <2>2, <2>3
<1> HIDE DEF after
<1>7. /\ d \in BeamsOver(W) /\ d.visited = after.visited /\ d.frontier = after.frontier
      /\ d.results = after.results /\ d.detours = after.detours /\ d.expansions = after.expansions
      /\ d.deferred = IF Filtered(t) /\ ~Stranded(t, c) THEN after.deferred \cup {c}
                      ELSE after.deferred
  <2>1. after \in BeamsOver(W)
    BY <1>6 DEF Walks
  <2> QED BY <1>2, <1>3, <2>1 DEF BeamsOver
<1>8. Seen(t, d) = Seen(t, after) /\ (Full(t, d) <=> Full(t, after))
  BY <1>7 DEF Seen, Full
<1>9. /\ paid.visited \subseteq after.visited /\ paid.frontier \subseteq after.frontier
      /\ after.frontier \ paid.frontier \subseteq after.visited \ paid.visited
      /\ after.deferred = paid.deferred /\ after.expansions = paid.expansions
      /\ ~Full(t, after) => after.visited \ paid.visited \subseteq after.frontier
  BY <1>6 DEF Onward
<1>10. d \in Walks(t, W)
  <2>1. after.deferred \cup {c} \subseteq after.visited
    BY <1>1, <1>3, <1>4, <1>6, <1>9 DEF Walks
  <2> QED BY <1>6, <1>7, <1>8, <2>1 DEF Walks
<1>11. d.frontier \ b.frontier = after.frontier \ paid.frontier
  BY <1>1, <1>3, <1>4, <1>7, <1>9
<1>12. /\ b.visited \subseteq d.visited /\ b.frontier \ {c} \subseteq d.frontier
       /\ d.frontier \ (b.frontier \ {c}) \subseteq d.visited \ b.visited
       /\ ~Full(t, d) => d.visited \ b.visited \subseteq d.frontier
  BY <1>1, <1>4, <1>7, <1>8, <1>9
<1>13. /\ d.expansions = IF Filtered(t) THEN b.expansions - 1 ELSE b.expansions
       /\ ~(Filtered(t) /\ Stranded(t, c)) => d.detours = b.detours
       /\ d.deferred = IF Filtered(t) /\ ~Stranded(t, c) THEN b.deferred \cup {c} ELSE b.deferred
  BY <1>1, <1>4, <1>6, <1>7, <1>9
<1>14. Filtered(t) /\ Stranded(t, c) =>
         /\ IsFiniteSet(d.frontier \ b.frontier)
         /\ Cardinality(d.frontier \ b.frontier) + d.detours = b.detours
         /\ d.detours # 0 => ToSet(Neighbors(t.g, c, t.layer)) \subseteq d.visited
  BY <1>1, <1>4, <1>6, <1>7, <1>11
<1> QED BY <1>1, <1>10, <1>12, <1>13, <1>14 DEF c, d

\* What is queued in two steps adds up.
LEMMA GrowthAdds ==
  ASSUME NEW A, NEW B, NEW C, A \subseteq B, B \subseteq C,
         IsFiniteSet(B \ A), IsFiniteSet(C \ B)
  PROVE  /\ IsFiniteSet(C \ A)
         /\ Cardinality(C \ A) = Cardinality(B \ A) + Cardinality(C \ B)
         /\ Cardinality(B \ A) \in Nat /\ Cardinality(C \ B) \in Nat
<1> DEFINE P == B \ A
           Q == C \ B
<1>1. C \ A = P \cup Q /\ P \cap Q = {}
  OBVIOUS
<1>2. IsFiniteSet(P) /\ IsFiniteSet(Q)
  OBVIOUS
<1> HIDE DEF P, Q
<1>3. Cardinality(P) \in Nat /\ Cardinality(Q) \in Nat
  BY <1>2, FS_CardinalityType
<1>4. Cardinality(P \cap Q) = 0
  BY <1>1, FS_EmptySet
<1>5. IsFiniteSet(P \cup Q) /\ Cardinality(P \cup Q) = Cardinality(P) + Cardinality(Q)
  <2>1. /\ IsFiniteSet(P \cup Q)
        /\ Cardinality(P \cup Q) = Cardinality(P) + Cardinality(Q) - Cardinality(P \cap Q)
    BY <1>2, FS_Union
  <2> QED BY <1>3, <1>4, <2>1
<1> QED BY <1>1, <1>3, <1>5 DEF P, Q

\* What Rescue ends in, when every step keeps to a family of sets.
LEMMA RescueIn ==
  ASSUME NEW t, NEW b, Len(Ranked(t.g, t.query, b.deferred)) \in Nat, NEW S,
         [b EXCEPT !.deferred = {}] \in S[0],
         \A k \in 1 .. Len(Ranked(t.g, t.query, b.deferred)) : \A c \in S[k - 1] :
           BridgeOut(t, c, Ranked(t.g, t.query, b.deferred)[k]) \in S[k]
  PROVE  Rescue(t, b) \in S[Len(Ranked(t.g, t.query, b.deferred))]
<1> DEFINE Step(c, x) == BridgeOut(t, c, x)
           first == [b EXCEPT !.deferred = {}]
           list == Ranked(t.g, t.query, b.deferred)
           Eq(f, q) == f = [k \in 0 .. Len(q) |-> IF k = 0 THEN first ELSE
                                CHOOSE r \in {Step(c, q[k]) : c \in {f[k - 1]}} : TRUE]
           Through(q) == (CHOOSE f : Eq(f, q))[Len(q)]
           n == Len(list)
           F == [x \in (UNION {S[k] : k \in 0 .. n}) \X (1 .. n) |-> Step(x[1], list[x[2]])]
<1>1. Rescue(t, b) = CHOOSE r \in {Through(q) : q \in {list}} : TRUE
  BY DEF Rescue, InTurn
<1>2. /\ n \in Nat /\ first \in S[0]
      /\ \A k \in 1 .. n : \A c \in S[k - 1] : Step(c, list[k]) \in S[k]
  OBVIOUS
<1> HIDE DEF Step, n, first, list
<1>3. Rescue(t, b) = Through(list)
  <2> HIDE DEF Through
  <2> QED BY <1>1, Once
<1>4. \A k \in 1 .. n : \A c \in S[k - 1] : F[<<c, k>>] = Step(c, list[k])
  <2> SUFFICES ASSUME NEW k \in 1 .. n, NEW c \in S[k - 1] PROVE F[<<c, k>>] = Step(c, list[k])
    OBVIOUS
  <2>1. <<c, k>> \in (UNION {S[j] : j \in 0 .. n}) \X (1 .. n)
    BY <1>2
  <2> QED BY <2>1
<1> HIDE DEF F
<1>5. PICK run : Runs(run, first, F, n) /\ \A k \in 0 .. n : run[k] \in S[k]
  <2>1. \A k \in 1 .. n : \A c \in S[k - 1] : F[<<c, k>>] \in S[k]
    BY <1>2, <1>4
  <2> QED BY <1>2, <2>1, RunIn
<1>6. \A f, k : (CHOOSE r \in {Step(c, list[k]) : c \in {f[k - 1]}} : TRUE)
                = Step(f[k - 1], list[k])
  BY Once
<1>7. Eq(run, list)
  <2>1. \A k \in 1 .. n : run[k] = Step(run[k - 1], list[k])
    <3>1. \A k \in 1 .. n : run[k - 1] \in S[k - 1]
      BY <1>2, <1>5
    <3> QED BY <1>4, <1>5, <3>1 DEF Runs
  <2>2. \A k \in 0 .. n : run[k] = IF k = 0 THEN first ELSE
          CHOOSE r \in {Step(c, list[k]) : c \in {run[k - 1]}} : TRUE
    <3> SUFFICES ASSUME NEW k \in 0 .. n
                 PROVE  run[k] = IF k = 0 THEN first ELSE
                          CHOOSE r \in {Step(c, list[k]) : c \in {run[k - 1]}} : TRUE
      OBVIOUS
    <3>1. CASE k = 0
      BY <1>5, <3>1 DEF Runs
    <3>2. CASE k # 0
      <4>1. run[k] = Step(run[k - 1], list[k])
        BY <1>2, <2>1, <3>2
      <4>2. (CHOOSE r \in {Step(c, list[k]) : c \in {run[k - 1]}} : TRUE)
            = Step(run[k - 1], list[k])
        BY <1>6
      <4> QED BY <3>2, <4>1, <4>2
    <3> QED BY <3>1, <3>2
  <2>3. run = [k \in 0 .. n |-> run[k]]
    BY <1>5 DEF Runs
  <2> QED BY <2>2, <2>3 DEF n
<1> DEFINE after == CHOOSE f : Eq(f, list)
<1>8. Eq(after, list)
  <2> HIDE DEF Eq
  <2> QED BY <1>7
<1> HIDE DEF after
<1>9. after[0] = first /\ \A k \in 1 .. n : after[k] = Step(after[k - 1], list[k])
  BY <1>2, <1>6, <1>8, SMTT(30) DEF n
<1>10. \A k \in 0 .. n : after[k] \in S[k]
  BY <1>2, <1>9, RunStays
<1> QED BY <1>2, <1>3, <1>10 DEF n, after, first, list

\* The rescue goes round every node that never bridged out, for as long as the allowance lasts.
LEMMA RescueOK ==
  ASSUME NEW t, NEW W, Walkable(t, W), NEW b \in Walks(t, W)
  PROVE  LET c == Rescue(t, b) IN
         /\ c \in Walks(t, W) /\ b.visited \subseteq c.visited /\ b.frontier \subseteq c.frontier
         /\ c.frontier \ b.frontier \subseteq c.visited \ b.visited
         /\ c.deferred = {} /\ c.expansions = b.expansions
         /\ ~Full(t, c) => c.visited \ b.visited \subseteq c.frontier
         /\ ~Full(t, b) /\ c.frontier = b.frontier => c.visited = b.visited
         /\ IsFiniteSet(c.frontier \ b.frontier)
         /\ Cardinality(c.frontier \ b.frontier) + c.detours = b.detours
         /\ c.detours # 0 =>
              \A id \in b.deferred : ToSet(Neighbors(t.g, id, t.layer)) \subseteq c.visited
<1> DEFINE base == [b EXCEPT !.deferred = {}]
           ids == Ranked(t.g, t.query, b.deferred)
           n == Len(ids)
           At(k) == {c \in Walks(t, W) :
                       /\ Onward(t, base, c) /\ IsFiniteSet(c.frontier \ b.frontier)
                       /\ Cardinality(c.frontier \ b.frontier) + c.detours = b.detours
                       /\ c.detours # 0 =>
                            \A j \in 1 .. k :
                               ToSet(Neighbors(t.g, ids[j], t.layer)) \subseteq c.visited}
           S == [k \in 0 .. n |-> At(k)]
<1>1. /\ n \in Nat /\ \A k \in 1 .. n : ids[k] \in W
      /\ \A a \in b.deferred : \E k \in 1 .. n : ids[k] = a
  <2>1. b.deferred \in SUBSET Ids(t.g) /\ b.deferred \subseteq W /\ Placed(t.g)
        /\ t.query \in Points
    BY DEF Walks, BeamsOver, Walkable
  <2>2. /\ Cardinality(b.deferred) \in Nat /\ n = Cardinality(b.deferred)
        /\ \A k \in 1 .. Cardinality(b.deferred) : ids[k] \in b.deferred
        /\ \A a \in b.deferred : \E k \in 1 .. Cardinality(b.deferred) : ids[k] = a
    <3> HIDE DEF base, At, S
    <3> QED BY ONLY <2>1, RankedOK
  <2> QED BY <2>1, <2>2
<1>2. /\ base \in BeamsOver(W) /\ base.visited = b.visited /\ base.frontier = b.frontier
      /\ base.results = b.results /\ base.deferred = {} /\ base.detours = b.detours
      /\ base.expansions = b.expansions
  BY DEF Walks, BeamsOver
<1> HIDE DEF n, ids, base
<1>3. \A k \in 0 .. n : S[k] = At(k)
  OBVIOUS
<1> HIDE DEF S
<1>4. base \in Walks(t, W) /\ (Full(t, base) <=> Full(t, b))
  <2>1. Seen(t, base) = Seen(t, b)
    BY <1>2 DEF Seen
  <2> QED BY <1>2, <2>1 DEF Walks, Full
<1>5. base \in S[0]
  <2>1. base.frontier \ b.frontier = {} /\ b.detours \in Nat
    BY <1>2 DEF Walks, BeamsOver
  <2>2. base \in At(0)
    BY <1>2, <1>4, <2>1, OnwardSelf, FS_EmptySet
  <2>3. 0 \in 0 .. n
    BY <1>1
  <2> HIDE DEF At
  <2> QED BY <1>3, <2>2, <2>3
<1>6. ASSUME NEW k \in 1 .. n, NEW c \in S[k - 1] PROVE BridgeOut(t, c, ids[k]) \in S[k]
  <2>1. k \in 0 .. n /\ k - 1 \in 0 .. n /\ ids[k] \in W
        /\ \A j \in 1 .. k : j = k \/ j \in 1 .. k - 1
    BY <1>1
  <2>2. S[k] = At(k) /\ c \in At(k - 1)
    BY <1>3, <1>6, <2>1
  <2>3. /\ c \in Walks(t, W) /\ Onward(t, base, c) /\ IsFiniteSet(c.frontier \ b.frontier)
        /\ Cardinality(c.frontier \ b.frontier) + c.detours = b.detours
        /\ c.detours # 0 =>
             \A j \in 1 .. k - 1 : ToSet(Neighbors(t.g, ids[j], t.layer)) \subseteq c.visited
    BY <2>2
  <2> DEFINE d == BridgeOut(t, c, ids[k])
  <2>4. /\ d \in Walks(t, W) /\ Onward(t, c, d)
        /\ IsFiniteSet(d.frontier \ c.frontier)
        /\ Cardinality(d.frontier \ c.frontier) + d.detours = c.detours
        /\ d.detours # 0 => ToSet(Neighbors(t.g, ids[k], t.layer)) \subseteq d.visited
    BY <2>1, <2>3, BridgeOutOK
  <2> HIDE DEF d
  <2>5. Onward(t, base, d)
    BY <1>4, <2>3, <2>4, OnwardOn
  <2>6. /\ IsFiniteSet(d.frontier \ b.frontier)
        /\ Cardinality(d.frontier \ b.frontier) + d.detours = b.detours
        /\ d.detours # 0 => c.detours # 0
    <3>1. b.frontier \subseteq c.frontier /\ c.frontier \subseteq d.frontier
      BY <1>2, <2>3, <2>4 DEF Onward
    <3>2. /\ IsFiniteSet(d.frontier \ b.frontier)
          /\ Cardinality(d.frontier \ b.frontier) =
               Cardinality(c.frontier \ b.frontier) + Cardinality(d.frontier \ c.frontier)
          /\ Cardinality(c.frontier \ b.frontier) \in Nat
          /\ Cardinality(d.frontier \ c.frontier) \in Nat
      BY <2>3, <2>4, <3>1, GrowthAdds
    <3>3. c.detours \in Nat /\ d.detours \in Nat /\ b.detours \in Nat
      BY <2>3, <2>4 DEF Walks, BeamsOver
    <3> HIDE DEF At
    <3> QED BY <2>3, <2>4, <3>2, <3>3
  <2>7. d.detours # 0 =>
          \A j \in 1 .. k : ToSet(Neighbors(t.g, ids[j], t.layer)) \subseteq d.visited
    <3>1. c.visited \subseteq d.visited
      BY <2>4 DEF Onward
    <3> HIDE DEF At
    <3> QED BY <2>1, <2>3, <2>4, <2>6, <3>1
  <2>8. d \in At(k)
    BY <2>4, <2>5, <2>6, <2>7
  <2> HIDE DEF At
  <2> QED BY <2>2, <2>8 DEF d
<1> DEFINE r == Rescue(t, b)
<1>7. r \in At(n)
  <2>1. r \in S[n]
    <3> HIDE DEF At
    <3> QED BY <1>1, <1>5, <1>6, RescueIn DEF n, ids, base
  <2>2. n \in 0 .. n
    BY <1>1
  <2> HIDE DEF At, r
  <2> QED BY <1>3, <2>1, <2>2
<1> HIDE DEF r
<1>8. /\ r \in Walks(t, W) /\ Onward(t, base, r) /\ IsFiniteSet(r.frontier \ b.frontier)
      /\ Cardinality(r.frontier \ b.frontier) + r.detours = b.detours
      /\ r.detours # 0 =>
           \A j \in 1 .. n : ToSet(Neighbors(t.g, ids[j], t.layer)) \subseteq r.visited
  BY <1>7
<1> HIDE DEF At
<1>9. r.detours # 0 =>
        \A id \in b.deferred : ToSet(Neighbors(t.g, id, t.layer)) \subseteq r.visited
  BY <1>1, <1>8
<1>10. /\ b.visited \subseteq r.visited /\ b.frontier \subseteq r.frontier
       /\ r.frontier \ b.frontier \subseteq r.visited \ b.visited
       /\ r.deferred = {} /\ r.expansions = b.expansions
       /\ ~Full(t, r) => r.visited \ b.visited \subseteq r.frontier
       /\ ~Full(t, b) /\ r.frontier = b.frontier => r.visited = b.visited
  BY <1>2, <1>4, <1>8 DEF Onward
<1> QED BY <1>8, <1>9, <1>10 DEF r

\* An unfiltered search of a layer finds nodes of it, each once, and no more than it may.
LEMMA SearchLayerOK ==
  ASSUME NEW t, NEW W, Walkable(t, W), ~Filtered(t), NEW seeds \in Seq(W)
  PROVE  LET r == SearchLayer(t, seeds) IN
         r \in Seq(W) /\ Distinct(r) /\ Len(r) <= t.ef
<1> DEFINE n == Size(t.g)
           first == Start(t, seeds, 0, 0)
           Step(b) == IF GoesOn(t, b) THEN Turn(t, b) ELSE b
           Eq(f) == f = [k \in 0 .. n |-> IF k = 0 THEN first ELSE Step(f[k - 1])]
           F == [x \in Walks(t, W) \X (1 .. n) |-> Step(x[1])]
           after == CHOOSE f : Eq(f)
           S == [k \in 0 .. n |-> Walks(t, W)]
<1>1. SearchLayer(t, seeds) = Ranked(t.g, t.query, after[n].results)
  BY DEF SearchLayer
<1>2. n \in Nat /\ Placed(t.g) /\ t.query \in Points /\ W \subseteq Ids(t.g) /\ t.ef \in Nat
  BY IdsFinite DEF Walkable
<1>3. first \in Walks(t, W)
  BY StartOK
<1>4. ASSUME NEW b \in Walks(t, W) PROVE Step(b) \in Walks(t, W)
  <2>1. CASE GoesOn(t, b)
    <3>1. b.frontier # {}
      BY <2>1 DEF GoesOn
    <3> QED BY <2>1, <3>1, TurnOK
  <2> QED BY <2>1
<1> HIDE DEF n, first, Step
<1>5. \A k \in 0 .. n : S[k] = Walks(t, W)
  OBVIOUS
<1>6. \A b \in Walks(t, W), k \in 1 .. n : F[<<b, k>>] = Step(b)
  <2> SUFFICES ASSUME NEW b \in Walks(t, W), NEW k \in 1 .. n PROVE F[<<b, k>>] = Step(b)
    OBVIOUS
  <2>1. <<b, k>> \in Walks(t, W) \X (1 .. n)
    OBVIOUS
  <2> QED BY <2>1
<1> HIDE DEF F, S
<1>7. PICK run : Runs(run, first, F, n) /\ \A k \in 0 .. n : run[k] \in Walks(t, W)
  <2>1. \A k \in 1 .. n : k \in 0 .. n /\ k - 1 \in 0 .. n
    BY <1>2
  <2>2. first \in S[0]
    <3>1. 0 \in 0 .. n
      BY <1>2
    <3> QED BY <1>3, <1>5, <3>1
  <2>3. \A k \in 1 .. n : \A c \in S[k - 1] : F[<<c, k>>] \in S[k]
    BY <1>4, <1>5, <1>6, <2>1
  <2>4. \E g : Runs(g, first, F, n) /\ \A k \in 0 .. n : g[k] \in S[k]
    BY <1>2, <2>2, <2>3, RunIn
  <2> QED BY <1>5, <2>4
<1>8. Eq(run)
  <2>1. \A k \in 1 .. n : run[k] = Step(run[k - 1])
    <3>1. \A k \in 1 .. n : run[k - 1] \in Walks(t, W)
      BY <1>2, <1>7
    <3> QED BY <1>6, <1>7, <3>1 DEF Runs
  <2>2. \A k \in 0 .. n : run[k] = IF k = 0 THEN first ELSE Step(run[k - 1])
    <3>1. \A k \in 0 .. n : k = 0 \/ k \in 1 .. n
      BY <1>2
    <3>2. run[0] = first
      BY <1>7 DEF Runs
    <3> QED BY <1>2, <2>1, <3>1, <3>2
  <2>3. run = [k \in 0 .. n |-> run[k]]
    BY <1>7 DEF Runs
  <2> QED BY <2>2, <2>3
<1>9. Eq(after)
  <2> HIDE DEF Eq
  <2> QED BY <1>8
<1> HIDE DEF after
<1>10. after[0] = first /\ \A k \in 1 .. n : after[k] = Step(after[k - 1])
  BY <1>2, <1>9
<1>11. after[n] \in Walks(t, W)
  <2>1. \A k \in 1 .. n : k \in 0 .. n /\ k - 1 \in 0 .. n
    BY <1>2
  <2>2. 0 \in 0 .. n /\ n \in 0 .. n
    BY <1>2
  <2>3. after[0] \in S[0] /\ \A k \in 1 .. n : after[k - 1] \in S[k - 1] => after[k] \in S[k]
    BY <1>3, <1>4, <1>5, <1>10, <2>1, <2>2
  <2>4. \A k \in 0 .. n : after[k] \in S[k]
    BY <1>2, <2>3, RunStays
  <2> QED BY <1>5, <2>2, <2>4
<1> DEFINE R == after[n].results
           r == Ranked(t.g, t.query, R)
<1>12. /\ R \subseteq W /\ R \in SUBSET Ids(t.g) /\ Cardinality(R) \in Nat
       /\ Cardinality(R) <= t.ef
  <2> DEFINE b == after[n]
  <2>1. b \in Walks(t, W)
    BY <1>11
  <2> HIDE DEF b
  <2>2. /\ b.results \subseteq W /\ Cardinality(Seen(t, b)) \in Nat
        /\ Cardinality(b.results) = IF Cardinality(Seen(t, b)) < t.ef THEN Cardinality(Seen(t, b))
                                    ELSE t.ef
    BY <2>1, FullWhenSeen DEF Walks, BeamsOver, HoldsNearest
  <2> QED BY <1>2, <2>2 DEF b
<1> HIDE DEF R
<1>13. r \in Seq(R) /\ Len(r) = Cardinality(R) /\ Distinct(r)
  BY <1>2, <1>12, RankedOK, RankedDistinct
<1>14. r \in Seq(W)
  BY <1>12, <1>13
<1> QED BY <1>1, <1>12, <1>13, <1>14 DEF R

-----------------------------------------------------------------------------
(* The lists of a graph.                                                   *)

\* The nodes that have a layer.
Tall(g, layer) == {id \in Ids(g) : layer < Len(g.links[id])}

\* Every array is as long as the graph.
Framed(g) ==
  g \in Graphs /\ Len(g.links) = Size(g) /\ g.dead \subseteq Ids(g)

\* The list of n on a layer: nodes of the layer, not n, no node twice, within the cap.
ListKept(g, n, layer) ==
  /\ Neighbors(g, n, layer) \in Seq(Tall(g, layer) \ {n})
  /\ Distinct(Neighbors(g, n, layer))
  /\ Len(Neighbors(g, n, layer)) <= MaxDegree(layer)

\* An edge to m comes back to n unless the list of m is full.
ComesBack(g, n, m, layer) ==
  \/ n \in ToSet(Neighbors(g, m, layer))
  \/ Len(Neighbors(g, m, layer)) = MaxDegree(layer)

\* Every list is kept, and every edge comes back or was pruned.
Woven(g) ==
  \A layer \in Nat : \A n \in Ids(g) :
    /\ ListKept(g, n, layer)
    /\ \A m \in ToSet(Neighbors(g, n, layer)) : ComesBack(g, n, m, layer)

\* The entry point reaches up to the top layer.
Entered(g) ==
  g.entry = 0 \/ (g.entry \in Ids(g) /\ g.top < Len(g.links[g.entry]))

\* What the graph promises between two operations.
Sound(g) == Framed(g) /\ Woven(g) /\ Entered(g)

\* Two graphs that differ in their lists alone.
SameFrame(g, h) ==
  /\ h.at = g.at /\ h.dead = g.dead /\ h.entry = g.entry /\ h.top = g.top
  /\ \A n \in Ids(g) : Len(h.links[n]) = Len(g.links[n])

\* What a graph with arrays of one length has.
LEMMA FramedOK ==
  ASSUME NEW g, Framed(g)
  PROVE  /\ Placed(g) /\ Size(g) \in Nat /\ Ids(g) \subseteq Nodes /\ Size(g) + 1 \in Nodes
         /\ Size(g) + 1 \notin Ids(g)
         /\ g.links \in Seq(Seq(Seq(Nodes))) /\ g.entry \in Nat /\ g.top \in Nat
         /\ \A n \in Ids(g) : g.links[n] \in Seq(Seq(Nodes)) /\ Len(g.links[n]) \in Nat
<1>1. /\ g.at \in Seq(Points) /\ g.links \in Seq(Seq(Seq(Nodes))) /\ g.entry \in Nat
      /\ g.top \in Nat /\ Len(g.links) = Size(g)
  BY DEF Framed, Graphs
<1>2. Size(g) \in Nat /\ Ids(g) = 1 .. Size(g)
  BY <1>1 DEF Size, Ids
<1>3. \A n \in Ids(g) : g.links[n] \in Seq(Seq(Nodes))
  BY <1>1, <1>2
<1>4. \A n \in Ids(g) : Len(g.links[n]) \in Nat
  BY <1>3
<1> QED BY <1>1, <1>2, <1>3, <1>4 DEF Placed, Nodes

\* The nodes of a layer are a matter of the frame.
LEMMA SameFrameOK ==
  ASSUME NEW g, NEW h, SameFrame(g, h)
  PROVE  /\ Ids(h) = Ids(g) /\ Size(h) = Size(g)
         /\ \A layer \in Int : Tall(h, layer) = Tall(g, layer)
<1>1. Ids(h) = Ids(g) /\ Size(h) = Size(g)
  BY DEF SameFrame, Ids, Size
<1> QED BY <1>1 DEF SameFrame, Tall

\* Changing lists twice is changing lists.
LEMMA SameFrameOn ==
  ASSUME NEW g, NEW h, NEW i, SameFrame(g, h), SameFrame(h, i)
  PROVE  SameFrame(g, i)
BY SameFrameOK DEF SameFrame

\* Widths and caps are numbers.
LEMMA DegreeOK ==
  /\ Header.ef \in Nat \ {0} /\ \A layer \in Nat : MaxDegree(layer) \in Nat
<1> DEFINE m == Header.m
           gamma == Header.gamma
<1>1. M \in Nat /\ M >= 2 /\ Gamma \in Nat \ {0} /\ EfConstruction \in Nat
  BY DegreeAssumption, GraphAssumption
<1>2. /\ m = M /\ gamma = Clamp(4 * Gamma, 4, MAX_GAMMA)
      /\ Header.ef = IF EfConstruction < EfFloor(m, gamma) THEN EfFloor(m, gamma)
                     ELSE EfConstruction
  BY <1>1 DEF Header, NewHeader
<1>3. gamma \in Nat /\ gamma >= 4
  BY <1>1, <1>2 DEF Clamp, MAX_GAMMA
<1> HIDE DEF m, gamma
<1>4. m * gamma \in Nat /\ m * gamma >= 1 /\ 2 * m * gamma = 2 * (m * gamma)
  BY <1>1, <1>2, <1>3
<1>5. MCap(m, gamma) \in Nat /\ M0Cap(m, gamma) \in Nat \ {0}
  <2> DEFINE p == m * gamma
  <2>1. /\ p \in Nat /\ p >= 1 /\ MCap(m, gamma) = (p + 2) \div 4
        /\ M0Cap(m, gamma) = (2 * p + 2) \div 4
    BY <1>4 DEF MCap, M0Cap
  <2> HIDE DEF p
  <2> QED BY <2>1
<1>6. \A layer \in Nat : MaxDegree(layer) \in Nat
  BY <1>5 DEF MaxDegree, m, gamma
<1>7. EfFloor(m, gamma) \in Nat \ {0}
  BY <1>1, <1>2, <1>5 DEF EfFloor
<1> QED BY <1>1, <1>2, <1>6, <1>7

\* A list is written, and nothing else.
LEMMA SetNeighborsOK ==
  ASSUME NEW g, Framed(g), NEW layer \in Nat, NEW id \in Tall(g, layer), NEW ids \in Seq(Nodes)
  PROVE  LET h == SetNeighbors(g, id, layer, ids) IN
         /\ Framed(h) /\ SameFrame(g, h)
         /\ \A n \in Ids(g), k \in Nat :
              Neighbors(h, n, k) = IF n = id /\ k = layer THEN ids ELSE Neighbors(g, n, k)
<1> DEFINE h == SetNeighbors(g, id, layer, ids)
           row == [g.links[id] EXCEPT ![layer + 1] = ids]
<1>1. /\ id \in Ids(g) /\ layer + 1 \in 1 .. Len(g.links[id]) /\ Ids(g) = 1 .. Len(g.links)
      /\ Ids(g) = DOMAIN g.links /\ g.links[id] \in Seq(Seq(Nodes))
      /\ g.links \in Seq(Seq(Seq(Nodes)))
  BY FramedOK DEF Tall, Framed, Ids
<1>2. h.links = [g.links EXCEPT ![id] = row] /\ h = [g EXCEPT !.links = h.links]
  BY DEF SetNeighbors, Framed, Graphs
<1> HIDE DEF h
<1>3. /\ row \in Seq(Seq(Nodes)) /\ Len(row) = Len(g.links[id]) /\ row[layer + 1] = ids
      /\ \A k \in 1 .. Len(row) : k # layer + 1 => row[k] = g.links[id][k]
  BY <1>1, SMTT(30)
<1> HIDE DEF row
<1>4. /\ h.links \in Seq(Seq(Seq(Nodes))) /\ Len(h.links) = Len(g.links)
      /\ h.links[id] = row /\ \A n \in Ids(g) : n # id => h.links[n] = g.links[n]
  BY <1>1, <1>2, <1>3, SMTT(30)
<1>5. /\ h.at = g.at /\ h.dead = g.dead /\ h.entry = g.entry /\ h.top = g.top /\ h \in Graphs
  <2> DEFINE L == h.links
  <2>1. g \in Graphs /\ h = [g EXCEPT !.links = L] /\ L \in Seq(Seq(Seq(Nodes)))
    BY <1>2, <1>4 DEF Framed
  <2> HIDE DEF L
  <2> QED BY ONLY <2>1 DEF Graphs
<1>6. Framed(h)
  BY <1>4, <1>5 DEF Framed, Size, Ids
<1>7. SameFrame(g, h)
  BY <1>3, <1>4, <1>5 DEF SameFrame
<1>8. ASSUME NEW n \in Ids(g), NEW k \in Nat
      PROVE  Neighbors(h, n, k) = IF n = id /\ k = layer THEN ids ELSE Neighbors(g, n, k)
  <2>1. LayersOf(h, n) = LayersOf(g, n) /\ Len(g.links[n]) \in Nat
    BY <1>7, FramedOK DEF LayersOf, SameFrame
  <2>2. CASE n # id
    BY <1>4, <2>1, <2>2 DEF Neighbors
  <2>3. CASE n = id
    <3>1. layer \in LayersOf(g, id)
      BY <1>1, <2>1, <2>3 DEF LayersOf
    <3>2. CASE k = layer
      BY <1>3, <1>4, <2>1, <2>3, <3>1, <3>2 DEF Neighbors
    <3>3. CASE k # layer
      <4>1. k \in LayersOf(g, id) => k + 1 \in 1 .. Len(row) /\ k + 1 # layer + 1
        BY <1>3, <2>1, <2>3, <3>3 DEF LayersOf
      <4> QED BY <1>3, <1>4, <2>1, <2>3, <3>3, <4>1 DEF Neighbors
    <3> QED BY <3>2, <3>3
  <2> QED BY <2>2, <2>3
<1> QED BY <1>6, <1>7, <1>8 DEF h

\* The other side of an edge: the list of n gains id, or is pruned and full.
LEMMA BackLinkOK ==
  ASSUME NEW g, Framed(g), NEW layer \in Nat, NEW id \in Tall(g, layer),
         NEW n \in Tall(g, layer) \ {id}, ListKept(g, n, layer),
         id \notin ToSet(Neighbors(g, n, layer))
  PROVE  LET h == BackLink(g, n, layer, id) IN
         /\ Framed(h) /\ SameFrame(g, h) /\ ListKept(h, n, layer)
         /\ \A m \in Ids(g), k \in Nat :
              ~(m = n /\ k = layer) => Neighbors(h, m, k) = Neighbors(g, m, k)
         /\ ToSet(Neighbors(h, n, layer)) \subseteq ToSet(Neighbors(g, n, layer)) \cup {id}
         /\ \/ Len(Neighbors(h, n, layer)) = MaxDegree(layer)
            \/ ToSet(Neighbors(h, n, layer)) = ToSet(Neighbors(g, n, layer)) \cup {id}
<1> DEFINE old == Neighbors(g, n, layer)
           X == Tall(g, layer) \ {n}
           appended == Append(old, id)
           pruned == SelectNeighbors(g, g.at[n], ToSet(appended), MaxDegree(layer))
           new == IF Len(appended) <= MaxDegree(layer) THEN appended ELSE pruned
           h == BackLink(g, n, layer, id)
<1>1. h = SetNeighbors(g, n, layer, new)
  BY DEF BackLink
<1>2. /\ MaxDegree(layer) \in Nat /\ X \subseteq Ids(g) /\ Ids(g) \subseteq Nodes /\ id \in X
      /\ old \in Seq(X) /\ Distinct(old) /\ n \in Ids(g) /\ Placed(g)
      /\ id \notin ToSet(old)
  BY DegreeOK, FramedOK DEF ListKept, Tall
<1> HIDE DEF old, X, h
<1>3. /\ appended \in Seq(X) /\ Distinct(appended) /\ Len(appended) \in Nat
      /\ ToSet(appended) = ToSet(old) \cup {id}
  <2>1. /\ appended \in Seq(X) /\ Len(old) \in Nat /\ Len(appended) = Len(old) + 1
        /\ \A j \in 1 .. Len(old) : appended[j] = old[j]
        /\ appended[Len(old) + 1] = id
        /\ \A j \in 1 .. Len(appended) : j \in 1 .. Len(old) \/ j = Len(old) + 1
    BY <1>2, AppendOK
  <2>2. DOMAIN old = 1 .. Len(old) /\ DOMAIN appended = 1 .. Len(appended)
    BY <1>2, <2>1
  <2>3. \A j \in 1 .. Len(old) : old[j] # id
    BY <1>2, <2>2 DEF ToSet
  <2>4. Distinct(appended)
    BY <1>2, <2>3, DistinctAppend
  <2> HIDE DEF appended
  <2>5. ToSet(appended) = ToSet(old) \cup {id}
    <3>1. \A j \in 1 .. Len(old) : j \in 1 .. Len(appended)
      BY <2>1
    <3>2. Len(old) + 1 \in 1 .. Len(appended)
      BY <2>1
    <3> QED BY <2>1, <2>2, <3>1, <3>2 DEF ToSet
  <2> QED BY <2>1, <2>4, <2>5
<1> HIDE DEF appended
<1>4. ToSet(appended) \subseteq X /\ appended \in Seq(ToSet(appended))
  BY <1>3 DEF ToSet
<1>5. /\ new \in Seq(X) /\ Distinct(new) /\ Len(new) <= MaxDegree(layer)
      /\ ToSet(new) \subseteq ToSet(old) \cup {id}
      /\ Len(new) = MaxDegree(layer) \/ ToSet(new) = ToSet(old) \cup {id}
  <2>1. CASE Len(appended) <= MaxDegree(layer)
    <3>1. new = appended
      BY <2>1
    <3> QED BY <1>3, <2>1, <3>1
  <2>2. CASE ~(Len(appended) <= MaxDegree(layer))
    <3>1. new = pruned
      BY <2>2
    <3>2. Cardinality(ToSet(appended)) = Len(appended)
      BY <1>3, <1>4, DistinctLen
    <3>3. g.at[n] \in Points /\ ToSet(appended) \in SUBSET Ids(g)
      <4>1. g.at \in Seq(Points) /\ n \in 1 .. Len(g.at)
        BY <1>2 DEF Placed, Ids, Size
      <4>2. g.at[n] \in Points
        BY ONLY <4>1
      <4> QED BY <1>2, <1>4, <4>2
    <3>4. /\ pruned \in Seq(ToSet(appended)) /\ Distinct(pruned)
          /\ Len(pruned) = IF Cardinality(ToSet(appended)) < MaxDegree(layer)
                           THEN Cardinality(ToSet(appended)) ELSE MaxDegree(layer)
      BY <1>2, <3>3, SelectedOK
    <3> HIDE DEF pruned, new
    <3>5. ToSet(pruned) \subseteq ToSet(appended)
      BY <3>4 DEF ToSet
    <3>6. Len(pruned) = MaxDegree(layer)
      BY <1>2, <1>3, <2>2, <3>2, <3>4
    <3>7. pruned \in Seq(X)
      BY <1>4, <3>4
    <3> QED BY <1>2, <1>3, <3>1, <3>4, <3>5, <3>6, <3>7
  <2> QED BY <2>1, <2>2
<1> HIDE DEF new
<1>6. new \in Seq(Nodes)
  BY <1>2, <1>5
<1>7. /\ Framed(h) /\ SameFrame(g, h)
      /\ \A m \in Ids(g), k \in Nat :
           Neighbors(h, m, k) = IF m = n /\ k = layer THEN new ELSE Neighbors(g, m, k)
  BY <1>1, <1>6, SetNeighborsOK
<1>8. Neighbors(h, n, layer) = new /\ Tall(h, layer) = Tall(g, layer)
  BY <1>2, <1>7, SameFrameOK
<1>9. ListKept(h, n, layer)
  BY <1>5, <1>8 DEF ListKept, X
<1> QED BY <1>2, <1>5, <1>7, <1>8, <1>9 DEF h, old

\* What BackLinks ends in, when every step keeps to a family of sets.
LEMMA BackLinksIn ==
  ASSUME NEW g, NEW ids, NEW layer, NEW id, Len(ids) \in Nat, NEW S,
         g \in S[0],
         \A k \in 1 .. Len(ids) : \A c \in S[k - 1] : BackLink(c, ids[k], layer, id) \in S[k]
  PROVE  BackLinks(g, ids, layer, id) \in S[Len(ids)]
<1> DEFINE Step(c, x) == BackLink(c, x, layer, id)
           Eq(f, q) == f = [k \in 0 .. Len(q) |-> IF k = 0 THEN g ELSE
                                CHOOSE r \in {Step(c, q[k]) : c \in {f[k - 1]}} : TRUE]
           Through(q) == (CHOOSE f : Eq(f, q))[Len(q)]
           n == Len(ids)
           F == [x \in (UNION {S[k] : k \in 0 .. n}) \X (1 .. n) |-> Step(x[1], ids[x[2]])]
<1>1. BackLinks(g, ids, layer, id) = CHOOSE r \in {Through(q) : q \in {ids}} : TRUE
  BY DEF BackLinks, InTurn
<1>2. /\ n \in Nat /\ g \in S[0]
      /\ \A k \in 1 .. n : \A c \in S[k - 1] : Step(c, ids[k]) \in S[k]
  OBVIOUS
<1> HIDE DEF Step, n
<1>3. BackLinks(g, ids, layer, id) = Through(ids)
  <2> HIDE DEF Through
  <2> QED BY <1>1, Once
<1>4. \A k \in 1 .. n : \A c \in S[k - 1] : F[<<c, k>>] = Step(c, ids[k])
  <2> SUFFICES ASSUME NEW k \in 1 .. n, NEW c \in S[k - 1] PROVE F[<<c, k>>] = Step(c, ids[k])
    OBVIOUS
  <2>1. <<c, k>> \in (UNION {S[j] : j \in 0 .. n}) \X (1 .. n)
    BY <1>2
  <2> QED BY <2>1
<1> HIDE DEF F
<1>5. PICK run : Runs(run, g, F, n) /\ \A k \in 0 .. n : run[k] \in S[k]
  <2>1. \A k \in 1 .. n : \A c \in S[k - 1] : F[<<c, k>>] \in S[k]
    BY <1>2, <1>4
  <2> QED BY <1>2, <2>1, RunIn
<1>6. \A f, k : (CHOOSE r \in {Step(c, ids[k]) : c \in {f[k - 1]}} : TRUE)
                = Step(f[k - 1], ids[k])
  BY Once
<1>7. Eq(run, ids)
  <2>1. \A k \in 1 .. n : run[k] = Step(run[k - 1], ids[k])
    <3>1. \A k \in 1 .. n : run[k - 1] \in S[k - 1]
      BY <1>2, <1>5
    <3> QED BY <1>4, <1>5, <3>1 DEF Runs
  <2>2. \A k \in 0 .. n : run[k] = IF k = 0 THEN g ELSE
          CHOOSE r \in {Step(c, ids[k]) : c \in {run[k - 1]}} : TRUE
    <3> SUFFICES ASSUME NEW k \in 0 .. n
                 PROVE  run[k] = IF k = 0 THEN g ELSE
                          CHOOSE r \in {Step(c, ids[k]) : c \in {run[k - 1]}} : TRUE
      OBVIOUS
    <3>1. CASE k = 0
      BY <1>5, <3>1 DEF Runs
    <3>2. CASE k # 0
      <4>1. run[k] = Step(run[k - 1], ids[k])
        BY <1>2, <2>1, <3>2
      <4>2. (CHOOSE r \in {Step(c, ids[k]) : c \in {run[k - 1]}} : TRUE)
            = Step(run[k - 1], ids[k])
        BY <1>6
      <4> QED BY <3>2, <4>1, <4>2
    <3> QED BY <3>1, <3>2
  <2>3. run = [k \in 0 .. n |-> run[k]]
    BY <1>5 DEF Runs
  <2> QED BY <2>2, <2>3 DEF n
<1> DEFINE after == CHOOSE f : Eq(f, ids)
<1>8. Eq(after, ids)
  <2> HIDE DEF Eq
  <2> QED BY <1>7
<1> HIDE DEF after
<1>9. after[0] = g /\ \A k \in 1 .. n : after[k] = Step(after[k - 1], ids[k])
  BY <1>2, <1>6, <1>8 DEF n
<1>10. \A k \in 0 .. n : after[k] \in S[k]
  BY <1>2, <1>9, RunStays
<1> QED BY <1>2, <1>3, <1>10 DEF n, after

\* Layer l while the edges of id are being answered: those to the nodes past k are not yet.
Weaving(g, id, layer, chosen, k) ==
  {h \in Graphs :
     /\ Framed(h) /\ SameFrame(g, h)
     /\ \A n \in Ids(g), j \in Nat : j # layer => Neighbors(h, n, j) = Neighbors(g, n, j)
     /\ Neighbors(h, id, layer) = chosen
     /\ \A n \in Ids(g) : ListKept(h, n, layer)
     /\ \A j \in 1 .. Len(chosen) : j > k => id \notin ToSet(Neighbors(h, chosen[j], layer))
     /\ \A n \in Ids(g) : \A m \in ToSet(Neighbors(h, n, layer)) :
          \/ ComesBack(h, n, m, layer)
          \/ n = id /\ \E j \in 1 .. Len(chosen) : j > k /\ m = chosen[j]}

\* One more edge is answered.
LEMMA WeavingOn ==
  ASSUME NEW g, Framed(g), NEW layer \in Nat, NEW id \in Tall(g, layer),
         NEW chosen \in Seq(Tall(g, layer) \ {id}), Distinct(chosen),
         NEW k \in 1 .. Len(chosen), NEW c \in Weaving(g, id, layer, chosen, k - 1)
  PROVE  BackLink(c, chosen[k], layer, id) \in Weaving(g, id, layer, chosen, k)
<1> DEFINE n == chosen[k]
           d == BackLink(c, n, layer, id)
<1>1. /\ n \in Tall(g, layer) \ {id} /\ Len(chosen) \in Nat /\ k \in Nat
      /\ \A j \in 1 .. Len(chosen) : chosen[j] = n => j = k
      /\ \A j \in 1 .. Len(chosen) : j > k - 1 => j = k \/ j > k
      /\ \A j \in 1 .. Len(chosen) : j > k => j > k - 1
      /\ k > k - 1
  BY DEF Distinct
<1> HIDE DEF n
<1>2. /\ Framed(c) /\ SameFrame(g, c)
      /\ \A m \in Ids(g), j \in Nat : j # layer => Neighbors(c, m, j) = Neighbors(g, m, j)
      /\ Neighbors(c, id, layer) = chosen
      /\ \A m \in Ids(g) : ListKept(c, m, layer)
      /\ \A j \in 1 .. Len(chosen) : j > k - 1 => id \notin ToSet(Neighbors(c, chosen[j], layer))
      /\ \A a \in Ids(g) : \A m \in ToSet(Neighbors(c, a, layer)) :
           \/ ComesBack(c, a, m, layer)
           \/ a = id /\ \E j \in 1 .. Len(chosen) : j > k - 1 /\ m = chosen[j]
  BY DEF Weaving
<1>3. /\ Ids(c) = Ids(g) /\ Tall(c, layer) = Tall(g, layer) /\ id \in Ids(g) /\ n \in Ids(g)
      /\ n # id
  <2>1. layer \in Int /\ SameFrame(g, c)
    BY <1>2
  <2>2. Ids(c) = Ids(g) /\ Tall(c, layer) = Tall(g, layer)
    BY ONLY <2>1, SameFrameOK
  <2>3. id \in Ids(g) /\ n \in Ids(g) /\ n # id
    BY <1>1 DEF Tall
  <2> QED BY <2>2, <2>3
<1>4. id \notin ToSet(Neighbors(c, n, layer))
  BY <1>1, <1>2 DEF n
<1>5. /\ Framed(d) /\ SameFrame(c, d) /\ ListKept(d, n, layer)
      /\ \A m \in Ids(c), j \in Nat :
           ~(m = n /\ j = layer) => Neighbors(d, m, j) = Neighbors(c, m, j)
      /\ ToSet(Neighbors(d, n, layer)) \subseteq ToSet(Neighbors(c, n, layer)) \cup {id}
      /\ \/ Len(Neighbors(d, n, layer)) = MaxDegree(layer)
         \/ ToSet(Neighbors(d, n, layer)) = ToSet(Neighbors(c, n, layer)) \cup {id}
  BY <1>1, <1>2, <1>3, <1>4, BackLinkOK
<1> HIDE DEF d
<1>6. SameFrame(g, d) /\ Tall(d, layer) = Tall(g, layer)
  BY <1>2, <1>5, SameFrameOn, SameFrameOK
<1>7. \A m \in Ids(g) : ListKept(d, m, layer)
  <2> SUFFICES ASSUME NEW m \in Ids(g) PROVE ListKept(d, m, layer)
    OBVIOUS
  <2>1. CASE m = n
    BY <1>5, <2>1
  <2>2. CASE m # n
    <3>1. Neighbors(d, m, layer) = Neighbors(c, m, layer)
      BY <1>3, <1>5, <2>2
    <3>2. ListKept(c, m, layer)
      BY <1>2
    <3> QED BY <1>3, <1>6, <3>1, <3>2 DEF ListKept
  <2> QED BY <2>1, <2>2
<1>8. Neighbors(d, id, layer) = chosen
  BY <1>2, <1>3, <1>5
<1>9. ASSUME NEW j \in 1 .. Len(chosen), j > k
      PROVE  id \notin ToSet(Neighbors(d, chosen[j], layer))
  <2>1. chosen[j] # n /\ chosen[j] \in Ids(g) /\ j > k - 1
    BY <1>1, <1>9 DEF Tall
  <2>2. Neighbors(d, chosen[j], layer) = Neighbors(c, chosen[j], layer)
    BY <1>3, <1>5, <2>1
  <2> QED BY <1>2, <2>1, <2>2
<1>10. \A m \in Ids(g) : ComesBack(c, m, n, layer) /\ m # id => ComesBack(d, m, n, layer)
  <2> SUFFICES ASSUME NEW m \in Ids(g), ComesBack(c, m, n, layer), m # id
               PROVE  ComesBack(d, m, n, layer)
    OBVIOUS
  <2>1. CASE Len(Neighbors(d, n, layer)) = MaxDegree(layer)
    BY <2>1 DEF ComesBack
  <2>2. CASE m \in ToSet(Neighbors(c, n, layer))
    BY <1>5, <2>2 DEF ComesBack
  <2>3. CASE /\ Len(Neighbors(c, n, layer)) = MaxDegree(layer)
             /\ ToSet(Neighbors(d, n, layer)) = ToSet(Neighbors(c, n, layer)) \cup {id}
    <3> DEFINE C == Neighbors(c, n, layer)
               D == Neighbors(d, n, layer)
    <3>1. /\ C \in Seq(Tall(g, layer) \ {n}) /\ Distinct(C)
          /\ D \in Seq(Tall(g, layer) \ {n}) /\ Distinct(D) /\ Len(D) <= MaxDegree(layer)
      BY <1>2, <1>3, <1>5, <1>6 DEF ListKept
    <3> HIDE DEF C, D
    <3>2. C \in Seq(ToSet(C)) /\ D \in Seq(ToSet(D))
      BY <3>1 DEF ToSet
    <3>3. /\ IsFiniteSet(ToSet(C)) /\ Cardinality(ToSet(C)) = Len(C)
          /\ Cardinality(ToSet(D)) = Len(D)
      BY <3>1, <3>2, DistinctLen
    <3>4. id \notin ToSet(C) /\ ToSet(D) = ToSet(C) \cup {id} /\ Len(C) = MaxDegree(layer)
      BY <1>4, <2>3 DEF C, D
    <3>5. Cardinality(ToSet(D)) = Cardinality(ToSet(C)) + 1
      BY <3>3, <3>4, FS_AddElement
    <3>6. Len(C) \in Nat /\ Len(D) \in Nat
      BY <3>1
    <3> QED BY <3>1, <3>3, <3>4, <3>5, <3>6
  <2> QED BY <1>5, <2>1, <2>2, <2>3 DEF ComesBack
<1>11. ASSUME NEW a \in Ids(g), NEW m \in ToSet(Neighbors(d, a, layer))
       PROVE  \/ ComesBack(d, a, m, layer)
              \/ a = id /\ \E j \in 1 .. Len(chosen) : j > k /\ m = chosen[j]
  <2>1. CASE a = n
    <3>1. CASE m = id
      <4>1. n \in ToSet(Neighbors(d, id, layer))
        BY <1>1, <1>8 DEF ToSet, n
      <4> QED BY <2>1, <3>1, <4>1 DEF ComesBack
    <3>2. CASE m # id
      <4>1. m \in ToSet(Neighbors(c, n, layer))
        BY <1>5, <1>11, <2>1, <3>2
      <4>2. m \in Ids(g) /\ m # n
        <5>1. Neighbors(c, n, layer) \in Seq(Tall(g, layer) \ {n})
          BY <1>2, <1>3 DEF ListKept
        <5> QED BY <4>1, <5>1 DEF ToSet, Tall
      <4>3. ComesBack(c, n, m, layer)
        BY <1>2, <1>3, <4>1
      <4>4. Neighbors(d, m, layer) = Neighbors(c, m, layer)
        BY <1>3, <1>5, <4>2
      <4> QED BY <2>1, <4>3, <4>4 DEF ComesBack
    <3> QED BY <3>1, <3>2
  <2>2. CASE a # n
    <3>1. Neighbors(d, a, layer) = Neighbors(c, a, layer)
      BY <1>3, <1>5, <2>2
    <3>2. /\ m \in ToSet(Neighbors(c, a, layer)) /\ m \in Ids(g)
      <4>1. Neighbors(c, a, layer) \in Seq(Tall(g, layer) \ {a})
        BY <1>2, <1>3 DEF ListKept
      <4> QED BY <1>11, <3>1, <4>1 DEF ToSet, Tall
    <3>3. \/ ComesBack(c, a, m, layer)
          \/ a = id /\ \E j \in 1 .. Len(chosen) : j > k - 1 /\ m = chosen[j]
      BY <1>2, <3>2
    <3>4. CASE m # n
      <4>1. Neighbors(d, m, layer) = Neighbors(c, m, layer)
        BY <1>3, <1>5, <3>2, <3>4
      <4>2. CASE ComesBack(c, a, m, layer)
        BY <4>1, <4>2 DEF ComesBack
      <4>3. CASE a = id /\ \E j \in 1 .. Len(chosen) : j > k - 1 /\ m = chosen[j]
        BY <1>1, <3>4, <4>3 DEF n
      <4> QED BY <3>3, <4>2, <4>3
    <3>5. CASE m = n /\ a = id
      BY <1>5, <3>5 DEF ComesBack
    <3>6. CASE m = n /\ a # id
      BY <1>10, <3>3, <3>6
    <3> QED BY <3>4, <3>5, <3>6
  <2> QED BY <2>1, <2>2
<1>12. \A m \in Ids(g), j \in Nat : j # layer => Neighbors(d, m, j) = Neighbors(g, m, j)
  BY <1>2, <1>3, <1>5
<1>13. d \in Graphs
  BY <1>5 DEF Framed
<1>14. d \in Weaving(g, id, layer, chosen, k)
  BY <1>5, <1>6, <1>7, <1>8, <1>9, <1>11, <1>12, <1>13 DEF Weaving
<1> QED BY <1>14 DEF d, n

\* All edges of id on a layer are answered, and no other layer is touched.
LEMMA BackLinksOK ==
  ASSUME NEW g, Framed(g), NEW layer \in Nat, NEW id \in Tall(g, layer),
         NEW chosen \in Seq(Tall(g, layer) \ {id}), Distinct(chosen),
         Len(chosen) <= MaxDegree(layer), Neighbors(g, id, layer) = chosen,
         \A n \in Ids(g) \ {id} :
           /\ ListKept(g, n, layer) /\ id \notin ToSet(Neighbors(g, n, layer))
           /\ \A m \in ToSet(Neighbors(g, n, layer)) : ComesBack(g, n, m, layer)
  PROVE  LET h == BackLinks(g, chosen, layer, id) IN
         /\ Framed(h) /\ SameFrame(g, h)
         /\ \A n \in Ids(g), j \in Nat : j # layer => Neighbors(h, n, j) = Neighbors(g, n, j)
         /\ \A n \in Ids(g) :
              /\ ListKept(h, n, layer)
              /\ \A m \in ToSet(Neighbors(h, n, layer)) : ComesBack(h, n, m, layer)
<1> DEFINE n == Len(chosen)
           At(k) == Weaving(g, id, layer, chosen, k)
           S == [k \in 0 .. n |-> At(k)]
<1>1. /\ n \in Nat /\ 0 \in 0 .. n /\ n \in 0 .. n /\ DOMAIN chosen = 1 .. n
      /\ \A k \in 1 .. n : k \in 0 .. n /\ k - 1 \in 0 .. n
      /\ \A k \in 1 .. n : chosen[k] \in Tall(g, layer) \ {id}
      /\ \A k \in 1 .. n : k > 0 /\ ~(k > n)
  OBVIOUS
<1>2. \A k \in 0 .. n : S[k] = At(k)
  OBVIOUS
<1> HIDE DEF S
<1>3. g \in At(0)
  <2>1. g \in Graphs /\ SameFrame(g, g)
    BY DEF Framed, SameFrame
  <2>2. \A a \in Ids(g) : ListKept(g, a, layer)
    <3>1. ListKept(g, id, layer)
      BY DEF ListKept
    <3> QED BY <3>1
  <2>3. \A j \in 1 .. n : id \notin ToSet(Neighbors(g, chosen[j], layer))
    BY <1>1 DEF Tall
  <2>4. \A m \in ToSet(chosen) : \E j \in 1 .. n : j > 0 /\ m = chosen[j]
    BY <1>1 DEF ToSet
  <2>5. \A a \in Ids(g) : \A m \in ToSet(Neighbors(g, a, layer)) :
          \/ ComesBack(g, a, m, layer)
          \/ a = id /\ \E j \in 1 .. n : j > 0 /\ m = chosen[j]
    BY <2>4
  <2> QED BY <2>1, <2>2, <2>3, <2>5 DEF Weaving
<1>4. g \in S[0]
  <2> HIDE DEF At
  <2> QED BY <1>1, <1>2, <1>3
<1>5. \A k \in 1 .. n : \A c \in S[k - 1] : BackLink(c, chosen[k], layer, id) \in S[k]
  <2> SUFFICES ASSUME NEW k \in 1 .. n, NEW c \in S[k - 1]
               PROVE  BackLink(c, chosen[k], layer, id) \in S[k]
    OBVIOUS
  <2>1. c \in Weaving(g, id, layer, chosen, k - 1) /\ S[k] = Weaving(g, id, layer, chosen, k)
    BY <1>1, <1>2
  <2>2. BackLink(c, chosen[k], layer, id) \in Weaving(g, id, layer, chosen, k)
    BY <2>1, WeavingOn
  <2> QED BY <2>1, <2>2
<1> DEFINE h == BackLinks(g, chosen, layer, id)
<1>6. h \in At(n)
  <2>1. h \in S[n]
    <3> HIDE DEF At
    <3> QED BY <1>1, <1>4, <1>5, BackLinksIn
  <2> HIDE DEF At, h
  <2> QED BY <1>1, <1>2, <2>1
<1> HIDE DEF h
<1> QED BY <1>1, <1>6 DEF Weaving, h

-----------------------------------------------------------------------------
(* A node is inserted.                                                     *)

\* Layers from one to another, the higher first.
LEMMA DownOK ==
  ASSUME NEW a \in Nat, NEW b \in Nat
  PROVE  /\ Len(Down(a, b)) = IF a + 1 > b THEN a + 1 - b ELSE 0
         /\ \A k \in 1 .. Len(Down(a, b)) : Down(a, b)[k] = a - k + 1
<1> DEFINE n == a + 1 - b
<1>1. CASE a + 1 > b
  <2>1. n \in Nat /\ n >= 1 /\ Down(a, b) = [k \in 1 .. n |-> a - k + 1]
    BY <1>1 DEF Down
  <2> HIDE DEF n
  <2>2. Down(a, b) \in Seq(Int) /\ Len(Down(a, b)) = n
    BY <2>1
  <2> QED BY <1>1, <2>1, <2>2 DEF n
<1>2. CASE ~(a + 1 > b)
  <2>1. 1 .. n = 1 .. 0
    BY <1>2
  <2>2. Down(a, b) = [k \in 1 .. 0 |-> a - k + 1]
    BY <2>1 DEF Down
  <2>3. Len(Down(a, b)) = 0
    BY <2>2
  <2> QED BY <1>2, <2>3
<1> QED BY <1>1, <1>2

\* The new node: its lists are empty and in nobody's.
LEMMA PushNodeOK ==
  ASSUME NEW g, Framed(g), NEW p \in Points, NEW level \in Nat
  PROVE  LET h == PushNode(g, p, level)  id == Size(g) + 1 IN
         /\ Framed(h) /\ Ids(h) = Ids(g) \cup {id} /\ Size(h) = id
         /\ h.at = Append(g.at, p) /\ h.at[id] = p
         /\ h.dead = g.dead /\ h.entry = g.entry /\ h.top = g.top
         /\ Len(h.links[id]) = level + 1 /\ \A n \in Ids(g) : h.links[n] = g.links[n]
         /\ \A k \in Nat : Neighbors(h, id, k) = <<>>
         /\ \A n \in Ids(g), k \in Nat : Neighbors(h, n, k) = Neighbors(g, n, k)
         /\ \A k \in Int : Tall(g, k) \subseteq Tall(h, k)
<1> DEFINE h == PushNode(g, p, level)
           id == Size(g) + 1
           lists == [k \in 1 .. level + 1 |-> <<>>]
<1>1. /\ g.at \in Seq(Points) /\ g.links \in Seq(Seq(Seq(Nodes))) /\ g \in Graphs
      /\ Len(g.at) = Size(g) /\ Len(g.links) = Size(g) /\ Size(g) \in Nat
      /\ Ids(g) = 1 .. Size(g) /\ g.dead \subseteq Ids(g) /\ Ids(g) \subseteq Nodes
  BY FramedOK DEF Framed, Placed, Size, Ids
<1>2. lists \in Seq(Seq(Nodes)) /\ Len(lists) = level + 1
      /\ \A k \in 1 .. level + 1 : lists[k] = <<>>
  <2>1. <<>> \in Seq(Nodes)
    OBVIOUS
  <2> QED BY <2>1
<1>3. /\ h = [g EXCEPT !.at = h.at, !.links = h.links]
      /\ h.at = Append(g.at, p) /\ h.links = Append(g.links, lists)
  BY <1>1 DEF PushNode, Graphs
<1> HIDE DEF h, lists
<1>4. /\ h.at \in Seq(Points) /\ Len(h.at) = id /\ h.at[id] = p
  <2>1. /\ Append(g.at, p) \in Seq(Points) /\ Len(Append(g.at, p)) = Len(g.at) + 1
        /\ Append(g.at, p)[Len(g.at) + 1] = p
    BY <1>1, AppendOK
  <2> QED BY <1>1, <1>3, <2>1
<1>5. /\ h.links \in Seq(Seq(Seq(Nodes))) /\ Len(h.links) = id /\ h.links[id] = lists
      /\ \A n \in Ids(g) : h.links[n] = g.links[n]
  BY <1>1, <1>2, <1>3
<1>6. /\ h \in Graphs /\ h.dead = g.dead /\ h.entry = g.entry /\ h.top = g.top
  BY <1>1, <1>3, <1>4, <1>5 DEF Graphs
<1>7. Size(h) = id /\ Ids(h) = Ids(g) \cup {id} /\ id \notin Ids(g)
  BY <1>1, <1>4 DEF Size, Ids
<1>8. Framed(h)
  BY <1>1, <1>5, <1>6, <1>7 DEF Framed
<1>9. \A k \in Nat : Neighbors(h, id, k) = <<>>
  <2>1. \A k \in LayersOf(h, id) : k + 1 \in 1 .. level + 1
    BY <1>2, <1>5 DEF LayersOf
  <2> QED BY <1>2, <1>5, <2>1 DEF Neighbors
<1>10. \A n \in Ids(g), k \in Nat : Neighbors(h, n, k) = Neighbors(g, n, k)
  BY <1>5 DEF Neighbors, LayersOf
<1>11. \A k \in Int : Tall(g, k) \subseteq Tall(h, k)
  BY <1>5, <1>7 DEF Tall
<1> QED BY <1>2, <1>3, <1>4, <1>5, <1>6, <1>7, <1>8, <1>9, <1>10, <1>11 DEF h

\* A node without edges on a layer.
Untied(g, id, layer) ==
  /\ Neighbors(g, id, layer) = <<>>
  /\ \A n \in Ids(g) : id \notin ToSet(Neighbors(g, n, layer))

\* A layer without such a node is closed under its edges.
LEMMA LayerWalkable ==
  ASSUME NEW g, Framed(g), Woven(g), NEW layer \in Nat, NEW id,
         \A n \in Ids(g) : id \notin ToSet(Neighbors(g, n, layer)),
         NEW q \in Points, NEW f, NEW ef \in Nat \ {0}
  PROVE  Walkable(Search(g, q, f, ef, layer), Tall(g, layer) \ {id})
<1> DEFINE t == Search(g, q, f, ef, layer)
           W == Tall(g, layer) \ {id}
<1>1. t.g = g /\ t.query = q /\ t.ef = ef /\ t.layer = layer
  BY DEF Search
<1>2. Placed(g) /\ W \subseteq Ids(g)
  BY FramedOK DEF Tall
<1>3. ASSUME NEW n \in W PROVE Neighbors(g, n, layer) \in Seq(W)
  <2>1. Neighbors(g, n, layer) \in Seq(Tall(g, layer) \ {n})
    BY <1>2 DEF Woven, ListKept
  <2>2. id \notin ToSet(Neighbors(g, n, layer))
    BY <1>2
  <2> DEFINE s == Neighbors(g, n, layer)
  <2> HIDE DEF s
  <2>3. \A k \in 1 .. Len(s) : s[k] \in Tall(g, layer) /\ s[k] # id
    BY <2>1, <2>2 DEF ToSet, s
  <2>4. s \in Seq(W)
    BY <2>1, <2>3 DEF s
  <2> QED BY <2>4 DEF s
<1> HIDE DEF t, W
<1>4. Walkable(t, W)
  BY <1>1, <1>2, <1>3 DEF Walkable
<1> QED BY <1>4 DEF t, W

\* A layer holds all nodes of the layer above it.
LEMMA TallBelow ==
  ASSUME NEW g, Framed(g), NEW k \in Int, NEW l \in Int, l <= k
  PROVE  Tall(g, k) \subseteq Tall(g, l) /\ Tall(g, k) \subseteq Ids(g)
<1> SUFFICES ASSUME NEW a \in Tall(g, k) PROVE a \in Tall(g, l) /\ a \in Ids(g)
  OBVIOUS
<1>1. a \in Ids(g) /\ k < Len(g.links[a])
  BY DEF Tall
<1>2. Len(g.links[a]) \in Nat
  BY <1>1, FramedOK
<1>3. l < Len(g.links[a])
  BY <1>1, <1>2
<1> QED BY <1>1, <1>3 DEF Tall

\* The next one in particular.
LEMMA TallGrows ==
  ASSUME NEW g, Framed(g), NEW k \in Int
  PROVE  Tall(g, k) \subseteq Tall(g, k - 1) /\ Tall(g, k) \subseteq Ids(g)
<1>1. k - 1 \in Int /\ k - 1 <= k
  OBVIOUS
<1> QED BY <1>1, TallBelow

\* A layer is connected: the new node's edges go both ways.
LEMMA ConnectOK ==
  ASSUME NEW g, Framed(g), Woven(g), NEW layer \in Nat, NEW id \in Tall(g, layer),
         Untied(g, id, layer), NEW seeds \in Seq(Tall(g, layer) \ {id}),
         g.entry \in Tall(g, layer - 1) \ {id},
         NEW s, s.g = g, s.seeds = seeds
  PROVE  LET r == Connect(id, s, layer) IN
         /\ r = [g |-> r.g, seeds |-> r.seeds]
         /\ Framed(r.g) /\ SameFrame(g, r.g) /\ Woven(r.g)
         /\ \A k \in Nat : k # layer /\ Untied(g, id, k) => Untied(r.g, id, k)
         /\ r.seeds \in Seq(Tall(g, layer - 1) \ {id})
<1> DEFINE p == g.at[id]
           W == Tall(g, layer) \ {id}
           t == Search(g, p, Unfiltered, Header.ef, layer)
           found == SearchLayer(t, seeds)
           chosen == SelectNeighbors(g, p, ToSet(found), MaxDegree(layer))
           tied == SetNeighbors(g, id, layer, chosen)
           h == BackLinks(tied, chosen, layer, id)
           r == Connect(id, s, layer)
<1>1. /\ r = [g |-> h, seeds |-> IF found = <<>> THEN <<g.entry>> ELSE found]
  BY DEF Connect
<1>2. /\ MaxDegree(layer) \in Nat /\ Header.ef \in Nat \ {0} /\ Placed(g)
      /\ Ids(g) \subseteq Nodes /\ W \subseteq Ids(g) /\ id \in Ids(g) /\ p \in Points
  <2>1. /\ MaxDegree(layer) \in Nat /\ Header.ef \in Nat \ {0} /\ Placed(g)
        /\ Ids(g) \subseteq Nodes /\ W \subseteq Ids(g) /\ id \in Ids(g)
    BY DegreeOK, FramedOK DEF Tall
  <2>2. g.at \in Seq(Points) /\ id \in 1 .. Len(g.at)
    BY <2>1 DEF Placed, Ids, Size
  <2>3. g.at[id] \in Points
    BY ONLY <2>2
  <2> QED BY <2>1, <2>3
<1> HIDE DEF p
<1>3. Walkable(t, W) /\ ~Filtered(t)
  <2>1. Walkable(t, W)
    BY <1>2, LayerWalkable DEF Untied
  <2> QED BY <2>1 DEF Filtered, Search
<1> HIDE DEF t
<1>4. found \in Seq(W) /\ ToSet(found) \in SUBSET W
  <2>1. found \in Seq(W)
    BY <1>3, SearchLayerOK
  <2> HIDE DEF found
  <2> QED BY <2>1 DEF ToSet
<1> HIDE DEF found, W
<1>5. /\ chosen \in Seq(W) /\ Distinct(chosen) /\ Len(chosen) <= MaxDegree(layer)
      /\ chosen \in Seq(Nodes)
  <2>1. ToSet(found) \in SUBSET Ids(g)
    BY <1>2, <1>4
  <2>2. /\ chosen \in Seq(ToSet(found)) /\ Distinct(chosen)
        /\ Cardinality(ToSet(found)) \in Nat
        /\ Len(chosen) = IF Cardinality(ToSet(found)) < MaxDegree(layer)
                         THEN Cardinality(ToSet(found)) ELSE MaxDegree(layer)
    BY <1>2, <2>1, SelectedOK
  <2> HIDE DEF chosen
  <2>3. chosen \in Seq(W) /\ chosen \in Seq(Nodes)
    BY <1>2, <1>4, <2>2
  <2> QED BY <1>2, <2>2, <2>3
<1> HIDE DEF chosen, r
<1>6. /\ Framed(tied) /\ SameFrame(g, tied)
      /\ \A n \in Ids(g), k \in Nat :
           Neighbors(tied, n, k) = IF n = id /\ k = layer THEN chosen ELSE Neighbors(g, n, k)
  BY <1>5, SetNeighborsOK
<1> HIDE DEF tied
<1>7. Ids(tied) = Ids(g) /\ \A k \in Int : Tall(tied, k) = Tall(g, k)
  BY <1>6, SameFrameOK
<1>8. /\ Framed(h) /\ SameFrame(tied, h)
      /\ \A n \in Ids(g), j \in Nat : j # layer => Neighbors(h, n, j) = Neighbors(tied, n, j)
      /\ \A n \in Ids(g) :
           /\ ListKept(h, n, layer)
           /\ \A m \in ToSet(Neighbors(h, n, layer)) : ComesBack(h, n, m, layer)
  <2>1. id \in Tall(tied, layer) /\ chosen \in Seq(Tall(tied, layer) \ {id})
        /\ Neighbors(tied, id, layer) = chosen
    BY <1>2, <1>5, <1>6, <1>7 DEF W
  <2>2. ASSUME NEW n \in Ids(tied) \ {id}
        PROVE  /\ ListKept(tied, n, layer) /\ id \notin ToSet(Neighbors(tied, n, layer))
               /\ \A m \in ToSet(Neighbors(tied, n, layer)) : ComesBack(tied, n, m, layer)
    <3>1. Neighbors(tied, n, layer) = Neighbors(g, n, layer) /\ n \in Ids(g)
      BY <1>6, <1>7
    <3>2. /\ ListKept(g, n, layer) /\ id \notin ToSet(Neighbors(g, n, layer))
          /\ \A m \in ToSet(Neighbors(g, n, layer)) : ComesBack(g, n, m, layer)
      BY <3>1 DEF Woven, Untied
    <3>3. ListKept(tied, n, layer)
      BY <1>7, <3>1, <3>2 DEF ListKept
    <3>4. ASSUME NEW m \in ToSet(Neighbors(g, n, layer)) PROVE ComesBack(tied, n, m, layer)
      <4>1. m # id /\ m \in Ids(g)
        BY <3>2, <3>4 DEF ListKept, ToSet, Tall
      <4>2. Neighbors(tied, m, layer) = Neighbors(g, m, layer)
        BY <1>6, <4>1
      <4> QED BY <3>2, <3>4, <4>2 DEF ComesBack
    <3> QED BY <3>1, <3>2, <3>3, <3>4
  <2> HIDE DEF h
  <2> QED BY <1>5, <1>6, <1>7, <2>1, <2>2, BackLinksOK DEF h
<1> HIDE DEF h
<1>9. SameFrame(g, h)
  BY <1>6, <1>8, SameFrameOn
<1>10. Ids(h) = Ids(g) /\ \A k \in Int : Tall(h, k) = Tall(g, k)
  BY <1>9, SameFrameOK
<1>11. \A n \in Ids(g), k \in Nat : k # layer => Neighbors(h, n, k) = Neighbors(g, n, k)
  BY <1>6, <1>8
<1>12. Woven(h)
  <2> SUFFICES ASSUME NEW k \in Nat, NEW n \in Ids(g)
               PROVE  /\ ListKept(h, n, k)
                      /\ \A m \in ToSet(Neighbors(h, n, k)) : ComesBack(h, n, m, k)
    BY <1>10 DEF Woven
  <2>1. CASE k = layer
    BY <1>8, <2>1
  <2>2. CASE k # layer
    <3>1. Neighbors(h, n, k) = Neighbors(g, n, k)
      BY <1>11, <2>2
    <3>2. /\ ListKept(g, n, k)
          /\ \A m \in ToSet(Neighbors(g, n, k)) : ComesBack(g, n, m, k)
      BY DEF Woven
    <3>3. ListKept(h, n, k)
      BY <1>10, <3>1, <3>2 DEF ListKept
    <3>4. ASSUME NEW m \in ToSet(Neighbors(g, n, k)) PROVE ComesBack(h, n, m, k)
      <4>1. m \in Ids(g)
        BY <3>2, <3>4 DEF ListKept, ToSet, Tall
      <4>2. Neighbors(h, m, k) = Neighbors(g, m, k)
        BY <1>11, <2>2, <4>1
      <4> QED BY <3>2, <3>4, <4>2 DEF ComesBack
    <3> QED BY <3>1, <3>3, <3>4
  <2> QED BY <2>1, <2>2
<1>13. \A k \in Nat : k # layer /\ Untied(g, id, k) => Untied(h, id, k)
  BY <1>2, <1>10, <1>11 DEF Untied
<1>14. (IF found = <<>> THEN <<g.entry>> ELSE found) \in Seq(Tall(g, layer - 1) \ {id})
  <2>1. W \subseteq Tall(g, layer - 1) \ {id}
    BY TallGrows DEF W
  <2>2. found \in Seq(Tall(g, layer - 1) \ {id})
    BY <1>4, <2>1
  <2>3. <<g.entry>> \in Seq(Tall(g, layer - 1) \ {id})
    OBVIOUS
  <2> QED BY <2>2, <2>3
<1>15. r.g = h /\ r.seeds = IF found = <<>> THEN <<g.entry>> ELSE found
  BY <1>1
<1> QED BY <1>1, <1>8, <1>9, <1>12, <1>13, <1>14, <1>15 DEF r

\* What DescendTo ends in, when every step keeps to a family of sets.
LEMMA DescendIn ==
  ASSUME NEW g, NEW p, NEW level, Len(Down(g.top, level + 1)) \in Nat, NEW S,
         <<g.entry>> \in S[0],
         \A k \in 1 .. Len(Down(g.top, level + 1)) : \A c \in S[k - 1] :
           Descend(g, p, Down(g.top, level + 1)[k], c) \in S[k]
  PROVE  DescendTo(g, p, level) \in S[Len(Down(g.top, level + 1))]
<1> DEFINE Step(c, x) == Descend(g, p, x, c)
           first == <<g.entry>>
           list == Down(g.top, level + 1)
           Eq(f, q) == f = [k \in 0 .. Len(q) |-> IF k = 0 THEN first ELSE
                                CHOOSE r \in {Step(c, q[k]) : c \in {f[k - 1]}} : TRUE]
           Through(q) == (CHOOSE f : Eq(f, q))[Len(q)]
           n == Len(list)
           F == [x \in (UNION {S[k] : k \in 0 .. n}) \X (1 .. n) |-> Step(x[1], list[x[2]])]
<1>1. DescendTo(g, p, level) = CHOOSE r \in {Through(q) : q \in {list}} : TRUE
  BY DEF DescendTo, InTurn
<1>2. /\ n \in Nat /\ first \in S[0]
      /\ \A k \in 1 .. n : \A c \in S[k - 1] : Step(c, list[k]) \in S[k]
  OBVIOUS
<1> HIDE DEF Step, n, first, list
<1>3. DescendTo(g, p, level) = Through(list)
  <2> HIDE DEF Through
  <2> QED BY <1>1, Once
<1>4. \A k \in 1 .. n : \A c \in S[k - 1] : F[<<c, k>>] = Step(c, list[k])
  <2> SUFFICES ASSUME NEW k \in 1 .. n, NEW c \in S[k - 1] PROVE F[<<c, k>>] = Step(c, list[k])
    OBVIOUS
  <2>1. <<c, k>> \in (UNION {S[j] : j \in 0 .. n}) \X (1 .. n)
    BY <1>2
  <2> QED BY <2>1
<1> HIDE DEF F
<1>5. PICK run : Runs(run, first, F, n) /\ \A k \in 0 .. n : run[k] \in S[k]
  <2>1. \A k \in 1 .. n : \A c \in S[k - 1] : F[<<c, k>>] \in S[k]
    BY <1>2, <1>4
  <2> QED BY <1>2, <2>1, RunIn
<1>6. \A f, k : (CHOOSE r \in {Step(c, list[k]) : c \in {f[k - 1]}} : TRUE)
                = Step(f[k - 1], list[k])
  BY Once
<1>7. Eq(run, list)
  <2>1. \A k \in 1 .. n : run[k] = Step(run[k - 1], list[k])
    <3>1. \A k \in 1 .. n : run[k - 1] \in S[k - 1]
      BY <1>2, <1>5
    <3> QED BY <1>4, <1>5, <3>1 DEF Runs
  <2>2. \A k \in 0 .. n : run[k] = IF k = 0 THEN first ELSE
          CHOOSE r \in {Step(c, list[k]) : c \in {run[k - 1]}} : TRUE
    <3> SUFFICES ASSUME NEW k \in 0 .. n
                 PROVE  run[k] = IF k = 0 THEN first ELSE
                          CHOOSE r \in {Step(c, list[k]) : c \in {run[k - 1]}} : TRUE
      OBVIOUS
    <3>1. CASE k = 0
      BY <1>5, <3>1 DEF Runs
    <3>2. CASE k # 0
      <4>1. run[k] = Step(run[k - 1], list[k])
        BY <1>2, <2>1, <3>2
      <4>2. (CHOOSE r \in {Step(c, list[k]) : c \in {run[k - 1]}} : TRUE)
            = Step(run[k - 1], list[k])
        BY <1>6
      <4> QED BY <3>2, <4>1, <4>2
    <3> QED BY <3>1, <3>2
  <2>3. run = [k \in 0 .. n |-> run[k]]
    BY <1>5 DEF Runs
  <2> QED BY <2>2, <2>3 DEF n
<1> DEFINE after == CHOOSE f : Eq(f, list)
<1>8. Eq(after, list)
  <2> HIDE DEF Eq
  <2> QED BY <1>7
<1> HIDE DEF after
<1>9. after[0] = first /\ \A k \in 1 .. n : after[k] = Step(after[k - 1], list[k])
  BY <1>2, <1>6, <1>8 DEF n
<1>10. \A k \in 0 .. n : after[k] \in S[k]
  BY <1>2, <1>9, RunStays
<1> QED BY <1>2, <1>3, <1>10 DEF n, after, first, list
\* What ConnectDown ends in, when every step keeps to a family of sets.
LEMMA ConnectDownIn ==
  ASSUME NEW id, NEW s, NEW level, Len(Down(level, 0)) \in Nat, NEW S,
         s \in S[0],
         \A k \in 1 .. Len(Down(level, 0)) : \A c \in S[k - 1] :
           Connect(id, c, Down(level, 0)[k]) \in S[k]
  PROVE  ConnectDown(id, s, level) \in S[Len(Down(level, 0))]
<1> DEFINE Step(c, x) == Connect(id, c, x)
           list == Down(level, 0)
           Eq(f, q) == f = [k \in 0 .. Len(q) |-> IF k = 0 THEN s ELSE
                                CHOOSE r \in {Step(c, q[k]) : c \in {f[k - 1]}} : TRUE]
           Through(q) == (CHOOSE f : Eq(f, q))[Len(q)]
           n == Len(list)
           F == [x \in (UNION {S[k] : k \in 0 .. n}) \X (1 .. n) |-> Step(x[1], list[x[2]])]
<1>1. ConnectDown(id, s, level) = CHOOSE r \in {Through(q) : q \in {list}} : TRUE
  BY DEF ConnectDown, InTurn
<1>2. /\ n \in Nat /\ s \in S[0]
      /\ \A k \in 1 .. n : \A c \in S[k - 1] : Step(c, list[k]) \in S[k]
  OBVIOUS
<1> HIDE DEF Step, n, list
<1>3. ConnectDown(id, s, level) = Through(list)
  <2> HIDE DEF Through
  <2> QED BY <1>1, Once
<1>4. \A k \in 1 .. n : \A c \in S[k - 1] : F[<<c, k>>] = Step(c, list[k])
  <2> SUFFICES ASSUME NEW k \in 1 .. n, NEW c \in S[k - 1] PROVE F[<<c, k>>] = Step(c, list[k])
    OBVIOUS
  <2>1. <<c, k>> \in (UNION {S[j] : j \in 0 .. n}) \X (1 .. n)
    BY <1>2
  <2> QED BY <2>1
<1> HIDE DEF F
<1>5. PICK run : Runs(run, s, F, n) /\ \A k \in 0 .. n : run[k] \in S[k]
  <2>1. \A k \in 1 .. n : \A c \in S[k - 1] : F[<<c, k>>] \in S[k]
    BY <1>2, <1>4
  <2> QED BY <1>2, <2>1, RunIn
<1>6. \A f, k : (CHOOSE r \in {Step(c, list[k]) : c \in {f[k - 1]}} : TRUE)
                = Step(f[k - 1], list[k])
  BY Once
<1>7. Eq(run, list)
  <2>1. \A k \in 1 .. n : run[k] = Step(run[k - 1], list[k])
    <3>1. \A k \in 1 .. n : run[k - 1] \in S[k - 1]
      BY <1>2, <1>5
    <3> QED BY <1>4, <1>5, <3>1 DEF Runs
  <2>2. \A k \in 0 .. n : run[k] = IF k = 0 THEN s ELSE
          CHOOSE r \in {Step(c, list[k]) : c \in {run[k - 1]}} : TRUE
    <3> SUFFICES ASSUME NEW k \in 0 .. n
                 PROVE  run[k] = IF k = 0 THEN s ELSE
                          CHOOSE r \in {Step(c, list[k]) : c \in {run[k - 1]}} : TRUE
      OBVIOUS
    <3>1. CASE k = 0
      BY <1>5, <3>1 DEF Runs
    <3>2. CASE k # 0
      <4>1. run[k] = Step(run[k - 1], list[k])
        BY <1>2, <2>1, <3>2
      <4>2. (CHOOSE r \in {Step(c, list[k]) : c \in {run[k - 1]}} : TRUE)
            = Step(run[k - 1], list[k])
        BY <1>6
      <4> QED BY <3>2, <4>1, <4>2
    <3> QED BY <3>1, <3>2
  <2>3. run = [k \in 0 .. n |-> run[k]]
    BY <1>5 DEF Runs
  <2> QED BY <2>2, <2>3 DEF n
<1> DEFINE after == CHOOSE f : Eq(f, list)
<1>8. Eq(after, list)
  <2> HIDE DEF Eq
  <2> QED BY <1>7
<1> HIDE DEF after
<1>9. after[0] = s /\ \A k \in 1 .. n : after[k] = Step(after[k - 1], list[k])
  BY <1>2, <1>6, <1>8 DEF n
<1>10. \A k \in 0 .. n : after[k] \in S[k]
  BY <1>2, <1>9, RunStays
<1> QED BY <1>2, <1>3, <1>10 DEF n, after, list

\* The way down ends on nodes of the layer it leads to.
LEMMA DescendOK ==
  ASSUME NEW g, Framed(g), Woven(g), NEW id, \A k \in Nat : Untied(g, id, k),
         g.entry \in Tall(g, g.top) \ {id}, NEW p \in Points, NEW level \in Nat
  PROVE  DescendTo(g, p, level)
           \in Seq(Tall(g, IF level < g.top THEN level ELSE g.top) \ {id})
<1> DEFINE way == Down(g.top, level + 1)
           n == Len(way)
           At(k) == Seq(Tall(g, g.top - k) \ {id})
           S == [k \in 0 .. n |-> At(k)]
<1>1. /\ g.top \in Nat /\ n \in Nat /\ n = IF level < g.top THEN g.top - level ELSE 0
      /\ \A k \in 1 .. n : way[k] = g.top - k + 1 /\ way[k] \in Nat
  <2>1. g.top \in Nat /\ level + 1 \in Nat
    BY FramedOK
  <2>2. /\ n = IF g.top + 1 > level + 1 THEN g.top + 1 - (level + 1) ELSE 0
        /\ \A k \in 1 .. n : way[k] = g.top - k + 1
    BY <2>1, DownOK
  <2> HIDE DEF way, n
  <2>3. n \in Nat /\ n = IF level < g.top THEN g.top - level ELSE 0
    BY <2>1, <2>2
  <2>4. \A k \in 1 .. n : g.top - k + 1 \in Nat
    BY <2>1, <2>3
  <2> QED BY <2>1, <2>2, <2>3, <2>4
<1> HIDE DEF way, n
<1>2. \A k \in 0 .. n : S[k] = At(k)
  OBVIOUS
<1> HIDE DEF S
<1>3. <<g.entry>> \in S[0]
  <2>1. 0 \in 0 .. n /\ g.top - 0 = g.top
    BY <1>1
  <2>2. <<g.entry>> \in Seq(Tall(g, g.top) \ {id})
    OBVIOUS
  <2>3. <<g.entry>> \in At(0)
    BY <2>1, <2>2
  <2> HIDE DEF At
  <2> QED BY <1>2, <2>1, <2>3
<1>4. ASSUME NEW k \in 1 .. n, NEW c \in S[k - 1] PROVE Descend(g, p, way[k], c) \in S[k]
  <2> DEFINE layer == way[k]
             W == Tall(g, layer) \ {id}
             t == Search(g, p, Unfiltered, 1, layer)
             found == SearchLayer(t, c)
             d == Descend(g, p, layer, c)
  <2>1. /\ k \in 0 .. n /\ k - 1 \in 0 .. n /\ layer \in Nat
        /\ layer = g.top - (k - 1) /\ layer - 1 = g.top - k
    BY <1>1
  <2>2. c \in Seq(W) /\ S[k] = Seq(Tall(g, layer - 1) \ {id})
    BY <1>2, <1>4, <2>1
  <2>3. d = IF found = <<>> THEN c ELSE <<found[1]>>
    BY DEF Descend
  <2> HIDE DEF layer, d
  <2>4. Walkable(t, W) /\ ~Filtered(t)
    <3>1. Walkable(t, W)
      <4>1. \A a \in Ids(g) : id \notin ToSet(Neighbors(g, a, layer))
        BY <2>1 DEF Untied
      <4>2. 1 \in Nat \ {0}
        OBVIOUS
      <4> QED BY <2>1, <4>1, <4>2, LayerWalkable
    <3> QED BY <3>1 DEF Filtered, Search
  <2> HIDE DEF t
  <2>5. found \in Seq(W)
    BY <2>2, <2>4, SearchLayerOK
  <2>6. W \subseteq Tall(g, layer - 1) \ {id}
    BY <2>1, TallGrows
  <2> HIDE DEF found, W
  <2>7. d \in Seq(W)
    <3>1. CASE found = <<>>
      BY <2>2, <2>3, <3>1
    <3>2. CASE found # <<>>
      <4>1. found[1] \in W
        BY <2>5, <3>2
      <4> QED BY <2>3, <3>2, <4>1
    <3> QED BY <3>1, <3>2
  <2>8. d \in Seq(Tall(g, layer - 1) \ {id})
    BY <2>6, <2>7
  <2> QED BY <2>2, <2>8 DEF layer, d
<1>5. DescendTo(g, p, level) \in S[n]
  <2> HIDE DEF At
  <2> QED BY <1>1, <1>3, <1>4, DescendIn DEF n, way
<1>6. n \in 0 .. n /\ g.top - n = IF level < g.top THEN level ELSE g.top
  BY <1>1
<1> QED BY <1>2, <1>5, <1>6

\* The graph once the layers above one are connected, and the seeds for that one.
Joining(g, id, layer) ==
  {r \in [g : Graphs, seeds : Seq(Nodes)] :
     /\ Framed(r.g) /\ SameFrame(g, r.g) /\ Woven(r.g)
     /\ \A k \in Nat : k <= layer => Untied(r.g, id, k)
     /\ r.seeds \in Seq(Tall(g, layer) \ {id})}

\* One more layer is connected.
LEMMA JoiningOn ==
  ASSUME NEW g, Framed(g), NEW layer \in Nat, NEW id \in Tall(g, layer),
         g.entry \in Tall(g, layer) \ {id}, NEW c \in Joining(g, id, layer)
  PROVE  Connect(id, c, layer) \in Joining(g, id, layer - 1)
<1> DEFINE r == Connect(id, c, layer)
<1>1. /\ Framed(c.g) /\ SameFrame(g, c.g) /\ Woven(c.g) /\ Untied(c.g, id, layer)
      /\ \A k \in Nat : k <= layer => Untied(c.g, id, k)
      /\ c.seeds \in Seq(Tall(g, layer) \ {id})
  BY DEF Joining
<1>2. /\ c.g.entry = g.entry
      /\ Ids(c.g) = Ids(g) /\ \A k \in Int : Tall(c.g, k) = Tall(g, k)
  BY <1>1, SameFrameOK DEF SameFrame
<1>3. Tall(g, layer) \subseteq Tall(g, layer - 1) /\ layer - 1 \in Int
  BY TallGrows
<1>4. /\ r = [g |-> r.g, seeds |-> r.seeds]
      /\ Framed(r.g) /\ SameFrame(c.g, r.g) /\ Woven(r.g)
      /\ \A k \in Nat : k # layer /\ Untied(c.g, id, k) => Untied(r.g, id, k)
      /\ r.seeds \in Seq(Tall(c.g, layer - 1) \ {id})
  <2>1. /\ id \in Tall(c.g, layer) /\ c.seeds \in Seq(Tall(c.g, layer) \ {id})
        /\ c.g.entry \in Tall(c.g, layer - 1) \ {id}
    BY <1>1, <1>2, <1>3
  <2> HIDE DEF r
  <2> QED BY <1>1, <2>1, ConnectOK DEF r
<1> HIDE DEF r
<1>5. SameFrame(g, r.g) /\ r.g \in Graphs
  BY <1>1, <1>4, SameFrameOn DEF Framed
<1>6. r.seeds \in Seq(Tall(g, layer - 1) \ {id}) /\ r.seeds \in Seq(Nodes)
  <2>1. Tall(g, layer - 1) \subseteq Nodes
    BY FramedOK DEF Tall
  <2>2. r.seeds \in Seq(Tall(g, layer - 1) \ {id})
    BY <1>2, <1>3, <1>4
  <2> QED BY <2>1, <2>2
<1>7. \A k \in Nat : k <= layer - 1 => Untied(r.g, id, k)
  <2>1. \A k \in Nat : k <= layer - 1 => k <= layer /\ k # layer
    OBVIOUS
  <2> QED BY <1>1, <1>4, <2>1
<1>8. r \in [g : Graphs, seeds : Seq(Nodes)]
  BY <1>4, <1>5, <1>6
<1> QED BY <1>4, <1>5, <1>6, <1>7, <1>8 DEF Joining, r

\* The new node is connected on every layer down from one.
LEMMA ConnectDownOK ==
  ASSUME NEW g, Framed(g), NEW level \in Nat, NEW id \in Tall(g, level),
         g.entry \in Tall(g, level) \ {id}, NEW s \in Joining(g, id, level)
  PROVE  LET h == ConnectDown(id, s, level).g IN
         Framed(h) /\ SameFrame(g, h) /\ Woven(h)
<1> DEFINE way == Down(level, 0)
           n == Len(way)
           At(k) == Joining(g, id, level - k)
           S == [k \in 0 .. n |-> At(k)]
<1>1. /\ n = level + 1
      /\ \A k \in 1 .. n : way[k] = level - k + 1
  BY DownOK
<1> HIDE DEF way, n
<1>2. \A k \in 0 .. n : S[k] = At(k)
  OBVIOUS
<1> HIDE DEF S
<1>3. s \in S[0]
  <2>1. 0 \in 0 .. n /\ level - 0 = level
    BY <1>1
  <2> QED BY <1>2, <2>1
<1>4. ASSUME NEW k \in 1 .. n, NEW c \in S[k - 1] PROVE Connect(id, c, way[k]) \in S[k]
  <2> DEFINE layer == way[k]
  <2>1. /\ k \in 0 .. n /\ k - 1 \in 0 .. n /\ layer \in Nat
        /\ layer = level - (k - 1) /\ layer - 1 = level - k /\ layer <= level
    BY <1>1
  <2>2. c \in Joining(g, id, layer) /\ S[k] = Joining(g, id, layer - 1)
    BY <1>2, <1>4, <2>1
  <2> HIDE DEF layer
  <2>3. id \in Tall(g, layer) /\ g.entry \in Tall(g, layer) \ {id}
    <3>1. Tall(g, level) \subseteq Tall(g, layer)
      <4>1. layer \in Int /\ level \in Int
        BY <2>1
      <4> QED BY <2>1, <4>1, TallBelow
    <3> QED BY <3>1
  <2>4. Connect(id, c, layer) \in Joining(g, id, layer - 1)
    BY <2>1, <2>2, <2>3, JoiningOn
  <2> QED BY <2>2, <2>4 DEF layer
<1> DEFINE r == ConnectDown(id, s, level)
<1>5. r \in S[n]
  <2> HIDE DEF At
  <2>1. Len(Down(level, 0)) \in Nat
    BY <1>1 DEF n, way
  <2> QED BY <1>3, <1>4, <2>1, ConnectDownIn DEF n, way
<1> HIDE DEF r
<1>6. r \in Joining(g, id, level - n)
  <2>1. n \in 0 .. n
    BY <1>1
  <2> QED BY <1>2, <1>5, <2>1
<1> QED BY <1>6 DEF Joining, r

\* What a graph promises of its lists is a matter of its vectors and lists alone.
LEMMA SameLists ==
  ASSUME NEW g, NEW h, Woven(g), h.at = g.at, h.links = g.links
  PROVE  Woven(h)
<1>1. Ids(h) = Ids(g)
  BY DEF Ids, Size
<1>2. \A n, k : Neighbors(h, n, k) = Neighbors(g, n, k)
  BY DEF Neighbors, LayersOf
<1>3. \A k : Tall(h, k) = Tall(g, k)
  BY <1>1 DEF Tall
<1>4. \A n, k : ListKept(h, n, k) <=> ListKept(g, n, k)
  BY <1>2, <1>3 DEF ListKept
<1>5. \A n, m, k : ComesBack(h, n, m, k) <=> ComesBack(g, n, m, k)
  BY <1>2 DEF ComesBack
<1> QED BY <1>1, <1>2, <1>4, <1>5 DEF Woven

\* An insert keeps a graph sound.
LEMMA InsertNodeOK ==
  ASSUME NEW g, Sound(g), NEW p \in Points, NEW level \in Nat
  PROVE  LET h == InsertNode(g, p, level) IN
         Sound(h) /\ Size(h) = Size(g) + 1 /\ h.dead = g.dead
<1> DEFINE id == Size(g) + 1
           q == PushNode(g, p, level)
           low == IF level < g.top THEN level ELSE g.top
           s == [g |-> q, seeds |-> DescendTo(q, p, level)]
           joined == ConnectDown(id, s, low).g
           alone == [q EXCEPT !.entry = id, !.top = level]
           h == InsertNode(g, p, level)
<1>1. h = IF g.entry = 0 THEN alone ELSE Raise(joined, id, level)
  BY DEF InsertNode
<1>2. /\ Framed(g) /\ Woven(g) /\ Entered(g) /\ g.top \in Nat
      /\ id \in Nodes /\ id \notin Ids(g) /\ Ids(g) \subseteq Nodes
  BY FramedOK DEF Sound
<1>3. /\ Framed(q) /\ Ids(q) = Ids(g) \cup {id} /\ Size(q) = id
      /\ q.dead = g.dead /\ q.entry = g.entry /\ q.top = g.top
      /\ Len(q.links[id]) = level + 1 /\ \A n \in Ids(g) : q.links[n] = g.links[n]
      /\ \A k \in Nat : Neighbors(q, id, k) = <<>>
      /\ \A n \in Ids(g), k \in Nat : Neighbors(q, n, k) = Neighbors(g, n, k)
      /\ \A k \in Int : Tall(g, k) \subseteq Tall(q, k)
  BY <1>2, PushNodeOK
<1> HIDE DEF q, id, h
<1>4. Woven(q) /\ \A k \in Nat : Untied(q, id, k)
  <2>1. ASSUME NEW k \in Nat
        PROVE  /\ ListKept(q, id, k)
               /\ \A m \in ToSet(Neighbors(q, id, k)) : ComesBack(q, id, m, k)
    <3>1. Neighbors(q, id, k) = <<>> /\ MaxDegree(k) \in Nat
      BY <1>3, DegreeOK
    <3>2. Distinct(<<>>) /\ ToSet(<<>>) = {} /\ Len(<<>>) = 0
      BY DEF Distinct, ToSet
    <3>3. <<>> \in Seq(Tall(q, k) \ {id})
      OBVIOUS
    <3> QED BY <3>1, <3>2, <3>3 DEF ListKept
  <2>2. ASSUME NEW k \in Nat, NEW n \in Ids(g)
        PROVE  /\ ListKept(q, n, k) /\ \A m \in ToSet(Neighbors(q, n, k)) : ComesBack(q, n, m, k)
               /\ id \notin ToSet(Neighbors(q, n, k))
    <3>1. /\ ListKept(g, n, k) /\ \A m \in ToSet(Neighbors(g, n, k)) : ComesBack(g, n, m, k)
      BY <1>2 DEF Woven
    <3>2. Neighbors(q, n, k) = Neighbors(g, n, k)
      BY <1>3
    <3>3. \A m \in ToSet(Neighbors(g, n, k)) : m \in Ids(g)
      BY <3>1 DEF ListKept, ToSet, Tall
    <3>4. ListKept(q, n, k)
      <4>1. Tall(g, k) \ {n} \subseteq Tall(q, k) \ {n}
        BY <1>3
      <4> QED BY <3>1, <3>2, <4>1 DEF ListKept
    <3>5. \A m \in ToSet(Neighbors(g, n, k)) : ComesBack(q, n, m, k)
      BY <1>3, <3>1, <3>3 DEF ComesBack
    <3> QED BY <1>2, <3>2, <3>3, <3>4, <3>5
  <2>3. ToSet(<<>>) = {}
    BY DEF ToSet
  <2> QED BY <1>3, <2>1, <2>2, <2>3 DEF Woven, Untied
<1>5. CASE g.entry = 0
  <2>1. h = alone /\ q \in Graphs
    BY <1>1, <1>3, <1>5 DEF Framed
  <2> HIDE DEF alone
  <2>2. /\ h = [q EXCEPT !.entry = id, !.top = level] /\ h \in Graphs
        /\ h.at = q.at /\ h.links = q.links /\ h.dead = q.dead /\ h.entry = id /\ h.top = level
    BY <1>2, <2>1 DEF Graphs, Nodes, alone
  <2>3. Ids(h) = Ids(q) /\ Size(h) = id /\ Framed(h)
    BY <1>3, <2>2 DEF Ids, Size, Framed
  <2>4. Woven(h)
    BY <1>4, <2>2, SameLists
  <2>5. Entered(h)
    BY <1>3, <2>2, <2>3 DEF Entered
  <2> QED BY <1>3, <2>2, <2>3, <2>4, <2>5 DEF Sound, id, h
<1>6. CASE g.entry # 0
  <2>1. /\ g.entry \in Ids(g) /\ g.top < Len(g.links[g.entry]) /\ g.entry # id
    BY <1>2, <1>6 DEF Entered
  <2>2. low \in Nat /\ low <= g.top /\ low <= level
    BY <1>2
  <2>3. q.entry \in Tall(q, q.top) \ {id}
    BY <1>3, <2>1 DEF Tall
  <2>4. q.entry \in Tall(q, low) \ {id} /\ id \in Tall(q, low)
    <3>1. Tall(q, q.top) \subseteq Tall(q, low)
      <4>1. Framed(q) /\ low \in Int /\ q.top \in Int /\ low <= q.top
        BY <1>2, <1>3, <2>2, FramedOK
      <4> QED BY <4>1, TallBelow
    <3>2. low < level + 1 /\ id \in Ids(q)
      BY <1>3, <2>2
    <3> QED BY <1>3, <2>3, <3>1, <3>2 DEF Tall
  <2>5. s.seeds \in Seq(Tall(q, low) \ {id}) /\ s.g = q
    BY <1>3, <1>4, <2>3, DescendOK
  <2> HIDE DEF low
  <2>6. s \in Joining(q, id, low)
    <3>1. Tall(q, low) \subseteq Nodes
      BY <1>3, FramedOK DEF Tall
    <3>2. s.seeds \in Seq(Nodes) /\ q \in Graphs
      BY <1>3, <2>5, <3>1 DEF Framed
    <3>3. s \in [g : Graphs, seeds : Seq(Nodes)]
      BY <2>5, <3>2
    <3>4. SameFrame(q, q)
      BY DEF SameFrame
    <3> HIDE DEF s
    <3> QED BY <1>3, <1>4, <2>5, <3>3, <3>4 DEF Joining
  <2> HIDE DEF s
  <2>7. Framed(joined) /\ SameFrame(q, joined) /\ Woven(joined)
    BY <1>3, <2>2, <2>4, <2>6, ConnectDownOK
  <2> HIDE DEF joined
  <2>8. /\ Ids(joined) = Ids(q) /\ Size(joined) = id /\ joined.dead = g.dead
        /\ joined.entry = g.entry /\ joined.top = g.top /\ joined \in Graphs
        /\ \A n \in Ids(q) : Len(joined.links[n]) = Len(q.links[n])
    BY <1>3, <2>7, SameFrameOK DEF SameFrame, Framed
  <2>9. h = Raise(joined, id, level)
    BY <1>1, <1>6
  <2>10. CASE level > g.top
    <3>1. h = [joined EXCEPT !.top = level, !.entry = id]
      BY <2>8, <2>9, <2>10 DEF Raise
    <3>2. /\ h \in Graphs
          /\ h.at = joined.at /\ h.links = joined.links /\ h.dead = joined.dead /\ h.entry = id
          /\ h.top = level
      BY <1>2, <2>8, <3>1 DEF Graphs, Nodes
    <3>3. Ids(h) = Ids(joined) /\ Size(h) = id /\ Framed(h)
      BY <2>7, <2>8, <3>2 DEF Ids, Size, Framed
    <3>4. Woven(h)
      BY <2>7, <3>2, SameLists
    <3>5. Entered(h)
      <4>1. id \in Ids(q) /\ level < level + 1
        BY <1>3
      <4> QED BY <1>3, <2>8, <3>2, <3>3, <4>1 DEF Entered
    <3> QED BY <2>8, <3>2, <3>3, <3>4, <3>5 DEF Sound, id, h
  <2>11. CASE ~(level > g.top)
    <3>1. h = joined
      BY <2>8, <2>9, <2>11 DEF Raise
    <3>2. Entered(h)
      BY <1>3, <2>1, <2>8, <3>1 DEF Entered
    <3> QED BY <2>7, <2>8, <3>1, <3>2 DEF Sound, id, h
  <2> QED BY <2>10, <2>11
<1> QED BY <1>5, <1>6

\* What Built ends in, when every step keeps to a family of sets.
LEMMA BuiltIn ==
  ASSUME NEW g, NEW rows, Len(rows) \in Nat, NEW S,
         g \in S[0],
         \A k \in 1 .. Len(rows) : \A c \in S[k - 1] :
           InsertNode(c, rows[k].at, rows[k].level) \in S[k]
  PROVE  Built(g, rows) \in S[Len(rows)]
<1> DEFINE Step(c, x) == InsertNode(c, x.at, x.level)
           Eq(f, q) == f = [k \in 0 .. Len(q) |-> IF k = 0 THEN g ELSE
                                CHOOSE r \in {Step(c, q[k]) : c \in {f[k - 1]}} : TRUE]
           Through(q) == (CHOOSE f : Eq(f, q))[Len(q)]
           n == Len(rows)
           F == [x \in (UNION {S[k] : k \in 0 .. n}) \X (1 .. n) |-> Step(x[1], rows[x[2]])]
<1>1. Built(g, rows) = CHOOSE r \in {Through(q) : q \in {rows}} : TRUE
  BY DEF Built, InTurn
<1>2. /\ n \in Nat /\ g \in S[0]
      /\ \A k \in 1 .. n : \A c \in S[k - 1] : Step(c, rows[k]) \in S[k]
  OBVIOUS
<1> HIDE DEF Step, n
<1>3. Built(g, rows) = Through(rows)
  <2> HIDE DEF Through
  <2> QED BY <1>1, Once
<1>4. \A k \in 1 .. n : \A c \in S[k - 1] : F[<<c, k>>] = Step(c, rows[k])
  <2> SUFFICES ASSUME NEW k \in 1 .. n, NEW c \in S[k - 1] PROVE F[<<c, k>>] = Step(c, rows[k])
    OBVIOUS
  <2>1. <<c, k>> \in (UNION {S[j] : j \in 0 .. n}) \X (1 .. n)
    BY <1>2
  <2> QED BY <2>1
<1> HIDE DEF F
<1>5. PICK run : Runs(run, g, F, n) /\ \A k \in 0 .. n : run[k] \in S[k]
  <2>1. \A k \in 1 .. n : \A c \in S[k - 1] : F[<<c, k>>] \in S[k]
    BY <1>2, <1>4
  <2> QED BY <1>2, <2>1, RunIn
<1>6. \A f, k : (CHOOSE r \in {Step(c, rows[k]) : c \in {f[k - 1]}} : TRUE)
                = Step(f[k - 1], rows[k])
  BY Once
<1>7. Eq(run, rows)
  <2>1. \A k \in 1 .. n : run[k] = Step(run[k - 1], rows[k])
    <3>1. \A k \in 1 .. n : run[k - 1] \in S[k - 1]
      BY <1>2, <1>5
    <3> QED BY <1>4, <1>5, <3>1 DEF Runs
  <2>2. \A k \in 0 .. n : run[k] = IF k = 0 THEN g ELSE
          CHOOSE r \in {Step(c, rows[k]) : c \in {run[k - 1]}} : TRUE
    <3> SUFFICES ASSUME NEW k \in 0 .. n
                 PROVE  run[k] = IF k = 0 THEN g ELSE
                          CHOOSE r \in {Step(c, rows[k]) : c \in {run[k - 1]}} : TRUE
      OBVIOUS
    <3>1. CASE k = 0
      BY <1>5, <3>1 DEF Runs
    <3>2. CASE k # 0
      <4>1. run[k] = Step(run[k - 1], rows[k])
        BY <1>2, <2>1, <3>2
      <4>2. (CHOOSE r \in {Step(c, rows[k]) : c \in {run[k - 1]}} : TRUE)
            = Step(run[k - 1], rows[k])
        BY <1>6
      <4> QED BY <3>2, <4>1, <4>2
    <3> QED BY <3>1, <3>2
  <2>3. run = [k \in 0 .. n |-> run[k]]
    BY <1>5 DEF Runs
  <2> QED BY <2>2, <2>3 DEF n
<1> DEFINE after == CHOOSE f : Eq(f, rows)
<1>8. Eq(after, rows)
  <2> HIDE DEF Eq
  <2> QED BY <1>7
<1> HIDE DEF after
<1>9. after[0] = g /\ \A k \in 1 .. n : after[k] = Step(after[k - 1], rows[k])
  BY <1>2, <1>6, <1>8 DEF n
<1>10. \A k \in 0 .. n : after[k] \in S[k]
  BY <1>2, <1>9, RunStays
<1> QED BY <1>2, <1>3, <1>10 DEF n, after

\* Rows inserted one after the other leave a sound graph, with a node for each.
LEMMA BuiltOK ==
  ASSUME NEW g, Sound(g), NEW rows \in Seq([at : Points, level : Nat])
  PROVE  LET h == Built(g, rows) IN
         Sound(h) /\ Size(h) = Size(g) + Len(rows) /\ h.dead = g.dead
<1> DEFINE n == Len(rows)
           At(k) == {h \in Graphs : Sound(h) /\ Size(h) = Size(g) + k /\ h.dead = g.dead}
           S == [k \in 0 .. n |-> At(k)]
<1>1. /\ n \in Nat /\ Size(g) \in Nat
      /\ \A k \in 1 .. n : rows[k].at \in Points /\ rows[k].level \in Nat
  <2>1. n \in Nat /\ \A k \in 1 .. n : rows[k] \in [at : Points, level : Nat]
    <3> HIDE DEF S, At
    <3> DEFINE X == [at : Points, level : Nat]
    <3>1. rows \in Seq(X)
      OBVIOUS
    <3> HIDE DEF X
    <3>2. n \in Nat /\ \A k \in 1 .. n : rows[k] \in X
      BY <3>1
    <3> QED BY <3>2 DEF X
  <2> HIDE DEF n
  <2> QED BY <2>1, FramedOK DEF Sound
<1> HIDE DEF n
<1>2. \A k \in 0 .. n : S[k] = At(k)
  OBVIOUS
<1> HIDE DEF S
<1>3. g \in S[0]
  <2>1. g \in Graphs /\ Size(g) = Size(g) + 0 /\ 0 \in 0 .. n
    BY <1>1 DEF Sound, Framed
  <2>2. g \in At(0)
    BY <2>1
  <2> HIDE DEF At
  <2> QED BY <1>2, <2>1, <2>2
<1>4. ASSUME NEW k \in 1 .. n, NEW c \in S[k - 1]
      PROVE  InsertNode(c, rows[k].at, rows[k].level) \in S[k]
  <2> DEFINE d == InsertNode(c, rows[k].at, rows[k].level)
  <2>1. k \in 0 .. n /\ k - 1 \in 0 .. n
    BY <1>1
  <2>2. S[k] = At(k) /\ Sound(c) /\ Size(c) = Size(g) + (k - 1) /\ c.dead = g.dead
    BY <1>2, <1>4, <2>1
  <2>3. Sound(d) /\ Size(d) = Size(c) + 1 /\ d.dead = c.dead
    BY <1>1, <2>2, InsertNodeOK
  <2> HIDE DEF d
  <2>4. d \in Graphs /\ Size(d) = Size(g) + k
    BY <1>1, <2>1, <2>2, <2>3 DEF Sound, Framed
  <2>5. d \in At(k)
    BY <2>2, <2>3, <2>4
  <2> HIDE DEF At
  <2> QED BY <2>2, <2>5 DEF d
<1> DEFINE h == Built(g, rows)
<1>5. h \in S[n]
  <2> HIDE DEF At
  <2> QED BY <1>1, <1>3, <1>4, BuiltIn DEF n
<1> HIDE DEF h
<1>6. n \in 0 .. n
  BY <1>1
<1> QED BY <1>2, <1>5, <1>6 DEF h, n

\* A graph without nodes is sound.
LEMMA EmptySound == Sound(Empty) /\ Size(Empty) = 0
<1>1. /\ Empty.at = <<>> /\ Empty.links = <<>> /\ Empty.dead = {} /\ Empty.entry = 0
      /\ Empty.top = 0 /\ Empty \in Graphs
  BY DEF Empty, Graphs
<1>2. Size(Empty) = 0 /\ Ids(Empty) = {}
  BY <1>1 DEF Size, Ids
<1> QED BY <1>1, <1>2 DEF Sound, Framed, Woven, Entered

\* The live rows are as many as the live nodes.
LEMMA LiveRowsOK ==
  ASSUME Framed(graph), NEW levels \in [1 .. Cardinality(Live(graph)) -> Levels]
  PROVE  LiveRows(levels) \in Seq([at : Points, level : Nat])
<1> DEFINE all == [k \in Ids(graph) |-> k]
           live == Select(all, Live(graph))
<1>1. /\ Size(graph) \in Nat /\ Ids(graph) = 1 .. Size(graph) /\ graph.at \in Seq(Points)
      /\ Len(graph.at) = Size(graph) /\ Live(graph) \subseteq Ids(graph)
  BY FramedOK DEF Ids, Live, Placed, Size
<1>2. /\ all \in Seq(Ids(graph)) /\ Len(all) = Size(graph)
      /\ \A k \in 1 .. Size(graph) : all[k] = k
  BY <1>1
<1> HIDE DEF all
<1>3. Distinct(all) /\ ToSet(all) = Ids(graph)
  BY <1>1, <1>2 DEF Distinct, ToSet
<1>4. /\ live \in Seq(Ids(graph) \cap Live(graph)) /\ ToSet(live) = Live(graph) /\ Distinct(live)
  <2>1. live \in Seq(Ids(graph) \cap Live(graph)) /\ ToSet(live) = ToSet(all) \cap Live(graph)
        /\ (Distinct(all) => Distinct(live))
    BY <1>2, SelectOK
  <2> QED BY <1>1, <1>3, <2>1
<1> HIDE DEF live
<1>5. Len(live) = Cardinality(Live(graph)) /\ Len(live) \in Nat /\ DOMAIN live = 1 .. Len(live)
  <2>1. live \in Seq(ToSet(live))
    BY <1>1, <1>4
  <2> QED BY <1>4, <2>1, DistinctLen
<1>6. \A k \in 1 .. Len(live) : live[k] \in 1 .. Len(graph.at) /\ levels[k] \in Nat
  <2>1. \A k \in 1 .. Len(live) : live[k] \in Ids(graph)
    BY <1>4
  <2>2. \A k \in 1 .. Len(live) : levels[k] \in Levels
    BY <1>5
  <2> QED BY <1>1, <2>1, <2>2, GraphAssumption
<1>7. \A k \in 1 .. Len(live) : graph.at[live[k]] \in Points
  BY <1>1, <1>6
<1>8. LiveRows(levels) =
        [k \in 1 .. Len(live) |-> [at |-> graph.at[live[k]], level |-> levels[k]]]
  BY <1>5 DEF LiveRows, live, all
<1> DEFINE row(k) == [at |-> graph.at[live[k]], level |-> levels[k]]
           X == [at : Points, level : Nat]
<1>9. \A k \in 1 .. Len(live) : row(k) \in X
  BY <1>6, <1>7
<1>10. LiveRows(levels) = [k \in 1 .. Len(live) |-> row(k)]
  BY <1>8
<1> HIDE DEF row, X
<1>11. LiveRows(levels) \in Seq(X)
  BY <1>5, <1>9, <1>10
<1> QED BY <1>11 DEF X

-----------------------------------------------------------------------------
(* The graph under insert, delete and compaction.                          *)

\* The invariant.
SoundGraph == Sound(graph)

\* Building begins with it.
LEMMA SoundInit == Init => SoundGraph
BY EmptySound DEF Init, SoundGraph

\* An insert, a delete and a compaction keep it.
LEMMA SoundStep == SoundGraph /\ [Next]_graph => SoundGraph'
<1> USE DEF SoundGraph
<1> SUFFICES ASSUME Sound(graph), [Next]_graph PROVE Sound(graph')
  OBVIOUS
<1>1. ASSUME NEW p \in Points, NEW level \in Levels, Insert(p, level) PROVE Sound(graph')
  BY <1>1, GraphAssumption, InsertNodeOK DEF Insert
<1>2. ASSUME NEW id \in Ids(graph), Delete(id) PROVE Sound(graph')
  <2> DEFINE h == graph'
  <2>1. /\ h = [graph EXCEPT !.dead = graph.dead \cup {id}]
        /\ Framed(graph) /\ Woven(graph) /\ Entered(graph) /\ Ids(graph) \subseteq Nodes
    BY <1>2, FramedOK DEF Delete, Sound
  <2> HIDE DEF h
  <2>2. /\ h \in Graphs /\ h.at = graph.at /\ h.links = graph.links /\ h.entry = graph.entry
        /\ h.top = graph.top /\ h.dead = graph.dead \cup {id}
    BY <2>1 DEF Framed, Graphs
  <2>3. Ids(h) = Ids(graph) /\ Size(h) = Size(graph) /\ Framed(h)
    BY <2>1, <2>2 DEF Ids, Size, Framed
  <2>4. Woven(h)
    BY <2>1, <2>2, SameLists
  <2>5. Entered(h)
    BY <2>1, <2>2, <2>3 DEF Entered
  <2> QED BY <2>3, <2>4, <2>5 DEF Sound, h
<1>3. ASSUME NEW levels \in [1 .. Cardinality(Live(graph)) -> Levels], Compact(levels)
      PROVE  Sound(graph')
  <2>1. graph' = Built(Empty, LiveRows(levels))
    BY <1>3 DEF Compact
  <2>2. LiveRows(levels) \in Seq([at : Points, level : Nat])
    BY LiveRowsOK DEF Sound
  <2> QED BY <2>1, <2>2, BuiltOK, EmptySound
<1>4. CASE UNCHANGED graph
  BY <1>4
<1> QED BY <1>1, <1>2, <1>3, <1>4 DEF Next

\* What is sound keeps to its types, and to what its lists promise.
LEMMA SoundSays == SoundGraph => TypeOK /\ NeighborsShareTheLayer /\ OneSidedOnlyWhenFull
<1> SUFFICES ASSUME Sound(graph) PROVE TypeOK /\ NeighborsShareTheLayer /\ OneSidedOnlyWhenFull
  BY DEF SoundGraph
<1>1. Framed(graph) /\ Woven(graph) /\ Entered(graph)
  BY DEF Sound
<1>2. TypeOK
  BY <1>1 DEF Framed, Entered, TypeOK
<1>3. ASSUME NEW id \in Ids(graph), NEW layer \in LayersOf(graph, id)
      PROVE  /\ layer \in Nat /\ ListKept(graph, id, layer)
             /\ \A n \in ToSet(Neighbors(graph, id, layer)) : ComesBack(graph, id, n, layer)
  <2>1. layer \in Nat
    BY <1>1, FramedOK DEF LayersOf
  <2> QED BY <1>1, <2>1 DEF Woven
<1>4. NeighborsShareTheLayer
  <2> SUFFICES ASSUME NEW id \in Ids(graph), NEW layer \in LayersOf(graph, id)
               PROVE  LET ns == Neighbors(graph, id, layer) IN
                      /\ \A k \in DOMAIN ns : ns[k] # id /\ layer \in LayersOf(graph, ns[k])
                      /\ Cardinality(ToSet(ns)) = Len(ns)
    BY DEF NeighborsShareTheLayer
  <2> DEFINE ns == Neighbors(graph, id, layer)
  <2>1. ns \in Seq(Tall(graph, layer) \ {id}) /\ Distinct(ns) /\ layer \in Nat
    BY <1>3 DEF ListKept
  <2> HIDE DEF ns
  <2>2. \A k \in DOMAIN ns : ns[k] \in Tall(graph, layer) \ {id}
    BY <2>1
  <2>3. \A n \in Tall(graph, layer) : layer \in LayersOf(graph, n)
    BY <1>1, <2>1, FramedOK DEF Tall, LayersOf
  <2>4. ns \in Seq(ToSet(ns))
    BY <2>1 DEF ToSet
  <2>5. Cardinality(ToSet(ns)) = Len(ns)
    BY <2>1, <2>4, DistinctLen
  <2> QED BY <2>2, <2>3, <2>5 DEF ns
<1>5. OneSidedOnlyWhenFull
  BY <1>3 DEF OneSidedOnlyWhenFull, ComesBack
<1> QED BY <1>2, <1>4, <1>5

\* A graph is sound whatever is inserted, deleted and compacted: lists within their
\* layer and cap, and edges that come back unless they were pruned (insert_inner, compact).
THEOREM GraphSound == Spec => []SoundGraph
BY SoundInit, SoundStep, PTL DEF Spec

\* Building: the graph keeps to its types whatever is inserted, deleted and compacted.
THEOREM GraphTyped == Spec => []TypeOK
BY SoundSays, GraphSound, PTL

\* A neighbour has the layer it is a neighbour on, no node is its own neighbour or one
\* twice: the slots that push_neighbor writes are the node's.
THEOREM SharedLayers == Spec => []NeighborsShareTheLayer
BY SoundSays, GraphSound, PTL

\* An edge is one-sided only where the side that lacks it has a full list.
THEOREM OneSidedFull == Spec => []OneSidedOnlyWhenFull
BY SoundSays, GraphSound, PTL
=============================================================================
