------------------------------- MODULE Loops --------------------------------
(***************************************************************************)
(* Induction over the turns of a loop.                                     *)
(*                                                                         *)
(* A property is a set that the values having it are members of, since a   *)
(* lemma with an operator as a parameter could not be used.  A recursive   *)
(* function is a choice among the functions that satisfy its equation: to  *)
(* have one is to have a run.                                              *)
(***************************************************************************)
EXTENDS Integers, WellFoundedInduction, TLAPS

\* The only element of a set.
LEMMA Once == \A x : (CHOOSE r \in {x} : TRUE) = x
OBVIOUS

\* A set of numbers has a least one.
LEMMA NatMin ==
  ASSUME NEW T, T \subseteq Nat, T # {}
  PROVE  \E n \in T : \A m \in T : ~(m < n)
<1> DEFINE R == {ss \in Nat \X Nat : ss[1] < ss[2]}
<1>1. IsWellFoundedOn(R, Nat)
  BY NatLessThanWellFounded DEF OpToRel
<1> HIDE DEF R
<1>2. PICK n \in T : \A m \in T : ~(<<m, n>> \in R)
  BY <1>1, WFMin
<1> QED BY <1>2 DEF R

\* Induction up to n, with the property as a set.
LEMMA Inductively ==
  ASSUME NEW n \in Nat, NEW T, 0 \in T, \A k \in 1 .. n : k - 1 \in T => k \in T
  PROVE  \A k \in 0 .. n : k \in T
<1> DEFINE U == {k \in 0 .. n : k \notin T}
<1> SUFFICES ASSUME U # {} PROVE FALSE
  OBVIOUS
<1>1. U \subseteq Nat
  OBVIOUS
<1>2. PICK k \in U : \A m \in U : ~(m < k)
  BY <1>1, NatMin
<1>3. k \in 1 .. n /\ k - 1 \in 0 .. n
  BY <1>2
<1> QED BY <1>2, <1>3

\* g runs through the n steps of a loop that begins with b and goes on by F.
Runs(g, b, F, n) ==
  /\ g = [k \in 0 .. n |-> g[k]] /\ g[0] = b
  /\ \A k \in 1 .. n : g[k] = F[<<g[k - 1], k>>]

\* A loop has a run.
LEMMA RunExists ==
  ASSUME NEW n \in Nat, NEW b, NEW F
  PROVE  \E g : Runs(g, b, F, n)
<1> DEFINE T == {k \in 0 .. n : \E g : Runs(g, b, F, k)}
<1>1. 0 \in T
  <2> DEFINE g == [k \in 0 .. 0 |-> b]
  <2>1. Runs(g, b, F, 0)
    BY DEF Runs
  <2> QED BY <2>1
<1>2. ASSUME NEW k \in 1 .. n, k - 1 \in T PROVE k \in T
  <2>1. PICK g : Runs(g, b, F, k - 1)
    BY <1>2
  <2> DEFINE h == [j \in 0 .. k |-> IF j = k THEN F[<<g[k - 1], k>>] ELSE g[j]]
  <2>2. h = [j \in 0 .. k |-> h[j]] /\ h[0] = b /\ h[k] = F[<<h[k - 1], k>>]
    BY <2>1 DEF Runs
  <2>3. ASSUME NEW j \in 1 .. k, j # k PROVE h[j] = F[<<h[j - 1], j>>]
    <3>1. j \in 1 .. k - 1 /\ h[j] = g[j] /\ h[j - 1] = g[j - 1]
      BY <2>3
    <3> QED BY <2>1, <3>1 DEF Runs
  <2> HIDE DEF h
  <2>4. Runs(h, b, F, k)
    BY <2>2, <2>3 DEF Runs
  <2> QED BY <2>4
<1> HIDE DEF T
<1>3. n \in T
  BY <1>1, <1>2, Inductively
<1> QED BY <1>3 DEF T

\* What begins in the first set of a family and moves from set to set ends in the last.
LEMMA RunStays ==
  ASSUME NEW n \in Nat, NEW S, NEW h, h[0] \in S[0],
         \A k \in 1 .. n : h[k - 1] \in S[k - 1] => h[k] \in S[k]
  PROVE  \A k \in 0 .. n : h[k] \in S[k]
<1> DEFINE T == {k \in 0 .. n : h[k] \in S[k]}
<1>1. 0 \in T /\ \A k \in 1 .. n : k - 1 \in T => k \in T
  OBVIOUS
<1> HIDE DEF T
<1>2. \A k \in 0 .. n : k \in T
  BY <1>1, Inductively
<1> QED BY <1>2 DEF T

\* So does a loop whose steps do.
LEMMA RunIn ==
  ASSUME NEW n \in Nat, NEW S, NEW b \in S[0], NEW F,
         \A k \in 1 .. n : \A c \in S[k - 1] : F[<<c, k>>] \in S[k]
  PROVE  \E g : Runs(g, b, F, n) /\ \A k \in 0 .. n : g[k] \in S[k]
<1>1. PICK g : Runs(g, b, F, n)
  BY RunExists
<1>2. g[0] = b /\ \A k \in 1 .. n : g[k] = F[<<g[k - 1], k>>]
  BY <1>1 DEF Runs
<1>3. \A k \in 0 .. n : g[k] \in S[k]
  BY <1>2, RunStays
<1> QED BY <1>1, <1>3
=============================================================================
