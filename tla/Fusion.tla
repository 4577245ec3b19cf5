------------------------------- MODULE Fusion -------------------------------
(***************************************************************************)
(* Reciprocal rank fusion of ranked lists of ids (src/fusion.rs), and the  *)
(* keys that ids become for it (src/hybrid.rs).                            *)
(*                                                                         *)
(* A score is a sum of fractions 1/(k + rank); here it is multiplied by a  *)
(* common multiple of their denominators, so that sums compare exactly.    *)
(***************************************************************************)
EXTENDS Integers, FiniteSets, Sequences

CONSTANTS
  HALF,      \* 2^63: half of the values of an id
  MaxRank,   \* longest list
  Absorbing  \* a k so large that adding a rank to it changes nothing

ASSUME HalfAssumption == HALF \in Nat \ {0}
ASSUME RankAssumption == MaxRank \in Nat /\ Absorbing \in Nat

IdValues == -HALF .. HALF - 1
Keys == 0 .. 2 * HALF - 1

\* Variant of KeyOf: the sign bit as it is.
KeyOfUnsigned(id) == IF id < 0 THEN id + 2 * HALF ELSE id

\* As two's complement with the sign bit flipped, and back.
KeyOf(id) == ((IF id < 0 THEN id + 2 * HALF ELSE id) + HALF) % (2 * HALF)

IdOf(key) ==
  LET flipped == (key + HALF) % (2 * HALF) IN
  IF flipped >= HALF THEN flipped - 2 * HALF ELSE flipped

-----------------------------------------------------------------------------
(* rrf.  k is a natural number, or negative for what is refused.           *)

\* A common multiple of k + 1 .. k + MaxRank.
Scale(k) ==
  LET upTo[n \in 0 .. MaxRank] == IF n = 0 THEN 1 ELSE upTo[n - 1] * (k + n)
  IN  IF k >= Absorbing THEN 1 ELSE upTo[MaxRank]

Contribution(k, rank) == IF k >= Absorbing THEN 1 ELSE Scale(k) \div (k + rank)

\* Variant of Accumulate: a repeat within a list counts again.
AccumulateRepeats(scores, list, key, contribution) ==
  [scores EXCEPT ![key] = [score |-> @.score + contribution, last |-> list]]

\* An id takes a contribution from a list once, at its first place in it.
Accumulate(scores, list, key, contribution) ==
  IF scores[key].last = list THEN scores
  ELSE [scores EXCEPT ![key] = [score |-> @.score + contribution, last |-> list]]

Elements(rankings) ==
  UNION {{rankings[l][pos] : pos \in DOMAIN rankings[l]} : l \in DOMAIN rankings}

\* One list, place by place.
After(scores, list, ranking, k) ==
  LET upTo[pos \in 0 .. Len(ranking)] ==
        IF pos = 0 THEN scores
        ELSE Accumulate(upTo[pos - 1], list, ranking[pos], Contribution(k, pos))
  IN upTo[Len(ranking)]

Scores(rankings, k) ==
  LET through[list \in 0 .. Len(rankings)] ==
        IF list = 0 THEN [key \in Elements(rankings) |-> [score |-> 0, last |-> 0]]
        ELSE After(through[list - 1], list, rankings[list], k)
  IN through[Len(rankings)]

\* The order of results: by score, and among equal scores by key.
Ahead(scores, a, b) ==
  \/ scores[a].score > scores[b].score
  \/ scores[a].score = scores[b].score /\ a < b

\* The fused keys with their scores, best first.
Rrf(rankings, k) ==
  LET scores == Scores(rankings, k)
      keys == DOMAIN scores
      ByRank(r) == CHOOSE a \in keys : Cardinality({b \in keys : Ahead(scores, b, a)}) = r - 1
  IN [r \in 1 .. Cardinality(keys) |-> [key |-> ByRank(r), score |-> scores[ByRank(r)].score]]

RrfRefuses(k) == k < 0
=============================================================================
