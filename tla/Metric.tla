------------------------------- MODULE Metric -------------------------------
(***************************************************************************)
(* Distances, the operators that compute them in SQL, and the operator     *)
(* classes that tie an operator to the metric of a graph (src/distance.rs, *)
(* src/vector.rs, src/pg_vector.rs, src/index_am/opclass.rs).              *)
(*                                                                         *)
(* A vector is a sequence of integers.  Only the order of distances counts,*)
(* so the root of the Euclidean distance is left out and cosine distances  *)
(* are compared as fractions; sums neither round nor overflow.             *)
(***************************************************************************)
EXTENDS Integers, Sequences

SumOver(n, Term(_)) ==
  LET upTo[k \in 0 .. n] == IF k = 0 THEN 0 ELSE upTo[k - 1] + Term(k) IN upTo[n]

Dot(a, b) == SumOver(Len(a), LAMBDA k : a[k] * b[k])

L2Squared(a, b) == SumOver(Len(a), LAMBDA k : (a[k] - b[k]) * (a[k] - b[k]))

NegativeInnerProduct(a, b) == -Dot(a, b)

\* Cosine distance is NaN for a zero vector.
CosineIsNaN(a, b) == Dot(a, a) * Dot(b, b) = 0

\* The square of the cosine, with its sign, as a fraction.
SignedCosine(a, b) ==
  [over |-> IF Dot(a, b) < 0 THEN -(Dot(a, b) * Dot(a, b)) ELSE Dot(a, b) * Dot(a, b),
   under |-> Dot(a, a) * Dot(b, b)]

\* 1 - cosine is smaller where the cosine is larger; NaN is above every number, both in
\* a graph (total_cmp of a NaN without a sign) and in SQL.
CosineNearer(q, a, b) ==
  /\ ~CosineIsNaN(q, a)
  /\ \/ CosineIsNaN(q, b)
     \/ LET ca == SignedCosine(q, a)  cb == SignedCosine(q, b)
        IN  ca.over * cb.under > cb.over * ca.under

\* Metric::distance: a is strictly nearer to q than b is.
MetricNearer(metric, q, a, b) ==
  CASE metric = "L2" -> L2Squared(q, a) < L2Squared(q, b)
    [] metric = "Cosine" -> CosineNearer(q, a, b)
    [] metric = "InnerProduct" -> NegativeInnerProduct(q, a) < NegativeInnerProduct(q, b)

-----------------------------------------------------------------------------
(* Operators and operator classes.                                         *)

Operators == {"<->", "<#>", "<=>"}

\* What ORDER BY vector <op> q puts first.
OperatorNearer(op, q, a, b) ==
  CASE op = "<->" -> L2Squared(q, a) < L2Squared(q, b)
    [] op = "<#>" -> NegativeInnerProduct(q, a) < NegativeInnerProduct(q, b)
    [] op = "<=>" -> CosineNearer(q, a, b)

Opclasses == {"brindle_vector_l2_ops", "brindle_vector_ip_ops", "brindle_vector_cosine_ops"}

\* OPERATOR n ... FOR ORDER BY.
OrderingOperator == [opclass \in Opclasses |->
  CASE opclass = "brindle_vector_l2_ops" -> "<->"
    [] opclass = "brindle_vector_ip_ops" -> "<#>"
    [] OTHER -> "<=>"]

\* FUNCTION 2, as a code, and what index_metric makes of it.
MetricProc == [opclass \in Opclasses |->
  CASE opclass = "brindle_vector_l2_ops" -> 0
    [] opclass = "brindle_vector_cosine_ops" -> 1
    [] OTHER -> 2]

MetricFromCode(code) ==
  CASE code = 0 -> "L2" [] code = 1 -> "Cosine" [] code = 2 -> "InnerProduct"

IndexMetric(opclass) == MetricFromCode(MetricProc[opclass])
=============================================================================
