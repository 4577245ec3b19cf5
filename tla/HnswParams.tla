----------------------------- MODULE HnswParams -----------------------------
(***************************************************************************)
(* What a graph is built with, and what its stored header is held to       *)
(* (HnswParams, derived_params, Hnsw::new, the head of from_graph_bytes).  *)
(*                                                                         *)
(* gamma is counted in quarters: every multiple of one is an exact f32, so *)
(* only the rounding to a whole number of neighbours is left of the code's *)
(* floating point.                                                         *)
(***************************************************************************)
EXTENDS Integers

MAX_M == 128
MAX_GAMMA == 4 * 1024
MAX_LAYER0_DEGREE == 2048
MAX_DIM == 16000
MAX_LAYER == 64

Metrics == {"L2", "Cosine", "InnerProduct"}

\* Metric::code.
MetricCode == [metric \in Metrics |->
                 CASE metric = "L2" -> 0 [] metric = "Cosine" -> 1 [] OTHER -> 2]

DefaultParams == [m |-> 16, gamma |-> 4, ef |-> 64, metric |-> "L2"]

\* Half a neighbour rounds up.
MCap(m, gamma) == (m * gamma + 2) \div 4
M0Cap(m, gamma) == (2 * m * gamma + 2) \div 4
EfFloor(m, gamma) == IF gamma > 4 THEN M0Cap(m, gamma) ELSE m

Clamp(x, low, high) == IF x < low THEN low ELSE IF x > high THEN high ELSE x

\* Hnsw::new: what the graph keeps of its parameters, and its header stores.
NewHeader(params) ==
  LET m == IF params.m < 2 THEN 2 ELSE params.m
      gamma == Clamp(params.gamma, 4, MAX_GAMMA)
      floor == EfFloor(m, gamma)
  IN [m |-> m, gamma |-> gamma, metric |-> params.metric,
      ef |-> IF params.ef < floor THEN floor ELSE params.ef]

\* What from_graph_bytes demands of the parameters it reads.
HeaderAccepted(h) ==
  /\ h.metric \in Metrics
  /\ h.m \in 2 .. MAX_M
  /\ h.gamma \in 4 .. MAX_GAMMA
  /\ M0Cap(h.m, h.gamma) <= MAX_LAYER0_DEGREE
  /\ h.ef >= EfFloor(h.m, h.gamma)
=============================================================================
