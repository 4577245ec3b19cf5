---------------------------- MODULE MCGraphScan ----------------------------
(* Graphs of vectors on an arc, one with zero vectors, and an empty one, with attributes, *)
(* for TLC.                                                                               *)
EXTENDS GraphScan

\* Unit vectors by their angle, and the zero vector, 0.
ArcDistance ==
  [pair \in Points \X Points |-> IF 0 \in {pair[1], pair[2]} THEN Undefined
                                 ELSE IF pair[1] > pair[2] THEN pair[1] - pair[2]
                                 ELSE pair[2] - pair[1]]

\* From one end to the other, and from the middle out.
Forward == <<1, 2, 3, 4, 5, 6, 7, 8>>
MiddleOut == <<4, 5, 3, 6, 2, 7, 1, 8>>

\* The entry point and one more without a direction.
Zeros == <<0, 8, 2, 0, 5, 1, 7, 4>>

Rows(points, levels) == [k \in 1 .. 8 |-> [at |-> points[k], level |-> levels[k]]]

LineBuilds == {<<>>, Rows(Forward, <<2, 0, 0, 1, 0, 0, 2, 0>>),
               Rows(MiddleOut, <<0, 1, 0, 1, 0, 0, 0, 1>>),
               Rows(Zeros, <<1, 0, 0, 0, 1, 0, 0, 0>>)}

LineBurials == {{}, {1}, {2, 3}}

SideTable == <<9, 10>>

\* A number and a score.
TwoColumns == <<"int8", "float8">>

Number(k) == ValueFromDatum("int8", k)
Score(x) == ValueFromDatum("float8", x)

Scores == <<1, 2, NaN, 5, Null, NaN, 2, 1, NaN, 1>>

LineAttributes ==
  [id \in 1 .. 10 |-> <<IF id = 10 THEN Null ELSE Number(id), Score(Scores[id])>>]

Key(attno, strategy, subtype, argument) ==
  [attno |-> attno, strategy |-> strategy, subtype |-> subtype, argument |-> argument,
   flags |-> IF argument = Null THEN {"SK_ISNULL"} ELSE {}]

\* Next to nothing, two ends, stretches, everything, and a NULL argument.
LineClauses ==
  {{}, {Key(2, STRATEGY_EQ, "int4", Null)},
   {Key(2, STRATEGY_LE, Null, 9), Key(3, STRATEGY_LT, Null, Null)}}
  \cup {{Key(2, STRATEGY_EQ, "int4", k)} : k \in {0, 1, 3, 6, 8}}
  \cup {{Key(3, STRATEGY_EQ, Null, x)} : x \in {1, 5, NaN}}
  \cup {{Key(3, s, "float4", 2)} : s \in {STRATEGY_LT, STRATEGY_LE, STRATEGY_GE, STRATEGY_GT}}
  \cup {{Key(2, STRATEGY_GE, Null, a), Key(2, STRATEGY_LE, "int2", a + 1)} : a \in {1, 7}}
  \cup {{Key(2, STRATEGY_GT, Null, 1), Key(3, STRATEGY_EQ, Null, x)} : x \in {1, NaN}}
=============================================================================
