------------------------------ MODULE MCHybrid ------------------------------
(* Documents, calls and WITH lists for TLC. *)
EXTENDS Hybrid, TLC

Document(id, vector, rank) == [id |-> id, vector |-> vector, rank |-> rank]

\* Under the query <<1, 0>> the three operators order these differently.
FirstTables ==
  {[r \in Rows |-> Null],
   [r \in Rows |-> CASE r = 1 -> Document(1, <<1, 1>>, 0)
                     [] r = 2 -> Document(-3, <<3, 1>>, 2)
                     [] r = 3 -> Document(-1, <<0, 0>>, 1)
                     [] OTHER -> Null],
   [r \in Rows |-> CASE r = 1 -> Document(2, <<1, 0>>, 1)
                     [] r = 2 -> Document(-2, <<3, 1>>, 1)
                     [] r = 3 -> Document(2, Null, 2)
                     [] OTHER -> Null],
   [r \in Rows |-> CASE r = 1 -> Document(3, <<1, 1>>, 2)
                     [] r = 2 -> Document(3, <<0, 0>>, 1)
                     [] r = 3 -> Document(Null, <<0, 2>>, 2)
                     [] r = 4 -> Document(1, <<3, 1>>, 0)],
   [r \in Rows |-> CASE r = 1 -> Document(-4, <<0, 0>>, 0)
                     [] r = 2 -> Document(0, <<0, 2>>, 0)
                     [] OTHER -> Null]}

NewDocuments == {Document(1, <<3, 1>>, 1), Document(-1, Null, 2)}

Columns == [k \in {"id", "embedding", "body", "score"} |->
              CASE k = "id" -> "int8" [] k = "embedding" -> "brindle_vector"
                [] k = "body" -> "tsvector" [] OTHER -> "float8"]

Ask(query, blank, k, n, rrf_k) ==
  [relation |-> "documents", id |-> "id", vector |-> "embedding", text |-> "body",
   query |-> query, blank |-> blank, k |-> k, n |-> n, rrf_k |-> rrf_k]

Plain == Ask(<<1, 0>>, FALSE, 10, Null, 60)

SomeCalls ==
  {Plain, Ask(<<1, 0>>, FALSE, 2, Null, 0), Ask(<<1, 0>>, FALSE, 1, 2, 60),
   Ask(<<0, 1>>, FALSE, I32_MAX, Null, 1000), Ask(<<1, 0>>, TRUE, 10, 3, 60),
   Ask(<<1, 0>>, FALSE, 0, Null, 60), Ask(<<1, 0>>, FALSE, 10, 0, 60),
   Ask(<<1>>, FALSE, 10, Null, 60), Ask(Null, FALSE, 10, Null, 60),
   Ask(<<1, 0>>, FALSE, 10, Null, -1),
   [Plain EXCEPT !.relation = "elsewhere"], [Plain EXCEPT !.id = "score"],
   [Plain EXCEPT !.vector = "none"], [Plain EXCEPT !.text = "score"]}

\* gamma in quarters: none; on the ceiling of the degree twice; past it; a low ef.
SomeLists ==
  {<<>>, [k \in {"m", "gamma"} |-> IF k = "m" THEN 128 ELSE 32],
   [k \in {"m", "gamma", "ef"} |-> CASE k = "m" -> 2 [] k = "gamma" -> 2048 [] OTHER -> 4],
   [k \in {"m", "gamma"} |-> IF k = "m" THEN 127 ELSE 33]}
=============================================================================
