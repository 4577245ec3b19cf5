---------------------------- MODULE LayerSearch ----------------------------
(***************************************************************************)
(* The HNSW graph as a value, and the beam search of one of its layers     *)
(* (src/hnsw.rs): what building the graph and searching it share.          *)
(*                                                                         *)
(* Ids count from 1.  A vector is a point, known by its distances.  Which  *)
(* nodes a predicate matches is any set of ids.  A candidate is its id:    *)
(* under one query the distance follows.                                   *)
(***************************************************************************)
EXTENDS Integers, FiniteSets, SequencesExt

CONSTANTS
  Points,      \* vectors
  Distance,    \* per pair of points: an inner product is no metric
  Undefined,   \* f32::NAN, the cosine distance of a zero vector
  M,           \* HnswParams.m
  Unfiltered   \* no predicate, or Predicate::All

Distances == Int \cup {Undefined}

ASSUME DistanceAssumption ==
  Undefined \notin Int /\ Distance \in [Points \X Points -> Distances]
ASSUME DegreeAssumption == M \in Nat /\ M >= 2

-----------------------------------------------------------------------------
(* A graph: per node its vector and, per layer, its neighbours; tombstones; *)
(* the entry point, 0 if there is none; the top layer.  Layers count from 0 *)
(* and are stored from 1.                                                   *)

Size(g) == Len(g.at)
Ids(g) == 1 .. Size(g)

LayersOf(g, id) == 0 .. Len(g.links[id]) - 1

Neighbors(g, id, layer) ==
  IF layer \in LayersOf(g, id) THEN g.links[id][layer + 1] ELSE <<>>

\* How far a node is from a point.
Away(g, p, id) == Distance[<<p, g.at[id]>>]

\* The < of f32: nothing is less than a NaN, nor a NaN than anything.
Less(x, y) == Undefined \notin {x, y} /\ x < y

\* f32::total_cmp: a NaN comes after every number.
Precedes(x, y) == x # Undefined /\ (y = Undefined \/ x < y)

\* The order of candidates: by distance to a point, then by id.
Nearer(g, p, a, b) ==
  \/ Precedes(Away(g, p, a), Away(g, p, b))
  \/ Away(g, p, a) = Away(g, p, b) /\ a < b

Nearest(g, p, S) == CHOOSE a \in S : \A b \in S \ {a} : Nearer(g, p, a, b)
Farthest(g, p, S) == CHOOSE a \in S : \A b \in S \ {a} : Nearer(g, p, b, a)

Ranked(g, p, S) ==
  [k \in 1 .. Cardinality(S) |->
     CHOOSE a \in S : Cardinality({b \in S : Nearer(g, p, b, a)}) = k - 1]

Take(s, n) == SubSeq(s, 1, IF n < Len(s) THEN n ELSE Len(s))

\* FoldLeft, with each step's value computed once.
InTurn(Op(_, _), b, s) ==
  LET Through(q) ==
        LET after[k \in 0 .. Len(q)] ==
              IF k = 0 THEN b ELSE CHOOSE r \in {Op(c, q[k]) : c \in {after[k - 1]}} : TRUE
        IN after[Len(q)]
  IN CHOOSE r \in {Through(q) : q \in {s}} : TRUE

\* The elements of s that are in S, in their order.
Select(s, S) == InTurn(LAMBDA r, x : IF x \in S THEN Append(r, x) ELSE r, <<>>, s)

-----------------------------------------------------------------------------
(* A search t of one layer: its graph, query, filter, ef and layer.         *)

Search(g, q, f, ef, layer) == [g |-> g, query |-> q, filter |-> f, ef |-> ef, layer |-> layer]

Filtered(t) == t.filter # Unfiltered
Matches(t, id) == Filtered(t) => id \in t.filter
Matching(t) == {id \in Ids(t.g) : Matches(t, id)}
Admissible(t, id) == id \notin t.g.dead /\ Matches(t, id)

Full(t, b) == Cardinality(b.results) >= t.ef

\* How far the farthest result is.
Reach(t, b) == Away(t.g, t.query, Farthest(t.g, t.query, b.results))

\* Less far than the farthest result, or than nothing at all.  No node is less far than a
\* zero vector, although in the order of candidates every other comes before it.
Improves(t, b, id) == b.results # {} => Less(Away(t.g, t.query, id), Reach(t, b))

\* Variant of Push: a full beam keeps what it has.
PushFirst(t, b, id) ==
  [b EXCEPT !.frontier = @ \cup {id},
            !.results = IF Admissible(t, id) /\ ~Full(t, b) THEN @ \cup {id} ELSE @]

\* Variant of Push: it admits tombstones.
PushDead(t, b, id) ==
  LET kept == b.results \cup (IF Matches(t, id) THEN {id} ELSE {}) IN
  [b EXCEPT !.frontier = @ \cup {id},
            !.results = IF Cardinality(kept) > t.ef
                        THEN kept \ {Farthest(t.g, t.query, kept)} ELSE kept]

\* Beam::push.
Push(t, b, id) ==
  LET kept == b.results \cup (IF Admissible(t, id) THEN {id} ELSE {}) IN
  [b EXCEPT !.frontier = @ \cup {id},
            !.results = IF Cardinality(kept) > t.ef
                        THEN kept \ {Farthest(t.g, t.query, kept)} ELSE kept]

\* Variant of Visit: it does not remember the node.
VisitForgetful(t, b, id) ==
  IF id \in b.visited THEN b
  ELSE IF ~Full(t, b) \/ Improves(t, b, id) THEN Push(t, b, id) ELSE b

Noted(b, id) == [b EXCEPT !.visited = @ \cup {id}]

Visit(t, b, id) ==
  IF id \in b.visited THEN b
  ELSE IF ~Full(t, b) \/ Improves(t, b, id) THEN Push(t, Noted(b, id), id) ELSE Noted(b, id)

VisitAll(t, b, ids) == InTurn(LAMBDA c, id : Visit(t, c, id), b, ids)

\* Variant of Detour: no stop when the allowance is spent.
DetourUnchecked(t, b, id) ==
  LET after == Visit(t, b, id) IN
  IF after.frontier # b.frontier THEN [after EXCEPT !.detours = @ - 1] ELSE after

\* A detour is charged for every node it queues.
Detour(t, b, id) ==
  LET after == Visit(t, b, id) IN
  IF b.detours = 0 THEN b
  ELSE IF after.frontier # b.frontier THEN [after EXCEPT !.detours = @ - 1]
  ELSE after

BridgeOut(t, b, id) ==
  InTurn(LAMBDA c, n : Detour(t, c, n), b, Neighbors(t.g, id, t.layer))

\* The matching nodes past the bridges.
Beyond(t, bridges) ==
  InTurn(LAMBDA ids, n : ids \o Select(Neighbors(t.g, n, t.layer), Matching(t)), <<>>, bridges)

\* The matching nodes that an expansion of id looks at: neighbours, then two hops
\* away over at most M bridges, until there are M.  Seen before or not, they count.
WithinTwoHops(t, id) ==
  LET near == Neighbors(t.g, id, t.layer)
      matching == Select(near, Matching(t))
      bridges == Take(Select(near, Ids(t.g) \ Matching(t)), M)
  IN matching \o Take(Beyond(t, bridges), M - Len(matching))

Stranded(t, id) == Filtered(t) /\ WithinTwoHops(t, id) = <<>>

Expand(t, b, id) ==
  IF ~Filtered(t) THEN VisitAll(t, b, Neighbors(t.g, id, t.layer))
  ELSE IF Stranded(t, id) THEN BridgeOut(t, b, id)
  ELSE VisitAll(t, b, WithinTwoHops(t, id))

\* Seeds route whatever they are.
Seed(t, b, id) ==
  IF id \in b.visited THEN b ELSE Push(t, Noted(b, id), id)

Fresh(detours, expansions) ==
  [visited |-> {}, frontier |-> {}, results |-> {}, deferred |-> {},
   detours |-> detours, expansions |-> expansions]

Start(t, seeds, detours, expansions) ==
  InTurn(LAMBDA b, id : Seed(t, b, id), Fresh(detours, expansions), seeds)

Upcoming(t, b) == Nearest(t.g, t.query, b.frontier)

\* The next node is past the results, which are no cutoff for a filtered search that has
\* room for more.
CutOff(t, b) ==
  /\ b.results # {}
  /\ Filtered(t) => Full(t, b)
  /\ Less(Reach(t, b), Away(t.g, t.query, Upcoming(t, b)))

GoesOn(t, b) ==
  /\ b.frontier # {} /\ ~CutOff(t, b)
  /\ Filtered(t) => b.expansions > 0

Pop(t, b) == [b EXCEPT !.frontier = IF @ = {} THEN {} ELSE @ \ {Upcoming(t, b)}]

\* One turn of the walk.
Turn(t, b) ==
  LET c == Upcoming(t, b)
      paid == [Pop(t, b) EXCEPT !.expansions = IF Filtered(t) THEN @ - 1 ELSE @]
      after == Expand(t, paid, c)
  IN IF Filtered(t) /\ ~Stranded(t, c) THEN [after EXCEPT !.deferred = @ \cup {c}] ELSE after

\* Variant of Rescues: any result will do.
RescuesEmpty(t, b) ==
  /\ t.layer = 0 /\ Filtered(t) /\ b.results = {}
  /\ b.detours > 0 /\ b.deferred # {}

\* The walk ended short: layer 0 goes back to what never bridged out.
Rescues(t, b) ==
  /\ t.layer = 0 /\ Filtered(t) /\ ~Full(t, b)
  /\ b.detours > 0 /\ b.deferred # {}

Rescue(t, b) ==
  InTurn(LAMBDA c, id : BridgeOut(t, c, id), [b EXCEPT !.deferred = {}],
           Ranked(t.g, t.query, b.deferred))

\* search_layer without a filter, from start to end: no walk is longer than the graph.
SearchLayer(t, seeds) ==
  LET walk[k \in 0 .. Size(t.g)] ==
        IF k = 0 THEN Start(t, seeds, 0, 0)
        ELSE LET b == walk[k - 1] IN IF GoesOn(t, b) THEN Turn(t, b) ELSE b
  IN Ranked(t.g, t.query, walk[Size(t.g)].results)
=============================================================================
