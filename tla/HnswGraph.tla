----------------------------- MODULE HnswGraph -----------------------------
(***************************************************************************)
(* Building the graph: insert, tombstones, compaction (src/hnsw.rs).       *)
(*                                                                         *)
(* One backend works on its own copy of a graph, so each operation is one  *)
(* step.  The level of a node is drawn at random.  The flat arrays of the  *)
(* code are sequences here: what its slots rely on is the degree cap.      *)
(***************************************************************************)
EXTENDS LayerSearch, HnswParams

CONSTANTS
  Gamma,           \* HnswParams.gamma, whole
  EfConstruction,  \* HnswParams.ef_construction
  Levels,          \* levels that a node may draw
  MaxNodes,        \* nodes of a graph
  MaxDead,         \* tombstones at a time
  MaxCompacted     \* nodes of a graph that is compacted

ASSUME GraphAssumption ==
  /\ Gamma \in Nat \ {0}
  /\ {EfConstruction, MaxNodes, MaxDead, MaxCompacted} \subseteq Nat
  /\ Levels \subseteq Nat

VARIABLE graph

Header == NewHeader([m |-> M, gamma |-> 4 * Gamma, ef |-> EfConstruction, metric |-> "Cosine"])

MaxDegree(layer) ==
  IF layer = 0 THEN M0Cap(Header.m, Header.gamma) ELSE MCap(Header.m, Header.gamma)

Empty == [at |-> <<>>, links |-> <<>>, dead |-> {}, entry |-> 0, top |-> 0]

Nodes == Nat \ {0}

Graphs == [at : Seq(Points), links : Seq(Seq(Seq(Nodes))), dead : SUBSET Nodes,
           entry : Nat, top : Nat]

Live(g) == Ids(g) \ g.dead

TypeOK ==
  /\ graph \in Graphs
  /\ Len(graph.links) = Size(graph)
  /\ graph.dead \subseteq Ids(graph)
  /\ graph.entry \in Ids(graph) \cup {0}

-----------------------------------------------------------------------------
(* Neighbour selection.                                                    *)

\* Candidates no less far from every one chosen before than from the base, nearest first.
Diverse(g, p, cands, m) ==
  LET Choose(chosen, c) ==
        IF /\ Len(chosen) < m
           /\ \A k \in DOMAIN chosen : ~Less(Away(g, g.at[c], chosen[k]), Away(g, p, c))
        THEN Append(chosen, c) ELSE chosen
  IN InTurn(Choose, <<>>, Ranked(g, p, cands))

\* Variant of SelectNeighbors: no backfill.
SelectDiverseOnly(g, p, cands, m) == Diverse(g, p, cands, m)

\* The diverse ones, then the nearest of the rest, up to m.
SelectNeighbors(g, p, cands, m) ==
  LET chosen == Diverse(g, p, cands, m)
  IN chosen \o Take(Ranked(g, p, cands \ ToSet(chosen)), m - Len(chosen))

SetNeighbors(g, id, layer, ids) == [g EXCEPT !.links[id][layer + 1] = ids]

\* Variant of BackLink: a list one over the cap is left alone.
BackLinkUnpruned(g, n, layer, id) ==
  LET appended == Append(Neighbors(g, n, layer), id) IN
  SetNeighbors(g, n, layer,
    IF Len(appended) <= MaxDegree(layer) + 1 THEN appended
    ELSE SelectNeighbors(g, g.at[n], ToSet(appended), MaxDegree(layer)))

\* The other side of an edge, pruned when it is one over the cap.
BackLink(g, n, layer, id) ==
  LET appended == Append(Neighbors(g, n, layer), id) IN
  SetNeighbors(g, n, layer,
    IF Len(appended) <= MaxDegree(layer) THEN appended
    ELSE SelectNeighbors(g, g.at[n], ToSet(appended), MaxDegree(layer)))

BackLinks(g, ids, layer, id) == InTurn(LAMBDA h, n : BackLink(h, n, layer, id), g, ids)

-----------------------------------------------------------------------------
(* insert_with_attrs.                                                      *)

PushNode(g, p, level) ==
  [g EXCEPT !.at = Append(@, p), !.links = Append(@, [k \in 1 .. level + 1 |-> <<>>])]

\* One layer on the way down above the new node's: one entry point for the next.
Descend(g, p, layer, seeds) ==
  LET found == SearchLayer(Search(g, p, Unfiltered, 1, layer), seeds)
  IN  IF found = <<>> THEN seeds ELSE <<found[1]>>

\* Layers, from the top down.
Down(from, to) == [k \in 1 .. from + 1 - to |-> from - k + 1]

\* One layer on the way down at or below it: edges both ways, and what was found seeds
\* the next.  s carries the graph and the seeds.
Connect(id, s, layer) ==
  LET g == s.g  p == g.at[id]
      found == SearchLayer(Search(g, p, Unfiltered, Header.ef, layer), s.seeds)
      chosen == SelectNeighbors(g, p, ToSet(found), MaxDegree(layer))
  IN [g |-> BackLinks(SetNeighbors(g, id, layer, chosen), chosen, layer, id),
      seeds |-> IF found = <<>> THEN <<g.entry>> ELSE found]

\* The way down to the layers of a node, and through them.
DescendTo(g, p, level) ==
  InTurn(LAMBDA s, layer : Descend(g, p, layer, s), <<g.entry>>, Down(g.top, level + 1))

ConnectDown(id, s, level) ==
  InTurn(LAMBDA r, layer : Connect(id, r, layer), s, Down(level, 0))

Raise(g, id, level) ==
  IF level > g.top THEN [g EXCEPT !.top = level, !.entry = id] ELSE g

\* Variant of InsertNode: edges on every layer of the new node, above the others' too.
InsertNodeUnclamped(g, p, level) ==
  LET id == Size(g) + 1
      pushed == PushNode(g, p, level)
      connected == ConnectDown(id, [g |-> pushed, seeds |-> DescendTo(pushed, p, level)], level)
  IN IF g.entry = 0 THEN [pushed EXCEPT !.entry = id, !.top = level]
     ELSE Raise(connected.g, id, level)

InsertNode(g, p, level) ==
  LET id == Size(g) + 1
      pushed == PushNode(g, p, level)
      connected == ConnectDown(id, [g |-> pushed, seeds |-> DescendTo(pushed, p, level)],
                               IF level < g.top THEN level ELSE g.top)
  IN IF g.entry = 0 THEN [pushed EXCEPT !.entry = id, !.top = level]
     ELSE Raise(connected.g, id, level)

\* Rows inserted in their order.
Built(g, rows) == InTurn(LAMBDA h, row : InsertNode(h, row.at, row.level), g, rows)

Insert(p, level) ==
  /\ Size(graph) < MaxNodes
  /\ graph' = InsertNode(graph, p, level)

-----------------------------------------------------------------------------
\* delete, as ambulkdelete calls it.  A tombstone may be set again.
Delete(id) ==
  /\ id \in graph.dead \/ Cardinality(graph.dead) < MaxDead
  /\ graph' = [graph EXCEPT !.dead = @ \cup {id}]

\* The live rows in order, each with a level drawn again.
LiveRows(levels) ==
  LET live == Select([k \in Ids(graph) |-> k], Live(graph))
  IN [k \in DOMAIN live |-> [at |-> graph.at[live[k]], level |-> levels[k]]]

\* Variant of Compact: the tombstones stay.
CompactKeepsTombstones(levels) ==
  /\ Size(graph) <= MaxCompacted
  /\ graph' = Built([Empty EXCEPT !.dead = graph.dead], LiveRows(levels))

\* compact: the live nodes, into an empty graph.
Compact(levels) ==
  /\ Size(graph) <= MaxCompacted
  /\ graph' = Built(Empty, LiveRows(levels))

Init == graph = Empty

Next == \/ \E p \in Points, level \in Levels : Insert(p, level)
        \/ \E id \in Ids(graph) : Delete(id)
        \/ \E levels \in [1 .. Cardinality(Live(graph)) -> Levels] : Compact(levels)

Spec == Init /\ [][Next]_graph

-----------------------------------------------------------------------------
(* Properties.                                                             *)

\* A neighbour has the layer it is a neighbour on: push_neighbor would write into
\* another node's slots if not.  No node is its own neighbour or a neighbour twice.
NeighborsShareTheLayer ==
  \A id \in Ids(graph) : \A layer \in LayersOf(graph, id) :
    LET ns == Neighbors(graph, id, layer) IN
    /\ \A k \in DOMAIN ns : ns[k] # id /\ layer \in LayersOf(graph, ns[k])
    /\ Cardinality(ToSet(ns)) = Len(ns)

\* Edges are bidirectional at insertion but a later prune may drop one side (the head of
\* hnsw.rs): only a prune may, so the node that lacks the edge back has a full list.
OneSidedOnlyWhenFull ==
  \A id \in Ids(graph) : \A layer \in LayersOf(graph, id) :
    \A n \in ToSet(Neighbors(graph, id, layer)) :
      \/ id \in ToSet(Neighbors(graph, n, layer))
      \/ Len(Neighbors(graph, n, layer)) = MaxDegree(layer)

\* What a search can come to from the entry point: down the layers and along edges.
Reached(g) ==
  LET Step(S) == S \cup UNION {ToSet(Neighbors(g, id, layer)) :
                                 id \in S, layer \in 0 .. g.top}
  IN InTurn(LAMBDA S, k : Step(S), {g.entry}, [k \in Ids(g) |-> k])

\* Every live row can be found: an inserted row is indexed, alongside the tombstones.
LiveNodesReachable == Live(graph) \subseteq Reached(graph)
=============================================================================
