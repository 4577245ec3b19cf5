----------------------------- MODULE GraphScan -----------------------------
(***************************************************************************)
(* An index scan over a graph: search_inner, layer by layer and node by    *)
(* node, and the scan that hands out what it found (src/hnsw.rs,           *)
(* src/index_am/scan.rs).                                                  *)
(*                                                                         *)
(* The graph under a search does not change: the scan holds a shared copy. *)
(***************************************************************************)
EXTENDS HnswGraph, Predicate

CONSTANTS
  Builds,             \* rows inserted, in order, and their levels
  Burials,            \* sets of ids that VACUUM has tombstoned since
  Unrankable,         \* the side table: rows without a vector, known by further ids
  Attributes,         \* attribute row of each node and each row of the side table
  Queries,            \* query vectors
  WhereClauses,       \* sets of scan keys
  Budgets,            \* settings of brindle.ef_search
  DETOURS_PER_EF,
  EXPANSIONS_PER_EF

ASSUME ScanAssumption ==
  /\ Builds \subseteq Seq([at : Points, level : Nat])
  /\ Unrankable \in Seq(Nodes) /\ Attributes \in Seq(AttrRows)
  /\ \A build \in Builds : DOMAIN build \cup ToSet(Unrankable) \subseteq DOMAIN Attributes
  /\ \A matching \in SUBSET DOMAIN Attributes : matching # Unfiltered
  /\ Queries \subseteq Points /\ Queries # {}
  /\ {} \in WhereClauses /\ WhereClauses \subseteq SUBSET ScanKeys
  /\ Budgets \subseteq Nat \ {0}
  /\ {DETOURS_PER_EF, EXPANSIONS_PER_EF} \subseteq Nat

VARIABLES scan, held

\* query, keys, ef: the request; filter, recheck: what the keys became.  nav: navigation's
\* entry points.  seeds: the foothold that the probes found.  beam: the layer search
\* under way.  cost: nodes queued as detours, and nodes expanded under a filter.  out: the
\* results, handed out up to cursor.  held: what outlives an error.  opaque is the pointer
\* to the ScanSearch in the ScanState of the descriptor, boxes counts the ScanSearches on
\* the heap.
vars == <<graph, scan, held>>

Searching == {"navigate", "probe", "bottom"}

\* The descriptor is there and nothing has failed.
Open == {"idle", "ranked", "unordered"} \cup Searching

Beams == [visited : SUBSET Nodes, frontier : SUBSET Nodes, results : SUBSET Nodes,
          deferred : SUBSET Nodes, detours : Nat, expansions : Nat]

ScanTypeOK ==
  /\ scan.step \in Open \cup {"ended", "failed", "closed"}
  /\ held.opaque \in {"null", "box"} /\ held.boxes \in Nat
  /\ scan.layer \in 0 .. graph.top
  /\ scan.query \in Points /\ scan.ef \in Nat \ {0}
  /\ scan.keys \in WhereClauses /\ scan.recheck \in BOOLEAN
  /\ scan.filter = Unfiltered \/ scan.filter \subseteq DOMAIN Attributes
  /\ {scan.nav, scan.seeds} \subseteq Seq(Ids(graph))
  /\ scan.beam \in Beams /\ scan.beam.visited \subseteq Ids(graph)
  /\ scan.cost \in [detours : Nat, expansions : Nat]
  /\ scan.cursor \in 0 .. Len(scan.out)

\* The layer search under way.
Task == IF scan.step = "navigate" THEN Search(graph, scan.query, Unfiltered, 1, scan.layer)
        ELSE IF scan.step = "probe" THEN Search(graph, scan.query, scan.filter, 1, scan.layer)
        ELSE Search(graph, scan.query, scan.filter, scan.ef, 0)

NoBeam == Fresh(0, 0)

\* The ids that the pushed predicate matches.
Filter(keys) ==
  LET atoms == PushedAtoms(keys) IN
  IF atoms = {} THEN Unfiltered
  ELSE {id \in DOMAIN Attributes : PredicateMatches(atoms, Attributes[id])}

Idle(q, keys, ef) ==
  [step |-> "idle", layer |-> 0, query |-> q, ef |-> ef,
   keys |-> keys, filter |-> Filter(keys), recheck |-> Recheck(keys), nav |-> <<>>,
   seeds |-> <<>>, beam |-> NoBeam, cost |-> [detours |-> 0, expansions |-> 0],
   out |-> <<>>, cursor |-> 0]

Blank(step) == [Idle(CHOOSE q \in Queries : TRUE, {}, 1) EXCEPT !.step = step]

ScanInit ==
  /\ \E build \in Builds, buried \in Burials :
       /\ buried \subseteq DOMAIN build
       /\ graph = [Built(Empty, build) EXCEPT !.dead = buried]
  /\ scan = Blank("closed")
  /\ held = [opaque |-> "null", boxes |-> 0]

-----------------------------------------------------------------------------
(* amrescan.                                                               *)

\* A layer begins; b carries the allowances down from the layer before.
Navigate(s, layer, b) ==
  [s EXCEPT !.step = "navigate", !.layer = layer,
            !.beam = Start(Search(graph, s.query, Unfiltered, 1, layer), s.nav,
                           b.detours, b.expansions)]

\* Variant of Probe: it starts from navigation's node alone.
ProbeFromNavigation(s, b) ==
  [s EXCEPT !.step = "probe",
            !.beam = Start(Search(graph, s.query, s.filter, 1, s.layer), s.nav,
                           b.detours, b.expansions)]

Probe(s, b) ==
  [s EXCEPT !.step = "probe",
            !.beam = Start(Search(graph, s.query, s.filter, 1, s.layer), s.nav \o s.seeds,
                           b.detours, b.expansions)]

\* Layer 0 has a detour allowance of its own.
Bottom(s, b) ==
  [s EXCEPT !.step = "bottom", !.layer = 0,
            !.beam = Start(Search(graph, s.query, s.filter, s.ef, 0), s.nav \o s.seeds,
                           IF s.filter = Unfiltered THEN 0 ELSE DETOURS_PER_EF * s.ef,
                           b.expansions)]

\* Variant of Below: every layer has allowances of its own.
BelowRefilled(s, b) ==
  IF s.layer > 1
  THEN Navigate(s, s.layer - 1, [b EXCEPT !.detours = DETOURS_PER_EF * s.ef,
                                          !.expansions = EXPANSIONS_PER_EF * s.ef])
  ELSE Bottom(s, [b EXCEPT !.expansions = EXPANSIONS_PER_EF * s.ef])

Below(s, b) == IF s.layer > 1 THEN Navigate(s, s.layer - 1, b) ELSE Bottom(s, b)

\* One call runs a search from start to end.
Resting == scan.step \notin Searching

\* The executor may start an open scan over whenever it likes, with rows left to return
\* or not: the inner side of a nested loop, with other keys each time.
MayRescan == scan.step \in Open /\ Resting

\* A ranked scan.  An empty graph has no results.
Rescan(q, keys, ef) ==
  LET idle == Idle(q, keys, ef)
      s == [idle EXCEPT !.nav = <<graph.entry>>]
      full == IF s.filter = Unfiltered THEN NoBeam
              ELSE [NoBeam EXCEPT !.detours = DETOURS_PER_EF * ef,
                                  !.expansions = EXPANSIONS_PER_EF * ef] IN
  /\ MayRescan
  /\ scan' = IF graph.entry = 0 THEN [idle EXCEPT !.step = "ranked"]
             ELSE IF graph.top > 0 THEN Navigate(s, graph.top, full)
             ELSE Bottom(s, full)
  /\ UNCHANGED <<graph, held>>

\* No distance clause: every match, in the order of the graph and then the side table.
RescanUnordered(keys) ==
  LET t == Search(graph, scan.query, Filter(keys), 1, 0) IN
  /\ MayRescan
  /\ scan' = [Idle(scan.query, keys, scan.ef) EXCEPT
       !.step = "unordered",
       !.out = Select([k \in Ids(graph) |-> k], {id \in Ids(graph) : Admissible(t, id)})
               \o Select(Unrankable, {row \in ToSet(Unrankable) : Matches(t, row)})]
  /\ UNCHANGED <<graph, held>>

\* Nothing ranks against a NULL query vector.
RescanNull(keys) ==
  /\ MayRescan
  /\ scan' = [Idle(scan.query, keys, scan.ef) EXCEPT !.step = "ranked"]
  /\ UNCHANGED <<graph, held>>

-----------------------------------------------------------------------------
(* search_inner, one turn of a walk at a time.                             *)

WalkOn ==
  /\ ~Resting /\ GoesOn(Task, scan.beam)
  /\ LET b == scan.beam  after == Turn(Task, b)  c == Upcoming(Task, b) IN
     scan' = IF Filtered(Task)
             THEN [scan EXCEPT !.beam = after,
                    !.cost.expansions = @ + 1,
                    !.cost.detours = @ + IF Stranded(Task, c)
                                         THEN Cardinality(after.frontier \ b.frontier) ELSE 0]
             ELSE [scan EXCEPT !.beam = after]
  /\ UNCHANGED <<graph, held>>

\* The walk is over, and a rescue, if one is due, has been tried.
Rescued == IF Rescues(Task, scan.beam) THEN Rescue(Task, Pop(Task, scan.beam))
           ELSE Pop(Task, scan.beam)

Progressed == Rescued.frontier # Pop(Task, scan.beam).frontier

WalkAgain ==
  /\ ~Resting /\ ~GoesOn(Task, scan.beam) /\ Progressed
  /\ scan' = [scan EXCEPT !.beam = Rescued,
       !.cost.detours = @ + Cardinality(Rescued.frontier \ Pop(Task, scan.beam).frontier)]
  /\ UNCHANGED <<graph, held>>

WalkEnds(step) ==
  /\ scan.step = step
  /\ ~GoesOn(Task, scan.beam) /\ ~Progressed

Found == Ranked(graph, scan.query, scan.beam.results)

EndNavigate ==
  /\ WalkEnds("navigate")
  /\ LET s == [scan EXCEPT !.nav = IF Found = <<>> THEN @ ELSE <<Found[1]>>] IN
     scan' = IF s.filter = Unfiltered THEN Below(s, s.beam) ELSE Probe(s, s.beam)
  /\ UNCHANGED <<graph, held>>

EndProbe ==
  /\ WalkEnds("probe")
  /\ scan' = Below([scan EXCEPT !.seeds = Found], scan.beam)
  /\ UNCHANGED <<graph, held>>

EndBottom ==
  /\ WalkEnds("bottom")
  /\ scan' = [scan EXCEPT !.step = "ranked", !.out = Found, !.beam = NoBeam]
  /\ UNCHANGED <<graph, held>>

-----------------------------------------------------------------------------
GetTuple ==
  /\ Resting /\ scan.cursor < Len(scan.out)
  /\ scan' = [scan EXCEPT !.cursor = @ + 1]
  /\ UNCHANGED <<graph, held>>

-----------------------------------------------------------------------------
(* The search state, on a heap that no memory context reclaims.            *)

\* Variant of FreeScanState: the pointer is left as it is.
FreeScanStateDangling == held' = [held EXCEPT !.boxes = IF held.opaque = "null" THEN @ ELSE @ - 1]

FreeScanState ==
  held' = IF held.opaque = "null" THEN held
          ELSE [opaque |-> "null", boxes |-> held.boxes - 1]

BeginScan ==
  /\ scan.step = "closed"
  /\ scan' = Blank("idle")
  /\ held' = [opaque |-> "box", boxes |-> held.boxes + 1]
  /\ UNCHANGED graph

\* amendscan; the ScanState and its reset callback stay until the context goes.
EndScan ==
  /\ scan.step \in Open /\ Resting
  /\ scan' = Blank("ended") /\ FreeScanState
  /\ UNCHANGED graph

\* An error of this scan (an index-only scan, a query of another dimension, an image that
\* cannot be read) or of the query around it unwinds past amendscan.
Fails ==
  /\ scan.step \in Open /\ Resting
  /\ scan' = Blank("failed")
  /\ UNCHANGED <<graph, held>>

\* The memory context of the descriptor is reset, which runs the callback.
ResetContext ==
  /\ scan.step \in {"ended", "failed"}
  /\ scan' = Blank("closed") /\ FreeScanState
  /\ UNCHANGED graph

-----------------------------------------------------------------------------
SearchStep == WalkOn \/ WalkAgain \/ EndNavigate \/ EndProbe \/ EndBottom

ScanNext == \/ \E q \in Queries, keys \in WhereClauses, ef \in Budgets : Rescan(q, keys, ef)
            \/ \E keys \in WhereClauses : RescanUnordered(keys) \/ RescanNull(keys)
            \/ SearchStep \/ GetTuple
            \/ BeginScan \/ EndScan \/ Fails \/ ResetContext

\* A backend that searches keeps running.
ScanSpec == ScanInit /\ [][ScanNext]_vars /\ WF_vars(SearchStep)

-----------------------------------------------------------------------------
(* Properties.                                                             *)

Far(id) == Away(graph, scan.query, id)

\* The admissible nodes that a walk has seen.
SeenByWalk == {id \in scan.beam.visited : Admissible(Task, id)}

\* None of them is nearer than a result, unless it is one.
NoneNearer ==
  \A r \in scan.beam.results, id \in SeenByWalk \ scan.beam.results :
    ~Precedes(Far(id), Far(r))

\* The results of a walk are the nearest of the admissible nodes it has seen, as many as
\* its beam holds (visit, push): what is far is dropped for something nearer only.  A
\* result whose distance is a NaN keeps nearer nodes out of a full beam, so that the last
\* part holds as long as there is none.
ResultsAreNearestSeen ==
  ~Resting =>
    /\ scan.beam.results \subseteq SeenByWalk
    /\ Cardinality(scan.beam.results) =
         IF Cardinality(SeenByWalk) < Task.ef THEN Cardinality(SeenByWalk) ELSE Task.ef
    /\ (\A r \in scan.beam.results : Far(r) # Undefined) => NoneNearer

\* The nodes that edges of layer 0 lead to from the walk's own.
Connected ==
  LET Grow(S, k) == S \cup UNION {ToSet(Neighbors(graph, id, 0)) : id \in S}
  IN InTurn(Grow, scan.beam.visited, [k \in Ids(graph) |-> k])

\* A filtered search that returns fewer rows than it may has either spent an allowance or
\* found every match there is a way to (the rescue at the end of search_layer).
EndsShortOnlyWhenSpent ==
  (WalkEnds("bottom") /\ Filtered(Task) /\ ~Full(Task, scan.beam)) =>
    \/ scan.beam.detours = 0 \/ scan.beam.expansions = 0
    \/ {id \in Connected : Admissible(Task, id)} \subseteq scan.beam.results

\* Over all its layers a filtered search expands no more nodes than its one allowance, and
\* queues no more detours than two: one for the descent, one for layer 0 (Traversal).
WithinAllowances ==
  /\ scan.cost.expansions <= EXPANSIONS_PER_EF * scan.ef
  /\ scan.cost.detours <= 2 * DETOURS_PER_EF * scan.ef

\* A ranked scan hands out live rows that match, each once, in the order of their
\* distance, and no more than its budget (amcanorderbyop: the executor does not sort).
RowsInOrder ==
  scan.step = "ranked" =>
    /\ Len(scan.out) <= scan.ef
    /\ \A k \in DOMAIN scan.out :
         /\ scan.out[k] \in Live(graph)
         /\ scan.filter # Unfiltered => scan.out[k] \in scan.filter
         /\ \A j \in 1 .. k - 1 : Nearer(graph, scan.query, scan.out[j], scan.out[k])

\* The executor tests the rows of a scan again only when told to (xs_recheck).
Returned == {row \in ToSet(scan.out) :
               scan.recheck => Wanted(scan.keys, Attributes[row])}

\* A scan returns only rows that its WHERE clause holds for, and one that ranks nothing
\* returns every such row, as a sequential scan would: rows with a NULL or a NaN among
\* their attributes, rows without a vector, and tombstones included (predicate_from_keys,
\* start_unordered).
ScanAnswersTheQuery ==
  /\ \A row \in Returned : Wanted(scan.keys, Attributes[row])
  /\ scan.step = "unordered" =>
       Returned = {row \in Live(graph) \cup ToSet(Unrankable) :
                     Wanted(scan.keys, Attributes[row])}

\* A foothold in the matching region, once found on the way down, is kept to the bottom:
\* such a search never comes back empty (search_inner).
FootholdKept ==
  [][(scan.seeds # <<>> /\ ~Resting) =>
       IF scan'.step = "ranked" THEN scan'.out # <<>> ELSE scan'.seeds # <<>>]_vars

\* The search state is there for as long as the scan may be called and is dropped exactly
\* once, by amendscan or by the reset callback, whichever runs first (ScanState).
DroppedOnce ==
  /\ held.boxes = IF scan.step \in Open \cup {"failed"} THEN 1 ELSE 0
  /\ held.opaque = IF held.boxes = 1 THEN "box" ELSE "null"

\* Every search ends.
SearchEnds == ~Resting ~> Resting
=============================================================================
