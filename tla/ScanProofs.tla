----------------------------- MODULE ScanProofs -----------------------------
(***************************************************************************)
(* Scans: pushing a WHERE clause into one changes no answer, its search    *)
(* state is freed exactly once, and its walks, its rows and what they cost *)
(* are as GraphScan promises, for any graph that inserts have built.       *)
(***************************************************************************)
EXTENDS GraphScan, GraphProofs

-----------------------------------------------------------------------------
(* Pushing a WHERE clause into the index changes no answer.                *)

\* num_cmp orders values of one family as SQL does, NaN included.
LEMMA BeforeIsSqlLess ==
  ASSUME NEW a \in AttrValues, NEW b \in AttrValues, a.family = b.family,
         a.family = "Int" => a.number \in Int /\ b.number \in Int
  PROVE  Before(a, b) <=> SqlLess(a.number, b.number)
<1>1. a # Null /\ b # Null
  BY ValueAssumption
<1>2. CASE a.family = "Int"
  BY <1>1, <1>2, ValueAssumption DEF Before, SqlLess
<1>3. CASE a.family # "Int"
  <2>1. a.family = "Float" /\ a.number \in Data /\ b.number \in Data
    BY <1>3 DEF AttrValues
  <2>2. Before(a, b) <=> FloatBefore(a.number, b.number)
    BY <1>1, <2>1 DEF Before
  <2>3. FloatBefore(a.number, b.number) <=> SqlLess(a.number, b.number)
    BY <2>1, ValueAssumption DEF FloatBefore, SqlLess, Data
  <2> QED BY <2>2, <2>3
<1> QED BY <1>2, <1>3

\* An atom matches the rows its scan key holds for, no more and no fewer (atom_from_key,
\* Atom::matches).
LEMMA AtomIsItsKey ==
  ASSUME NEW key \in ScanKeys, Expressible(key), NEW row \in AttrRows
  PROVE  AtomMatches(AtomFromKey(key), row) <=> SqlHolds(key, row)
<1> DEFINE c == Col(key)
           v == row[c]
           w == ValueFromDatum(ArgType(key), key.argument)
<1>1. c \in DOMAIN Columns /\ c \in DOMAIN row /\ v \in AttrValues \cup {Null}
  BY DEF ScanKeys, AttrRows
<1>2. /\ key.argument # Null
      /\ key.argument \in Data
      /\ key.argument \in Numbers(ArgType(key))
  BY DEF ScanKeys, Expressible
<1>3. /\ w \in AttrValues /\ w.number = key.argument /\ w # Null
      /\ w.family = IF ArgType(key) \in Integral THEN "Int" ELSE "Float"
  BY <1>2, ValueAssumption DEF ValueFromDatum, AttrValues
<1>4. CASE v = Null
  <2>1. ~SqlHolds(key, row)
    BY <1>4 DEF SqlHolds
  <2>2. ~AtomMatches(AtomFromKey(key), row)
    BY <1>4, <1>1 DEF AtomMatches, AtomFromKey, EqAtom, RangeAtom, Same, Expressible, STRATEGY_LT,
       STRATEGY_LE, STRATEGY_EQ, STRATEGY_GE, STRATEGY_GT
  <2> QED BY <2>1, <2>2
<1>5. CASE v # Null
  <2>1. /\ v \in AttrValues
        /\ v.family = IF Columns[c] \in Integral THEN "Int" ELSE "Float"
        /\ v.number \in Numbers(Columns[c])
    BY <1>1, <1>5 DEF AttrRows
  <2>2. v.family = w.family
    <3>1. SameFamily(Columns[c], ArgType(key))
      BY DEF Expressible
    <3> QED BY <1>3, <2>1, <3>1 DEF SameFamily, Integral, Floating
  <2>3. v.family = "Int" => v.number \in Int /\ w.number \in Int
    <3>1. SUFFICES ASSUME v.family = "Int" PROVE v.number \in Int /\ w.number \in Int
      OBVIOUS
    <3>2. Columns[c] \in Integral /\ ArgType(key) \in Integral
      BY <1>3, <2>1, <2>2, <3>1
    <3> QED BY <1>2, <1>3, <2>1, <3>2 DEF Numbers
  <2>4. Before(v, w) <=> SqlLess(v.number, key.argument)
    BY <1>3, <2>1, <2>2, <2>3, BeforeIsSqlLess
  <2>5. Before(w, v) <=> SqlLess(key.argument, v.number)
    BY <1>3, <2>1, <2>2, <2>3, BeforeIsSqlLess
  <2>6. /\ Same(v, w) <=> v.number = key.argument
        /\ Same(w, v) <=> v.number = key.argument
    BY <1>3, <1>5, <2>1, <2>2 DEF Same, AttrValues
  <2> HIDE DEF v, w
  <2>7. SqlHolds(key, row) <=>
          \/ key.strategy \in {STRATEGY_LT, STRATEGY_LE} /\ Before(v, w)
          \/ key.strategy \in {STRATEGY_GT, STRATEGY_GE} /\ Before(w, v)
          \/ key.strategy \in {STRATEGY_LE, STRATEGY_EQ, STRATEGY_GE} /\ Same(v, w)
    BY <1>2, <1>5, <2>4, <2>5, <2>6 DEF SqlHolds, v
  <2>8. AtomMatches(AtomFromKey(key), row) <=>
          \/ key.strategy \in {STRATEGY_LT, STRATEGY_LE} /\ Before(v, w)
          \/ key.strategy \in {STRATEGY_GT, STRATEGY_GE} /\ Before(w, v)
          \/ key.strategy \in {STRATEGY_LE, STRATEGY_EQ, STRATEGY_GE} /\ Same(v, w)
    <3>1. CASE key.strategy = STRATEGY_EQ
      <4>1. AtomFromKey(key) = EqAtom(c, w)
        BY <3>1 DEF AtomFromKey, w
      <4> QED BY <1>1, <3>1, <4>1 DEF AtomMatches, EqAtom, v, STRATEGY_LT,
                 STRATEGY_LE, STRATEGY_EQ, STRATEGY_GE, STRATEGY_GT
    <3>2. CASE key.strategy = STRATEGY_LT
      <4>1. AtomFromKey(key) = RangeAtom(c, Unbounded, Excluded(w))
        BY <3>2 DEF AtomFromKey, w, STRATEGY_LT, STRATEGY_EQ
      <4>2. AtomMatches(AtomFromKey(key), row) <=> Before(v, w)
        BY <1>1, <1>5, <4>1 DEF AtomMatches, RangeAtom, Unbounded, Excluded, LowerMatches,
           UpperMatches, v
      <4> QED BY <3>2, <4>2 DEF STRATEGY_LT, STRATEGY_LE, STRATEGY_EQ, STRATEGY_GE, STRATEGY_GT
    <3>3. CASE key.strategy = STRATEGY_LE
      <4>1. AtomFromKey(key) = RangeAtom(c, Unbounded, Included(w))
        BY <3>3 DEF AtomFromKey, w, STRATEGY_LT, STRATEGY_LE, STRATEGY_EQ
      <4>2. AtomMatches(AtomFromKey(key), row) <=> Before(v, w) \/ Same(v, w)
        BY <1>1, <1>5, <4>1 DEF AtomMatches, RangeAtom, Unbounded, Included, LowerMatches,
           UpperMatches, v
      <4> QED BY <3>3, <4>2 DEF STRATEGY_LT, STRATEGY_LE, STRATEGY_EQ, STRATEGY_GE, STRATEGY_GT
    <3>4. CASE key.strategy = STRATEGY_GT
      <4>1. AtomFromKey(key) = RangeAtom(c, Excluded(w), Unbounded)
        BY <3>4 DEF AtomFromKey, w, STRATEGY_LT, STRATEGY_LE, STRATEGY_EQ, STRATEGY_GT
      <4>2. AtomMatches(AtomFromKey(key), row) <=> Before(w, v)
        BY <1>1, <1>5, <4>1 DEF AtomMatches, RangeAtom, Unbounded, Excluded, LowerMatches,
           UpperMatches, v
      <4> QED BY <3>4, <4>2 DEF STRATEGY_LT, STRATEGY_LE, STRATEGY_EQ, STRATEGY_GE, STRATEGY_GT
    <3>5. CASE key.strategy = STRATEGY_GE
      <4>1. AtomFromKey(key) = RangeAtom(c, Included(w), Unbounded)
        BY <3>5 DEF AtomFromKey, w, STRATEGY_LT, STRATEGY_LE, STRATEGY_EQ, STRATEGY_GE,
           STRATEGY_GT
      <4>2. AtomMatches(AtomFromKey(key), row) <=> Before(w, v) \/ Same(w, v)
        BY <1>1, <1>5, <4>1 DEF AtomMatches, RangeAtom, Unbounded, Included, LowerMatches,
           UpperMatches, v
      <4> QED BY <2>6, <3>5, <4>2 DEF STRATEGY_LT, STRATEGY_LE, STRATEGY_EQ, STRATEGY_GE,
              STRATEGY_GT
    <3> QED BY <3>1, <3>2, <3>3, <3>4, <3>5 DEF Expressible, STRATEGY_LT, STRATEGY_LE,
               STRATEGY_EQ, STRATEGY_GE, STRATEGY_GT
  <2> QED BY <2>7, <2>8
<1> QED BY <1>4, <1>5

\* What the index refuses to push it leaves to the executor, and what it pushes means what
\* the clause means: a row is kept exactly when the WHERE clause holds for it, whatever the
\* clause and the row, NULL and NaN included (predicate_from_keys).
THEOREM PushdownIsExact ==
  ASSUME NEW keys \in SUBSET ScanKeys, NEW row \in AttrRows
  PROVE  Kept(keys, row) <=> Wanted(keys, row)
<1>1. ASSUME Wanted(keys, row) PROVE Kept(keys, row)
  <2>1. ASSUME NEW key \in keys, Expressible(key)
        PROVE  AtomMatches(AtomFromKey(key), row)
    BY <1>1, <2>1, AtomIsItsKey DEF Wanted
  <2> QED BY <1>1, <2>1 DEF Kept, PredicateMatches, PushedAtoms
<1>2. ASSUME Kept(keys, row) PROVE Wanted(keys, row)
  <2>1. CASE Recheck(keys)
    BY <1>2, <2>1 DEF Kept
  <2>2. CASE ~Recheck(keys)
    <3>1. ASSUME NEW key \in keys PROVE SqlHolds(key, row)
      <4>1. Expressible(key)
        BY <2>2 DEF Recheck
      <4>2. AtomMatches(AtomFromKey(key), row)
        BY <1>2, <4>1 DEF Kept, PredicateMatches, PushedAtoms
      <4> QED BY <4>1, <4>2, AtomIsItsKey
    <3> QED BY <3>1 DEF Wanted
  <2> QED BY <2>1, <2>2
<1> QED BY <1>1, <1>2

-----------------------------------------------------------------------------
(* The search state.  DroppedOnce is inductive but for two things: a step      *)
(* changes fields of records, and it has to be known that they are there.   *)

\* The invariant of the search state.
LifeInv ==
  /\ "step" \in DOMAIN scan
  /\ held = [opaque |-> held.opaque, boxes |-> held.boxes]
  /\ DroppedOnce

\* A descriptor is made with its step.
LEMMA BlankStep ==
  ASSUME NEW step
  PROVE  "step" \in DOMAIN Blank(step) /\ Blank(step).step = step
BY DEF Blank, Idle

\* No descriptor, no search state.
LEMMA LifeInit == ScanInit => LifeInv
BY BlankStep DEF ScanInit, LifeInv, DroppedOnce, Open, Searching

\* Calls that leave the state alone leave the descriptor open.
LEMMA StaysOpen ==
  ASSUME LifeInv, "step" \in DOMAIN scan', UNCHANGED held,
         scan.step \in Open \/ scan'.step = scan.step,
         scan'.step \in Open \/ scan'.step = scan.step
  PROVE  LifeInv'
BY DEF LifeInv, DroppedOnce, Open, Searching

\* What begins a layer leaves the descriptor open: navigation,
LEMMA NavigateOpens ==
  ASSUME NEW s, "step" \in DOMAIN s, NEW layer, NEW b
  PROVE  LET n == Navigate(s, layer, b) IN "step" \in DOMAIN n /\ n.step \in Open
BY DEF Navigate, Open, Searching

\* a probe,
LEMMA ProbeOpens ==
  ASSUME NEW s, "step" \in DOMAIN s, NEW b
  PROVE  LET n == Probe(s, b) IN "step" \in DOMAIN n /\ n.step \in Open
BY DEF Probe, Open, Searching

\* layer 0,
LEMMA BottomOpens ==
  ASSUME NEW s, "step" \in DOMAIN s, NEW b
  PROVE  LET n == Bottom(s, b) IN "step" \in DOMAIN n /\ n.step \in Open
BY DEF Bottom, Open, Searching

\* or whichever layer is below.
LEMMA BelowOpens ==
  ASSUME NEW s, "step" \in DOMAIN s, NEW b
  PROVE  LET n == Below(s, b) IN "step" \in DOMAIN n /\ n.step \in Open
BY NavigateOpens, BottomOpens DEF Below

\* A scan begins idle.
LEMMA IdleStep ==
  ASSUME NEW q, NEW keys, NEW ef
  PROVE  "step" \in DOMAIN Idle(q, keys, ef)
BY DEF Idle

-----------------------------------------------------------------------------
\* Every step keeps the invariant of the search state.
LEMMA LifeNext == LifeInv /\ [ScanNext]_vars => LifeInv'
<1> SUFFICES ASSUME LifeInv, [ScanNext]_vars PROVE LifeInv'
  OBVIOUS
<1>0. "step" \in DOMAIN scan
  BY DEF LifeInv
<1>1. CASE UNCHANGED vars
  BY <1>1 DEF vars, LifeInv, DroppedOnce
<1>2. ASSUME NEW q \in Queries, NEW keys \in WhereClauses, NEW ef \in Budgets,
             Rescan(q, keys, ef)
      PROVE  LifeInv'
  <2> DEFINE idle == Idle(q, keys, ef)
             s == [idle EXCEPT !.nav = <<graph.entry>>]
             full == IF s.filter = Unfiltered THEN NoBeam
                     ELSE [NoBeam EXCEPT !.detours = DETOURS_PER_EF * ef,
                                         !.expansions = EXPANSIONS_PER_EF * ef]
  <2>1. /\ scan.step \in Open /\ UNCHANGED held
        /\ scan' = IF graph.entry = 0 THEN [idle EXCEPT !.step = "ranked"]
                   ELSE IF graph.top > 0 THEN Navigate(s, graph.top, full)
                   ELSE Bottom(s, full)
    BY <1>2 DEF Rescan, MayRescan
  <2>2. "step" \in DOMAIN idle /\ "step" \in DOMAIN s
    BY IdleStep
  <2> HIDE DEF idle, s, full
  <2>3. "step" \in DOMAIN scan' /\ scan'.step \in Open
    <3>1. CASE graph.entry = 0
      BY <2>1, <2>2, <3>1 DEF Open
    <3>2. CASE graph.entry # 0 /\ graph.top > 0
      BY <2>1, <2>2, <3>2, NavigateOpens
    <3>3. CASE graph.entry # 0 /\ ~(graph.top > 0)
      BY <2>1, <2>2, <3>3, BottomOpens
    <3> QED BY <3>1, <3>2, <3>3
  <2> QED BY <2>1, <2>3, StaysOpen DEF Open
<1>3. ASSUME NEW keys \in WhereClauses, RescanUnordered(keys) PROVE LifeInv'
  <2>1. "step" \in DOMAIN scan' /\ scan'.step = "unordered"
    BY <1>3, IdleStep DEF RescanUnordered
  <2> QED BY <1>3, <2>1, StaysOpen DEF RescanUnordered, MayRescan, Open
<1>4. ASSUME NEW keys \in WhereClauses, RescanNull(keys) PROVE LifeInv'
  <2>1. "step" \in DOMAIN scan' /\ scan'.step = "ranked"
    BY <1>4, IdleStep DEF RescanNull
  <2> QED BY <1>4, <2>1, StaysOpen DEF RescanNull, MayRescan, Open
<1>5. CASE WalkOn
  <2>1. "step" \in DOMAIN scan' /\ scan'.step = scan.step
    BY <1>0, <1>5 DEF WalkOn
  <2> QED BY <1>5, <2>1, StaysOpen DEF WalkOn
<1>6. CASE WalkAgain
  <2>1. "step" \in DOMAIN scan' /\ scan'.step = scan.step
    BY <1>0, <1>6 DEF WalkAgain
  <2> QED BY <1>6, <2>1, StaysOpen DEF WalkAgain
<1>7. CASE EndNavigate
  <2> DEFINE s == [scan EXCEPT !.nav = IF Found = <<>> THEN @ ELSE <<Found[1]>>]
  <2>1. /\ scan.step = "navigate" /\ UNCHANGED held
        /\ scan' = IF s.filter = Unfiltered THEN Below(s, s.beam) ELSE Probe(s, s.beam)
    BY <1>7 DEF EndNavigate, WalkEnds
  <2>2. "step" \in DOMAIN s
    BY <1>0
  <2> HIDE DEF s
  <2>3. "step" \in DOMAIN scan' /\ scan'.step \in Open
    BY <2>1, <2>2, BelowOpens, ProbeOpens
  <2> QED BY <2>1, <2>3, StaysOpen DEF Open, Searching
<1>8. CASE EndProbe
  <2> DEFINE s == [scan EXCEPT !.seeds = Found]
  <2>1. scan.step = "probe" /\ UNCHANGED held /\ scan' = Below(s, scan.beam)
    BY <1>8 DEF EndProbe, WalkEnds
  <2>2. "step" \in DOMAIN s
    BY <1>0
  <2> HIDE DEF s
  <2>3. "step" \in DOMAIN scan' /\ scan'.step \in Open
    BY <2>1, <2>2, BelowOpens
  <2> QED BY <2>1, <2>3, StaysOpen DEF Open, Searching
<1>9. CASE EndBottom
  <2>1. "step" \in DOMAIN scan' /\ scan'.step = "ranked" /\ scan.step = "bottom"
    BY <1>0, <1>9 DEF EndBottom, WalkEnds
  <2> QED BY <1>9, <2>1, StaysOpen DEF EndBottom, Open, Searching
<1>10. CASE GetTuple
  <2>1. "step" \in DOMAIN scan' /\ scan'.step = scan.step
    BY <1>0, <1>10 DEF GetTuple
  <2> QED BY <1>10, <2>1, StaysOpen DEF GetTuple
<1>11. CASE BeginScan
  BY <1>11, BlankStep DEF BeginScan, LifeInv, DroppedOnce, Open, Searching
<1>12. CASE EndScan
  BY <1>12, BlankStep DEF EndScan, FreeScanState, LifeInv, DroppedOnce, Open, Searching
<1>13. CASE Fails
  BY <1>13, BlankStep DEF Fails, LifeInv, DroppedOnce, Open, Searching
<1>14. CASE ResetContext
  BY <1>14, BlankStep DEF ResetContext, FreeScanState, LifeInv, DroppedOnce, Open, Searching
<1> QED
  BY <1>1, <1>2, <1>3, <1>4, <1>5, <1>6, <1>7, <1>8, <1>9, <1>10, <1>11, <1>12, <1>13, <1>14
  DEF ScanNext, SearchStep

\* However a scan ends, by amendscan, by an error or by neither before its memory goes,
\* its search state is dropped exactly once, for any graph, queries and WHERE clauses.
THEOREM SearchStateDroppedOnce == ScanSpec => []DroppedOnce
<1>1. LifeInv => DroppedOnce
  BY DEF LifeInv
<1> QED BY LifeInit, LifeNext, <1>1, PTL DEF ScanSpec

-----------------------------------------------------------------------------
(* What holds of a scan s over a graph g.                                  *)

\* The steps of a scan.
Steps == Open \cup {"ended", "failed", "closed"}

\* Scans by the types of their fields.
Scans ==
  [step : Steps, layer : Nat, query : Points, ef : Nat \ {0}, keys : WhereClauses,
   filter : {Unfiltered} \cup SUBSET DOMAIN Attributes, recheck : BOOLEAN,
   nav : Seq(Nodes), seeds : Seq(Nodes), beam : Beams,
   cost : [detours : Nat, expansions : Nat], out : Seq(Nodes), cursor : Nat]

\* Task, for any scan.
TaskOf(g, s) ==
  IF s.step = "navigate" THEN Search(g, s.query, Unfiltered, 1, s.layer)
  ELSE IF s.step = "probe" THEN Search(g, s.query, s.filter, 1, s.layer)
  ELSE Search(g, s.query, s.filter, s.ef, 0)

\* What the filter and the flag came from.
Asked(s) == s.filter = Filter(s.keys) /\ s.recheck = Recheck(s.keys)

\* The nodes to start a layer from: nodes of that layer, and a foothold that matches.
Footed(g, s, layer) ==
  /\ g.entry # 0
  /\ s.nav \in Seq(Tall(g, layer)) /\ s.seeds \in Seq(Tall(g, layer))
  /\ \A id \in ToSet(s.seeds) : id \notin g.dead /\ (s.filter # Unfiltered => id \in s.filter)

\* What has been spent and what is left, with b the beam: layer 0 brings an allowance of
\* its own.
Affordable(s, b, bottom) ==
  /\ s.cost.expansions + b.expansions <= EXPANSIONS_PER_EF * s.ef
  /\ s.cost.detours + b.detours <=
       IF bottom THEN 2 * (DETOURS_PER_EF * s.ef) ELSE DETOURS_PER_EF * s.ef

\* A node that the walk has dealt with has no neighbour it has not seen, while there is
\* room and an allowance of each kind is left.
Settled(t, b) ==
  (Filtered(t) /\ ~Full(t, b) /\ b.detours # 0 /\ b.expansions # 0) =>
    \A n \in b.visited \ (b.frontier \cup b.deferred) :
      ToSet(Neighbors(t.g, n, t.layer)) \subseteq b.visited

\* A search that is under way.
UnderWay(g, s) ==
  /\ Footed(g, s, s.layer) /\ s.out = <<>>
  /\ IF s.step = "bottom" THEN s.layer = 0 ELSE s.layer \in 1 .. g.top
  /\ s.beam \in Walks(TaskOf(g, s), Tall(g, s.layer))
  /\ s.step # "navigate" => ToSet(s.seeds) \subseteq s.beam.visited
  /\ s.step = "bottom" => Settled(TaskOf(g, s), s.beam)
  /\ Affordable(s, s.beam, s.step = "bottom")

\* The rows of a scan that is not searching.
Answers(g, s) ==
  /\ \A row \in ToSet(s.out) : /\ row \in Live(g) \cup ToSet(Unrankable)
                               /\ s.filter # Unfiltered => row \in s.filter
  /\ s.step = "ranked" =>
       /\ Len(s.out) <= s.ef
       /\ \A k \in 1 .. Len(s.out) :
            /\ s.out[k] \in Live(g)
            /\ \A j \in 1 .. k - 1 : Nearer(g, s.query, s.out[j], s.out[k])
  /\ s.step = "unordered" =>
       ToSet(s.out) = {row \in Live(g) \cup ToSet(Unrankable) :
                         s.filter # Unfiltered => row \in s.filter}

\* A scan over a sound graph g: under way or with its rows, and within its allowances.
Good(g, s) ==
  /\ s \in Scans /\ Asked(s) /\ Answers(g, s)
  /\ s.layer <= g.top /\ s.nav \in Seq(Ids(g)) /\ s.seeds \in Seq(Ids(g))
  /\ s.beam.visited \subseteq Ids(g) /\ s.cursor <= Len(s.out)
  /\ s.cost.expansions <= EXPANSIONS_PER_EF * s.ef
  /\ s.cost.detours <= 2 * (DETOURS_PER_EF * s.ef)
  /\ s.step \in Searching => UnderWay(g, s)

\* A sound graph whose nodes, and the rows of the side table, have attributes.
Grounded(g) == Sound(g) /\ Ids(g) \cup ToSet(Unrankable) \subseteq DOMAIN Attributes

\* The invariant.
ScanInv == Grounded(graph) /\ Good(graph, scan)

\* The allowances are numbers.
LEMMA AllowanceOK ==
  ASSUME NEW ef \in Nat
  PROVE  DETOURS_PER_EF * ef \in Nat /\ EXPANSIONS_PER_EF * ef \in Nat
<1>1. DETOURS_PER_EF \in Nat /\ EXPANSIONS_PER_EF \in Nat
  BY ScanAssumption
<1> QED BY <1>1

\* The filter is the set that the pushed predicate matches.
LEMMA FilterOK ==
  ASSUME NEW keys
  PROVE  /\ Filter(keys) \in {Unfiltered} \cup SUBSET DOMAIN Attributes
         /\ Recheck(keys) \in BOOLEAN
         /\ Filter(keys) = Unfiltered => PushedAtoms(keys) = {}
         /\ Filter(keys) # Unfiltered =>
              Filter(keys) = {id \in DOMAIN Attributes :
                                PredicateMatches(PushedAtoms(keys), Attributes[id])}
<1>1. {id \in DOMAIN Attributes : PredicateMatches(PushedAtoms(keys), Attributes[id])}
        # Unfiltered
  <2>1. \A matching \in SUBSET DOMAIN Attributes : matching # Unfiltered
    BY ScanAssumption
  <2> QED BY <2>1
<1>2. Recheck(keys) \in BOOLEAN
  BY DEF Recheck
<1> QED BY <1>1, <1>2 DEF Filter

\* The layers of a sound graph.
LEMMA SoundTall ==
  ASSUME NEW g, Sound(g)
  PROVE  /\ Framed(g) /\ Woven(g) /\ Placed(g) /\ g.top \in Nat /\ Ids(g) \subseteq Nodes
         /\ \A k \in Int : Tall(g, k) \subseteq Ids(g) /\ Tall(g, k) \subseteq Tall(g, k - 1)
BY FramedOK, TallGrows DEF Sound

\* A layer of a sound graph is closed under its edges.
LEMMA SearchWalkable ==
  ASSUME NEW g, Sound(g), NEW layer \in Nat, NEW q \in Points, NEW f, NEW ef \in Nat \ {0}
  PROVE  Walkable(Search(g, q, f, ef, layer), Tall(g, layer))
<1>1. \A n \in Ids(g) : 0 \notin ToSet(Neighbors(g, n, layer))
  <2> SUFFICES ASSUME NEW n \in Ids(g) PROVE 0 \notin ToSet(Neighbors(g, n, layer))
    OBVIOUS
  <2>1. Neighbors(g, n, layer) \in Seq(Tall(g, layer) \ {n}) /\ Tall(g, layer) \subseteq Nodes
    BY SoundTall DEF Woven, ListKept
  <2>2. ToSet(Neighbors(g, n, layer)) \subseteq Nodes
    BY <2>1 DEF ToSet
  <2> QED BY <2>2 DEF Nodes
<1>2. Walkable(Search(g, q, f, ef, layer), Tall(g, layer) \ {0})
  BY <1>1, SoundTall, LayerWalkable
<1>3. Tall(g, layer) \ {0} = Tall(g, layer)
  BY SoundTall DEF Nodes
<1> QED BY <1>2, <1>3

\* So a search under way comes to nodes of its layer alone.
LEMMA TaskWalkable ==
  ASSUME NEW g, Sound(g), NEW s \in Scans, s.step = "bottom" => s.layer = 0,
         s.step \in Searching
  PROVE  LET t == TaskOf(g, s) IN
         /\ Walkable(t, Tall(g, s.layer)) /\ t.g = g /\ t.query = s.query /\ t.layer = s.layer
         /\ Filtered(t) <=> (s.filter # Unfiltered /\ s.step # "navigate")
         /\ t.ef = IF s.step = "bottom" THEN s.ef ELSE 1
         /\ t.filter = IF s.step = "navigate" THEN Unfiltered ELSE s.filter
<1>1. s.query \in Points /\ s.layer \in Nat /\ s.ef \in Nat \ {0} /\ 1 \in Nat \ {0}
  BY DEF Scans
<1>2. CASE s.step = "navigate"
  <2>1. TaskOf(g, s) = Search(g, s.query, Unfiltered, 1, s.layer)
    BY <1>2 DEF TaskOf
  <2> QED BY <1>1, <1>2, <2>1, SearchWalkable DEF Filtered, Search
<1>3. CASE s.step = "probe"
  <2>1. TaskOf(g, s) = Search(g, s.query, s.filter, 1, s.layer)
    BY <1>3 DEF TaskOf
  <2> QED BY <1>1, <1>3, <2>1, SearchWalkable DEF Filtered, Search
<1>4. CASE s.step = "bottom"
  <2>1. TaskOf(g, s) = Search(g, s.query, s.filter, s.ef, 0) /\ s.layer = 0
    BY <1>4 DEF TaskOf
  <2> QED BY <1>1, <1>4, <2>1, SearchWalkable DEF Filtered, Search
<1> QED BY <1>2, <1>3, <1>4 DEF Searching

\* Walks are beams.
LEMMA WalksTyped ==
  ASSUME NEW g, Sound(g), NEW layer \in Nat, NEW t, NEW b \in Walks(t, Tall(g, layer))
  PROVE  b \in Beams /\ b.visited \subseteq Ids(g)
<1>1. b \in BeamsOver(Tall(g, layer)) /\ Tall(g, layer) \subseteq Nodes
      /\ Tall(g, layer) \subseteq Ids(g)
  BY SoundTall DEF Walks
<1> QED BY <1>1 DEF BeamsOver, Beams

\* The task of the scan.
LEMMA TaskIs == Task = TaskOf(graph, scan)
BY DEF Task, TaskOf

-----------------------------------------------------------------------------
(* A layer begins.                                                         *)

\* What a scan holds, field by field.
LEMMA ScanFields ==
  ASSUME NEW s \in Scans
  PROVE  /\ s.step \in Steps /\ s.layer \in Nat /\ s.query \in Points /\ s.ef \in Nat \ {0}
         /\ s.keys \in WhereClauses
         /\ s.filter \in {Unfiltered} \cup SUBSET DOMAIN Attributes /\ s.recheck \in BOOLEAN
         /\ s.nav \in Seq(Nodes) /\ s.seeds \in Seq(Nodes) /\ s.beam \in Beams
         /\ s.cost \in [detours : Nat, expansions : Nat]
         /\ s.cost.detours \in Nat /\ s.cost.expansions \in Nat
         /\ s.out \in Seq(Nodes) /\ s.cursor \in Nat
BY DEF Scans

\* Ready to search a layer, with the allowances of b.
Ready(s, layer, b) ==
  /\ s \in Scans /\ Asked(s) /\ s.out = <<>> /\ s.cursor = 0
  /\ layer \in Nat /\ layer <= graph.top /\ Footed(graph, s, layer)
  /\ b.detours \in Nat /\ b.expansions \in Nat /\ Affordable(s, b, FALSE)

\* The task of a layer that begins.
TaskAt(s, step, layer) ==
  IF step = "navigate" THEN Search(graph, s.query, Unfiltered, 1, layer)
  ELSE IF step = "probe" THEN Search(graph, s.query, s.filter, 1, layer)
  ELSE Search(graph, s.query, s.filter, s.ef, layer)

\* A layer begins, from some nodes and with some allowances.
Begun(s, step, layer, from, d, e) ==
  [s EXCEPT !.step = step, !.layer = layer,
            !.beam = Start(TaskAt(s, step, layer), from, d, e)]

\* Whatever starts a layer, with the seeds among its starting points, is under way.
LEMMA BeginsOK ==
  ASSUME Sound(graph), NEW layer, NEW s, NEW b, Ready(s, layer, b),
         NEW step \in Searching, IF step = "bottom" THEN layer = 0 ELSE layer # 0,
         NEW from \in Seq(Tall(graph, layer)),
         step # "navigate" => ToSet(s.seeds) \subseteq ToSet(from),
         NEW d \in Nat,
         d = b.detours \/ (step = "bottom" /\ d <= DETOURS_PER_EF * s.ef)
  PROVE  LET n == Begun(s, step, layer, from, d, b.expansions) IN
         Good(graph, n) /\ n.step = step /\ n.seeds = s.seeds
<1> DEFINE t == TaskAt(s, step, layer)
           n == Begun(s, step, layer, from, d, b.expansions)
           beam == Start(t, from, d, b.expansions)
           W == Tall(graph, layer)
<1>0. /\ n = [s EXCEPT !.step = step, !.layer = layer, !.beam = beam]
      /\ t = IF step = "navigate" THEN Search(graph, s.query, Unfiltered, 1, layer)
             ELSE IF step = "probe" THEN Search(graph, s.query, s.filter, 1, layer)
             ELSE Search(graph, s.query, s.filter, s.ef, layer)
  BY DEF Begun, TaskAt
<1> HIDE DEF n, t
<1>1. /\ s \in Scans /\ Asked(s) /\ s.out = <<>> /\ s.cursor = 0
      /\ layer \in Nat /\ layer <= graph.top /\ Footed(graph, s, layer)
      /\ b.detours \in Nat /\ b.expansions \in Nat /\ Affordable(s, b, FALSE)
  BY DEF Ready
<1>2. Walkable(t, W)
  <2>1. s.query \in Points /\ s.ef \in Nat \ {0} /\ 1 \in Nat \ {0}
    BY <1>1, ScanFields
  <2> QED BY <1>0, <1>1, <2>1, SearchWalkable
<1>3. /\ beam \in Walks(t, W) /\ beam.frontier = beam.visited /\ beam.deferred = {}
      /\ beam.detours = d /\ beam.expansions = b.expansions
      /\ ToSet(from) \subseteq beam.visited
  BY <1>1, <1>2, StartOK
<1>4. beam \in Beams /\ beam.visited \subseteq Ids(graph)
  BY <1>1, <1>3, WalksTyped
<1> HIDE DEF beam
<1>5. /\ n \in Scans /\ n.step = step /\ n.layer = layer /\ n.beam = beam /\ n.query = s.query
      /\ n.ef = s.ef /\ n.keys = s.keys /\ n.filter = s.filter /\ n.recheck = s.recheck
      /\ n.nav = s.nav /\ n.seeds = s.seeds /\ n.cost = s.cost /\ n.out = s.out
      /\ n.cursor = s.cursor
  <2>1. step \in Steps
    BY DEF Steps, Open
  <2>2. n = [s EXCEPT !.step = step, !.layer = layer, !.beam = beam]
    BY <1>0
  <2> HIDE DEF Steps, Beams
  <2> QED BY <1>1, <1>4, <2>1, <2>2 DEF Scans
<1>6. t = TaskOf(graph, n)
  BY <1>0, <1>5 DEF TaskOf, Searching
<1>7. n.nav \in Seq(Ids(graph)) /\ n.seeds \in Seq(Ids(graph)) /\ Footed(graph, n, layer)
  <2>1. W \subseteq Ids(graph)
    BY <1>1, SoundTall
  <2> QED BY <1>1, <1>5, <2>1 DEF Footed
<1>8. Affordable(n, beam, step = "bottom")
  <2>1. DETOURS_PER_EF * s.ef \in Nat /\ s.cost.detours \in Nat
    BY <1>1, AllowanceOK, ScanFields
  <2> DEFINE A == DETOURS_PER_EF * s.ef
  <2> HIDE DEF A
  <2>2. s.cost.detours + b.detours <= A
    BY <1>1 DEF Affordable, A
  <2>3. s.cost.detours + d <= IF step = "bottom" THEN 2 * A ELSE A
    BY <1>1, <2>1, <2>2, SMTT(30) DEF A
  <2> QED BY <1>1, <1>3, <1>5, <2>3 DEF Affordable, A
<1>9. UnderWay(graph, n)
  <2>1. Settled(t, beam)
    BY <1>3 DEF Settled
  <2>2. step # "navigate" => ToSet(n.seeds) \subseteq beam.visited
    BY <1>3, <1>5
  <2>3. IF step = "bottom" THEN layer = 0 ELSE layer \in 1 .. graph.top
    BY <1>1, SoundTall
  <2> QED BY <1>1, <1>3, <1>5, <1>6, <1>7, <1>8, <2>1, <2>2, <2>3 DEF UnderWay
<1>10. Answers(graph, n)
  <2>1. step # "ranked" /\ step # "unordered"
    BY DEF Searching
  <2>2. ToSet(n.out) = {}
    BY <1>1, <1>5 DEF ToSet
  <2> QED BY <1>5, <2>1, <2>2 DEF Answers
<1>11. /\ n.cost.expansions <= EXPANSIONS_PER_EF * n.ef
       /\ n.cost.detours <= 2 * (DETOURS_PER_EF * n.ef)
  <2>1. /\ DETOURS_PER_EF * s.ef \in Nat /\ EXPANSIONS_PER_EF * s.ef \in Nat
        /\ s.cost.detours \in Nat /\ s.cost.expansions \in Nat
    BY <1>1, AllowanceOK, ScanFields
  <2> DEFINE A == DETOURS_PER_EF * s.ef
             E == EXPANSIONS_PER_EF * s.ef
  <2> HIDE DEF A, E
  <2>2. s.cost.detours + b.detours <= A /\ s.cost.expansions + b.expansions <= E
    BY <1>1 DEF Affordable, A, E
  <2>3. s.cost.detours <= 2 * A /\ s.cost.expansions <= E
    BY <1>1, <2>1, <2>2, SMTT(30) DEF A, E
  <2> QED BY <1>5, <2>3 DEF A, E
<1>12. Asked(n) /\ n.cursor <= Len(n.out) /\ n.layer <= graph.top
  BY <1>1, <1>5 DEF Asked
<1>13. Good(graph, n) /\ n.step = step /\ n.seeds = s.seeds
  BY <1>4, <1>5, <1>7, <1>9, <1>10, <1>11, <1>12 DEF Good
<1> QED BY <1>13 DEF n

\* Navigation begins.
LEMMA NavigateOK ==
  ASSUME Sound(graph), NEW s, NEW layer, layer # 0, NEW b, Ready(s, layer, b)
  PROVE  LET n == Navigate(s, layer, b) IN
         Good(graph, n) /\ n.step = "navigate" /\ n.seeds = s.seeds
<1>1. Navigate(s, layer, b) = Begun(s, "navigate", layer, s.nav, b.detours, b.expansions)
  BY DEF Navigate, Begun, TaskAt
<1>2. s.nav \in Seq(Tall(graph, layer)) /\ b.detours \in Nat /\ "navigate" \in Searching
  BY DEF Ready, Footed, Searching
<1> QED BY ONLY <1>1, <1>2, BeginsOK, Sound(graph), layer # 0, Ready(s, layer, b)

\* The seeds are among the starting points.
LEMMA FromBoth ==
  ASSUME NEW X, NEW c \in Seq(X), NEW d \in Seq(X)
  PROVE  c \o d \in Seq(X) /\ ToSet(d) \subseteq ToSet(c \o d)
<1>1. Len(c) \in Nat /\ Len(d) \in Nat /\ c \o d \in Seq(X) /\ Len(c \o d) = Len(c) + Len(d)
  OBVIOUS
<1>2. \A k \in 1 .. Len(d) : (c \o d)[Len(c) + k] = d[k] /\ Len(c) + k \in 1 .. Len(c \o d)
  BY <1>1
<1>3. DOMAIN d = 1 .. Len(d) /\ DOMAIN (c \o d) = 1 .. Len(c \o d)
  BY <1>1
<1> DEFINE e == c \o d
<1> HIDE DEF e
<1>4. \A k \in DOMAIN d : d[k] \in {e[j] : j \in DOMAIN e}
  <2> SUFFICES ASSUME NEW k \in DOMAIN d PROVE d[k] \in {e[j] : j \in DOMAIN e}
    OBVIOUS
  <2>1. e[Len(c) + k] = d[k] /\ Len(c) + k \in DOMAIN e
    BY <1>2, <1>3 DEF e
  <2> QED BY <2>1
<1> QED BY <1>1, <1>4 DEF ToSet, e

\* A probe begins.
LEMMA ProbeOK ==
  ASSUME Sound(graph), NEW s, s.layer # 0, NEW b, Ready(s, s.layer, b)
  PROVE  LET n == Probe(s, b) IN Good(graph, n) /\ n.step = "probe" /\ n.seeds = s.seeds
<1> DEFINE from == s.nav \o s.seeds
<1>1. Probe(s, b) = Begun(s, "probe", s.layer, from, b.detours, b.expansions)
  <2>1. s \in Scans
    BY DEF Ready
  <2>2. [s EXCEPT !.step = "probe", !.layer = s.layer, !.beam =
           Start(Search(graph, s.query, s.filter, 1, s.layer), from, b.detours, b.expansions)]
        = [s EXCEPT !.step = "probe", !.beam =
           Start(Search(graph, s.query, s.filter, 1, s.layer), from, b.detours, b.expansions)]
    BY <2>1 DEF Scans
  <2> QED BY <2>2 DEF Probe, Begun, TaskAt
<1>2. /\ from \in Seq(Tall(graph, s.layer)) /\ ToSet(s.seeds) \subseteq ToSet(from)
      /\ b.detours \in Nat /\ "probe" \in Searching
  BY FromBoth DEF Ready, Footed, Searching
<1> HIDE DEF from
<1> QED BY ONLY <1>1, <1>2, BeginsOK, Sound(graph), s.layer # 0, Ready(s, s.layer, b)

\* Layer 0 begins, with the whole beam.
LEMMA BottomOK ==
  ASSUME Sound(graph), NEW s, NEW b, Ready(s, 0, b)
  PROVE  LET n == Bottom(s, b) IN Good(graph, n) /\ n.step = "bottom" /\ n.seeds = s.seeds
<1> DEFINE from == s.nav \o s.seeds
           d == IF s.filter = Unfiltered THEN 0 ELSE DETOURS_PER_EF * s.ef
<1>1. Bottom(s, b) = Begun(s, "bottom", 0, from, d, b.expansions)
  BY DEF Bottom, Begun, TaskAt
<1>2. /\ from \in Seq(Tall(graph, 0)) /\ ToSet(s.seeds) \subseteq ToSet(from)
      /\ "bottom" \in Searching
  BY FromBoth DEF Ready, Footed, Searching
<1>3. d \in Nat /\ d <= DETOURS_PER_EF * s.ef
  <2>1. s.ef \in Nat
    BY ScanFields DEF Ready
  <2> QED BY <2>1, AllowanceOK
<1> HIDE DEF from, d
<1> QED BY ONLY <1>1, <1>2, <1>3, BeginsOK, Sound(graph), Ready(s, 0, b)

\* The layer below.
LEMMA BelowOK ==
  ASSUME Sound(graph), NEW s, s.layer # 0, NEW b, Ready(s, s.layer, b)
  PROVE  LET n == Below(s, b) IN
         Good(graph, n) /\ n.step \in {"navigate", "bottom"} /\ n.seeds = s.seeds
<1>1. s.layer \in Nat /\ s.layer - 1 \in Nat /\ graph.top \in Nat
  BY SoundTall, ScanFields DEF Ready
<1>2. Ready(s, s.layer - 1, b)
  <2>1. Tall(graph, s.layer) \subseteq Tall(graph, s.layer - 1)
    BY <1>1, SoundTall
  <2>2. /\ Footed(graph, s, s.layer) /\ s.layer <= graph.top
        /\ s \in Scans /\ Asked(s) /\ s.out = <<>> /\ s.cursor = 0
        /\ b.detours \in Nat /\ b.expansions \in Nat /\ Affordable(s, b, FALSE)
    BY DEF Ready
  <2>3. Footed(graph, s, s.layer - 1)
    BY <2>1, <2>2 DEF Footed
  <2>4. s.layer - 1 <= graph.top
    BY <1>1, <2>2
  <2> QED BY <1>1, <2>2, <2>3, <2>4 DEF Ready
<1>3. CASE s.layer > 1
  <2>1. Below(s, b) = Navigate(s, s.layer - 1, b) /\ s.layer - 1 # 0
    BY <1>1, <1>3 DEF Below
  <2> DEFINE l == s.layer - 1
  <2>2. Good(graph, Navigate(s, l, b)) /\ Navigate(s, l, b).step = "navigate"
        /\ Navigate(s, l, b).seeds = s.seeds
    <3>1. Ready(s, l, b) /\ l # 0
      BY <1>2, <2>1
    <3> HIDE DEF l
    <3> QED BY ONLY <3>1, NavigateOK, Sound(graph)
  <2> QED BY <2>1, <2>2
<1>4. CASE ~(s.layer > 1)
  <2>1. Below(s, b) = Bottom(s, b) /\ s.layer - 1 = 0
    BY <1>1, <1>4 DEF Below
  <2>2. Ready(s, 0, b)
    BY <1>2, <2>1
  <2> QED BY <2>1, <2>2, BottomOK
<1> QED BY <1>3, <1>4

-----------------------------------------------------------------------------
(* A search goes on.                                                       *)

\* Both counters go up.
LEMMA Charged ==
  ASSUME NEW cost \in [detours : Nat, expansions : Nat], NEW d \in Nat, NEW x \in Nat
  PROVE  [cost EXCEPT !.expansions = @ + x, !.detours = @ + d] =
         [detours |-> cost.detours + d, expansions |-> cost.expansions + x]
<1> DEFINE u == [cost EXCEPT !.expansions = @ + x]
<1>1. /\ u \in [detours : Nat, expansions : Nat] /\ u.expansions = cost.expansions + x
      /\ u.detours = cost.detours
  OBVIOUS
<1> HIDE DEF u
<1>2. [u EXCEPT !.detours = @ + d] =
      [detours |-> cost.detours + d, expansions |-> cost.expansions + x]
  BY <1>1
<1> QED BY <1>2 DEF u

\* What is known of a search under way.
LEMMA SearchingOK ==
  ASSUME Grounded(graph), Good(graph, scan), ~Resting
  PROVE  /\ Sound(graph) /\ UnderWay(graph, scan) /\ scan \in Scans
         /\ scan.step \in Searching /\ scan.layer \in Nat /\ scan.layer <= graph.top
         /\ Walkable(Task, Tall(graph, scan.layer))
         /\ scan.beam \in Walks(Task, Tall(graph, scan.layer))
         /\ Task = TaskOf(graph, scan)
         /\ scan.cost.detours \in Nat /\ scan.cost.expansions \in Nat
         /\ Filtered(Task) <=> (scan.filter # Unfiltered /\ scan.step # "navigate")
         /\ Task.filter = IF scan.step = "navigate" THEN Unfiltered ELSE scan.filter
         /\ Task.g = graph /\ Task.query = scan.query /\ Task.layer = scan.layer
         /\ Task.ef = IF scan.step = "bottom" THEN scan.ef ELSE 1
<1>1. scan \in Scans /\ UnderWay(graph, scan) /\ scan.step \in Searching
      /\ scan.layer <= graph.top /\ Sound(graph)
  BY DEF Good, Resting, Grounded
<1>2. scan.step = "bottom" => scan.layer = 0
  BY <1>1 DEF UnderWay
<1>3. scan.beam \in Walks(TaskOf(graph, scan), Tall(graph, scan.layer))
  BY <1>1 DEF UnderWay
<1> QED BY <1>1, <1>2, <1>3, ScanFields, TaskIs, TaskWalkable

\* The beam has gone on, and what it has cost is booked.
LEMMA GoesOnOK ==
  ASSUME Grounded(graph), Good(graph, scan), ~Resting,
         NEW beam \in Walks(Task, Tall(graph, scan.layer)),
         scan.beam.visited \subseteq beam.visited,
         NEW x \in Nat, NEW d \in Nat,
         x + beam.expansions = scan.beam.expansions,
         d + beam.detours = scan.beam.detours,
         scan.step = "bottom" => Settled(Task, beam),
         NEW n,
         n = [scan EXCEPT !.beam = beam, !.cost = [detours |-> scan.cost.detours + d,
                                                   expansions |-> scan.cost.expansions + x]]
  PROVE  Good(graph, n) /\ n.step = scan.step /\ n.seeds = scan.seeds
<1>1. /\ Sound(graph) /\ UnderWay(graph, scan) /\ scan \in Scans
      /\ scan.step \in Searching /\ scan.layer \in Nat /\ scan.layer <= graph.top
      /\ Task = TaskOf(graph, scan) /\ scan.cost.detours \in Nat /\ scan.cost.expansions \in Nat
  BY SearchingOK
<1>2. beam \in Beams /\ beam.visited \subseteq Ids(graph)
  BY <1>1, WalksTyped
<1>3. beam.detours \in Nat /\ beam.expansions \in Nat
  BY <1>2 DEF Beams
<1>4. /\ n \in Scans /\ n.step = scan.step /\ n.layer = scan.layer /\ n.beam = beam
      /\ n.query = scan.query /\ n.ef = scan.ef /\ n.keys = scan.keys
      /\ n.filter = scan.filter /\ n.recheck = scan.recheck /\ n.nav = scan.nav
      /\ n.seeds = scan.seeds /\ n.out = scan.out /\ n.cursor = scan.cursor
      /\ n.cost.detours = scan.cost.detours + d
      /\ n.cost.expansions = scan.cost.expansions + x
  <2> DEFINE cost == [detours |-> scan.cost.detours + d, expansions |-> scan.cost.expansions + x]
  <2>1. /\ cost \in [detours : Nat, expansions : Nat]
        /\ cost.detours = scan.cost.detours + d /\ cost.expansions = scan.cost.expansions + x
    BY <1>1
  <2>2. n = [scan EXCEPT !.beam = beam, !.cost = cost]
    OBVIOUS
  <2> HIDE DEF cost
  <2> QED BY ONLY <1>1, <1>2, <2>1, <2>2 DEF Scans
<1>5. TaskOf(graph, n) = Task
  BY <1>1, <1>4 DEF TaskOf
<1>6. Affordable(n, beam, n.step = "bottom")
  <2>1. Affordable(scan, scan.beam, scan.step = "bottom")
    BY <1>1 DEF UnderWay
  <2>2. n.cost.detours + beam.detours = scan.cost.detours + scan.beam.detours
        /\ n.cost.expansions + beam.expansions = scan.cost.expansions + scan.beam.expansions
    BY <1>1, <1>3, <1>4
  <2> QED BY <1>4, <2>1, <2>2 DEF Affordable
<1>7. UnderWay(graph, n)
  <2>1. /\ Footed(graph, scan, scan.layer) /\ scan.out = <<>>
        /\ IF scan.step = "bottom" THEN scan.layer = 0 ELSE scan.layer \in 1 .. graph.top
        /\ scan.step # "navigate" => ToSet(scan.seeds) \subseteq scan.beam.visited
    BY <1>1 DEF UnderWay
  <2>2. Footed(graph, n, n.layer)
    BY <1>4, <2>1 DEF Footed
  <2>3. n.step # "navigate" => ToSet(n.seeds) \subseteq beam.visited
    BY <1>4, <2>1
  <2>4. n.step = "bottom" => Settled(TaskOf(graph, n), beam)
    BY <1>4, <1>5
  <2>5. beam \in Walks(TaskOf(graph, n), Tall(graph, n.layer))
    BY <1>4, <1>5
  <2> QED BY <1>4, <1>6, <2>1, <2>2, <2>3, <2>4, <2>5 DEF UnderWay
<1>8. Asked(n) /\ Answers(graph, n)
  <2>1. Asked(scan) /\ Answers(graph, scan)
    BY DEF Good
  <2> QED BY <1>4, <2>1 DEF Asked, Answers
<1>9. /\ n.cost.expansions <= EXPANSIONS_PER_EF * n.ef
      /\ n.cost.detours <= 2 * (DETOURS_PER_EF * n.ef)
  <2>1. DETOURS_PER_EF * n.ef \in Nat /\ EXPANSIONS_PER_EF * n.ef \in Nat
        /\ n.cost.detours \in Nat /\ n.cost.expansions \in Nat
    BY <1>4, AllowanceOK, ScanFields
  <2> DEFINE A == DETOURS_PER_EF * n.ef
             E == EXPANSIONS_PER_EF * n.ef
  <2> HIDE DEF A, E
  <2>2. n.cost.detours + beam.detours <= 2 * A /\ n.cost.expansions + beam.expansions <= E
    <3>1. n.cost.detours + beam.detours <= IF n.step = "bottom" THEN 2 * A ELSE A
      BY <1>6 DEF Affordable, A
    <3>2. n.cost.expansions + beam.expansions <= E
      BY <1>6 DEF Affordable, E
    <3>3. A \in Nat /\ n.cost.detours + beam.detours \in Nat
      BY <1>3, <2>1 DEF A
    <3> QED BY <3>1, <3>2, <3>3
  <2>3. n.cost.detours <= 2 * A /\ n.cost.expansions <= E
    BY <1>3, <2>1, <2>2 DEF A, E
  <2> QED BY <2>3 DEF A, E
<1>10. n.layer <= graph.top /\ n.nav \in Seq(Ids(graph)) /\ n.seeds \in Seq(Ids(graph))
       /\ n.cursor <= Len(n.out)
  BY <1>4 DEF Good
<1> QED BY <1>2, <1>4, <1>7, <1>8, <1>9, <1>10 DEF Good

\* One turn of the walk leaves behind no node with a neighbour it has not seen.
LEMMA WalkOnOK ==
  ASSUME Grounded(graph), Good(graph, scan), WalkOn
  PROVE  Good(graph, scan') /\ scan'.step = scan.step /\ scan'.seeds = scan.seeds
<1> DEFINE t == Task
           b == scan.beam
           c == Upcoming(t, b)
           d == Turn(t, b)
           W == Tall(graph, scan.layer)
           paid == IF Filtered(t) THEN 1 ELSE 0
           queued == IF Filtered(t) /\ Stranded(t, c)
                     THEN Cardinality(d.frontier \ b.frontier) ELSE 0
<1>1. /\ ~Resting /\ b.frontier # {}
      /\ Filtered(t) => b.expansions > 0
  BY DEF WalkOn, GoesOn
<1>2. /\ Walkable(t, W) /\ b \in Walks(t, W) /\ scan \in Scans /\ UnderWay(graph, scan)
      /\ Sound(graph) /\ scan.layer \in Nat /\ Task = TaskOf(graph, scan)
      /\ scan.cost \in [detours : Nat, expansions : Nat]
  BY <1>1, SearchingOK, ScanFields
<1> HIDE DEF t, b
<1>3. /\ b \in Beams /\ b.detours \in Nat /\ b.expansions \in Nat
  BY <1>2, WalksTyped DEF Beams
<1>4. /\ d \in Walks(t, W) /\ c \in b.frontier
      /\ b.visited \subseteq d.visited /\ b.frontier \ {c} \subseteq d.frontier
      /\ ~Full(t, d) => d.visited \ b.visited \subseteq d.frontier
      /\ d.expansions = IF Filtered(t) THEN b.expansions - 1 ELSE b.expansions
      /\ ~(Filtered(t) /\ Stranded(t, c)) => d.detours = b.detours
      /\ d.deferred = IF Filtered(t) /\ ~Stranded(t, c) THEN b.deferred \cup {c}
                      ELSE b.deferred
      /\ Filtered(t) /\ Stranded(t, c) =>
           /\ IsFiniteSet(d.frontier \ b.frontier)
           /\ Cardinality(d.frontier \ b.frontier) + d.detours = b.detours
           /\ d.detours # 0 => ToSet(Neighbors(t.g, c, t.layer)) \subseteq d.visited
  <2>1. Filtered(t) => b.expansions # 0
    BY <1>1, <1>3
  <2> QED BY <1>1, <1>2, <2>1, TurnOK
<1>5. d.detours \in Nat /\ d.expansions \in Nat
  BY <1>2, <1>4, WalksTyped DEF Beams
<1> HIDE DEF d, c
<1>6. /\ paid \in Nat /\ queued \in Nat /\ paid + d.expansions = b.expansions
      /\ queued + d.detours = b.detours
  <2>1. paid \in Nat /\ paid + d.expansions = b.expansions
    BY <1>3, <1>4, <1>5
  <2>2. CASE Filtered(t) /\ Stranded(t, c)
    BY <1>3, <1>4, <1>5, <2>1, <2>2, FS_CardinalityType
  <2>3. CASE ~(Filtered(t) /\ Stranded(t, c))
    BY <1>3, <1>4, <1>5, <2>1, <2>3
  <2> QED BY <2>2, <2>3
<1> HIDE DEF paid, queued
<1>7. scan' = [scan EXCEPT !.beam = d, !.cost = [detours |-> scan.cost.detours + queued,
                                                 expansions |-> scan.cost.expansions + paid]]
  <2>1. scan' = IF Filtered(t)
                THEN [scan EXCEPT !.beam = d, !.cost.expansions = @ + 1,
                        !.cost.detours = @ + IF Stranded(t, c)
                                             THEN Cardinality(d.frontier \ b.frontier) ELSE 0]
                ELSE [scan EXCEPT !.beam = d]
    BY DEF WalkOn, t, b, c, d
  <2> DEFINE some == IF Stranded(t, c) THEN Cardinality(d.frontier \ b.frontier) ELSE 0
  <2>2. CASE Filtered(t)
    <3>1. paid = 1 /\ queued = some
      BY <2>2 DEF paid, queued
    <3>2. scan' = [scan EXCEPT !.beam = d, !.cost.expansions = @ + 1,
                               !.cost.detours = @ + some]
      BY <2>1, <2>2
    <3> HIDE DEF some
    <3>3. [scan.cost EXCEPT !.expansions = @ + 1, !.detours = @ + some] =
          [detours |-> scan.cost.detours + queued, expansions |-> scan.cost.expansions + paid]
      <4>1. [scan.cost EXCEPT !.expansions = @ + paid, !.detours = @ + queued] =
            [detours |-> scan.cost.detours + queued, expansions |-> scan.cost.expansions + paid]
        BY <1>2, <1>6, Charged
      <4> QED BY <3>1, <4>1
    <3>4. scan' = [scan EXCEPT !.beam = d, !.cost =
                     [scan.cost EXCEPT !.expansions = @ + 1, !.detours = @ + some]]
      BY <1>2, <3>2 DEF Scans
    <3> QED BY <3>3, <3>4
  <2>3. CASE ~Filtered(t)
    <3>1. paid = 0 /\ queued = 0 /\ scan' = [scan EXCEPT !.beam = d]
      BY <2>1, <2>3 DEF paid, queued
    <3>2. scan.cost = [detours |-> scan.cost.detours + queued,
                       expansions |-> scan.cost.expansions + paid]
      BY <1>2, <3>1
    <3> QED BY <1>2, <3>1, <3>2 DEF Scans
  <2> QED BY <2>2, <2>3
<1>8. scan.step = "bottom" => Settled(t, d)
  <2> SUFFICES ASSUME Settled(t, b), Filtered(t), ~Full(t, d), d.detours # 0, d.expansions # 0,
                      NEW n \in d.visited \ (d.frontier \cup d.deferred)
               PROVE  ToSet(Neighbors(t.g, n, t.layer)) \subseteq d.visited
    BY <1>2 DEF Settled, UnderWay, t, b
  <2>1. ~Full(t, b)
    BY <1>2, <1>4, FullStays
  <2>2. b.detours # 0 /\ b.expansions # 0
    BY <1>3, <1>5, <1>6
  <2>3. \A m \in b.visited \ (b.frontier \cup b.deferred) :
          ToSet(Neighbors(t.g, m, t.layer)) \subseteq b.visited
    BY <2>1, <2>2 DEF Settled
  <2>4. n \in b.visited
    BY <1>4
  <2>5. CASE n = c
    BY <1>4, <2>5
  <2>6. CASE n # c
    BY <1>4, <2>3, <2>4, <2>6
  <2> QED BY <2>5, <2>6
<1>9. b.visited \subseteq d.visited
  BY <1>4
<1> DEFINE n == scan'
<1>10. n = [scan EXCEPT !.beam = d, !.cost = [detours |-> scan.cost.detours + queued,
                                              expansions |-> scan.cost.expansions + paid]]
  BY <1>7
<1> HIDE DEF n
<1>11. /\ d \in Walks(Task, Tall(graph, scan.layer)) /\ scan.beam.visited \subseteq d.visited
       /\ queued \in Nat /\ paid \in Nat
       /\ paid + d.expansions = scan.beam.expansions /\ queued + d.detours = scan.beam.detours
       /\ scan.step = "bottom" => Settled(Task, d)
  BY <1>4, <1>6, <1>8, <1>9 DEF t, b
<1>12. Grounded(graph) /\ Good(graph, scan) /\ ~Resting
  BY <1>1
<1>13. Good(graph, n) /\ n.step = scan.step /\ n.seeds = scan.seeds
  BY ONLY <1>10, <1>11, <1>12, GoesOnOK, ZenonT(40)
<1> QED BY <1>13 DEF n

\* The rescue goes back to what never bridged out, and then nothing is left behind either.
LEMMA WalkAgainOK ==
  ASSUME Grounded(graph), Good(graph, scan), WalkAgain
  PROVE  Good(graph, scan') /\ scan'.step = scan.step /\ scan'.seeds = scan.seeds
<1> DEFINE t == Task
           b == scan.beam
           p == Pop(t, b)
           d == Rescue(t, p)
           W == Tall(graph, scan.layer)
           queued == Cardinality(d.frontier \ p.frontier)
<1>1. ~Resting /\ ~GoesOn(t, b) /\ Rescues(t, b) /\ Rescued = d
  BY DEF WalkAgain, Progressed, Rescued
<1>2. /\ Walkable(t, W) /\ b \in Walks(t, W) /\ scan \in Scans /\ UnderWay(graph, scan)
      /\ Sound(graph) /\ scan.layer \in Nat /\ Task = TaskOf(graph, scan)
      /\ scan.cost \in [detours : Nat, expansions : Nat]
  BY <1>1, SearchingOK, ScanFields
<1>3. scan' = [scan EXCEPT !.beam = d, !.cost = [detours |-> scan.cost.detours + queued,
                                                 expansions |-> scan.cost.expansions + 0]]
  <2>1. scan' = [scan EXCEPT !.beam = d, !.cost.detours = @ + queued]
    BY <1>1 DEF WalkAgain
  <2> HIDE DEF t, d, p, b, queued
  <2>2. [scan.cost EXCEPT !.detours = @ + queued] =
        [detours |-> scan.cost.detours + queued, expansions |-> scan.cost.expansions + 0]
    BY <1>2
  <2>3. scan' = [scan EXCEPT !.beam = d, !.cost = [scan.cost EXCEPT !.detours = @ + queued]]
    BY <1>2, <2>1 DEF Scans
  <2> QED BY <2>2, <2>3
<1> HIDE DEF t, b
<1>4. b \in Beams /\ b.detours \in Nat /\ b.expansions \in Nat
  BY <1>2, WalksTyped DEF Beams
<1>5. /\ p \in Walks(t, W) /\ p.visited = b.visited /\ p.results = b.results
      /\ p.deferred = b.deferred /\ p.detours = b.detours /\ p.expansions = b.expansions
      /\ b.frontier = {} => p.frontier = {}
  BY <1>2, PopOK
<1> HIDE DEF p
<1>6. /\ d \in Walks(t, W) /\ p.visited \subseteq d.visited
      /\ d.deferred = {} /\ d.expansions = p.expansions
      /\ ~Full(t, d) => d.visited \ p.visited \subseteq d.frontier
      /\ IsFiniteSet(d.frontier \ p.frontier)
      /\ Cardinality(d.frontier \ p.frontier) + d.detours = p.detours
      /\ d.detours # 0 =>
           \A id \in p.deferred : ToSet(Neighbors(t.g, id, t.layer)) \subseteq d.visited
  BY <1>2, <1>5, RescueOK
<1>7. d.detours \in Nat /\ d.expansions \in Nat
  BY <1>2, <1>6, WalksTyped DEF Beams
<1> HIDE DEF d
<1>8. /\ 0 \in Nat /\ queued \in Nat /\ 0 + d.expansions = b.expansions
      /\ queued + d.detours = b.detours
  BY <1>4, <1>5, <1>6, <1>7, FS_CardinalityType
<1> HIDE DEF queued
<1>9. scan.step = "bottom" => Settled(t, d)
  <2> SUFFICES ASSUME Settled(t, b), Filtered(t), ~Full(t, d), d.detours # 0, d.expansions # 0,
                      NEW n \in d.visited \ (d.frontier \cup d.deferred)
               PROVE  ToSet(Neighbors(t.g, n, t.layer)) \subseteq d.visited
    BY <1>2 DEF Settled, UnderWay, t, b
  <2>1. ~Full(t, b)
    BY <1>2, <1>5, <1>6, FullStays
  <2>2. b.detours # 0 /\ b.expansions > 0
    BY <1>4, <1>7, <1>8
  <2>3. b.frontier = {}
    BY <1>1, <2>1, <2>2 DEF GoesOn, CutOff
  <2>4. \A m \in b.visited \ b.deferred : ToSet(Neighbors(t.g, m, t.layer)) \subseteq b.visited
    BY <2>1, <2>2, <2>3, <1>4 DEF Settled
  <2>5. n \in b.visited
    BY <1>5, <1>6
  <2> QED BY <1>5, <1>6, <2>4, <2>5
<1>10. b.visited \subseteq d.visited
  BY <1>5, <1>6
<1> DEFINE n == scan'
<1>11. n = [scan EXCEPT !.beam = d, !.cost = [detours |-> scan.cost.detours + queued,
                                              expansions |-> scan.cost.expansions + 0]]
  BY <1>3
<1> HIDE DEF n
<1>12. /\ d \in Walks(Task, Tall(graph, scan.layer)) /\ scan.beam.visited \subseteq d.visited
       /\ queued \in Nat /\ 0 \in Nat
       /\ 0 + d.expansions = scan.beam.expansions /\ queued + d.detours = scan.beam.detours
       /\ scan.step = "bottom" => Settled(Task, d)
  BY <1>6, <1>8, <1>9, <1>10 DEF t, b
<1>13. Grounded(graph) /\ Good(graph, scan) /\ ~Resting
  BY <1>1
<1>14. Good(graph, n) /\ n.step = scan.step /\ n.seeds = scan.seeds
  BY ONLY <1>11, <1>12, <1>13, GoesOnOK, ZenonT(40)
<1> QED BY <1>14 DEF n

-----------------------------------------------------------------------------
(* A layer ends.                                                           *)

\* A foothold is kept until the rows are there.
FootKept(s, n) ==
  s.seeds # <<>> => IF n.step = "ranked" THEN n.out # <<>> ELSE n.seeds # <<>>

\* What a walk has found.
LEMMA FoundOK ==
  ASSUME Grounded(graph), Good(graph, scan), ~Resting
  PROVE  /\ Found \in Seq(Tall(graph, scan.layer)) /\ Found \in Seq(scan.beam.results)
         /\ Len(Found) <= Task.ef
         /\ \A id \in ToSet(Found) :
              id \in Live(graph) /\ (Filtered(Task) => id \in scan.filter)
         /\ \A k \in 1 .. Len(Found) :
              /\ Found[k] \in Live(graph)
              /\ \A j \in 1 .. k - 1 : Nearer(graph, scan.query, Found[j], Found[k])
         /\ scan.step # "navigate" => FootKept(scan, [scan EXCEPT !.seeds = Found])
<1> DEFINE b == scan.beam
           W == Tall(graph, scan.layer)
<1>1. /\ Sound(graph) /\ UnderWay(graph, scan) /\ scan \in Scans
      /\ scan.step \in Searching /\ scan.layer \in Nat /\ scan.layer <= graph.top
      /\ Walkable(Task, W) /\ b \in Walks(Task, W) /\ Task = TaskOf(graph, scan)
      /\ Filtered(Task) <=> (scan.filter # Unfiltered /\ scan.step # "navigate")
      /\ Task.filter = IF scan.step = "navigate" THEN Unfiltered ELSE scan.filter
      /\ Task.g = graph /\ Task.query = scan.query
      /\ Task.ef = IF scan.step = "bottom" THEN scan.ef ELSE 1
  BY SearchingOK
<1>2. Placed(graph) /\ scan.query \in Points /\ W \subseteq Ids(graph) /\ Task.ef \in Nat \ {0}
  BY <1>1, ScanFields DEF Walkable
<1>3. b.results \subseteq Seen(Task, b) /\ Cardinality(b.results) <= Task.ef
      /\ b.results \subseteq W /\ Seen(Task, b) \subseteq W
  <2>1. HoldsNearest(Task, b.results, Seen(Task, b)) /\ b \in BeamsOver(W)
    BY <1>1 DEF Walks
  <2>2. Cardinality(Seen(Task, b)) \in Nat
    BY <1>1, FullWhenSeen
  <2>3. Seen(Task, b) \subseteq W
    BY <2>1 DEF Seen, BeamsOver
  <2> QED BY <1>2, <2>1, <2>2, <2>3 DEF HoldsNearest
<1>4. b.results \in SUBSET Ids(graph)
  BY <1>2, <1>3
<1>5. Found = Ranked(graph, scan.query, b.results)
  BY DEF Found
<1>6. /\ Cardinality(b.results) \in Nat /\ Found \in Seq(b.results)
      /\ Len(Found) = Cardinality(b.results)
      /\ \A k \in 1 .. Cardinality(b.results) : Found[k] \in b.results
      /\ \A j, k \in 1 .. Cardinality(b.results) :
           j < k => Nearer(graph, scan.query, Found[j], Found[k])
  BY <1>2, <1>4, <1>5, RankedOK
<1>7. \A id \in b.results : id \in Live(graph) /\ (Filtered(Task) => id \in scan.filter)
  BY <1>1, <1>3, <1>4 DEF Seen, Admissible, Matches, Live, Filtered
<1>8. ToSet(Found) \subseteq b.results
  BY <1>6 DEF ToSet
<1>9. Found \in Seq(W)
  BY <1>3, <1>6
<1>10. ASSUME scan.step # "navigate", scan.seeds # <<>> PROVE Found # <<>>
  <2>1. /\ scan.seeds \in Seq(Nodes) /\ ToSet(scan.seeds) \subseteq b.visited
        /\ \A id \in ToSet(scan.seeds) :
             id \notin graph.dead /\ (scan.filter # Unfiltered => id \in scan.filter)
    BY <1>1, <1>10, ScanFields DEF UnderWay, Footed
  <2>2. PICK id : id \in ToSet(scan.seeds)
    <3>1. 1 \in DOMAIN scan.seeds
      BY <1>10, <2>1
    <3> QED BY <3>1 DEF ToSet
  <2>3. id \in Seen(Task, b)
    BY <1>1, <2>1, <2>2 DEF Seen, Admissible, Matches, Filtered
  <2>4. b.results # {}
    BY <1>1, <2>3, FullWhenSeen
  <2>5. Cardinality(b.results) # 0
    BY <1>2, <1>4, <2>4, IdsFinite, FS_EmptySet
  <2> QED BY <1>6, <2>5
<1>11. scan.step # "navigate" => FootKept(scan, [scan EXCEPT !.seeds = Found])
  <2>1. [scan EXCEPT !.seeds = Found].seeds = Found
        /\ [scan EXCEPT !.seeds = Found].step = scan.step
    BY <1>1 DEF Scans
  <2>2. scan.step # "ranked"
    BY <1>1 DEF Searching
  <2> QED BY <1>10, <2>1, <2>2 DEF FootKept
<1>12. /\ Len(Found) <= Task.ef
       /\ \A id \in ToSet(Found) : id \in Live(graph) /\ (Filtered(Task) => id \in scan.filter)
  BY <1>3, <1>6, <1>7, <1>8
<1>13. \A k \in 1 .. Len(Found) :
         /\ Found[k] \in Live(graph)
         /\ \A j \in 1 .. k - 1 : Nearer(graph, scan.query, Found[j], Found[k])
  <2>1. \A k \in 1 .. Len(Found) : \A j \in 1 .. k - 1 : j \in 1 .. Len(Found) /\ j < k
    BY <1>6
  <2> QED BY <1>6, <1>7, <2>1
<1> QED BY <1>6, <1>9, <1>11, <1>12, <1>13

\* The scan with other nodes to start from.
From(nav, seeds) == [scan EXCEPT !.nav = nav, !.seeds = seeds]

\* The search under way may start a layer again, from what it has found.
LEMMA ReadyAgain ==
  ASSUME Grounded(graph), Good(graph, scan), ~Resting, scan.step # "bottom",
         NEW nav \in Seq(Tall(graph, scan.layer)),
         NEW seeds \in Seq(Tall(graph, scan.layer)),
         \A id \in ToSet(seeds) :
           id \notin graph.dead /\ (scan.filter # Unfiltered => id \in scan.filter)
  PROVE  LET s == From(nav, seeds) IN
         Ready(s, s.layer, scan.beam) /\ s.layer # 0 /\ s.seeds = seeds
<1> DEFINE s == From(nav, seeds)
<1>0. s = [scan EXCEPT !.nav = nav, !.seeds = seeds]
  BY DEF From
<1> HIDE DEF s
<1>1. /\ Sound(graph) /\ UnderWay(graph, scan) /\ scan \in Scans
      /\ scan.layer \in Nat /\ scan.layer <= graph.top /\ scan.beam \in Beams
  BY SearchingOK, ScanFields
<1>2. /\ Tall(graph, scan.layer) \subseteq Nodes
      /\ scan.layer \in 1 .. graph.top /\ scan.out = <<>> /\ Footed(graph, scan, scan.layer)
      /\ Affordable(scan, scan.beam, FALSE) /\ scan.beam.detours \in Nat
      /\ scan.beam.expansions \in Nat /\ Asked(scan)
  <2>1. Tall(graph, scan.layer) \subseteq Nodes
    BY <1>1, SoundTall
  <2> QED BY <1>1, <2>1 DEF UnderWay, Good, Beams
<1>3. scan.cursor = 0
  <2>1. scan.cursor \in Nat /\ scan.cursor <= Len(scan.out)
    BY <1>1, ScanFields DEF Good
  <2> QED BY <1>2, <2>1
<1>4. nav \in Seq(Nodes) /\ seeds \in Seq(Nodes)
  BY <1>2
<1>5. /\ s \in Scans /\ s.nav = nav /\ s.seeds = seeds /\ s.layer = scan.layer
      /\ s.query = scan.query /\ s.ef = scan.ef /\ s.keys = scan.keys
      /\ s.filter = scan.filter /\ s.recheck = scan.recheck /\ s.cost = scan.cost
      /\ s.out = scan.out /\ s.cursor = scan.cursor
  BY <1>0, <1>1, <1>4 DEF Scans
<1>6. Footed(graph, s, s.layer) /\ Asked(s) /\ Affordable(s, scan.beam, FALSE)
  BY <1>2, <1>5 DEF Footed, Asked, Affordable
<1>7. s.layer \in Nat /\ s.layer <= graph.top /\ s.layer # 0 /\ s.out = <<>> /\ s.cursor = 0
  BY <1>1, <1>2, <1>3, <1>5
<1>8. Ready(s, s.layer, scan.beam)
  BY <1>2, <1>5, <1>6, <1>7 DEF Ready
<1> QED BY <1>5, <1>7, <1>8 DEF s

\* An update that says again what is there.
LEMMA SameAgain ==
  ASSUME NEW s \in Scans
  PROVE  /\ s = [s EXCEPT !.nav = s.nav, !.seeds = s.seeds]
         /\ \A nav : [s EXCEPT !.nav = nav] = [s EXCEPT !.nav = nav, !.seeds = s.seeds]
         /\ \A seeds : [s EXCEPT !.seeds = seeds] = [s EXCEPT !.nav = s.nav, !.seeds = seeds]
BY DEF Scans

\* Navigation ends: the probe of this layer is next, or the layer below.
LEMMA EndNavigateOK ==
  ASSUME Grounded(graph), Good(graph, scan), EndNavigate
  PROVE  Good(graph, scan') /\ FootKept(scan, scan')
<1> DEFINE nav == IF Found = <<>> THEN scan.nav ELSE <<Found[1]>>
           s == [scan EXCEPT !.nav = nav]
<1>1. scan.step = "navigate" /\ ~Resting
  BY DEF EndNavigate, WalkEnds, Resting, Searching
<1>2. /\ Sound(graph) /\ UnderWay(graph, scan) /\ scan \in Scans
  BY <1>1, SearchingOK
<1>3. Footed(graph, scan, scan.layer) /\ Found \in Seq(Tall(graph, scan.layer))
  BY <1>1, <1>2, FoundOK DEF UnderWay
<1>4. nav \in Seq(Tall(graph, scan.layer))
  <2>1. CASE Found = <<>>
    BY <1>3, <2>1 DEF Footed
  <2>2. CASE Found # <<>>
    <3>1. Found[1] \in Tall(graph, scan.layer)
      BY <1>3, <2>2
    <3> HIDE DEF nav
    <3>2. nav = <<Found[1]>>
      BY <2>2 DEF nav
    <3> QED BY <3>1, <3>2
  <2> QED BY <2>1, <2>2
<1>5. scan' = IF s.filter = Unfiltered THEN Below(s, s.beam) ELSE Probe(s, s.beam)
  BY DEF EndNavigate
<1> HIDE DEF nav
<1>6. s.beam = scan.beam /\ s = From(nav, scan.seeds)
  BY <1>2, SameAgain DEF Scans, From
<1> HIDE DEF s
<1>7. Ready(s, s.layer, scan.beam) /\ s.layer # 0 /\ s.seeds = scan.seeds
  <2>1. scan.seeds \in Seq(Tall(graph, scan.layer))
        /\ \A id \in ToSet(scan.seeds) :
             id \notin graph.dead /\ (scan.filter # Unfiltered => id \in scan.filter)
    BY <1>3 DEF Footed
  <2>2. scan.step # "bottom"
    BY <1>1
  <2> QED BY <1>1, <1>4, <1>6, <2>1, <2>2, ReadyAgain
<1>8. Good(graph, scan') /\ scan'.step # "ranked" /\ scan'.seeds = scan.seeds
  <2>1. CASE s.filter = Unfiltered
    <3>1. scan' = Below(s, scan.beam)
      BY <1>5, <1>6, <2>1
    <3>2. /\ Good(graph, Below(s, scan.beam)) /\ Below(s, scan.beam).seeds = s.seeds
          /\ Below(s, scan.beam).step \in {"navigate", "bottom"}
      BY <1>2, <1>7, BelowOK
    <3> QED BY <1>7, <3>1, <3>2
  <2>2. CASE s.filter # Unfiltered
    <3>1. scan' = Probe(s, scan.beam)
      BY <1>5, <1>6, <2>2
    <3>2. /\ Good(graph, Probe(s, scan.beam)) /\ Probe(s, scan.beam).seeds = s.seeds
          /\ Probe(s, scan.beam).step = "probe"
      BY <1>2, <1>7, ProbeOK
    <3> QED BY <1>7, <3>1, <3>2
  <2> QED BY <2>1, <2>2
<1> QED BY <1>8 DEF FootKept

\* A probe ends with a foothold, if it found one and if there was one before.
LEMMA EndProbeOK ==
  ASSUME Grounded(graph), Good(graph, scan), EndProbe
  PROVE  Good(graph, scan') /\ FootKept(scan, scan')
<1> DEFINE s == [scan EXCEPT !.seeds = Found]
<1>1. scan.step = "probe" /\ ~Resting
  BY DEF EndProbe, WalkEnds, Resting, Searching
<1>2. /\ Sound(graph) /\ UnderWay(graph, scan) /\ scan \in Scans
      /\ Filtered(Task) <=> (scan.filter # Unfiltered /\ scan.step # "navigate")
  BY <1>1, SearchingOK
<1>3. /\ Footed(graph, scan, scan.layer) /\ Found \in Seq(Tall(graph, scan.layer))
      /\ \A id \in ToSet(Found) : id \in Live(graph) /\ (Filtered(Task) => id \in scan.filter)
      /\ FootKept(scan, s)
  BY <1>1, <1>2, FoundOK DEF UnderWay
<1>4. scan' = Below(s, scan.beam)
  BY DEF EndProbe
<1>5. s = From(scan.nav, Found) /\ s.step = "probe"
  BY <1>1, <1>2, SameAgain DEF Scans, From
<1> HIDE DEF s
<1>6. Ready(s, s.layer, scan.beam) /\ s.layer # 0 /\ s.seeds = Found
  <2>1. scan.nav \in Seq(Tall(graph, scan.layer))
        /\ \A id \in ToSet(Found) :
             id \notin graph.dead /\ (scan.filter # Unfiltered => id \in scan.filter)
    BY <1>1, <1>2, <1>3 DEF Footed, Live
  <2>2. scan.step # "bottom"
    BY <1>1
  <2> QED BY <1>1, <1>3, <1>5, <2>1, <2>2, ReadyAgain
<1>7. Good(graph, scan') /\ scan'.step \in {"navigate", "bottom"} /\ scan'.seeds = s.seeds
  BY <1>2, <1>4, <1>6, BelowOK
<1> QED BY <1>3, <1>5, <1>7 DEF FootKept

\* The rows are there.
LEMMA EndBottomOK ==
  ASSUME Grounded(graph), Good(graph, scan), EndBottom
  PROVE  Good(graph, scan') /\ FootKept(scan, scan')
<1> DEFINE n == scan'
<1>1. scan.step = "bottom" /\ ~Resting
  BY DEF EndBottom, WalkEnds, Resting, Searching
<1>2. /\ Sound(graph) /\ UnderWay(graph, scan) /\ scan \in Scans
      /\ Filtered(Task) <=> (scan.filter # Unfiltered /\ scan.step # "navigate")
      /\ Task.ef = scan.ef
  BY <1>1, SearchingOK
<1>3. /\ Found \in Seq(Tall(graph, scan.layer)) /\ Len(Found) <= scan.ef
      /\ \A id \in ToSet(Found) : id \in Live(graph) /\ (Filtered(Task) => id \in scan.filter)
      /\ \A k \in 1 .. Len(Found) :
           /\ Found[k] \in Live(graph)
           /\ \A j \in 1 .. k - 1 : Nearer(graph, scan.query, Found[j], Found[k])
      /\ FootKept(scan, [scan EXCEPT !.seeds = Found])
  BY <1>1, <1>2, FoundOK
<1>4. n = [scan EXCEPT !.step = "ranked", !.out = Found, !.beam = NoBeam]
  BY DEF EndBottom
<1>5. NoBeam \in Beams /\ NoBeam.visited = {} /\ Found \in Seq(Nodes)
  <2>1. Tall(graph, scan.layer) \subseteq Nodes
    BY <1>2, SoundTall, ScanFields
  <2> QED BY <1>3, <2>1 DEF NoBeam, Fresh, Beams
<1> HIDE DEF n
<1>6. /\ n \in Scans /\ n.step = "ranked" /\ n.layer = scan.layer /\ n.beam = NoBeam
      /\ n.query = scan.query /\ n.ef = scan.ef /\ n.keys = scan.keys
      /\ n.filter = scan.filter /\ n.recheck = scan.recheck /\ n.nav = scan.nav
      /\ n.seeds = scan.seeds /\ n.out = Found /\ n.cursor = scan.cursor
      /\ n.cost = scan.cost
  <2>1. "ranked" \in Steps
    BY DEF Steps, Open
  <2> HIDE DEF Steps, Beams, NoBeam
  <2> QED BY <1>2, <1>4, <1>5, <2>1 DEF Scans
<1>7. n.cursor <= Len(n.out)
  <2>1. scan.cursor <= 0 /\ scan.cursor \in Nat /\ Len(Found) \in Nat
    BY <1>2, <1>3, ScanFields DEF Good, UnderWay
  <2> QED BY <1>6, <2>1
<1>8. Answers(graph, n) /\ Asked(n)
  <2>1. \A row \in ToSet(n.out) : /\ row \in Live(graph) \cup ToSet(Unrankable)
                                  /\ n.filter # Unfiltered => row \in n.filter
    BY <1>1, <1>2, <1>3, <1>6
  <2>2. Asked(scan)
    BY DEF Good
  <2> QED BY <1>3, <1>6, <2>1, <2>2 DEF Answers, Asked
<1>9. n.step \notin Searching
  BY <1>6 DEF Searching
<1>10. Good(graph, n)
  <2>1. /\ scan.layer <= graph.top /\ scan.nav \in Seq(Ids(graph))
        /\ scan.seeds \in Seq(Ids(graph))
        /\ scan.cost.expansions <= EXPANSIONS_PER_EF * scan.ef
        /\ scan.cost.detours <= 2 * (DETOURS_PER_EF * scan.ef)
    BY DEF Good
  <2> QED BY <1>5, <1>6, <1>7, <1>8, <1>9, <2>1 DEF Good
<1>11. FootKept(scan, n)
  <2>1. [scan EXCEPT !.seeds = Found].seeds = Found
        /\ [scan EXCEPT !.seeds = Found].step = "bottom"
    BY <1>1, <1>2 DEF Scans
  <2> QED BY <1>3, <1>6, <2>1 DEF FootKept
<1> QED BY <1>10, <1>11 DEF n

-----------------------------------------------------------------------------
(* A scan that is not searching.                                           *)

\* A scan as a descriptor begins, but for its step and its rows.
Rested(n) ==
  /\ n \in Scans /\ Asked(n) /\ n.step \notin Searching /\ n.layer = 0
  /\ n.nav = <<>> /\ n.seeds = <<>> /\ n.beam = NoBeam
  /\ n.cost = [detours |-> 0, expansions |-> 0] /\ n.cursor = 0

\* It is good if its rows are.
LEMMA RestedOK ==
  ASSUME Grounded(graph), NEW n, Rested(n), Answers(graph, n)
  PROVE  Good(graph, n)
<1>1. /\ n \in Scans /\ Asked(n) /\ n.step \notin Searching /\ n.layer = 0
      /\ n.nav = <<>> /\ n.seeds = <<>> /\ n.beam = NoBeam
      /\ n.cost.detours = 0 /\ n.cost.expansions = 0 /\ n.cursor = 0
  BY DEF Rested
<1>2. DETOURS_PER_EF * n.ef \in Nat /\ EXPANSIONS_PER_EF * n.ef \in Nat /\ graph.top \in Nat
      /\ Len(n.out) \in Nat
  <2>1. n.ef \in Nat /\ n.out \in Seq(Nodes)
    BY <1>1, ScanFields
  <2>2. graph.top \in Nat
    BY SoundTall DEF Grounded
  <2>3. Len(n.out) \in Nat
    BY <2>1
  <2>4. DETOURS_PER_EF * n.ef \in Nat /\ EXPANSIONS_PER_EF * n.ef \in Nat
    BY ONLY <2>1, AllowanceOK
  <2> QED BY <2>2, <2>3, <2>4
<1>3. n.beam.visited = {}
  BY <1>1 DEF NoBeam, Fresh
<1>4. n.cost.expansions <= EXPANSIONS_PER_EF * n.ef
  <2> DEFINE E == EXPANSIONS_PER_EF * n.ef
  <2> HIDE DEF E
  <2>1. n.cost.expansions <= E
    BY <1>1, <1>2 DEF E
  <2> QED BY <2>1 DEF E
<1>5. n.cost.detours <= 2 * (DETOURS_PER_EF * n.ef)
  <2> DEFINE A == DETOURS_PER_EF * n.ef
  <2> HIDE DEF A
  <2>1. n.cost.detours <= 2 * A
    BY <1>1, <1>2 DEF A
  <2> QED BY <2>1 DEF A
<1>6. n.layer <= graph.top /\ n.cursor <= Len(n.out)
  BY <1>1, <1>2
<1>7. n.nav \in Seq(Ids(graph)) /\ n.seeds \in Seq(Ids(graph))
  BY <1>1
<1> QED BY <1>1, <1>3, <1>4, <1>5, <1>6, <1>7 DEF Good

\* A scan begins with nothing.
LEMMA IdleOK ==
  ASSUME NEW q \in Points, NEW keys \in WhereClauses, NEW ef \in Nat \ {0}
  PROVE  LET n == Idle(q, keys, ef) IN
         /\ Rested(n) /\ n.out = <<>> /\ n.step = "idle"
         /\ n.query = q /\ n.keys = keys /\ n.ef = ef /\ n.filter = Filter(keys)
<1> DEFINE n == Idle(q, keys, ef)
<1>1. NoBeam \in Beams
  BY DEF NoBeam, Fresh, Beams
<1>2. "idle" \in Steps /\ "idle" \notin Searching
  BY DEF Steps, Open, Searching
<1>3. Filter(keys) \in {Unfiltered} \cup SUBSET DOMAIN Attributes /\ Recheck(keys) \in BOOLEAN
  BY FilterOK
<1> HIDE DEF Steps, Beams, NoBeam
<1>4. n \in Scans
  <2>1. <<>> \in Seq(Nodes) /\ 0 \in Nat
    OBVIOUS
  <2>2. [detours |-> 0, expansions |-> 0] \in [detours : Nat, expansions : Nat]
    OBVIOUS
  <2> QED BY <1>1, <1>2, <1>3, <2>1, <2>2 DEF Idle, Scans
<1>5. /\ n.step = "idle" /\ n.layer = 0 /\ n.query = q /\ n.ef = ef /\ n.keys = keys
      /\ n.filter = Filter(keys) /\ n.recheck = Recheck(keys) /\ n.nav = <<>> /\ n.seeds = <<>>
      /\ n.beam = NoBeam /\ n.cost = [detours |-> 0, expansions |-> 0]
      /\ n.out = <<>> /\ n.cursor = 0
  BY DEF Idle
<1> HIDE DEF n
<1>6. Rested(n)
  BY <1>2, <1>4, <1>5 DEF Rested, Asked
<1> QED BY <1>5, <1>6 DEF n

\* The scan at another step,
Stepped(s, step) == [s EXCEPT !.step = step]
\* and with its rows.
Landed(s, step, out) == [s EXCEPT !.step = step, !.out = out]

\* A scan that has rows.
LEMMA LandedOK ==
  ASSUME NEW s, Rested(s), NEW step \in Steps \ Searching, NEW out \in Seq(Nodes)
  PROVE  LET n == Landed(s, step, out) IN
         Rested(n) /\ n.out = out /\ n.step = step /\ n.filter = s.filter
<1> DEFINE n == Landed(s, step, out)
<1>1. s \in Scans
  BY DEF Rested
<1> HIDE DEF Steps
<1>2. /\ n \in Scans /\ n.step = step /\ n.out = out /\ n.layer = s.layer /\ n.keys = s.keys
      /\ n.filter = s.filter /\ n.recheck = s.recheck /\ n.nav = s.nav
      /\ n.seeds = s.seeds /\ n.beam = s.beam /\ n.cost = s.cost /\ n.cursor = s.cursor
  BY <1>1 DEF Scans, Landed
<1> HIDE DEF n
<1>3. Rested(n)
  BY <1>2 DEF Rested, Asked
<1> QED BY <1>2, <1>3 DEF n

\* A scan that has none.
LEMMA SteppedOK ==
  ASSUME NEW s, Rested(s), s.out = <<>>, NEW step \in Steps \ Searching
  PROVE  LET n == Stepped(s, step) IN Rested(n) /\ n.out = <<>> /\ n.step = step
<1>1. <<>> \in Seq(Nodes) /\ s \in Scans
  BY DEF Rested
<1>2. Stepped(s, step) = Landed(s, step, <<>>)
  BY <1>1 DEF Stepped, Landed, Scans
<1> DEFINE none == <<>>
<1>3. none \in Seq(Nodes) /\ Stepped(s, step) = Landed(s, step, none)
  BY <1>1, <1>2
<1>4. none = <<>>
  OBVIOUS
<1> HIDE DEF none
<1>5. Rested(Landed(s, step, none)) /\ Landed(s, step, none).out = none
      /\ Landed(s, step, none).step = step
  BY <1>3, LandedOK
<1> QED BY <1>3, <1>4, <1>5

\* No rows are in order, and match.
LEMMA NoRowsOK ==
  ASSUME NEW n, n.out = <<>>, n.step # "unordered", n \in Scans
  PROVE  Answers(graph, n)
<1>1. n.ef \in Nat /\ Len(n.out) = 0 /\ ToSet(n.out) = {} /\ \A k \in 1 .. 0 : FALSE
  BY ScanFields DEF ToSet
<1> QED BY <1>1 DEF Answers

\* A descriptor without a request is good.
LEMMA BlankOK ==
  ASSUME Grounded(graph), NEW step \in Steps \ Searching, step # "unordered"
  PROVE  Good(graph, Blank(step)) /\ Blank(step).step = step
<1> DEFINE q == CHOOSE q \in Queries : TRUE
           s == Idle(q, {}, 1)
<1>1. q \in Points /\ {} \in WhereClauses /\ 1 \in Nat \ {0}
  BY ScanAssumption
<1>2. Rested(s) /\ s.out = <<>>
  BY <1>1, IdleOK
<1>3. Blank(step) = Stepped(s, step)
  BY DEF Blank, Stepped
<1> HIDE DEF s
<1>4. Rested(Blank(step)) /\ Blank(step).out = <<>> /\ Blank(step).step = step
  BY <1>2, <1>3, SteppedOK
<1>5. Answers(graph, Blank(step))
  BY <1>4, NoRowsOK DEF Rested
<1> QED BY <1>4, <1>5, RestedOK

\* A ranked scan begins at the entry point, or is over if there is none.
LEMMA RescanOK ==
  ASSUME Grounded(graph), NEW q \in Queries, NEW keys \in WhereClauses, NEW ef \in Budgets,
         Rescan(q, keys, ef)
  PROVE  Good(graph, scan')
<1> DEFINE idle == Idle(q, keys, ef)
           s == [idle EXCEPT !.nav = <<graph.entry>>]
           full == IF s.filter = Unfiltered THEN NoBeam
                   ELSE [NoBeam EXCEPT !.detours = DETOURS_PER_EF * ef,
                                       !.expansions = EXPANSIONS_PER_EF * ef]
<1>1. scan' = IF graph.entry = 0 THEN [idle EXCEPT !.step = "ranked"]
              ELSE IF graph.top > 0 THEN Navigate(s, graph.top, full) ELSE Bottom(s, full)
  BY DEF Rescan
<1>2. q \in Points /\ ef \in Nat \ {0} /\ Sound(graph)
  BY ScanAssumption DEF Grounded
<1>3. /\ Rested(idle) /\ idle.out = <<>> /\ idle.step = "idle"
      /\ idle.ef = ef /\ idle.filter = Filter(keys)
  BY <1>2, IdleOK
<1> HIDE DEF idle
<1>4. CASE graph.entry = 0
  <2>1. "ranked" \in Steps \ Searching /\ scan' = Stepped(idle, "ranked")
    BY <1>1, <1>4 DEF Steps, Open, Searching, Stepped
  <2>2. Rested(scan') /\ scan'.out = <<>> /\ scan'.step = "ranked"
    BY <1>3, <2>1, SteppedOK
  <2>3. Answers(graph, scan')
    BY <2>2, NoRowsOK DEF Rested
  <2> QED BY <2>2, <2>3, RestedOK
<1>5. CASE graph.entry # 0
  <2>1. graph.top \in Nat /\ graph.entry \in Tall(graph, graph.top)
        /\ Tall(graph, graph.top) \subseteq Nodes
    <3>1. graph.top \in Nat /\ Ids(graph) \subseteq Nodes
          /\ Tall(graph, graph.top) \subseteq Ids(graph)
      BY <1>2, SoundTall
    <3> QED BY <1>2, <1>5, <3>1 DEF Sound, Entered, Tall
  <2>2. /\ s \in Scans /\ s.nav = <<graph.entry>> /\ s.seeds = <<>> /\ s.out = <<>>
        /\ s.cursor = 0 /\ s.filter = Filter(keys) /\ s.ef = ef
        /\ s.cost.detours = 0 /\ s.cost.expansions = 0 /\ s.keys = idle.keys
        /\ s.recheck = idle.recheck
    <3>1. graph.entry \in Nodes
      BY <2>1
    <3>2. <<graph.entry>> \in Seq(Nodes)
      BY <3>1
    <3>3. idle \in Scans
      BY <1>3 DEF Rested
    <3>4. s \in Scans /\ s.nav = <<graph.entry>> /\ s.seeds = idle.seeds /\ s.out = idle.out
          /\ s.cursor = idle.cursor /\ s.filter = idle.filter /\ s.ef = idle.ef
          /\ s.cost = idle.cost /\ s.keys = idle.keys /\ s.recheck = idle.recheck
      BY <3>2, <3>3 DEF Scans
    <3>5. idle.seeds = <<>> /\ idle.cursor = 0 /\ idle.cost.detours = 0
          /\ idle.cost.expansions = 0
      BY <1>3 DEF Rested
    <3> HIDE DEF s
    <3> QED BY <1>3, <3>4, <3>5
  <2>3. /\ DETOURS_PER_EF * ef \in Nat /\ EXPANSIONS_PER_EF * ef \in Nat
    BY <1>2, AllowanceOK
  <2> DEFINE A == DETOURS_PER_EF * ef
             E == EXPANSIONS_PER_EF * ef
  <2>4. full = IF s.filter = Unfiltered THEN NoBeam
               ELSE [NoBeam EXCEPT !.detours = A, !.expansions = E]
    OBVIOUS
  <2>5. Asked(s)
    BY <1>3, <2>2 DEF Rested, Asked
  <2> HIDE DEF s, full, A, E
  <2>6. /\ full.detours \in Nat /\ full.expansions \in Nat
        /\ 0 + full.detours <= A /\ 0 + full.expansions <= E
    BY <2>3, <2>4 DEF NoBeam, Fresh, A, E
  <2>7. Affordable(s, full, FALSE)
    BY <2>2, <2>6 DEF Affordable, A, E
  <2>8. Footed(graph, s, graph.top)
    <3>1. s.nav \in Seq(Tall(graph, graph.top)) /\ s.seeds \in Seq(Tall(graph, graph.top))
          /\ ToSet(s.seeds) = {}
      BY <2>1, <2>2 DEF ToSet
    <3> QED BY <1>5, <3>1 DEF Footed
  <2>9. Ready(s, graph.top, full)
    <3>1. graph.top <= graph.top
      BY <2>1
    <3> QED BY ONLY <3>1, <2>1, <2>2, <2>5, <2>6, <2>7, <2>8 DEF Ready
  <2>10. CASE graph.top > 0
    <3>1. scan' = Navigate(s, graph.top, full) /\ graph.top # 0
      BY <1>1, <1>5, <2>1, <2>10 DEF s, full, A, E
    <3> QED BY <1>2, <2>9, <3>1, NavigateOK
  <2>11. CASE ~(graph.top > 0)
    <3>1. scan' = Bottom(s, full) /\ graph.top = 0
      BY <1>1, <1>5, <2>1, <2>11 DEF s, full, A, E
    <3>2. Ready(s, 0, full)
      BY <2>9, <3>1
    <3> QED BY <1>2, <3>1, <3>2, BottomOK
  <2> QED BY <2>10, <2>11
<1> QED BY <1>4, <1>5

\* Both halves of a sequence.
LEMMA BothOf ==
  ASSUME NEW X, NEW c \in Seq(X), NEW d \in Seq(X)
  PROVE  c \o d \in Seq(X) /\ ToSet(c \o d) = ToSet(c) \cup ToSet(d)
<1>1. Len(c) \in Nat /\ Len(d) \in Nat /\ c \o d \in Seq(X) /\ Len(c \o d) = Len(c) + Len(d)
  OBVIOUS
<1>2. /\ \A k \in 1 .. Len(c) : (c \o d)[k] = c[k]
      /\ \A k \in 1 .. Len(c \o d) :
           k \in 1 .. Len(c) \/ (k - Len(c) \in 1 .. Len(d) /\ (c \o d)[k] = d[k - Len(c)])
  BY <1>1
<1>3. DOMAIN c = 1 .. Len(c) /\ DOMAIN d = 1 .. Len(d) /\ DOMAIN (c \o d) = 1 .. Len(c \o d)
      /\ 1 .. Len(c) \subseteq 1 .. Len(c \o d)
  BY <1>1
<1> DEFINE e == c \o d
<1>4. ToSet(d) \subseteq ToSet(e)
  BY FromBoth
<1> HIDE DEF e
<1>5. \A k \in DOMAIN c : c[k] = e[k] /\ k \in DOMAIN e
  BY <1>2, <1>3 DEF e
<1>6. \A k \in DOMAIN e : (k \in DOMAIN c /\ e[k] = c[k])
                          \/ (k - Len(c) \in DOMAIN d /\ e[k] = d[k - Len(c)])
  BY <1>2, <1>3 DEF e
<1>7. ToSet(c) \subseteq ToSet(e)
  BY <1>5 DEF ToSet
<1>8. ToSet(e) \subseteq ToSet(c) \cup ToSet(d)
  BY <1>6 DEF ToSet
<1> QED BY <1>1, <1>4, <1>7, <1>8 DEF e

\* A scan that ranks nothing has every match: nodes that are live, and the side table.
LEMMA RescanUnorderedOK ==
  ASSUME Grounded(graph), Good(graph, scan), NEW keys \in WhereClauses, RescanUnordered(keys)
  PROVE  Good(graph, scan')
<1> DEFINE t == Search(graph, scan.query, Filter(keys), 1, 0)
           s == Idle(scan.query, keys, scan.ef)
           all == [k \in Ids(graph) |-> k]
           live == {id \in Ids(graph) : Admissible(t, id)}
           side == {row \in ToSet(Unrankable) : Matches(t, row)}
           out == Select(all, live) \o Select(Unrankable, side)
<1>1. scan' = [s EXCEPT !.step = "unordered", !.out = out]
  BY DEF RescanUnordered
<1>2. scan.query \in Points /\ scan.ef \in Nat \ {0}
  BY ScanFields DEF Good
<1>3. Rested(s) /\ s.out = <<>> /\ s.filter = Filter(keys)
  BY <1>2, IdleOK
<1>4. t.filter = Filter(keys) /\ t.g = graph
  BY DEF Search
<1>5. \A id \in Ids(graph) :
        Admissible(t, id) <=> id \in Live(graph)
                              /\ (Filter(keys) # Unfiltered => id \in Filter(keys))
  BY <1>4 DEF Admissible, Matches, Filtered, Live
<1>6. \A row : Matches(t, row) <=> (Filter(keys) # Unfiltered => row \in Filter(keys))
  BY <1>4 DEF Matches, Filtered
<1>7. Size(graph) \in Nat /\ Ids(graph) \subseteq Nodes /\ Ids(graph) = 1 .. Size(graph)
  BY SoundTall, IdsFinite DEF Grounded, Ids
<1>8. all \in Seq(Nodes) /\ ToSet(all) = Ids(graph)
  <2>1. DOMAIN all = 1 .. Size(graph) /\ \A k \in 1 .. Size(graph) : all[k] = k
    BY <1>7
  <2>2. all \in Seq(Nodes)
    <3>1. all \in [1 .. Size(graph) -> Nodes]
      BY <1>7
    <3> QED BY <1>7, <3>1
  <2> HIDE DEF all
  <2> QED BY <1>7, <2>1, <2>2 DEF ToSet
<1>9. Unrankable \in Seq(Nodes)
  BY ScanAssumption
<1> HIDE DEF t, s, all, live, side
<1>10. /\ Select(all, live) \in Seq(Nodes \cap live)
       /\ ToSet(Select(all, live)) = Ids(graph) \cap live
       /\ Select(Unrankable, side) \in Seq(Nodes \cap side)
       /\ ToSet(Select(Unrankable, side)) = ToSet(Unrankable) \cap side
  BY <1>8, <1>9, SelectOK
<1>11. out \in Seq(Nodes) /\ ToSet(out) = live \cup side
  <2> DEFINE c == Select(all, live)
             d == Select(Unrankable, side)
  <2>1. c \in Seq(Nodes) /\ d \in Seq(Nodes) /\ out = c \o d
        /\ ToSet(c) = live /\ ToSet(d) = side
    BY <1>10 DEF live, side
  <2> HIDE DEF c, d, out
  <2> QED BY <2>1, BothOf
<1> HIDE DEF out
<1>12. /\ Rested(scan') /\ scan'.out = out /\ scan'.step = "unordered"
       /\ scan'.filter = Filter(keys)
  <2>1. "unordered" \in Steps \ Searching /\ scan' = Landed(s, "unordered", out)
    BY <1>1 DEF Steps, Open, Searching, Landed
  <2> QED BY <1>3, <1>11, <2>1, LandedOK
<1>13. ToSet(out) = {row \in Live(graph) \cup ToSet(Unrankable) :
                       Filter(keys) # Unfiltered => row \in Filter(keys)}
  BY <1>5, <1>6, <1>11 DEF live, side, Live
<1>14. Answers(graph, scan')
  BY <1>12, <1>13 DEF Answers
<1> QED BY <1>12, <1>14, RestedOK

-----------------------------------------------------------------------------
(* The scan from step to step.                                             *)

\* A graph that was built is sound, and no scan runs.
LEMMA ScanInvInit == ScanInit => ScanInv
<1> SUFFICES ASSUME ScanInit PROVE ScanInv
  OBVIOUS
<1>1. PICK build \in Builds, buried \in Burials :
        buried \subseteq DOMAIN build /\ graph = [Built(Empty, build) EXCEPT !.dead = buried]
  BY DEF ScanInit
<1> DEFINE g == Built(Empty, build)
<1>2. build \in Seq([at : Points, level : Nat])
      /\ DOMAIN build \cup ToSet(Unrankable) \subseteq DOMAIN Attributes
  BY ScanAssumption
<1>3. Sound(g) /\ Size(g) = Len(build) /\ DOMAIN build = 1 .. Len(build) /\ Ids(g) = DOMAIN build
  <2>1. Sound(Empty) /\ Size(Empty) = 0
    BY EmptySound
  <2>2. Sound(g) /\ Size(g) = Size(Empty) + Len(build)
    BY <1>2, <2>1, BuiltOK
  <2>3. Len(build) \in Nat /\ DOMAIN build = 1 .. Len(build)
    BY <1>2
  <2> HIDE DEF g
  <2> QED BY <2>1, <2>2, <2>3 DEF Ids
<1> HIDE DEF g
<1>4. Sound(graph) /\ Ids(graph) = Ids(g)
  <2>1. Framed(g) /\ Woven(g) /\ Entered(g) /\ Ids(g) \subseteq Nodes
    BY <1>3, FramedOK DEF Sound
  <2>2. graph = [g EXCEPT !.dead = buried]
    BY <1>1 DEF g
  <2>3. /\ graph \in Graphs /\ graph.at = g.at /\ graph.links = g.links
        /\ graph.entry = g.entry /\ graph.top = g.top /\ graph.dead = buried
    BY <1>1, <1>3, <2>1, <2>2 DEF Framed, Graphs
  <2>4. Ids(graph) = Ids(g) /\ Size(graph) = Size(g)
    BY <2>3 DEF Ids, Size
  <2>5. Framed(graph)
    BY <1>1, <1>3, <2>1, <2>3, <2>4 DEF Framed
  <2>6. Entered(graph)
    BY <2>1, <2>3, <2>4 DEF Entered
  <2>7. Woven(graph)
    BY <2>1, <2>3, SameLists
  <2> QED BY <2>4, <2>5, <2>6, <2>7 DEF Sound
<1>5. Grounded(graph)
  BY <1>2, <1>3, <1>4 DEF Grounded
<1>6. "closed" \in Steps \ Searching /\ scan = Blank("closed")
  BY DEF Steps, Searching, ScanInit
<1>7. Good(graph, scan)
  <2>1. "closed" # "unordered"
    OBVIOUS
  <2> QED BY <1>5, <1>6, <2>1, BlankOK
<1> QED BY <1>5, <1>7 DEF ScanInv

\* Handing out a row changes the cursor alone.
LEMMA GetTupleOK ==
  ASSUME Good(graph, scan), GetTuple
  PROVE  Good(graph, scan')
<1> DEFINE n == scan'
<1>1. /\ scan \in Scans /\ scan.step \notin Searching /\ scan.cursor < Len(scan.out)
      /\ n = [scan EXCEPT !.cursor = scan.cursor + 1]
  BY DEF Good, GetTuple, Resting
<1>2. scan.cursor \in Nat /\ Len(scan.out) \in Nat
  BY <1>1, ScanFields
<1>3. scan.cursor + 1 \in Nat /\ scan.cursor + 1 <= Len(scan.out)
  BY <1>1, <1>2
<1> HIDE DEF n
<1>4. /\ n \in Scans /\ n.step = scan.step /\ n.layer = scan.layer /\ n.beam = scan.beam
      /\ n.query = scan.query /\ n.ef = scan.ef /\ n.keys = scan.keys
      /\ n.filter = scan.filter /\ n.recheck = scan.recheck /\ n.nav = scan.nav
      /\ n.seeds = scan.seeds /\ n.out = scan.out /\ n.cost = scan.cost
      /\ n.cursor = scan.cursor + 1
  BY <1>1, <1>3 DEF Scans
<1>5. Asked(n) /\ Answers(graph, n)
  BY <1>4 DEF Good, Asked, Answers
<1>6. n.cursor <= Len(n.out) /\ n.step \notin Searching
  BY <1>1, <1>3, <1>4
<1>7. Good(graph, n)
  BY <1>4, <1>5, <1>6 DEF Good
<1> QED BY <1>7 DEF n

\* A NULL query vector has no rows.
LEMMA RescanNullOK ==
  ASSUME Grounded(graph), Good(graph, scan), NEW keys \in WhereClauses, RescanNull(keys)
  PROVE  Good(graph, scan')
<1> DEFINE s == Idle(scan.query, keys, scan.ef)
<1>1. scan' = Stepped(s, "ranked") /\ "ranked" \in Steps \ Searching
  BY DEF RescanNull, Stepped, Steps, Open, Searching
<1>2. scan.query \in Points /\ scan.ef \in Nat \ {0}
  BY ScanFields DEF Good
<1>3. Rested(s) /\ s.out = <<>>
  BY <1>2, IdleOK
<1> HIDE DEF s
<1>4. Rested(scan') /\ scan'.out = <<>> /\ scan'.step = "ranked"
  BY <1>1, <1>3, SteppedOK
<1>5. Answers(graph, scan')
  BY <1>4, NoRowsOK DEF Rested
<1> QED BY <1>4, <1>5, RestedOK

\* A step of the scan: the invariant, and the foothold.
LEMMA ScanStepOK ==
  ASSUME ScanInv, [ScanNext]_vars
  PROVE  ScanInv' /\ (~Resting => FootKept(scan, scan'))
<1>1. Grounded(graph) /\ Good(graph, scan)
  BY DEF ScanInv
<1>2. ~Resting => scan.step # "ranked"
  BY DEF Resting, Searching
<1>3. ASSUME scan'.step = scan.step, scan'.seeds = scan.seeds, ~Resting
      PROVE  FootKept(scan, scan')
  BY <1>2, <1>3 DEF FootKept
<1>4. /\ \A step \in {"idle", "ended", "failed", "closed"} : Good(graph, Blank(step))
  <2>1. \A step \in {"idle", "ended", "failed", "closed"} :
          step \in Steps \ Searching /\ step # "unordered"
    BY DEF Steps, Open, Searching
  <2> QED BY <1>1, <2>1, BlankOK
<1>5. graph' = graph /\ Good(graph, scan') /\ (~Resting => FootKept(scan, scan'))
  <2>1. CASE UNCHANGED vars
    <3>1. scan' = scan /\ graph' = graph
      BY <2>1 DEF vars
    <3> QED BY <1>1, <1>3, <3>1
  <2>2. ASSUME NEW q \in Queries, NEW keys \in WhereClauses, NEW ef \in Budgets,
               Rescan(q, keys, ef)
        PROVE  graph' = graph /\ Good(graph, scan') /\ Resting
    <3>1. graph' = graph /\ Resting
      BY <2>2 DEF Rescan, MayRescan
    <3> QED BY <1>1, <2>2, <3>1, RescanOK
  <2>3. ASSUME NEW keys \in WhereClauses, RescanUnordered(keys)
        PROVE  graph' = graph /\ Good(graph, scan') /\ Resting
    <3>1. graph' = graph /\ Resting
      BY <2>3 DEF RescanUnordered, MayRescan
    <3> QED BY <1>1, <2>3, <3>1, RescanUnorderedOK
  <2>4. ASSUME NEW keys \in WhereClauses, RescanNull(keys)
        PROVE  graph' = graph /\ Good(graph, scan') /\ Resting
    <3>1. graph' = graph /\ Resting
      BY <2>4 DEF RescanNull, MayRescan
    <3> QED BY <1>1, <2>4, <3>1, RescanNullOK
  <2>5. CASE WalkOn
    <3>1. graph' = graph
      BY <2>5 DEF WalkOn
    <3>2. Good(graph, scan') /\ scan'.step = scan.step /\ scan'.seeds = scan.seeds
      BY <1>1, <2>5, WalkOnOK
    <3> QED BY <1>3, <3>1, <3>2
  <2>6. CASE WalkAgain
    <3>1. graph' = graph
      BY <2>6 DEF WalkAgain
    <3>2. Good(graph, scan') /\ scan'.step = scan.step /\ scan'.seeds = scan.seeds
      BY <1>1, <2>6, WalkAgainOK
    <3> QED BY <1>3, <3>1, <3>2
  <2>7. CASE EndNavigate
    <3>1. graph' = graph
      BY <2>7 DEF EndNavigate
    <3> QED BY <1>1, <2>7, <3>1, EndNavigateOK
  <2>8. CASE EndProbe
    <3>1. graph' = graph
      BY <2>8 DEF EndProbe
    <3> QED BY <1>1, <2>8, <3>1, EndProbeOK
  <2>9. CASE EndBottom
    <3>1. graph' = graph
      BY <2>9 DEF EndBottom
    <3> QED BY <1>1, <2>9, <3>1, EndBottomOK
  <2>10. CASE GetTuple
    <3>1. graph' = graph /\ Resting
      BY <2>10 DEF GetTuple
    <3> QED BY <1>1, <2>10, <3>1, GetTupleOK
  <2>11. CASE BeginScan
    <3>1. graph' = graph /\ Resting /\ scan' = Blank("idle")
      BY <2>11 DEF BeginScan, Resting, Searching
    <3> QED BY <1>4, <3>1
  <2>12. CASE EndScan
    <3>1. graph' = graph /\ Resting /\ scan' = Blank("ended")
      BY <2>12 DEF EndScan
    <3> QED BY <1>4, <3>1
  <2>13. CASE Fails
    <3>1. graph' = graph /\ Resting /\ scan' = Blank("failed")
      BY <2>13 DEF Fails
    <3> QED BY <1>4, <3>1
  <2>14. CASE ResetContext
    <3>1. graph' = graph /\ Resting /\ scan' = Blank("closed")
      BY <2>14 DEF ResetContext, Resting, Searching
    <3> QED BY <1>4, <3>1
  <2> QED
    BY <2>1, <2>2, <2>3, <2>4, <2>5, <2>6, <2>7, <2>8, <2>9, <2>10, <2>11, <2>12, <2>13, <2>14
    DEF ScanNext, SearchStep
<1> HIDE DEF FootKept
<1>6. ScanInv'
  BY <1>1, <1>5 DEF ScanInv
<1> QED BY <1>5, <1>6

-----------------------------------------------------------------------------
(* What the invariant says.                                                *)

\* What Connected ends in, when every step keeps to a family of sets.
LEMMA ConnectedIn ==
  ASSUME Len([k \in Ids(graph) |-> k]) \in Nat, NEW S,
         scan.beam.visited \in S[0],
         \A k \in 1 .. Len([k \in Ids(graph) |-> k]) : \A c \in S[k - 1] :
           (c \cup UNION {ToSet(Neighbors(graph, id, 0)) : id \in c}) \in S[k]
  PROVE  Connected \in S[Len([k \in Ids(graph) |-> k])]
<1> DEFINE Step(c, x) == (c \cup UNION {ToSet(Neighbors(graph, id, 0)) : id \in c})
           first == scan.beam.visited
           list == [k \in Ids(graph) |-> k]
           Eq(f, q) == f = [k \in 0 .. Len(q) |-> IF k = 0 THEN first ELSE
                                CHOOSE r \in {Step(c, q[k]) : c \in {f[k - 1]}} : TRUE]
           Through(q) == (CHOOSE f : Eq(f, q))[Len(q)]
           n == Len(list)
           F == [x \in (UNION {S[k] : k \in 0 .. n}) \X (1 .. n) |-> Step(x[1], list[x[2]])]
<1>1. Connected = CHOOSE r \in {Through(q) : q \in {list}} : TRUE
  BY DEF Connected, InTurn
<1>2. /\ n \in Nat /\ first \in S[0]
      /\ \A k \in 1 .. n : \A c \in S[k - 1] : Step(c, list[k]) \in S[k]
  OBVIOUS
<1> HIDE DEF Step, n, first, list
<1>3. Connected = Through(list)
  <2> HIDE DEF Through
  <2> QED BY <1>1, Once
<1>4. \A k \in 1 .. n : \A c \in S[k - 1] : F[<<c, k>>] = Step(c, list[k])
  <2> SUFFICES ASSUME NEW k \in 1 .. n, NEW c \in S[k - 1] PROVE F[<<c, k>>] = Step(c, list[k])
    OBVIOUS
  <2>1. <<c, k>> \in (UNION {S[j] : j \in 0 .. n}) \X (1 .. n)
    BY <1>2
  <2> QED BY <2>1
<1> HIDE DEF F
<1>5. PICK run : Runs(run, first, F, n) /\ \A k \in 0 .. n : run[k] \in S[k]
  <2>1. \A k \in 1 .. n : \A c \in S[k - 1] : F[<<c, k>>] \in S[k]
    BY <1>2, <1>4
  <2> QED BY <1>2, <2>1, RunIn
<1>6. \A f, k : (CHOOSE r \in {Step(c, list[k]) : c \in {f[k - 1]}} : TRUE)
                = Step(f[k - 1], list[k])
  BY Once
<1>7. Eq(run, list)
  <2>1. \A k \in 1 .. n : run[k] = Step(run[k - 1], list[k])
    <3>1. \A k \in 1 .. n : run[k - 1] \in S[k - 1]
      BY <1>2, <1>5
    <3> QED BY <1>4, <1>5, <3>1 DEF Runs
  <2>2. \A k \in 0 .. n : run[k] = IF k = 0 THEN first ELSE
          CHOOSE r \in {Step(c, list[k]) : c \in {run[k - 1]}} : TRUE
    <3> SUFFICES ASSUME NEW k \in 0 .. n
                 PROVE  run[k] = IF k = 0 THEN first ELSE
                          CHOOSE r \in {Step(c, list[k]) : c \in {run[k - 1]}} : TRUE
      OBVIOUS
    <3>1. CASE k = 0
      BY <1>5, <3>1 DEF Runs
    <3>2. CASE k # 0
      <4>1. run[k] = Step(run[k - 1], list[k])
        BY <1>2, <2>1, <3>2
      <4>2. (CHOOSE r \in {Step(c, list[k]) : c \in {run[k - 1]}} : TRUE)
            = Step(run[k - 1], list[k])
        BY <1>6
      <4> QED BY <3>2, <4>1, <4>2
    <3> QED BY <3>1, <3>2
  <2>3. run = [k \in 0 .. n |-> run[k]]
    BY <1>5 DEF Runs
  <2> QED BY <2>2, <2>3 DEF n
<1> DEFINE after == CHOOSE f : Eq(f, list)
<1>8. Eq(after, list)
  <2> HIDE DEF Eq
  <2> QED BY <1>7
<1> HIDE DEF after
<1>9. after[0] = first /\ \A k \in 1 .. n : after[k] = Step(after[k - 1], list[k])
  BY <1>2, <1>6, <1>8 DEF n
<1>10. \A k \in 0 .. n : after[k] \in S[k]
  BY <1>2, <1>9, RunStays
<1>11. Connected = after[n]
  BY <1>3 DEF n, after
<1>12. Connected \in S[n]
  BY <1>2, <1>10, <1>11
<1> QED BY <1>12 DEF n, list

\* Where nothing leads out of what was seen, that is all there is a way to.
LEMMA ConnectedOK ==
  ASSUME Placed(graph), \A n \in scan.beam.visited :
           ToSet(Neighbors(graph, n, 0)) \subseteq scan.beam.visited
  PROVE  Connected = scan.beam.visited
<1> DEFINE V == scan.beam.visited
           n == Len([k \in Ids(graph) |-> k])
           S == [k \in Nat |-> {V}]
<1>1. n \in Nat
  <2>1. Size(graph) \in Nat /\ Ids(graph) = 1 .. Size(graph)
    BY IdsFinite DEF Ids
  <2>2. [k \in Ids(graph) |-> k] \in [1 .. Size(graph) -> Nat]
    BY <2>1
  <2>3. [k \in Ids(graph) |-> k] \in Seq(Nat)
    BY <2>1, <2>2
  <2> QED BY <2>3
<1>2. (V \cup UNION {ToSet(Neighbors(graph, id, 0)) : id \in V}) = V
  OBVIOUS
<1>3. \A k \in 1 .. n : \A c \in S[k - 1] :
        (c \cup UNION {ToSet(Neighbors(graph, id, 0)) : id \in c}) \in S[k]
  <2> SUFFICES ASSUME NEW k \in 1 .. n, NEW c \in S[k - 1]
               PROVE  (c \cup UNION {ToSet(Neighbors(graph, id, 0)) : id \in c}) \in S[k]
    OBVIOUS
  <2>1. S[k - 1] = {V} /\ S[k] = {V}
    BY <1>1
  <2> QED BY <1>2, <2>1
<1>4. V \in S[0] /\ S[n] = {V}
  BY <1>1
<1> HIDE DEF S
<1>5. Connected \in S[n]
  BY <1>1, <1>3, <1>4, ConnectedIn
<1> QED BY <1>4, <1>5

\* A filtered walk that has come to its end with room and allowances left has settled
\* every node it saw, so no edge leads out of them, and its results are all that it saw.
LEMMA SaysShort == ScanInv => EndsShortOnlyWhenSpent
<1> DEFINE t == Task
           b == scan.beam
           p == Pop(t, b)
           W == Tall(graph, scan.layer)
<1> SUFFICES ASSUME ScanInv, WalkEnds("bottom"), Filtered(t), ~Full(t, b),
                    b.detours # 0, b.expansions # 0
             PROVE  {id \in Connected : Admissible(t, id)} \subseteq b.results
  BY DEF EndsShortOnlyWhenSpent
<1>1. scan.step = "bottom" /\ ~GoesOn(t, b) /\ Rescued.frontier = p.frontier /\ ~Resting
  BY DEF WalkEnds, Progressed, Resting, Searching
<1>2. Grounded(graph) /\ Good(graph, scan)
  BY DEF ScanInv
<1>3. /\ Walkable(t, W) /\ b \in Walks(t, W) /\ UnderWay(graph, scan) /\ Sound(graph)
      /\ t = TaskOf(graph, scan) /\ t.g = graph /\ t.layer = scan.layer /\ scan \in Scans
      /\ scan.layer \in Nat
  BY <1>1, <1>2, SearchingOK
<1>4. t.layer = 0 /\ Settled(t, b)
  BY <1>1, <1>3 DEF UnderWay
<1>5. b.detours > 0 /\ b.expansions > 0
  <2>1. b \in Beams
    BY <1>3, WalksTyped
  <2> QED BY <2>1 DEF Beams
<1>6. b.frontier = {}
  BY <1>1, <1>5 DEF GoesOn, CutOff
<1>7. \A n \in b.visited \ b.deferred : ToSet(Neighbors(t.g, n, t.layer)) \subseteq b.visited
  BY <1>4, <1>6 DEF Settled
<1>8. \A n \in b.deferred : ToSet(Neighbors(t.g, n, t.layer)) \subseteq b.visited
  <2>1. CASE ~Rescues(t, b)
    <3>1. b.deferred = {}
      BY <1>4, <1>5, <2>1 DEF Rescues
    <3> QED BY <3>1
  <2>2. CASE Rescues(t, b)
    <3> DEFINE d == Rescue(t, p)
    <3>1. /\ p \in Walks(t, W) /\ p.visited = b.visited /\ p.results = b.results
          /\ p.deferred = b.deferred /\ p.detours = b.detours
      BY <1>3, PopOK
    <3>2. d.frontier = p.frontier
      BY <1>1, <2>2 DEF Rescued
    <3>3. ~Full(t, p)
      BY <3>1 DEF Full
    <3> HIDE DEF p, t, b, W
    <3>4. /\ ~Full(t, p) /\ d.frontier = p.frontier => d.visited = p.visited
          /\ Cardinality(d.frontier \ p.frontier) + d.detours = p.detours
          /\ d.detours # 0 =>
               \A id \in p.deferred : ToSet(Neighbors(t.g, id, t.layer)) \subseteq d.visited
          /\ d \in Walks(t, W)
      <4>1. Walkable(t, W)
        BY <1>3
      <4>2. p \in Walks(t, W)
        BY <3>1
      <4> QED BY ONLY <4>1, <4>2, RescueOK, ZenonT(40)
    <3>5. d.detours \in Nat
      BY <1>3, <3>4, WalksTyped DEF Beams, W
    <3> HIDE DEF d
    <3>6. d.detours # 0
      <4>1. d.frontier \ p.frontier = {}
        BY <3>2
      <4>2. Cardinality(d.frontier \ p.frontier) = 0
        BY <4>1, FS_EmptySet
      <4> QED BY <1>5, <3>1, <3>4, <3>5, <4>2
    <3> QED BY <3>1, <3>2, <3>3, <3>4, <3>6
  <2> QED BY <2>1, <2>2
<1>9. Connected = b.visited
  <2>1. \A n \in scan.beam.visited : ToSet(Neighbors(graph, n, 0)) \subseteq scan.beam.visited
    BY <1>3, <1>4, <1>7, <1>8
  <2>2. Placed(graph)
    BY <1>3 DEF Walkable
  <2> QED BY <2>1, <2>2, ConnectedOK
<1>10. Seen(t, b) = b.results
  <2>1. HoldsNearest(t, b.results, Seen(t, b))
    BY <1>3 DEF Walks
  <2>2. IsFiniteSet(Seen(t, b)) /\ Cardinality(Seen(t, b)) \in Nat /\ t.ef \in Nat
        /\ ~(Cardinality(Seen(t, b)) >= t.ef)
    BY <1>3, FullWhenSeen DEF Walkable
  <2>3. Cardinality(b.results) = Cardinality(Seen(t, b)) /\ b.results \subseteq Seen(t, b)
    BY <2>1, <2>2 DEF HoldsNearest
  <2> QED BY <2>2, <2>3, FS_Subset
<1> QED BY <1>9, <1>10 DEF Seen

\* A walk holds the nearest.
LEMMA SaysNearest == ScanInv => ResultsAreNearestSeen
<1> SUFFICES ASSUME ScanInv, ~Resting PROVE ResultsAreNearestSeen
  BY DEF ResultsAreNearestSeen
<1>1. scan.beam \in Walks(Task, Tall(graph, scan.layer)) /\ Task.g = graph
      /\ Task.query = scan.query
  BY SearchingOK DEF ScanInv
<1>2. HoldsNearest(Task, scan.beam.results, Seen(Task, scan.beam))
  BY <1>1 DEF Walks
<1>3. SeenByWalk = Seen(Task, scan.beam)
  BY DEF SeenByWalk, Seen
<1>4. \A id : Far(id) = Away(Task.g, Task.query, id)
  BY <1>1 DEF Far
<1>5. NothingNearer(Task, scan.beam.results, Seen(Task, scan.beam)) => NoneNearer
  BY <1>3, <1>4 DEF NothingNearer, NoneNearer
<1> QED BY <1>2, <1>3, <1>4, <1>5 DEF HoldsNearest, ResultsAreNearestSeen

\* What is spent and what is left make up the allowances.
LEMMA SaysAllowances == ScanInv => WithinAllowances
<1> SUFFICES ASSUME ScanInv PROVE WithinAllowances
  OBVIOUS
<1>1. /\ scan \in Scans /\ scan.cost.expansions <= EXPANSIONS_PER_EF * scan.ef
      /\ scan.cost.detours <= 2 * (DETOURS_PER_EF * scan.ef)
  BY DEF ScanInv, Good
<1>2. scan.ef \in Nat /\ DETOURS_PER_EF \in Nat
  BY <1>1, ScanFields, ScanAssumption
<1>3. 2 * (DETOURS_PER_EF * scan.ef) = 2 * DETOURS_PER_EF * scan.ef
  BY <1>2
<1> QED BY <1>1, <1>3 DEF WithinAllowances

\* Rows are ranked.
LEMMA SaysOrder == ScanInv => RowsInOrder
<1> SUFFICES ASSUME ScanInv, scan.step = "ranked"
             PROVE  /\ Len(scan.out) <= scan.ef
                    /\ \A k \in DOMAIN scan.out :
                         /\ scan.out[k] \in Live(graph)
                         /\ scan.filter # Unfiltered => scan.out[k] \in scan.filter
                         /\ \A j \in 1 .. k - 1 :
                              Nearer(graph, scan.query, scan.out[j], scan.out[k])
  BY DEF RowsInOrder
<1>1. scan \in Scans /\ Answers(graph, scan) /\ scan.out \in Seq(Nodes)
  BY ScanFields DEF ScanInv, Good
<1>2. \A k \in DOMAIN scan.out : scan.out[k] \in ToSet(scan.out) /\ k \in 1 .. Len(scan.out)
  BY <1>1 DEF ToSet
<1> QED BY <1>1, <1>2 DEF Answers

\* Rows answer the WHERE clause.
LEMMA SaysAnswers == ScanInv => ScanAnswersTheQuery
<1> SUFFICES ASSUME ScanInv PROVE ScanAnswersTheQuery
  OBVIOUS
<1> DEFINE all == Live(graph) \cup ToSet(Unrankable)
<1>1. /\ scan \in Scans /\ Answers(graph, scan) /\ Asked(scan) /\ scan.keys \in SUBSET ScanKeys
      /\ all \subseteq DOMAIN Attributes
  <2>1. all \subseteq DOMAIN Attributes
    BY DEF ScanInv, Grounded, Live
  <2>2. scan.keys \in SUBSET ScanKeys
    BY ScanFields, ScanAssumption DEF ScanInv, Good
  <2> QED BY <2>1, <2>2 DEF ScanInv, Good
<1>2. \A row \in all : Attributes[row] \in AttrRows
  BY <1>1, ScanAssumption
<1>3. \A row \in all :
        PredicateMatches(PushedAtoms(scan.keys), Attributes[row])
        <=> (scan.filter # Unfiltered => row \in scan.filter)
  <2>1. CASE scan.filter = Unfiltered
    <3>1. PushedAtoms(scan.keys) = {}
      BY <1>1, <2>1, FilterOK DEF Asked
    <3> QED BY <2>1, <3>1 DEF PredicateMatches
  <2>2. CASE scan.filter # Unfiltered
    <3>1. scan.filter = {id \in DOMAIN Attributes :
                           PredicateMatches(PushedAtoms(scan.keys), Attributes[id])}
      BY <1>1, <2>2, FilterOK DEF Asked
    <3> QED BY <1>1, <2>2, <3>1
  <2> QED BY <2>1, <2>2
<1>4. scan.recheck = Recheck(scan.keys)
  BY <1>1 DEF Asked
<1> HIDE DEF all
<1>5. \A row \in all :
        ((scan.filter # Unfiltered => row \in scan.filter)
         /\ (scan.recheck => Wanted(scan.keys, Attributes[row])))
        <=> Wanted(scan.keys, Attributes[row])
  <2> SUFFICES ASSUME NEW row \in all
               PROVE  ((scan.filter # Unfiltered => row \in scan.filter)
                       /\ (scan.recheck => Wanted(scan.keys, Attributes[row])))
                      <=> Wanted(scan.keys, Attributes[row])
    OBVIOUS
  <2>1. Kept(scan.keys, Attributes[row]) <=> Wanted(scan.keys, Attributes[row])
    <3>1. Attributes[row] \in AttrRows /\ scan.keys \in SUBSET ScanKeys
      BY <1>1, <1>2
    <3> QED BY ONLY <3>1, PushdownIsExact
  <2> QED BY <1>3, <1>4, <2>1 DEF Kept
<1>6. \A row \in ToSet(scan.out) :
        row \in all /\ (scan.filter # Unfiltered => row \in scan.filter)
  <2>1. \A row \in ToSet(scan.out) : /\ row \in Live(graph) \cup ToSet(Unrankable)
                                     /\ scan.filter # Unfiltered => row \in scan.filter
    BY ONLY <1>1 DEF Answers
  <2> QED BY <2>1 DEF all
<1>7. \A row \in Returned : Wanted(scan.keys, Attributes[row])
  BY <1>5, <1>6 DEF Returned
<1>8. ASSUME scan.step = "unordered"
      PROVE  Returned = {row \in all : Wanted(scan.keys, Attributes[row])}
  <2>1. ToSet(scan.out) = {row \in all : scan.filter # Unfiltered => row \in scan.filter}
    <3>1. ToSet(scan.out) = {row \in Live(graph) \cup ToSet(Unrankable) :
                               scan.filter # Unfiltered => row \in scan.filter}
      BY ONLY <1>1, <1>8 DEF Answers
    <3> QED BY <3>1 DEF all
  <2> QED BY <1>5, <2>1 DEF Returned
<1> QED BY <1>7, <1>8 DEF ScanAnswersTheQuery, all

\* Types.
LEMMA SaysTyped == ScanInv /\ LifeInv => ScanTypeOK
<1> SUFFICES ASSUME ScanInv, LifeInv PROVE ScanTypeOK
  OBVIOUS
<1>1. held.opaque \in {"null", "box"} /\ held.boxes \in Nat
  BY DEF LifeInv, DroppedOnce
<1>2. /\ scan \in Scans /\ scan.layer <= graph.top /\ scan.nav \in Seq(Ids(graph))
      /\ scan.seeds \in Seq(Ids(graph)) /\ scan.beam.visited \subseteq Ids(graph)
      /\ scan.cursor <= Len(scan.out) /\ graph.top \in Nat
  BY SoundTall DEF ScanInv, Good, Grounded
<1>3. /\ scan.step \in Steps /\ scan.layer \in Nat /\ scan.query \in Points
      /\ scan.ef \in Nat \ {0} /\ scan.keys \in WhereClauses
      /\ scan.filter \in {Unfiltered} \cup SUBSET DOMAIN Attributes /\ scan.recheck \in BOOLEAN
      /\ scan.beam \in Beams /\ scan.cost \in [detours : Nat, expansions : Nat]
      /\ scan.out \in Seq(Nodes) /\ scan.cursor \in Nat /\ Len(scan.out) \in Nat
  BY <1>2, ScanFields
<1>4. scan.layer \in 0 .. graph.top /\ scan.cursor \in 0 .. Len(scan.out)
  BY <1>2, <1>3
<1> QED BY <1>1, <1>2, <1>3, <1>4 DEF ScanTypeOK, Steps

\* Footholds.
LEMMA SaysKept ==
  ASSUME ScanInv, [ScanNext]_vars
  PROVE  (scan.seeds # <<>> /\ ~Resting) =>
           IF scan'.step = "ranked" THEN scan'.out # <<>> ELSE scan'.seeds # <<>>
BY ScanStepOK DEF FootKept

-----------------------------------------------------------------------------
(* The theorems.                                                           *)

\* Every step keeps the invariant.
LEMMA ScanStep == ScanInv /\ [ScanNext]_vars => ScanInv'
BY ScanStepOK

\* Every search walks a sound graph, with the beam, the allowances and the footing that
\* ScanInv says, for any graph that inserts build, any query and any WHERE clause.
THEOREM ScanSound == ScanSpec => []ScanInv
BY ScanInvInit, ScanStep, PTL DEF ScanSpec

\* A scan keeps to its types.
THEOREM ScanTyped == ScanSpec => []ScanTypeOK
BY ScanSound, LifeInit, LifeNext, SaysTyped, PTL DEF ScanSpec

\* Under every filter, a walk holds the nearest of the admissible nodes that it has seen.
THEOREM NearestOfTheSeen == ScanSpec => []ResultsAreNearestSeen
BY ScanSound, SaysNearest, PTL

\* A filtered walk that ends with room and allowances left has found every match that
\* layer 0 leads to.
THEOREM ShortOnlyWhenSpent == ScanSpec => []EndsShortOnlyWhenSpent
BY ScanSound, SaysShort, PTL

\* The layers of a search share its allowances.
THEOREM AllowancesHold == ScanSpec => []WithinAllowances
BY ScanSound, SaysAllowances, PTL

\* The rows of a ranked scan are live, match, and come in order, none twice.
THEOREM RankedInOrder == ScanSpec => []RowsInOrder
BY ScanSound, SaysOrder, PTL

\* A scan answers its WHERE clause, and one that ranks nothing answers it in full.
THEOREM ScanIsExact == ScanSpec => []ScanAnswersTheQuery
BY ScanSound, SaysAnswers, PTL

\* A foothold is not lost on the way down.
THEOREM FootholdsHold == ScanSpec => FootholdKept
BY ScanSound, SaysKept, PTL DEF ScanSpec, FootholdKept
=============================================================================
