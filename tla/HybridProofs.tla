---------------------------- MODULE HybridProofs ----------------------------
(* Every index that exists can be read, the vector side of a call is in the order of its    *)
(* operator, fusion keys are the ids in their order, and what a call returns is scored and  *)
(* ordered by the ranks in its two lists.                                                   *)
EXTENDS Hybrid, Loops, FiniteSetTheorems, TLAPS

-----------------------------------------------------------------------------
(* Keys of ids.                                                            *)

\* Reduction modulo 2^64 on the two stretches that key_of and id_of meet.
LEMMA Wraps ==
  ASSUME NEW d \in Nat \ {0}, NEW a \in 0 .. d - 1
  PROVE  a % d = a /\ (a + d) % d = a
OBVIOUS

\* The key of an id is the id counted from the least one (key_of).
LEMMA KeyIsOffset ==
  ASSUME NEW id \in IdValues
  PROVE  KeyOf(id) = id + HALF
<1> DEFINE a == id + HALF
           d == 2 * HALF
<1>1. d \in Nat \ {0} /\ a \in 0 .. d - 1
  BY HalfAssumption DEF IdValues
<1>2. a % d = a /\ (a + d) % d = a
  BY <1>1, Wraps
<1>3. KeyOf(id) = (IF id < 0 THEN a + d ELSE a) % d
  BY HalfAssumption DEF KeyOf, IdValues
<1> QED BY <1>2, <1>3

\* Keys are in the order of their ids, so ties between scores go to the smaller id,
\* negative ids included (ID_SIGN).
THEOREM KeysKeepOrder ==
  ASSUME NEW x \in IdValues, NEW y \in IdValues
  PROVE  KeyOf(x) < KeyOf(y) <=> x < y
BY KeyIsOffset, HalfAssumption DEF IdValues

\* The id that a result reports is the id that was fused (id_of, key_of).
THEOREM IdsComeBack ==
  ASSUME NEW id \in IdValues
  PROVE  KeyOf(id) \in Keys /\ IdOf(KeyOf(id)) = id
<1> DEFINE d == 2 * HALF
           shifted == KeyOf(id) + HALF
<1>1. KeyOf(id) = id + HALF /\ KeyOf(id) \in Keys
  BY KeyIsOffset, HalfAssumption DEF IdValues, Keys
<1>2. CASE id < 0
  <2>1. shifted = id + d /\ id + d \in 0 .. d - 1 /\ d \in Nat \ {0}
    BY <1>1, <1>2, HalfAssumption DEF IdValues
  <2>2. shifted % d = id + d
    BY <2>1, Wraps
  <2>3. id + d >= HALF
    BY <1>2, HalfAssumption DEF IdValues
  <2> QED BY <1>1, <2>2, <2>3, HalfAssumption DEF IdOf, IdValues
<1>3. CASE id >= 0
  <2>1. shifted = id + d /\ id \in 0 .. d - 1 /\ d \in Nat \ {0}
    BY <1>1, <1>3, HalfAssumption DEF IdValues
  <2>2. shifted % d = id
    BY <2>1, Wraps
  <2>3. id < HALF
    BY HalfAssumption DEF IdValues
  <2> QED BY <1>1, <2>2, <2>3, HalfAssumption DEF IdOf, IdValues
<1> QED BY <1>2, <1>3, HalfAssumption DEF IdValues

-----------------------------------------------------------------------------
(* Options and the headers built from them.                                *)

\* What CREATE and ALTER INDEX accept is in range, given or filled in (build_reloptions).
LEMMA ParsedInRange ==
  ASSUME NEW with, DOMAIN with \subseteq OptionNames, OptionsAccepted(with)
  PROVE  /\ ParsedOptions(with).m \in 2 .. MAX_M
         /\ ParsedOptions(with).gamma \in 4 .. MAX_GAMMA
         /\ ParsedOptions(with).ef \in 4 .. 1000
<1> USE DEF OptionRange, DefaultParams, MIN_M, MAX_M, MAX_GAMMA, MIN_EF_CONSTRUCTION,
            MAX_EF_CONSTRUCTION
<1>1. \A name \in DOMAIN with : with[name] \in OptionRange[name]
  BY DEF OptionsAccepted
<1>2. \A name \in OptionNames :
        ParsedOptions(with)[name] = IF name \in DOMAIN with THEN with[name] ELSE DefaultParams[name]
  BY DEF ParsedOptions
<1>3. DefaultParams["m"] = 16 /\ DefaultParams["gamma"] = 4 /\ DefaultParams["ef"] = 64
  OBVIOUS
<1>4. ParsedOptions(with)["m"] \in 2 .. 128
  <2>1. OptionRange["m"] = 2 .. 128
    OBVIOUS
  <2>2. "m" \in OptionNames
    BY DEF OptionNames
  <2> QED BY <1>1, <1>2, <1>3, <2>1, <2>2
<1>5. ParsedOptions(with)["gamma"] \in 4 .. 4096
  <2>1. OptionRange["gamma"] = 4 .. 4096
    OBVIOUS
  <2>2. "gamma" \in OptionNames
    BY DEF OptionNames
  <2> QED BY <1>1, <1>2, <1>3, <2>1, <2>2
<1>6. ParsedOptions(with)["ef"] \in 4 .. 1000
  <2>1. OptionRange["ef"] = 4 .. 1000
    OBVIOUS
  <2>2. "ef" \in OptionNames
    BY DEF OptionNames
  <2> QED BY <1>1, <1>2, <1>3, <2>1, <2>2
<1> QED BY <1>4, <1>5, <1>6

\* A graph with parameters in range and few enough neighbours has a header that the
\* decoder accepts (Hnsw::new, from_graph_bytes).
LEMMA NewHeaderAccepted ==
  ASSUME NEW m \in 2 .. MAX_M, NEW gamma \in 4 .. MAX_GAMMA, NEW ef \in Nat,
         NEW metric \in Metrics, 2 * m * gamma <= 4 * MAX_LAYER0_DEGREE
  PROVE  HeaderAccepted(NewHeader([m |-> m, gamma |-> gamma, ef |-> ef, metric |-> metric]))
<1> DEFINE h == NewHeader([m |-> m, gamma |-> gamma, ef |-> ef, metric |-> metric])
           floor == EfFloor(m, gamma)
           product == 2 * m * gamma
<1>1. h = [m |-> m, gamma |-> gamma, metric |-> metric, ef |-> IF ef < floor THEN floor ELSE ef]
  BY DEF NewHeader, Clamp, MAX_GAMMA, MAX_M
<1>2. product \in Nat /\ product <= 8192
  <2>1. m \in Nat /\ gamma \in Nat
    BY DEF MAX_M, MAX_GAMMA
  <2>2. m * gamma \in Nat
    BY <2>1
  <2>3. product = 2 * m * gamma /\ 2 * m * gamma \in Nat
    BY <2>1
  <2> HIDE DEF product
  <2> QED BY <2>3 DEF MAX_LAYER0_DEGREE
<1>3. M0Cap(m, gamma) = (product + 2) \div 4
  BY DEF M0Cap
<1>4. M0Cap(m, gamma) \in Nat /\ M0Cap(m, gamma) <= MAX_LAYER0_DEGREE
  <2> HIDE DEF product
  <2> QED BY <1>2, <1>3 DEF MAX_LAYER0_DEGREE
<1>5. floor \in Nat
  BY <1>4 DEF EfFloor, MAX_M
<1>6. h.ef >= floor
  BY <1>1, <1>5
<1> HIDE DEF h
<1>7. h.m = m /\ h.gamma = gamma /\ h.metric = metric
  BY <1>1
<1> QED BY <1>4, <1>6, <1>7 DEF HeaderAccepted, h

\* Every operator class has a metric (index_metric).
LEMMA MetricOfOpclass ==
  ASSUME NEW opclass \in Opclasses
  PROVE  IndexMetric(opclass) \in Metrics
BY DEF Opclasses, IndexMetric, MetricFromCode, MetricProc, Metrics

\* What a build makes of accepted options can be read (ambuild, build_params).
LEMMA BuiltAccepted ==
  ASSUME NEW opclass \in Opclasses, NEW with, DOMAIN with \subseteq OptionNames,
         OptionsAccepted(with)
  PROVE  HeaderAccepted(NewHeader(BuildParams(opclass, with)))
<1> DEFINE o == ParsedOptions(with)
           metric == IndexMetric(opclass)
<1>1. metric \in Metrics
  BY MetricOfOpclass
<1>2. CASE with = <<>>
  <2>1. BuildParams(opclass, with) = [m |-> 16, gamma |-> 4, ef |-> 64, metric |-> metric]
    BY <1>2 DEF BuildParams, DefaultParams
  <2>2. 16 \in 2 .. MAX_M /\ 4 \in 4 .. MAX_GAMMA /\ 64 \in Nat
    BY DEF MAX_M, MAX_GAMMA
  <2>3. 2 * 16 * 4 <= 4 * MAX_LAYER0_DEGREE
    BY DEF MAX_LAYER0_DEGREE
  <2> HIDE DEF metric
  <2>4. HeaderAccepted(NewHeader([m |-> 16, gamma |-> 4, ef |-> 64, metric |-> metric]))
    BY <1>1, <2>2, <2>3, NewHeaderAccepted
  <2> QED BY <2>1, <2>4
<1>3. CASE with # <<>>
  <2>1. BuildParams(opclass, with) = [m |-> o.m, gamma |-> o.gamma, ef |-> o.ef, metric |-> metric]
    BY <1>3 DEF BuildParams, DefaultParams
  <2>2. o.m \in 2 .. MAX_M /\ o.gamma \in 4 .. MAX_GAMMA /\ o.ef \in Nat
    <3>1. o.m \in 2 .. MAX_M /\ o.gamma \in 4 .. MAX_GAMMA /\ o.ef \in 4 .. 1000
      BY ONLY DOMAIN with \subseteq OptionNames, OptionsAccepted(with), ParsedInRange
    <3> HIDE DEF o
    <3> QED BY <3>1
  <2>3. ~(2 * o.m * o.gamma > 4 * MAX_LAYER0_DEGREE)
    BY <1>3 DEF OptionsAccepted, ExcessiveDegree
  <2> HIDE DEF o
  <2>4. 2 * o.m * o.gamma <= 4 * MAX_LAYER0_DEGREE
    <3> DEFINE mm == o.m  gg == o.gamma  product == 2 * mm * gg
    <3> HIDE DEF mm, gg
    <3>0. mm \in 2 .. 128 /\ gg \in 4 .. 4096
      BY <2>2 DEF mm, gg, MAX_M, MAX_GAMMA
    <3>1. mm \in Nat /\ gg \in Nat
      BY <3>0
    <3>2. product \in Nat
      <4>1. mm * gg \in Nat
        BY <3>1
      <4> QED BY <3>1, <4>1
    <3>3. ~(product > 4 * MAX_LAYER0_DEGREE)
      BY <2>3 DEF mm, gg
    <3> HIDE DEF product
    <3>4. product <= 4 * MAX_LAYER0_DEGREE
      BY <3>2, <3>3 DEF MAX_LAYER0_DEGREE
    <3> QED BY <3>4 DEF product, mm, gg
  <2> QED BY <1>1, <2>1, <2>2, <2>4, NewHeaderAccepted
<1> QED BY <1>2, <1>3

-----------------------------------------------------------------------------
(* The invariant.  An ALTER INDEX leaves options behind that a later REINDEX builds from, *)
(* so that they are acceptable is part of it.                              *)

Entry(x) ==
  /\ x = [opclass |-> x.opclass, with |-> x.with, header |-> x.header]
  /\ x.opclass \in Opclasses
  /\ DOMAIN x.with \subseteq OptionNames /\ OptionsAccepted(x.with)
  /\ HeaderAccepted(x.header) /\ x.header.metric = IndexMetric(x.opclass)

CatalogInv ==
  /\ indexes = [i \in Indexes |-> indexes[i]]
  /\ \A i \in Existing : Entry(indexes[i])

\* A build leaves an entry.
LEMMA BuiltEntry ==
  ASSUME NEW opclass \in Opclasses, NEW with, DOMAIN with \subseteq OptionNames,
         OptionsAccepted(with)
  PROVE  Entry(Built(opclass, with))
<1>1. BuildParams(opclass, with).metric = IndexMetric(opclass)
  BY DEF BuildParams, DefaultParams
<1>2. NewHeader(BuildParams(opclass, with)).metric = IndexMetric(opclass)
  BY <1>1 DEF NewHeader
<1> QED BY <1>2, BuiltAccepted DEF Entry, Built

\* The first index is built as any other.
LEMMA CatalogInit == Init => CatalogInv
<1> SUFFICES ASSUME Init PROVE CatalogInv
  OBVIOUS
<1>1. PICK i \in Indexes, opclass \in Opclasses, with \in WithLists :
        /\ OptionsAccepted(with)
        /\ indexes = [j \in Indexes |-> IF j = i THEN Built(opclass, with) ELSE NoIndex]
  BY DEF Init
<1>2. Entry(Built(opclass, with))
  BY <1>1, BuiltEntry, OptionAssumption
<1> QED BY <1>1, <1>2 DEF CatalogInv, Existing

\* One index changes, to what an operation makes of it.
LEMMA OneIndexChanges ==
  ASSUME CatalogInv, NEW i \in Indexes, NEW x, indexes' = [indexes EXCEPT ![i] = x],
         x = NoIndex \/ Entry(x)
  PROVE  CatalogInv'
BY DEF CatalogInv, Existing, Entry, OptionsAccepted, HeaderAccepted

\* Every step keeps the catalog readable.
LEMMA CatalogNext == CatalogInv /\ [Next]_vars => CatalogInv'
<1> SUFFICES ASSUME CatalogInv, [Next]_vars PROVE CatalogInv'
  OBVIOUS
<1>1. CASE UNCHANGED indexes
  BY <1>1 DEF CatalogInv, Existing
<1>2. CASE ChangeIndexes
  <2>1. PICK i \in Indexes :
          \/ \E opclass \in Opclasses, with \in WithLists : CreateIndex(i, opclass, with)
          \/ \E with \in WithLists \ {<<>>} : AlterIndex(i, with)
          \/ Reindex(i)
          \/ DropIndex(i)
    BY <1>2 DEF ChangeIndexes
  <2>2. CASE \E opclass \in Opclasses, with \in WithLists : CreateIndex(i, opclass, with)
    <3>1. PICK opclass \in Opclasses, with \in WithLists : CreateIndex(i, opclass, with)
      BY <2>2
    <3>2. Entry(Built(opclass, with)) /\ indexes' = [indexes EXCEPT ![i] = Built(opclass, with)]
      BY <3>1, BuiltEntry, OptionAssumption DEF CreateIndex
    <3> QED BY <3>2, OneIndexChanges
  <2>3. CASE \E with \in WithLists \ {<<>>} : AlterIndex(i, with)
    <3>1. PICK with \in WithLists \ {<<>>} : AlterIndex(i, with)
      BY <2>3
    <3> DEFINE old == indexes[i]
               merged == [name \in DOMAIN old.with \cup DOMAIN with |->
                            IF name \in DOMAIN with THEN with[name] ELSE old.with[name]]
               new == [old EXCEPT !.with = merged]
    <3>2. i \in Existing /\ OptionsAccepted(merged) /\ indexes' = [indexes EXCEPT ![i].with = merged]
      BY <3>1 DEF AlterIndex
    <3>3. Entry(old)
      BY <3>2 DEF CatalogInv
    <3>4. DOMAIN merged \subseteq OptionNames
      BY <3>3, OptionAssumption DEF Entry
    <3> HIDE DEF merged, old
    <3>5. new = [opclass |-> old.opclass, with |-> merged, header |-> old.header]
      BY <3>3 DEF Entry
    <3>6. Entry(new)
      BY <3>2, <3>3, <3>4, <3>5 DEF Entry
    <3>7. indexes' = [indexes EXCEPT ![i] = new]
      BY <3>2 DEF old
    <3> HIDE DEF new
    <3> QED BY <3>6, <3>7, OneIndexChanges
  <2>4. CASE Reindex(i)
    <3>1. i \in Existing /\ Entry(indexes[i])
      BY <2>4 DEF Reindex, CatalogInv
    <3>2. Entry(Built(indexes[i].opclass, indexes[i].with))
      BY <3>1, BuiltEntry DEF Entry
    <3>3. indexes' = [indexes EXCEPT ![i] = Built(indexes[i].opclass, indexes[i].with)]
      BY <2>4 DEF Reindex
    <3> QED BY <3>2, <3>3, OneIndexChanges
  <2>5. CASE DropIndex(i)
    BY <2>5, OneIndexChanges DEF DropIndex
  <2> QED BY <2>1, <2>2, <2>3, <2>4, <2>5
<1>3. UNCHANGED indexes \/ ChangeIndexes
  BY DEF Next, vars, Call, Resolve, VectorSide, TextSide, Fuse, Return, ChangeRow
<1> QED BY <1>1, <1>2, <1>3

\* No index that exists can fail to decode, for any indexes, WITH lists and changes
\* (HnswParams::MAX_M, amoptions).
THEOREM ReadableIndexes == Spec => []IndexesCanBeRead
<1>1. CatalogInv => IndexesCanBeRead
  BY DEF CatalogInv, IndexesCanBeRead, Entry
<1> QED BY CatalogInit, CatalogNext, <1>1, PTL DEF Spec

-----------------------------------------------------------------------------
(* The vector side is in the order of the operator.                        *)

\* The metric of an operator class orders as its operator does (opclass.rs, pg_vector.rs).
LEMMA MetricIsOperator ==
  ASSUME NEW opclass \in Opclasses, NEW q, NEW a, NEW b
  PROVE  MetricNearer(IndexMetric(opclass), q, a, b)
           <=> OperatorNearer(OrderingOperator[opclass], q, a, b)
<1>1. CASE opclass = "brindle_vector_l2_ops"
  <2>1. IndexMetric(opclass) = "L2" /\ OrderingOperator[opclass] = "<->"
    BY <1>1 DEF IndexMetric, MetricFromCode, MetricProc, OrderingOperator, Opclasses
  <2> QED BY <2>1 DEF MetricNearer, OperatorNearer
<1>2. CASE opclass = "brindle_vector_ip_ops"
  <2>1. IndexMetric(opclass) = "InnerProduct" /\ OrderingOperator[opclass] = "<#>"
    BY <1>2 DEF IndexMetric, MetricFromCode, MetricProc, OrderingOperator, Opclasses
  <2> QED BY <2>1 DEF MetricNearer, OperatorNearer
<1>3. CASE opclass = "brindle_vector_cosine_ops"
  <2>1. IndexMetric(opclass) = "Cosine" /\ OrderingOperator[opclass] = "<=>"
    BY <1>3 DEF IndexMetric, MetricFromCode, MetricProc, OrderingOperator, Opclasses
  <2> QED BY <2>1 DEF MetricNearer, OperatorNearer
<1> QED BY <1>1, <1>2, <1>3 DEF Opclasses

\* call is the record that NoCall is.
CallShape ==
  call = [step |-> call.step, args |-> call.args, xid |-> call.xid, snapshot |-> call.snapshot,
          operator |-> call.operator, saw |-> call.saw, near |-> call.near,
          vector |-> call.vector, text |-> call.text, out |-> call.out]

\* A call has seen no rows before its vector query, and its depth is positive by then.
VectorInv ==
  /\ CallShape
  /\ call.step \in {"idle", "resolve", "vector", "failed"} => call.saw = Null
  /\ call.step \in {"resolve", "vector"} =>
       call.args \in Calls /\ Depth(call.args) \in Int /\ ~(Depth(call.args) < 1)
  /\ VectorSideFollowsOperator

\* k and n are integers, and so is the depth.
LEMMA DepthIsInt ==
  ASSUME NEW args \in Calls
  PROVE  Depth(args) \in Int
BY CallsAssumption DEF Depth, I32_MAX

\* What a plan that sorts returns, and what an index scan returns, up to the limit.
LEMMA RankedInOrder ==
  ASSUME CatalogInv, NEW saw, NEW ranked \in Sorted(saw) \cup Scanned(saw),
         NEW n \in Int, n >= 1
  PROVE  LET near == Limit(ranked, n) IN
         \A j \in DOMAIN near :
           /\ near[j] \in Rankable(saw)
           /\ \A i \in 1 .. j - 1 :
                ~OperatorNearer(call.operator, call.args.query, saw[near[j]].vector,
                                saw[near[i]].vector)
<1>1. PICK S \in SUBSET Rankable(saw) :
        /\ ranked \in [1 .. Cardinality(S) -> S]
        /\ \A j \in DOMAIN ranked : \A i \in 1 .. j - 1 :
             ~OperatorNearer(call.operator, call.args.query, saw[ranked[j]].vector,
                             saw[ranked[i]].vector)
  <2>1. CASE ranked \in Sorted(saw)
    BY <2>1 DEF Sorted, Orders
  <2>2. CASE ranked \in Scanned(saw)
    <3>1. PICK i \in {j \in Existing : OrderingOperator[indexes[j].opclass] = call.operator},
               S \in {T \in SUBSET Rankable(saw) : Cardinality(T) <= EfSearch} :
            ranked \in {s \in [1 .. Cardinality(S) -> S] :
              /\ IsInjective(s)
              /\ \A j \in DOMAIN s : \A k \in 1 .. j - 1 :
                   ~MetricNearer(indexes[i].header.metric, call.args.query,
                                 saw[s[j]].vector, saw[s[k]].vector)}
      <4> DEFINE A == {j \in Existing : OrderingOperator[indexes[j].opclass] = call.operator}
                 B == {T \in SUBSET Rankable(saw) : Cardinality(T) <= EfSearch}
                 O(i, S) == Orders(S, LAMBDA a, b :
                              MetricNearer(indexes[i].header.metric, call.args.query,
                                           saw[a].vector, saw[b].vector))
      <4>1. Scanned(saw) = UNION {O(i, S) : i \in A, S \in B}
        BY DEF Scanned, Orders
      <4> HIDE DEF O, A, B
      <4>2. PICK i \in A, S \in B : ranked \in O(i, S)
        BY <2>2, <4>1
      <4> QED BY <4>2 DEF O, A, B, Orders
    <3>2. indexes[i].opclass \in Opclasses /\ indexes[i].header.metric = IndexMetric(indexes[i].opclass)
          /\ OrderingOperator[indexes[i].opclass] = call.operator
      BY <3>1 DEF CatalogInv, Entry
    <3>3. \A q, a, b : MetricNearer(indexes[i].header.metric, q, a, b)
                         <=> OperatorNearer(call.operator, q, a, b)
      BY <3>2, MetricIsOperator
    <3>4. /\ ranked \in [1 .. Cardinality(S) -> S]
          /\ \A j \in DOMAIN ranked : \A k \in 1 .. j - 1 :
               ~MetricNearer(indexes[i].header.metric, call.args.query,
                             saw[ranked[j]].vector, saw[ranked[k]].vector)
      BY <3>1
    <3> QED BY <3>1, <3>3, <3>4
  <2> QED BY <2>1, <2>2
<1>2. Cardinality(S) \in Nat
  <2>1. S \subseteq Rows
    BY DEF Rankable
  <2>2. IsFiniteSet(S)
    BY <2>1, CallsAssumption, FS_Subset
  <2> QED BY <2>2, FS_CardinalityType
<1> DEFINE c == Cardinality(S)
           m == IF n < c THEN n ELSE c
<1>3. ranked \in Seq(S) /\ Len(ranked) = c
  BY <1>1, <1>2
<1>4. m \in 0 .. c
  BY <1>2
<1>5. Limit(ranked, n) = SubSeq(ranked, 1, m)
  BY <1>3 DEF Limit
<1>6. DOMAIN Limit(ranked, n) = 1 .. m /\ \A j \in 1 .. m : Limit(ranked, n)[j] = ranked[j]
  BY <1>2, <1>3, <1>4, <1>5
<1> HIDE DEF m
<1>7. \A j \in 1 .. m : j \in DOMAIN ranked /\ ranked[j] \in S /\ \A i \in 1 .. j - 1 : i \in 1 .. m
  BY <1>1, <1>2, <1>4
<1> QED BY <1>1, <1>6, <1>7

\* A list longer than an index scan gives comes from a plan that sorts: what the limit
\* cuts off comes after all of it.
LEMMA LongListIsNearest ==
  ASSUME NEW saw, NEW ranked \in Sorted(saw) \cup Scanned(saw), NEW n \in Int, n >= 1,
         NEW near, near = Limit(ranked, n), Len(near) > EfSearch
  PROVE  \A r \in Rankable(saw) \ ToSet(near) :
           /\ Len(near) = n
           /\ \A j \in DOMAIN near :
                ~OperatorNearer(call.operator, call.args.query, saw[r].vector,
                                saw[near[j]].vector)
<1> DEFINE R == Rankable(saw)
           c == Cardinality(R)
           m == IF n < Len(ranked) THEN n ELSE Len(ranked)
           Before(a, b) == OperatorNearer(call.operator, call.args.query, saw[a].vector,
                                          saw[b].vector)
<1>1. \A S \in SUBSET R : IsFiniteSet(S) /\ Cardinality(S) \in Nat
  <2>1. R \subseteq Rows
    BY DEF Rankable
  <2> QED BY <2>1, CallsAssumption, FS_Subset, FS_CardinalityType
<1>2. ASSUME NEW k \in Nat, NEW S, ranked \in [1 .. k -> S]
      PROVE  /\ Len(ranked) = k /\ m \in 0 .. k /\ m <= n /\ Len(near) = m
             /\ DOMAIN near = 1 .. m /\ \A j \in 1 .. m : near[j] = ranked[j]
  <2>1. ranked \in Seq(S) /\ Len(ranked) = k
    BY <1>2
  <2>2. m \in 0 .. k /\ m <= n
    BY <2>1
  <2>3. near = SubSeq(ranked, 1, m)
    BY DEF Limit
  <2> HIDE DEF m
  <2> QED BY <2>1, <2>2, <2>3
<1>3. ranked \in Sorted(saw)
  <2> SUFFICES ASSUME ranked \in Scanned(saw) PROVE FALSE
    OBVIOUS
  <2>1. PICK S \in SUBSET R : ranked \in [1 .. Cardinality(S) -> S] /\ Cardinality(S) <= EfSearch
    <3> DEFINE A == {j \in Existing : OrderingOperator[indexes[j].opclass] = call.operator}
               B == {T \in SUBSET R : Cardinality(T) <= EfSearch}
               O(i, S) == Orders(S, LAMBDA a, b :
                            MetricNearer(indexes[i].header.metric, call.args.query,
                                         saw[a].vector, saw[b].vector))
    <3>1. Scanned(saw) = UNION {O(i, S) : i \in A, S \in B}
      BY DEF Scanned, Orders
    <3> HIDE DEF O, A, B
    <3>2. PICK i \in A, S \in B : ranked \in O(i, S)
      BY <3>1
    <3> QED BY <3>2 DEF O, B, Orders
  <2>2. Len(near) = m /\ m \in 0 .. Cardinality(S)
    BY <1>1, <1>2, <2>1
  <2> QED BY <1>1, <2>1, <2>2, HybridAssumption
<1>4. /\ ranked \in [1 .. c -> R] /\ IsInjective(ranked)
      /\ \A j \in 1 .. c : \A i \in 1 .. j - 1 : ~Before(ranked[j], ranked[i])
  BY <1>3 DEF Sorted, Orders
<1>5. c \in Nat /\ IsFiniteSet(R)
  BY <1>1
<1> HIDE DEF R, c
<1>6. ranked \in Surjection(1 .. c, R)
  <2>1. ranked \in Injection(1 .. c, R)
    BY <1>4 DEF Injection, IsInjective
  <2>2. IsFiniteSet(1 .. c) /\ Cardinality(1 .. c) = c
    BY <1>5, FS_Interval, SMTT(30)
  <2> QED BY <1>5, <2>1, <2>2, FS_Injection DEF c
<1>7. /\ m \in 0 .. c /\ m <= n /\ Len(near) = m /\ Len(ranked) = c
      /\ DOMAIN near = 1 .. m /\ \A j \in 1 .. m : near[j] = ranked[j]
  BY <1>2, <1>4, <1>5
<1>8. ASSUME NEW r \in R \ ToSet(near)
      PROVE  Len(near) = n /\ \A j \in DOMAIN near : ~Before(r, near[j])
  <2>1. PICK k \in 1 .. c : ranked[k] = r
    BY <1>6 DEF Surjection
  <2>2. \A j \in 1 .. m : near[j] \in ToSet(near)
    BY <1>7 DEF ToSet
  <2>3. k \notin 1 .. m
    BY <1>7, <1>8, <2>1, <2>2
  <2>4. m < c /\ \A j \in 1 .. m : j \in 1 .. k - 1
    BY <1>5, <1>7, <2>3
  <2>5. m = n
    BY <1>5, <1>7, <2>4
  <2> HIDE DEF m, Before
  <2> QED BY <1>4, <1>7, <2>1, <2>4, <2>5
<1> QED BY <1>8 DEF R

\* The calls that have no rows yet.
Blank(step, args, xid, snapshot) ==
  [step |-> step, args |-> args, xid |-> xid, snapshot |-> snapshot, operator |-> Null,
   saw |-> Null, near |-> <<>>, vector |-> <<>>, text |-> <<>>, out |-> <<>>]

\* A blank call altered is another.
LEMMA BlankFails ==
  ASSUME NEW s, NEW ar, NEW x, NEW sn
  PROVE  [Blank(s, ar, x, sn) EXCEPT !.step = "failed"] = Blank("failed", ar, x, sn)
BY DEF Blank

\* As Call fills it in.
Called(old, args, xid, snapshot) ==
  [old EXCEPT !.step = "resolve", !.args = args, !.xid = xid, !.snapshot = snapshot]

\* A call that has its arguments.
LEMMA BlankCalled ==
  ASSUME NEW s, NEW ar, NEW x, NEW sn, NEW old, old = Blank(s, ar, x, sn),
         NEW ar2, NEW x2, NEW sn2, NEW new,
         new = Called(old, ar2, x2, sn2)
  PROVE  new = Blank("resolve", ar2, x2, sn2)
<1>1. [Blank(s, ar, x, sn) EXCEPT !.step = "resolve"] = Blank("resolve", ar, x, sn)
  BY DEF Blank
<1>2. [Blank("resolve", ar, x, sn) EXCEPT !.args = ar2] = Blank("resolve", ar2, x, sn)
  BY DEF Blank
<1>3. [Blank("resolve", ar2, x, sn) EXCEPT !.xid = x2] = Blank("resolve", ar2, x2, sn)
  BY DEF Blank
<1>4. [Blank("resolve", ar2, x2, sn) EXCEPT !.snapshot = sn2] = Blank("resolve", ar2, x2, sn2)
  BY DEF Blank
<1>5. new = [[[[Blank(s, ar, x, sn) EXCEPT !.step = "resolve"] EXCEPT !.args = ar2]
               EXCEPT !.xid = x2] EXCEPT !.snapshot = sn2]
  BY DEF Called
<1> QED BY <1>1, <1>2, <1>3, <1>4, <1>5

\* A call without rows keeps the invariant.
LEMMA NoRowsYet ==
  ASSUME NEW s, NEW ar, NEW x, NEW sn, call' = Blank(s, ar, x, sn),
         s \in {"resolve", "vector"} => ar \in Calls /\ Depth(ar) \in Int /\ ~(Depth(ar) < 1)
  PROVE  VectorInv'
BY DEF VectorInv, CallShape, VectorSideFollowsOperator, Blank

\* A call that has not begun, and one that failed.
LEMMA NoCallIsBlank ==
  \E x : NoCall = Blank("idle", Null, x, Null) /\ Failed = Blank("failed", Null, x, Null)
<1>1. PICK x : x = FALSE
  OBVIOUS
<1>2. NoCall = Blank("idle", Null, x, Null)
  BY <1>1, Zenon DEF NoCall, Blank
<1>3. [Blank("idle", Null, x, Null) EXCEPT !.step = "failed"] = Blank("failed", Null, x, Null)
  BY BlankFails
<1>4. Failed = Blank("failed", Null, x, Null)
  BY <1>2, <1>3 DEF Failed
<1> QED BY <1>2, <1>4

\* No call has begun.
LEMMA VectorInit == Init => VectorInv
<1> SUFFICES ASSUME call = NoCall PROVE VectorInv
  BY DEF Init
<1>1. PICK x : call = Blank("idle", Null, x, Null)
  BY NoCallIsBlank
<1> QED BY <1>1 DEF VectorInv, CallShape, VectorSideFollowsOperator, Blank

\* Every step keeps the invariant, given what indexes there can be.
LEMMA VectorNext == CatalogInv /\ VectorInv /\ [Next]_vars => VectorInv'
<1> SUFFICES ASSUME CatalogInv, VectorInv, [Next]_vars PROVE VectorInv'
  OBVIOUS
<1>1. CASE UNCHANGED call
  BY <1>1 DEF VectorInv, CallShape, VectorSideFollowsOperator, Rankable
<1>2. CASE call' = NoCall \/ call' = Failed
  <2>1. PICK x : call' = Blank("idle", Null, x, Null) \/ call' = Blank("failed", Null, x, Null)
    BY <1>2, NoCallIsBlank
  <2> QED BY <2>1, NoRowsYet
<1>3. ASSUME NEW args \in Calls, NEW xid \in BOOLEAN, Call(args, xid), call' # Failed
      PROVE  VectorInv'
  <2>1. ~(Depth(args) < 1) /\ call' = [NoCall EXCEPT !.step = "resolve", !.args = args, !.xid = xid,
                     !.snapshot = [table |-> table, indexes |-> indexes]]
    BY <1>3 DEF Call
  <2>2. PICK x, sn : x = xid /\ sn = [table |-> table, indexes |-> indexes]
    OBVIOUS
  <2>3. PICK y : NoCall = Blank("idle", Null, y, Null)
    BY NoCallIsBlank
  <2>4. call' = Blank("resolve", args, x, sn)
    <3>1. PICK old, new : old = NoCall /\ new = call'
      OBVIOUS
    <3>2. new = Called(old, args, x, sn)
      BY <2>1, <2>2, <3>1 DEF Called
    <3>3. old = Blank("idle", Null, y, Null)
      BY <2>3, <3>1
    <3>4. new = Blank("resolve", args, x, sn)
      BY <3>2, <3>3, BlankCalled
    <3> QED BY <3>1, <3>4
  <2> QED BY <2>1, <2>4, DepthIsInt, NoRowsYet
<1>4. ASSUME Resolve, call' # Failed PROVE VectorInv'
  <2>1. PICK op : call.step = "resolve" /\ call' = [call EXCEPT !.step = "vector", !.operator = op]
    BY <1>4 DEF Resolve
  <2>2. call' = [step |-> "vector", args |-> call.args, xid |-> call.xid,
                 snapshot |-> call.snapshot, operator |-> op, saw |-> call.saw,
                 near |-> call.near, vector |-> call.vector, text |-> call.text,
                 out |-> call.out]
    BY <2>1 DEF VectorInv, CallShape
  <2> QED BY <2>1, <2>2 DEF VectorInv, CallShape, VectorSideFollowsOperator
<1>5. ASSUME VectorSide, call' # Failed PROVE VectorInv'
  <2> DEFINE saw == Visible.table
  <2>1. PICK ranked \in Sorted(saw) \cup Scanned(saw) :
          /\ call.step = "vector"
          /\ call' = [call EXCEPT !.step = "text", !.saw = saw,
                        !.near = Limit(ranked, Depth(call.args)),
                        !.vector = FetchIds(saw, Limit(ranked, Depth(call.args)))]
    BY <1>5 DEF VectorSide
  <2>2. PICK s, near, ids : /\ s = saw /\ near = Limit(ranked, Depth(call.args))
                            /\ ids = FetchIds(s, near)
    OBVIOUS
  <2>3. call' = [step |-> "text", args |-> call.args, xid |-> call.xid,
                 snapshot |-> call.snapshot, operator |-> call.operator, saw |-> s,
                 near |-> near, vector |-> ids, text |-> call.text, out |-> call.out]
    BY <2>1, <2>2 DEF VectorInv, CallShape
  <2>4. Depth(call.args) \in Int /\ Depth(call.args) >= 1
    BY <2>1 DEF VectorInv
  <2>5. \A j \in DOMAIN near :
           /\ near[j] \in Rankable(s)
           /\ \A i \in 1 .. j - 1 :
                ~OperatorNearer(call.operator, call.args.query, s[near[j]].vector,
                                s[near[i]].vector)
    BY <2>1, <2>2, <2>4, RankedInOrder
  <2>5a. Len(near) > EfSearch =>
           \A r \in Rankable(s) \ ToSet(near) :
             /\ Len(near) = Depth(call.args)
             /\ \A j \in DOMAIN near :
                  ~OperatorNearer(call.operator, call.args.query, s[r].vector,
                                  s[near[j]].vector)
    BY <2>1, <2>2, <2>4, LongListIsNearest
  <2> HIDE DEF saw
  <2>6. /\ call'.step = "text" /\ call'.saw = s /\ call'.near = near
        /\ call'.operator = call.operator /\ call'.args = call.args
    BY <2>3
  <2>7. VectorSideFollowsOperator'
    BY <2>5, <2>5a, <2>6 DEF VectorSideFollowsOperator, Rankable, Depth
  <2> QED BY <2>3, <2>6, <2>7 DEF VectorInv, CallShape
<1>6. ASSUME NEW s \in {"fuse", "done"}, call.step \in {"text", "fuse"}, NEW t, NEW o,
             call' = [step |-> s, args |-> call.args, xid |-> call.xid,
                      snapshot |-> call.snapshot, operator |-> call.operator,
                      saw |-> call.saw, near |-> call.near, vector |-> call.vector,
                      text |-> t, out |-> o]
      PROVE  VectorInv'
  BY <1>6 DEF VectorInv, CallShape, VectorSideFollowsOperator, Rankable
<1>7. ASSUME TextSide PROVE VectorInv'
  <2>1. PICK text : call.step = "text" /\ call' = [call EXCEPT !.step = "fuse", !.text = text]
    BY <1>7 DEF TextSide
  <2>2. call' = [step |-> "fuse", args |-> call.args, xid |-> call.xid,
                 snapshot |-> call.snapshot, operator |-> call.operator, saw |-> call.saw,
                 near |-> call.near, vector |-> call.vector, text |-> text, out |-> call.out]
    BY <2>1 DEF VectorInv, CallShape
  <2> QED BY <1>6, <2>1, <2>2, Zenon
<1>8. ASSUME Fuse, call' # Failed PROVE VectorInv'
  <2>1. PICK out : call.step = "fuse" /\ call' = [call EXCEPT !.step = "done", !.out = out]
    BY <1>8 DEF Fuse
  <2>2. call' = [step |-> "done", args |-> call.args, xid |-> call.xid,
                 snapshot |-> call.snapshot, operator |-> call.operator, saw |-> call.saw,
                 near |-> call.near, vector |-> call.vector, text |-> call.text, out |-> out]
    BY <2>1 DEF VectorInv, CallShape
  <2> QED BY <1>6, <2>1, <2>2, Zenon
<1>9. \/ UNCHANGED call \/ Resolve \/ VectorSide \/ TextSide \/ Fuse \/ Return
      \/ \E args \in Calls, xid \in BOOLEAN : Call(args, xid)
  BY DEF Next, vars, ChangeRow, ChangeIndexes, Change
<1>10. Return => call' = NoCall
  BY DEF Return
<1> QED BY <1>1, <1>2, <1>3, <1>4, <1>5, <1>7, <1>8, <1>9, <1>10

\* The vector side of a call is in the order of the operator that was resolved, for any
\* tables, indexes and WITH lists, and whatever other transactions do between its queries:
\* a graph is built with the metric of its operator class, and keeps it.
THEOREM VectorSideIsOrdered == Spec => []VectorSideFollowsOperator
<1>1. VectorInv => VectorSideFollowsOperator
  BY DEF VectorInv
<1> QED BY CatalogInit, CatalogNext, VectorInit, VectorNext, <1>1, PTL DEF Spec

-----------------------------------------------------------------------------
(* Contributions.                                                          *)

\* The numbers that k + 1 .. k + n divide.
Multiples(k, n) ==
  {x \in Nat \ {0} : \A r \in 1 .. n : \E q \in Nat \ {0} : x = q * (k + r)}

\* One more factor.
LEMMA MultiplesGrow ==
  ASSUME NEW k \in Nat, NEW n \in Nat \ {0}, NEW x \in Multiples(k, n - 1)
  PROVE  x * (k + n) \in Multiples(k, n)
<1> DEFINE d == k + n
           y == x * d
<1>1. d \in Nat \ {0} /\ x \in Nat \ {0}
  BY DEF Multiples
<1> HIDE DEF d
<1>2. y \in Nat \ {0}
  BY <1>1
<1>3. ASSUME NEW r \in 1 .. n PROVE \E q \in Nat \ {0} : y = q * (k + r)
  <2>1. CASE r = n
    BY <1>1, <2>1 DEF d
  <2>2. CASE r # n
    <3>1. r \in 1 .. n - 1
      BY <2>2
    <3>2. PICK q \in Nat \ {0} : x = q * (k + r)
      BY <3>1 DEF Multiples
    <3> DEFINE e == k + r
    <3>3. e \in Nat
      OBVIOUS
    <3> HIDE DEF e
    <3>4. (q * e) * d = (q * d) * e /\ q * d \in Nat \ {0}
      BY <1>1, <3>3
    <3>5. y = (q * d) * e
      BY <3>2, <3>4 DEF e
    <3> QED BY <3>4, <3>5 DEF e
  <2> QED BY <2>1, <2>2
<1> HIDE DEF y
<1>4. y \in Multiples(k, n)
  BY <1>2, <1>3 DEF Multiples
<1> QED BY <1>4 DEF y, d

\* The scale of a k that ranks change is a multiple of every denominator.
LEMMA ScaleOK ==
  ASSUME NEW k \in Nat, k < Absorbing
  PROVE  Scale(k) \in Multiples(k, MaxRank)
<1> DEFINE Eq(f) == f = [n \in 0 .. MaxRank |-> IF n = 0 THEN 1 ELSE f[n - 1] * (k + n)]
           F == [x \in Nat \X (1 .. MaxRank) |-> x[1] * (k + x[2])]
           S == [n \in 0 .. MaxRank |-> Multiples(k, n)]
<1>1. MaxRank \in Nat /\ ~(k >= Absorbing)
  BY RankAssumption
<1>2. Scale(k) = (CHOOSE f : Eq(f))[MaxRank]
  BY <1>1 DEF Scale
<1>3. 1 \in S[0]
  BY <1>1 DEF Multiples
<1>4. \A n \in 1 .. MaxRank : \A c \in S[n - 1] :
        F[<<c, n>>] = c * (k + n) /\ F[<<c, n>>] \in S[n]
  <2> SUFFICES ASSUME NEW n \in 1 .. MaxRank, NEW c \in S[n - 1]
               PROVE  F[<<c, n>>] = c * (k + n) /\ F[<<c, n>>] \in S[n]
    OBVIOUS
  <2>1. c \in Multiples(k, n - 1) /\ n \in Nat \ {0} /\ n \in 0 .. MaxRank
    BY <1>1
  <2>2. c \in Nat
    BY <2>1 DEF Multiples
  <2>3. F[<<c, n>>] = c * (k + n)
    BY <2>2
  <2>4. c * (k + n) \in Multiples(k, n)
    BY <2>1, MultiplesGrow
  <2> QED BY <2>1, <2>3, <2>4
<1> HIDE DEF F
<1>5. PICK g : Runs(g, 1, F, MaxRank) /\ \A n \in 0 .. MaxRank : g[n] \in S[n]
  <2> HIDE DEF S
  <2>1. \A n \in 1 .. MaxRank : \A c \in S[n - 1] : F[<<c, n>>] \in S[n]
    BY <1>4
  <2> QED BY <1>1, <1>3, <2>1, RunIn
<1>6. Eq(g)
  <2>1. \A n \in 1 .. MaxRank : g[n] = g[n - 1] * (k + n)
    <3> SUFFICES ASSUME NEW n \in 1 .. MaxRank PROVE g[n] = g[n - 1] * (k + n)
      OBVIOUS
    <3>1. n - 1 \in 0 .. MaxRank
      BY <1>1
    <3> QED BY <1>4, <1>5, <3>1 DEF Runs
  <2>2. \A n \in 0 .. MaxRank : g[n] = IF n = 0 THEN 1 ELSE g[n - 1] * (k + n)
    <3> SUFFICES ASSUME NEW n \in 0 .. MaxRank
                 PROVE  g[n] = IF n = 0 THEN 1 ELSE g[n - 1] * (k + n)
      OBVIOUS
    <3>1. CASE n = 0
      BY <1>5, <3>1 DEF Runs
    <3>2. CASE n # 0
      <4>1. n \in 1 .. MaxRank
        BY <1>1, <3>2
      <4> QED BY <2>1, <3>2, <4>1
    <3> QED BY <3>1, <3>2
  <2>3. g = [n \in 0 .. MaxRank |-> g[n]]
    BY <1>5 DEF Runs
  <2> QED BY <2>2, <2>3
<1> DEFINE h == CHOOSE f : Eq(f)
<1>7. Eq(h)
  <2> HIDE DEF Eq
  <2> QED BY <1>6
<1> HIDE DEF h
<1>8. h[0] = 1 /\ \A n \in 1 .. MaxRank : h[n] = h[n - 1] * (k + n)
  BY <1>1, <1>7
<1>9. \A n \in 1 .. MaxRank : h[n - 1] \in S[n - 1] => h[n] \in S[n]
  BY <1>4, <1>8
<1>10. \A n \in 0 .. MaxRank : h[n] \in S[n]
  <2> HIDE DEF S
  <2> QED BY <1>1, <1>3, <1>8, <1>9, RunStays
<1>11. h[MaxRank] \in Multiples(k, MaxRank)
  BY <1>1, <1>10
<1> QED BY <1>2, <1>11 DEF h

\* What a multiple divided by one of its divisors is.
LEMMA Quotient ==
  ASSUME NEW q \in Nat, NEW d \in Nat \ {0}
  PROVE  (q * d) \div d = q
OBVIOUS

\* Of two divisors the smaller goes in more often.
LEMMA SmallerGoesMore ==
  ASSUME NEW a \in Nat \ {0}, NEW b \in Nat, a < b, NEW q \in Nat \ {0}, NEW r \in Nat \ {0},
         q * a = r * b
  PROVE  q > r
OBVIOUS

\* A place in a list contributes something.
LEMMA ContributionPositive ==
  ASSUME NEW k \in Nat, NEW rank \in 1 .. MaxRank
  PROVE  Contribution(k, rank) \in Nat \ {0}
<1>1. CASE k >= Absorbing
  BY <1>1 DEF Contribution
<1>2. CASE ~(k >= Absorbing)
  <2>1. k < Absorbing /\ k + rank \in Nat \ {0}
    BY <1>2, RankAssumption
  <2>2. PICK q \in Nat \ {0} : Scale(k) = q * (k + rank)
    BY <2>1, ScaleOK DEF Multiples
  <2>3. Scale(k) \div (k + rank) = q
    BY <2>1, <2>2, Quotient
  <2> QED BY <1>2, <2>3 DEF Contribution
<1> QED BY <1>1, <1>2

\* An earlier place contributes more, where adding a rank to k changes it.
LEMMA ContributionFalls ==
  ASSUME NEW k \in Nat, k < Absorbing, NEW i \in 1 .. MaxRank, NEW j \in 1 .. MaxRank, i < j
  PROVE  Contribution(k, i) > Contribution(k, j)
<1>1. ~(k >= Absorbing) /\ k + i \in Nat \ {0} /\ k + j \in Nat \ {0} /\ k + i < k + j
  BY RankAssumption
<1>2. PICK q \in Nat \ {0}, r \in Nat \ {0} : Scale(k) = q * (k + i) /\ Scale(k) = r * (k + j)
  BY ScaleOK DEF Multiples
<1>3. Scale(k) \div (k + i) = q /\ Scale(k) \div (k + j) = r
  BY <1>1, <1>2, Quotient
<1>4. q > r
  BY <1>1, <1>2, SmallerGoesMore
<1> QED BY <1>1, <1>3, <1>4 DEF Contribution

-----------------------------------------------------------------------------
(* One list and two lists.                                                 *)

\* An element of a list has a first place in it, and only one.
LEMMA RankInOK ==
  ASSUME NEW V, NEW list \in Seq(V), NEW x
  PROVE  /\ x \notin ToSet(list) => RankIn(list, x) = Null
         /\ x \in ToSet(list) => /\ RankIn(list, x) \in 1 .. Len(list)
                                 /\ list[RankIn(list, x)] = x
                                 /\ \A j \in 1 .. RankIn(list, x) - 1 : list[j] # x
         /\ \A k \in 1 .. Len(list) :
              list[k] = x /\ (\A j \in 1 .. k - 1 : list[j] # x) => RankIn(list, x) = k
<1> DEFINE First(k) == list[k] = x /\ \A j \in 1 .. k - 1 : list[j] # x
           D == 1 .. Len(list)
           c == CHOOSE k \in D : First(k)
<1>1. Len(list) \in Nat /\ DOMAIN list = D /\ ToSet(list) = {list[j] : j \in D}
  BY DEF ToSet
<1>2. x \in ToSet(list) => RankIn(list, x) = c
  BY <1>1 DEF RankIn
<1>3. x \notin ToSet(list) => RankIn(list, x) = Null
  BY DEF RankIn
<1>4. ASSUME x \in ToSet(list) PROVE \E k \in D : First(k)
  <2> DEFINE T == {k \in D : list[k] = x}
  <2>1. T \subseteq Nat /\ T # {}
    BY <1>1, <1>4
  <2>2. PICK k \in T : \A j \in T : ~(j < k)
    BY <2>1, NatMin
  <2>3. \A j \in 1 .. k - 1 : list[j] # x
    BY <1>1, <2>2
  <2> QED BY <2>2, <2>3
<1>5. \A j, k \in D : First(j) /\ First(k) => j = k
  BY <1>1
<1>6. (\E k \in D : First(k)) => c \in D /\ First(c)
  <2> HIDE DEF First, D
  <2> QED OBVIOUS
<1>7. ASSUME NEW k \in D, First(k) PROVE RankIn(list, x) = k
  <2>1. x \in ToSet(list)
    BY <1>1, <1>7
  <2>2. c \in D /\ First(c)
    BY <1>6, <1>7
  <2> HIDE DEF c
  <2> QED BY <1>2, <1>5, <1>7, <2>1, <2>2
<1>8. x \in ToSet(list) => RankIn(list, x) \in D /\ First(RankIn(list, x))
  <2> HIDE DEF First, c, D
  <2> QED BY <1>2, <1>4, <1>6
<1> QED BY <1>3, <1>7, <1>8

\* What a list gives to a key.
Gain(k, list, key) ==
  IF RankIn(list, key) = Null THEN 0 ELSE Contribution(k, RankIn(list, key))

\* A list gives something to its elements, and nothing to others.
LEMMA GainOK ==
  ASSUME NEW k \in Nat, NEW V, NEW list \in Seq(V), Len(list) <= MaxRank, NEW x
  PROVE  /\ Gain(k, list, x) \in Nat
         /\ x \in ToSet(list) => /\ Gain(k, list, x) = Contribution(k, RankIn(list, x))
                                 /\ Gain(k, list, x) # 0
         /\ x \notin ToSet(list) => Gain(k, list, x) = 0
<1>1. Len(list) \in Nat
  OBVIOUS
<1>2. CASE x \in ToSet(list)
  <2>1. RankIn(list, x) \in 1 .. Len(list)
    BY <1>2, RankInOK
  <2>2. RankIn(list, x) \in 1 .. MaxRank /\ RankIn(list, x) # Null
    BY <1>1, <2>1, RankAssumption, CallsAssumption
  <2>3. Gain(k, list, x) = Contribution(k, RankIn(list, x))
    BY <2>2 DEF Gain
  <2>4. Contribution(k, RankIn(list, x)) \in Nat \ {0}
    BY <2>2, ContributionPositive
  <2> QED BY <1>2, <2>3, <2>4
<1>3. CASE x \notin ToSet(list)
  <2>1. RankIn(list, x) = Null
    BY <1>3, RankInOK
  <2> QED BY <1>3, <2>1 DEF Gain
<1> QED BY <1>2, <1>3

\* An entry of the scores.
Entries == [score : Nat, last : Nat]

\* A list that no key has a contribution from yet adds its gain to every key.
LEMMA AfterOK ==
  ASSUME NEW k \in Nat, NEW E, NEW scores \in [E -> Entries], NEW l \in Nat,
         \A key \in E : scores[key].last # l,
         NEW ranking \in Seq(E), Len(ranking) <= MaxRank
  PROVE  /\ After(scores, l, ranking, k) \in [E -> Entries]
         /\ \A key \in E :
              LET entry == After(scores, l, ranking, k)[key] IN
              /\ entry.score = scores[key].score + Gain(k, ranking, key)
              /\ entry.last \in {scores[key].last, l}
<1> DEFINE n == Len(ranking)
           Among(p) == {ranking[j] : j \in 1 .. p}
           New(key) == [score |-> scores[key].score + Contribution(k, RankIn(ranking, key)), last |-> l]
           G(p) == [key \in E |-> IF key \in Among(p) THEN New(key) ELSE scores[key]]
           Step(f, p) == Accumulate(f, l, ranking[p], Contribution(k, p))
           Eq(f) == f = [p \in 0 .. n |-> IF p = 0 THEN scores ELSE Step(f[p - 1], p)]
           h == CHOOSE f : Eq(f)
           g == [p \in 0 .. n |-> G(p)]
<1>1. After(scores, l, ranking, k) = h[n]
  BY DEF After
<1>2. n \in Nat /\ Among(n) = ToSet(ranking)
  BY DEF ToSet
<1>3. G(0) = scores
  <2>1. Among(0) = {}
    OBVIOUS
  <2> HIDE DEF Among, New
  <2> QED BY <2>1
<1>4. ASSUME NEW p \in 1 .. n PROVE G(p) = Step(G(p - 1), p)
  <2> DEFINE x == ranking[p]
             c == Contribution(k, p)
             before == G(p - 1)
  <2>1. x \in E /\ p - 1 \in Nat
    BY <1>2
  <2>2. Among(p) = Among(p - 1) \cup {x}
    BY <1>2
  <2> HIDE DEF x, c
  <2>3. before = [key \in E |-> before[key]]
        /\ \A key \in E : before[key] = IF key \in Among(p - 1) THEN New(key) ELSE scores[key]
    <3> HIDE DEF Among, New
    <3> QED OBVIOUS
  <2>4. CASE x \in Among(p - 1)
    <3>1. before[x].last = l
      <4>1. before[x] = New(x)
        BY <2>1, <2>3, <2>4
      <4> QED BY <4>1
    <3>2. Step(before, p) = before
      BY <3>1 DEF Accumulate, x
    <3>3. Among(p) = Among(p - 1)
      BY <2>2, <2>4
    <3> HIDE DEF Among, New
    <3> QED BY <3>2, <3>3
  <2>5. CASE x \notin Among(p - 1)
    <3>1. before[x] = scores[x] /\ before[x].last # l
      BY <2>1, <2>3, <2>5
    <3>2. Step(before, p)
            = [before EXCEPT ![x] = [score |-> before[x].score + c, last |-> l]]
      BY <2>1, <3>1 DEF Accumulate, x, c
    <3>3. RankIn(ranking, x) = p
      <4>1. \A j \in 1 .. p - 1 : ranking[j] # x
        BY <2>5
      <4> QED BY <1>2, <4>1, RankInOK DEF x
    <3>4. New(x) = [score |-> before[x].score + c, last |-> l]
      BY <3>1, <3>3 DEF c
    <3> HIDE DEF Among, New, before
    <3>5. Step(before, p) = [key \in E |-> IF key = x THEN New(x) ELSE before[key]]
      <4> HIDE DEF Step
      <4> QED BY <2>1, <2>3, <3>2, <3>4
    <3>6. \A key \in E : (IF key = x THEN New(x) ELSE before[key])
                         = (IF key \in Among(p) THEN New(key) ELSE scores[key])
      BY <2>2, <2>3
    <3> HIDE DEF Step
    <3>7. Step(before, p) = [key \in E |-> IF key \in Among(p) THEN New(key) ELSE scores[key]]
      BY <3>5, <3>6
    <3> QED BY <3>7 DEF before
  <2> QED BY <2>4, <2>5
<1> HIDE DEF G, Step, n, Among, New
<1>5. Eq(g)
  <2> SUFFICES ASSUME NEW p \in 0 .. n
               PROVE  g[p] = IF p = 0 THEN scores ELSE Step(g[p - 1], p)
    OBVIOUS
  <2>1. p # 0 => p \in 1 .. n /\ p - 1 \in 0 .. n
    BY <1>2
  <2> QED BY <1>3, <1>4, <2>1
<1> HIDE DEF g
<1>6. Eq(h)
  <2> HIDE DEF Eq
  <2> QED BY <1>5
<1> HIDE DEF h
<1>7. h[0] = scores /\ \A p \in 1 .. n : h[p] = Step(h[p - 1], p)
  BY <1>2, <1>6
<1> DEFINE S == [p \in 0 .. n |-> {G(p)}]
<1>8. h[0] \in S[0] /\ \A p \in 1 .. n : h[p - 1] \in S[p - 1] => h[p] \in S[p]
  <2>1. 0 \in 0 .. n /\ \A p \in 1 .. n : p \in 0 .. n /\ p - 1 \in 0 .. n
    BY <1>2
  <2> QED BY <1>3, <1>4, <1>7, <2>1
<1> HIDE DEF S
<1>9. \A p \in 0 .. n : h[p] \in S[p]
  BY <1>2, <1>8, RunStays
<1>10. h[n] = G(n)
  BY <1>2, <1>9 DEF S
<1>11. ASSUME NEW key \in E
       PROVE  LET entry == IF key \in ToSet(ranking) THEN New(key) ELSE scores[key] IN
              /\ entry \in Entries
              /\ entry.score = scores[key].score + Gain(k, ranking, key)
              /\ entry.last \in {scores[key].last, l}
  <2> DEFINE old == scores[key]
             gain == Gain(k, ranking, key)
  <2>1. old \in Entries /\ old.score \in Nat /\ old.last \in Nat
    BY DEF Entries
  <2>2. gain \in Nat
    BY GainOK
  <2>3. CASE key \in ToSet(ranking)
    <3>1. New(key) = [score |-> old.score + gain, last |-> l]
      BY <2>3, GainOK DEF New
    <3> HIDE DEF old, gain, New
    <3>2. New(key) \in Entries /\ New(key).score = old.score + gain /\ New(key).last = l
      BY <2>1, <2>2, <3>1 DEF Entries
    <3> QED BY <2>3, <3>2 DEF old, gain
  <2>4. CASE key \notin ToSet(ranking)
    <3>1. gain = 0
      BY <2>4, GainOK
    <3> HIDE DEF old, gain
    <3>2. old.score = old.score + gain
      BY <2>1, <3>1
    <3> QED BY <2>1, <2>4, <3>2 DEF old, gain
  <2> QED BY <2>3, <2>4
<1>12. After(scores, l, ranking, k)
         = [key \in E |-> IF key \in ToSet(ranking) THEN New(key) ELSE scores[key]]
  BY <1>1, <1>2, <1>10 DEF G
<1> HIDE DEF New
<1> QED BY <1>11, <1>12

\* The keys of two lists, each with what both lists give it.
ScoresOf(scores, v, t, k) ==
  /\ DOMAIN scores = ToSet(v) \cup ToSet(t)
  /\ \A key \in ToSet(v) \cup ToSet(t) : scores[key].score = Gain(k, v, key) + Gain(k, t, key)

\* Fusion computes those.
LEMMA ScoresOK ==
  ASSUME NEW k \in Nat, NEW v \in Seq(Keys), NEW t \in Seq(Keys),
         Len(v) <= MaxRank, Len(t) <= MaxRank, NEW scores, scores = Scores(<<v, t>>, k)
  PROVE  ScoresOf(scores, v, t, k)
<1> DEFINE rankings == <<v, t>>
           E == ToSet(v) \cup ToSet(t)
           Z == [key \in E |-> [score |-> 0, last |-> 0]]
           A == After(Z, 1, v, k)
           B == After(A, 2, t, k)
           Eq(f) == f = [l \in 0 .. Len(rankings) |->
                           IF l = 0 THEN [key \in Elements(rankings) |-> [score |-> 0, last |-> 0]]
                           ELSE After(f[l - 1], l, rankings[l], k)]
           g == [l \in 0 .. 2 |-> IF l = 0 THEN Z ELSE IF l = 1 THEN A ELSE B]
           h == CHOOSE f : Eq(f)
<1>1. Len(rankings) = 2 /\ rankings[1] = v /\ rankings[2] = t /\ DOMAIN rankings = {1, 2}
  OBVIOUS
<1>2. Elements(rankings) = E
  BY <1>1 DEF Elements, ToSet
<1>3. Scores(rankings, k) = h[2]
  BY <1>1 DEF Scores
<1> HIDE DEF rankings
<1>4. Eq(g)
  <2> HIDE DEF Z, A, B
  <2>1. \A l \in 0 .. 2 : g[l] = IF l = 0 THEN Z ELSE After(g[l - 1], l, rankings[l], k)
    BY <1>1 DEF A, B
  <2> QED BY <1>1, <1>2, <2>1 DEF Z
<1>5. Eq(h)
  <2> HIDE DEF Eq, g
  <2> QED BY <1>4
<1> HIDE DEF h
<1>6. h[0] = Z /\ h[1] = After(h[0], 1, v, k) /\ h[2] = After(h[1], 2, t, k)
  <2> HIDE DEF E
  <2> QED BY <1>1, <1>2, <1>5
<1>7. h[2] = B
  BY <1>6
<1>8. Z \in [E -> Entries] /\ v \in Seq(E) /\ t \in Seq(E) /\ \A key \in E : Z[key].last = 0 /\ Z[key].score = 0
  BY DEF Entries, ToSet
<1> HIDE DEF E, Z
<1>9. A \in [E -> Entries]
      /\ \A key \in E : A[key].score = Gain(k, v, key) /\ A[key].last \in {0, 1}
  <2>1. /\ A \in [E -> Entries]
        /\ \A key \in E : /\ A[key].score = Z[key].score + Gain(k, v, key)
                         /\ A[key].last \in {Z[key].last, 1}
    <3>1. \A key \in E : Z[key].last # 1
      BY <1>8
    <3> QED BY <1>8, <3>1, AfterOK
  <2>2. \A key \in E : Gain(k, v, key) \in Nat
    BY GainOK
  <2> HIDE DEF A
  <2>3. \A key \in E : A[key].score = Gain(k, v, key)
    BY <1>8, <2>1, <2>2
  <2>4. \A key \in E : A[key].last \in {0, 1}
    BY <1>8, <2>1
  <2> QED BY <2>1, <2>3, <2>4
<1> HIDE DEF A
<1>10. B \in [E -> Entries]
       /\ \A key \in E : B[key].score = Gain(k, v, key) + Gain(k, t, key)
  <2>1. /\ B \in [E -> Entries]
        /\ \A key \in E : B[key].score = A[key].score + Gain(k, t, key)
    <3>1. \A key \in E : A[key].last # 2
      BY <1>9
    <3>2. /\ After(A, 2, t, k) \in [E -> Entries]
          /\ \A key \in E : After(A, 2, t, k)[key].score = A[key].score + Gain(k, t, key)
      <4>1. A \in [E -> Entries] /\ t \in Seq(E) /\ Len(t) <= MaxRank /\ 2 \in Nat
        BY <1>8, <1>9
      <4> QED BY ONLY k \in Nat, <3>1, <4>1, AfterOK
    <3> QED BY <3>2
  <2> HIDE DEF B
  <2> QED BY <1>9, <2>1
<1> HIDE DEF B
<1>11. DOMAIN B = E
  BY <1>10
<1> QED BY <1>3, <1>7, <1>10, <1>11 DEF E, rankings, ScoresOf

-----------------------------------------------------------------------------
(* The order of results.                                                   *)

\* Scores of a finite set of keys.
Scored(s) == /\ IsFiniteSet(DOMAIN s) /\ DOMAIN s \subseteq Int
             /\ \A key \in DOMAIN s : s[key].score \in Int

\* The keys ahead of one.
AheadOf(s, a) == {b \in DOMAIN s : Ahead(s, b, a)}

\* Keys are in a strict order.
LEMMA AheadOrders ==
  ASSUME NEW s, Scored(s), NEW a \in DOMAIN s, NEW b \in DOMAIN s
  PROVE  /\ ~Ahead(s, a, a)
         /\ Ahead(s, a, b) => ~Ahead(s, b, a)
         /\ a = b \/ Ahead(s, a, b) \/ Ahead(s, b, a)
         /\ \A c \in DOMAIN s : Ahead(s, a, b) /\ Ahead(s, b, c) => Ahead(s, a, c)
<1> DEFINE score(x) == s[x].score
<1>1. \A x \in DOMAIN s : score(x) \in Int /\ x \in Int
  BY DEF Scored
<1>2. \A x, y : Ahead(s, x, y) <=> score(x) > score(y) \/ (score(x) = score(y) /\ x < y)
  BY DEF Ahead
<1> HIDE DEF score
<1> QED BY <1>1, <1>2

\* The one ahead has fewer ahead of it.
LEMMA CountsGrow ==
  ASSUME NEW s, Scored(s), NEW a \in DOMAIN s, NEW b \in DOMAIN s, Ahead(s, a, b)
  PROVE  Cardinality(AheadOf(s, a)) < Cardinality(AheadOf(s, b))
<1>1. AheadOf(s, a) \subseteq AheadOf(s, b) /\ a \in AheadOf(s, b) /\ a \notin AheadOf(s, a)
      /\ AheadOf(s, b) \subseteq DOMAIN s
  BY AheadOrders DEF AheadOf
<1> DEFINE A == AheadOf(s, a)
           B == AheadOf(s, b)
<1>2. A # B /\ IsFiniteSet(B) /\ A \in SUBSET B
  BY <1>1, FS_Subset DEF Scored
<1> HIDE DEF A, B
<1>3. IsFiniteSet(A) /\ Cardinality(A) <= Cardinality(B) /\ Cardinality(A) # Cardinality(B)
  BY <1>2, FS_Subset
<1>4. Cardinality(A) \in Nat /\ Cardinality(B) \in Nat
  BY <1>2, <1>3, FS_CardinalityType
<1>5. Cardinality(A) < Cardinality(B)
  BY <1>3, <1>4
<1> QED BY <1>5 DEF A, B

\* Fewer than all are ahead of one.
LEMMA CountBelow ==
  ASSUME NEW s, Scored(s), NEW a \in DOMAIN s
  PROVE  Cardinality(AheadOf(s, a)) \in 0 .. Cardinality(DOMAIN s) - 1
<1>1. AheadOf(s, a) \subseteq DOMAIN s /\ AheadOf(s, a) # DOMAIN s
  BY AheadOrders DEF AheadOf
<1>2. IsFiniteSet(DOMAIN s) /\ Cardinality(DOMAIN s) \in Nat
  BY FS_CardinalityType DEF Scored
<1> DEFINE A == AheadOf(s, a)
           B == DOMAIN s
<1>3. A \in SUBSET B /\ A # B
  BY <1>1
<1> HIDE DEF A, B
<1>4. IsFiniteSet(B) /\ Cardinality(B) \in Nat
  BY <1>2 DEF B
<1>5. IsFiniteSet(A) /\ Cardinality(A) <= Cardinality(B) /\ Cardinality(A) # Cardinality(B)
  BY <1>3, <1>4, FS_Subset
<1>6. Cardinality(A) \in Nat
  BY <1>5, FS_CardinalityType
<1>7. Cardinality(A) \in 0 .. Cardinality(B) - 1
  BY <1>4, <1>5, <1>6
<1> QED BY <1>7 DEF A, B

\* Every place is somebody's.
LEMMA PlacesTaken ==
  ASSUME NEW s, Scored(s)
  PROVE  \A r \in 1 .. Cardinality(DOMAIN s) :
           \E a \in DOMAIN s : Cardinality(AheadOf(s, a)) = r - 1
<1> DEFINE S == DOMAIN s
           n == Cardinality(S)
           T == 0 .. n - 1
           count == [a \in S |-> Cardinality(AheadOf(s, a))]
<1>1. n \in Nat /\ IsFiniteSet(S)
  BY FS_CardinalityType DEF Scored
<1>2. \A a \in S : count[a] \in T
  BY CountBelow
<1>3. \A a, b \in S : count[a] = count[b] => a = b
  <2> SUFFICES ASSUME NEW a \in S, NEW b \in S, a # b PROVE count[a] # count[b]
    OBVIOUS
  <2>1. Ahead(s, a, b) \/ Ahead(s, b, a)
    BY AheadOrders
  <2>2. count[a] < count[b] \/ count[b] < count[a]
    BY <2>1, CountsGrow
  <2> QED BY <1>2, <2>2
<1>4. count \in Injection(S, T)
  BY <1>2, <1>3 DEF Injection, IsInjective
<1>5. IsFiniteSet(T) /\ Cardinality(T) = n
  BY <1>1, FS_Interval, SMTT(30)
<1>6. count \in Surjection(S, T)
  BY <1>1, <1>4, <1>5, FS_Injection
<1>7. \A r \in 1 .. n : r - 1 \in T
  BY <1>1
<1> QED BY <1>6, <1>7 DEF Surjection

\* The fused keys are all the keys, each once, in that order.
LEMMA RrfOK ==
  ASSUME NEW rankings, NEW k, NEW s, s = Scores(rankings, k), Scored(s),
         NEW r, r = Rrf(rankings, k), NEW n, n = Cardinality(DOMAIN s)
  PROVE  /\ n \in Nat /\ r = [i \in 1 .. n |-> r[i]]
         /\ \A i \in 1 .. n : r[i].key \in DOMAIN s /\ r[i].score = s[r[i].key].score
         /\ \A a \in DOMAIN s : \E i \in 1 .. n : r[i].key = a
         /\ \A i, j \in 1 .. n : i < j => Ahead(s, r[i].key, r[j].key)
<1> DEFINE S == DOMAIN s
           count(a) == Cardinality({b \in S : Ahead(s, b, a)})
           By(i) == CHOOSE a \in S : count(a) = i - 1
<1>1. n \in Nat
  BY FS_CardinalityType DEF Scored
<1>2. r = [i \in 1 .. n |-> [key |-> By(i), score |-> s[By(i)].score]]
  BY DEF Rrf
<1>3. \A a \in S : count(a) = Cardinality(AheadOf(s, a))
  BY DEF AheadOf
<1> HIDE DEF count
<1>4. \A i \in 1 .. n : By(i) \in S /\ count(By(i)) = i - 1
  BY <1>3, PlacesTaken
<1> HIDE DEF By
<1>5. \A i \in 1 .. n : r[i].key = By(i) /\ r[i].score = s[By(i)].score
  BY <1>2
<1>6. \A a, b \in S : Ahead(s, a, b) => count(a) < count(b)
  BY <1>3, CountsGrow
<1>7. ASSUME NEW i \in 1 .. n, NEW j \in 1 .. n, i < j PROVE Ahead(s, By(i), By(j))
  <2>1. By(i) \in S /\ By(j) \in S /\ count(By(i)) < count(By(j))
    BY <1>1, <1>4, <1>7
  <2>2. ~Ahead(s, By(j), By(i)) /\ By(i) # By(j)
    BY <1>1, <1>4, <1>6, <2>1
  <2> QED BY <2>1, <2>2, AheadOrders
<1>8. ASSUME NEW a \in S PROVE \E i \in 1 .. n : By(i) = a
  <2>1. count(a) \in 0 .. n - 1
    BY <1>3, CountBelow
  <2>2. count(a) + 1 \in 1 .. n
    BY <1>1, <2>1
  <2>3. By(count(a) + 1) \in S /\ count(By(count(a) + 1)) = count(a)
    BY <1>4, <2>1, <2>2
  <2>4. By(count(a) + 1) = a
    <3>1. \/ By(count(a) + 1) = a \/ Ahead(s, By(count(a) + 1), a)
          \/ Ahead(s, a, By(count(a) + 1))
      BY <2>3, AheadOrders
    <3> QED BY <1>6, <2>1, <2>3, <3>1
  <2> QED BY <2>2, <2>4
<1>9. r = [i \in 1 .. n |-> r[i]]
  BY <1>2
<1> QED BY <1>1, <1>4, <1>5, <1>7, <1>8, <1>9

-----------------------------------------------------------------------------
(* Ids and their keys.                                                     *)

\* Ids differ when their keys do.
LEMMA KeysDiffer ==
  ASSUME NEW x \in IdValues, NEW y \in IdValues
  PROVE  KeyOf(x) = KeyOf(y) <=> x = y
BY KeyIsOffset, HalfAssumption DEF IdValues

\* An id has the rank among ids that its key has among keys.
LEMMA RankOfKey ==
  ASSUME NEW ids \in Seq(IdValues), NEW x \in IdValues
  PROVE  /\ KeysOf(ids) \in Seq(Keys) /\ Len(KeysOf(ids)) = Len(ids)
         /\ KeyOf(x) \in ToSet(KeysOf(ids)) <=> x \in ToSet(ids)
         /\ RankIn(KeysOf(ids), KeyOf(x)) = RankIn(ids, x)
<1> DEFINE keys == KeysOf(ids)
           n == Len(ids)
<1>1. n \in Nat /\ DOMAIN ids = 1 .. n /\ \A k \in 1 .. n : ids[k] \in IdValues
  OBVIOUS
<1>2. keys = [k \in 1 .. n |-> KeyOf(ids[k])]
  BY <1>1 DEF KeysOf
<1>3. \A k \in 1 .. n : KeyOf(ids[k]) \in Keys
  BY <1>1, IdsComeBack
<1> HIDE DEF keys, n
<1>4. keys \in Seq(Keys) /\ Len(keys) = n
  BY <1>1, <1>2, <1>3
<1>5. \A k \in 1 .. n : keys[k] = KeyOf(x) <=> ids[k] = x
  BY <1>1, <1>2, KeysDiffer
<1>6. ToSet(keys) = {keys[k] : k \in 1 .. n} /\ ToSet(ids) = {ids[k] : k \in 1 .. n}
  BY <1>1, <1>2 DEF ToSet
<1>7. KeyOf(x) \in ToSet(keys) <=> x \in ToSet(ids)
  BY <1>5, <1>6
<1>8. CASE x \in ToSet(ids)
  <2> DEFINE r == RankIn(ids, x)
  <2>1. r \in 1 .. n /\ ids[r] = x /\ \A j \in 1 .. r - 1 : ids[j] # x
    BY <1>8, RankInOK DEF n
  <2> HIDE DEF r
  <2>2. keys[r] = KeyOf(x) /\ \A j \in 1 .. r - 1 : keys[j] # KeyOf(x)
    <3>1. \A j \in 1 .. r - 1 : j \in 1 .. n
      BY <1>1, <2>1
    <3> QED BY <1>5, <2>1, <3>1
  <2>3. RankIn(keys, KeyOf(x)) = r
    BY <1>4, <2>1, <2>2, RankInOK
  <2> QED BY <1>4, <1>7, <2>3 DEF keys, n, r
<1>9. CASE x \notin ToSet(ids)
  <2>1. RankIn(ids, x) = Null
    BY <1>9, RankInOK
  <2>2. RankIn(keys, KeyOf(x)) = Null
    BY <1>4, <1>7, <1>9, RankInOK
  <2> QED BY <1>4, <1>7, <2>1, <2>2 DEF keys, n
<1> QED BY <1>8, <1>9

\* As many ids as keys.
LEMMA KeysCounted ==
  ASSUME NEW S \in SUBSET IdValues
  PROVE  /\ IsFiniteSet(S) /\ IsFiniteSet({KeyOf(x) : x \in S})
         /\ Cardinality({KeyOf(x) : x \in S}) = Cardinality(S)
         /\ Cardinality(S) \in Nat
<1> DEFINE T == {KeyOf(x) : x \in S}
           f == [x \in S |-> KeyOf(x)]
<1>1. IsFiniteSet(S)
  <2>1. IsFiniteSet(IdValues)
    BY HalfAssumption, FS_Interval DEF IdValues
  <2> QED BY <2>1, FS_Subset
<1>2. f \in Injection(S, T)
  <2>1. f \in [S -> T]
    OBVIOUS
  <2>2. \A x, y \in S : f[x] = f[y] => x = y
    BY KeysDiffer
  <2> QED BY <2>1, <2>2 DEF Injection, IsInjective
<1>3. f \in Surjection(S, T)
  <2>1. f \in [S -> T] /\ \A t \in T : \E x \in S : f[x] = t
    OBVIOUS
  <2> QED BY <2>1 DEF Surjection
<1> HIDE DEF f, T
<1>4. IsFiniteSet(T) /\ Cardinality(T) = Cardinality(S)
  BY <1>1, <1>2, <1>3, FS_Surjection
<1> QED BY <1>1, <1>4, FS_CardinalityType DEF T

-----------------------------------------------------------------------------
(* What a call returns of two lists.                                       *)

\* As Fuse.
Fused(vector, text, k, rrf_k) ==
  LET vectorKeys == KeysOf(vector)
      textKeys == KeysOf(text)
      best == Limit(Rrf(<<vectorKeys, textKeys>>, rrf_k), k)
  IN [i \in DOMAIN best |->
        [id |-> IdOf(best[i].key), score |-> best[i].score,
         vectorRank |-> RankIn(vectorKeys, best[i].key),
         textRank |-> RankIn(textKeys, best[i].key)]]

\* The ids of a list that is no longer than a list may be.
Listing(list) == list \in Seq(IdValues) /\ Len(list) <= MaxRank

\* What two lists give to an id.
Gains(vector, text, rrf_k, id) == Gain(rrf_k, vector, id) + Gain(rrf_k, text, id)

Shorter(m, n) == IF m < n THEN m ELSE n

\* The keys of S scored by the gains of the ids.
KeysScored(s, S, v, t, rrf_k) ==
  /\ DOMAIN s = {KeyOf(x) : x \in S} /\ Scored(s)
  /\ \A x \in S : s[KeyOf(x)].score = Gains(v, t, rrf_k, x)
  /\ Cardinality(DOMAIN s) = Cardinality(S) /\ Cardinality(S) \in Nat
  /\ S \in SUBSET IdValues
  /\ \A x \in S : Gains(v, t, rrf_k, x) \in Nat \ {0}

\* So are the keys of two lists.
LEMMA KeyScores ==
  ASSUME NEW v, NEW t, Listing(v), Listing(t), NEW rrf_k \in Nat,
         NEW s, s = Scores(<<KeysOf(v), KeysOf(t)>>, rrf_k), NEW S, S = ToSet(v) \cup ToSet(t)
  PROVE  KeysScored(s, S, v, t, rrf_k)
<1> DEFINE a == KeysOf(v)
           b == KeysOf(t)
           K == {KeyOf(x) : x \in S}
<1>1. v \in Seq(IdValues) /\ t \in Seq(IdValues) /\ Len(v) <= MaxRank /\ Len(t) <= MaxRank
  BY DEF Listing
<1>2. S \in SUBSET IdValues
  BY <1>1 DEF ToSet
<1>3. a \in Seq(Keys) /\ b \in Seq(Keys) /\ Len(a) <= MaxRank /\ Len(b) <= MaxRank
  <2>1. 0 \in IdValues
    BY HalfAssumption DEF IdValues
  <2> QED BY <1>1, <2>1, RankOfKey
<1>5. /\ DOMAIN s = ToSet(a) \cup ToSet(b)
      /\ \A key \in ToSet(a) \cup ToSet(b) : s[key].score = Gain(rrf_k, a, key) + Gain(rrf_k, b, key)
  <2>0. s = Scores(<<a, b>>, rrf_k)
    OBVIOUS
  <2> HIDE DEF a, b
  <2>1. ScoresOf(s, a, b, rrf_k)
    BY <1>3, <2>0, ScoresOK
  <2> HIDE DEF K
  <2> QED BY <2>1 DEF ScoresOf
<1>6. ToSet(a) \cup ToSet(b) = K
  <2>1. ToSet(a) = {KeyOf(x) : x \in ToSet(v)} /\ ToSet(b) = {KeyOf(x) : x \in ToSet(t)}
    BY <1>1 DEF ToSet, KeysOf
  <2> HIDE DEF a, b
  <2> QED BY <2>1
<1>7. \A x \in S : s[KeyOf(x)].score = Gains(v, t, rrf_k, x)
  <2> SUFFICES ASSUME NEW x \in S PROVE s[KeyOf(x)].score = Gains(v, t, rrf_k, x)
    OBVIOUS
  <2>1. x \in IdValues /\ KeyOf(x) \in K
    BY <1>2
  <2>2. Gain(rrf_k, a, KeyOf(x)) = Gain(rrf_k, v, x) /\ Gain(rrf_k, b, KeyOf(x)) = Gain(rrf_k, t, x)
    BY <1>1, <2>1, RankOfKey DEF Gain
  <2> HIDE DEF K, a, b
  <2> QED BY <1>5, <1>6, <2>1, <2>2 DEF Gains
<1>9. \A x \in S : Gains(v, t, rrf_k, x) \in Nat \ {0}
  <2> SUFFICES ASSUME NEW x \in S PROVE Gains(v, t, rrf_k, x) \in Nat \ {0}
    OBVIOUS
  <2> DEFINE g == Gain(rrf_k, v, x)
             h == Gain(rrf_k, t, x)
  <2>1. g \in Nat /\ h \in Nat /\ (g # 0 \/ h # 0)
    BY <1>1, GainOK
  <2> HIDE DEF g, h
  <2>2. g + h \in Nat \ {0}
    BY <2>1
  <2> QED BY <2>2 DEF Gains, g, h
<1>10. IsFiniteSet(K) /\ Cardinality(K) = Cardinality(S) /\ Cardinality(S) \in Nat
  BY <1>2, KeysCounted
<1>11. K \subseteq Int
  <2>1. \A x \in IdValues : KeyOf(x) \in Int
    BY KeyIsOffset, HalfAssumption DEF IdValues
  <2> QED BY <1>2, <2>1
<1>12. DOMAIN s = K
  BY <1>5, <1>6
<1>13. Scored(s)
  <2>1. \A key \in K : s[key].score \in Int
    BY <1>7, <1>9
  <2> QED BY <1>10, <1>11, <1>12, <2>1 DEF Scored
<1> QED BY <1>2, <1>7, <1>9, <1>10, <1>12, <1>13 DEF KeysScored

\* A row for each of the best ids of S, what its ranks in both lists are worth, in the order
\* of worth and then of ids, and all that is worth more than a row comes before it.
FusionOf(out, S, v, t, k, rrf_k) ==
  /\ out = [i \in 1 .. Shorter(Cardinality(S), k) |-> out[i]]
  /\ \A i \in DOMAIN out :
       /\ out[i].id \in S
       /\ out[i].score = Gains(v, t, rrf_k, out[i].id)
       /\ out[i].vectorRank = RankIn(v, out[i].id)
       /\ out[i].textRank = RankIn(t, out[i].id)
  /\ \A i, j \in DOMAIN out : i < j =>
       \/ out[i].score > out[j].score
       \/ out[i].score = out[j].score /\ out[i].id < out[j].id
  /\ \A x \in S, j \in DOMAIN out :
       Gains(v, t, rrf_k, x) > out[j].score => \E i \in 1 .. j - 1 : out[i].id = x

\* Fusion returns that.
LEMMA FusedOK ==
  ASSUME NEW v, NEW t, Listing(v), Listing(t), NEW rrf_k \in Nat, NEW k \in Nat,
         NEW out, out = Fused(v, t, k, rrf_k), NEW S, S = ToSet(v) \cup ToSet(t)
  PROVE  FusionOf(out, S, v, t, k, rrf_k)
<1> DEFINE a == KeysOf(v)
           b == KeysOf(t)
           n == Cardinality(S)
           m == Shorter(n, k)
           Worth(x) == Gains(v, t, rrf_k, x)
<1>1. PICK s, r, best : /\ s = Scores(<<a, b>>, rrf_k) /\ r = Rrf(<<a, b>>, rrf_k)
                        /\ best = Limit(r, k)
  OBVIOUS
<1>2. /\ DOMAIN s = {KeyOf(x) : x \in S} /\ Scored(s)
      /\ \A x \in S : s[KeyOf(x)].score = Worth(x) /\ Worth(x) \in Nat
      /\ Cardinality(DOMAIN s) = n /\ n \in Nat /\ S \in SUBSET IdValues
  <2>1. KeysScored(s, S, v, t, rrf_k)
    BY <1>1, KeyScores
  <2> QED BY <2>1 DEF KeysScored
<1>3. /\ r = [i \in 1 .. n |-> r[i]]
      /\ \A i \in 1 .. n : r[i].key \in DOMAIN s /\ r[i].score = s[r[i].key].score
      /\ \A y \in DOMAIN s : \E i \in 1 .. n : r[i].key = y
      /\ \A i, j \in 1 .. n : i < j => Ahead(s, r[i].key, r[j].key)
  <2> HIDE DEF a, b, n, Worth
  <2>1. PICK rankings : rankings = <<a, b>>
    OBVIOUS
  <2>2. s = Scores(rankings, rrf_k) /\ r = Rrf(rankings, rrf_k) /\ Scored(s)
        /\ n = Cardinality(DOMAIN s)
    BY <1>1, <1>2, <2>1
  <2> QED BY ONLY <2>2, RrfOK
<1> DEFINE id == [i \in 1 .. n |-> IdOf(r[i].key)]
<1>4. \A i \in 1 .. n : id[i] \in S /\ r[i].key = KeyOf(id[i]) /\ r[i].score = Worth(id[i])
  <2> SUFFICES ASSUME NEW i \in 1 .. n
               PROVE  IdOf(r[i].key) \in S /\ r[i].key = KeyOf(IdOf(r[i].key))
                      /\ r[i].score = Worth(IdOf(r[i].key))
    OBVIOUS
  <2>1. PICK x \in S : r[i].key = KeyOf(x)
    BY <1>2, <1>3
  <2>2. IdOf(KeyOf(x)) = x
    BY <1>2, IdsComeBack
  <2>3. r[i].score = Worth(x)
    BY <1>2, <1>3, <2>1
  <2>4. IdOf(r[i].key) = x
    BY <2>1, <2>2
  <2> HIDE DEF Worth
  <2> QED BY <2>1, <2>3, <2>4
<1>5. out = [i \in DOMAIN best |->
               [id |-> IdOf(best[i].key), score |-> best[i].score,
                vectorRank |-> RankIn(a, best[i].key), textRank |-> RankIn(b, best[i].key)]]
  BY <1>1 DEF Fused
<1>6. m \in Nat /\ m <= n
  BY <1>2 DEF Shorter
<1>7. DOMAIN best = 1 .. m /\ \A i \in 1 .. m : best[i] = r[i]
  <2>1. Len(r) = n /\ r \in Seq(ToSet(r))
    <3> HIDE DEF n
    <3>1. n \in Nat /\ DOMAIN r = 1 .. n /\ r = [i \in 1 .. n |-> r[i]]
      BY <1>2, <1>3
    <3>2. \A i \in 1 .. n : r[i] \in ToSet(r)
      BY <3>1 DEF ToSet
    <3> QED BY ONLY <3>1, <3>2
  <2>2. best = SubSeq(r, 1, m)
    <3>1. (IF k < n THEN k ELSE n) = m
      BY <1>2 DEF Shorter
    <3> QED BY <1>1, <2>1, <3>1 DEF Limit
  <2> HIDE DEF m, n
  <2> QED BY <1>2, <1>6, <2>1, <2>2
<1>8. \A i \in 1 .. m : i \in 1 .. n
  BY <1>2, <1>6
<1> HIDE DEF m, n
<1>9. DOMAIN out = 1 .. m /\ out = [i \in 1 .. m |-> out[i]]
  BY <1>5, <1>7
<1>10. \A i \in 1 .. m :
         /\ out[i].id = id[i] /\ out[i].score = Worth(id[i])
         /\ out[i].vectorRank = RankIn(v, id[i]) /\ out[i].textRank = RankIn(t, id[i])
  <2> SUFFICES ASSUME NEW i \in 1 .. m
               PROVE  /\ out[i].id = id[i] /\ out[i].score = Worth(id[i])
                      /\ out[i].vectorRank = RankIn(v, id[i]) /\ out[i].textRank = RankIn(t, id[i])
    OBVIOUS
  <2>1. id[i] \in IdValues /\ r[i].key = KeyOf(id[i]) /\ r[i].score = Worth(id[i])
        /\ id[i] = IdOf(r[i].key)
    BY <1>2, <1>4, <1>8
  <2>2. RankIn(a, KeyOf(id[i])) = RankIn(v, id[i]) /\ RankIn(b, KeyOf(id[i])) = RankIn(t, id[i])
    BY <2>1, RankOfKey DEF Listing
  <2> HIDE DEF a, b, id, Worth
  <2>3. out[i] = [id |-> IdOf(r[i].key), score |-> r[i].score,
                  vectorRank |-> RankIn(a, r[i].key), textRank |-> RankIn(b, r[i].key)]
    BY <1>5, <1>7, <1>9
  <2>4. /\ out[i].id = IdOf(r[i].key) /\ out[i].score = r[i].score
        /\ out[i].vectorRank = RankIn(a, r[i].key) /\ out[i].textRank = RankIn(b, r[i].key)
    BY <2>3
  <2> QED BY <2>1, <2>2, <2>4
<1>11. \A i, j \in 1 .. n : i < j =>
         Worth(id[i]) > Worth(id[j]) \/ (Worth(id[i]) = Worth(id[j]) /\ id[i] < id[j])
  <2> SUFFICES ASSUME NEW i \in 1 .. n, NEW j \in 1 .. n, i < j
               PROVE  Worth(id[i]) > Worth(id[j]) \/ (Worth(id[i]) = Worth(id[j]) /\ id[i] < id[j])
    OBVIOUS
  <2>1. id[i] \in S /\ id[j] \in S /\ id[i] \in IdValues /\ id[j] \in IdValues
        /\ r[i].key = KeyOf(id[i]) /\ r[j].key = KeyOf(id[j])
    BY <1>2, <1>4
  <2>2. Ahead(s, KeyOf(id[i]), KeyOf(id[j]))
    BY <1>3, <2>1
  <2>3. KeyOf(id[i]) < KeyOf(id[j]) <=> id[i] < id[j]
    BY <2>1, KeysKeepOrder
  <2> HIDE DEF id, Worth
  <2> QED BY <1>2, <2>1, <2>2, <2>3 DEF Ahead
<1>12. \A x \in S : \E i \in 1 .. n : id[i] = x
  <2> SUFFICES ASSUME NEW x \in S PROVE \E i \in 1 .. n : id[i] = x
    OBVIOUS
  <2>1. PICK i \in 1 .. n : r[i].key = KeyOf(x)
    BY <1>2, <1>3
  <2>2. id[i] = x
    BY <1>2, <2>1, IdsComeBack
  <2> QED BY <2>2
<1>13. ASSUME NEW x \in S, NEW j \in 1 .. m, Worth(x) > Worth(id[j])
       PROVE  \E i \in 1 .. j - 1 : out[i].id = x
  <2>1. PICK i \in 1 .. n : id[i] = x
    BY <1>12
  <2>2. j \in 1 .. n /\ id[j] \in S /\ Worth(id[j]) \in Nat /\ Worth(x) \in Nat
    BY <1>2, <1>4, <1>8
  <2> HIDE DEF id, Worth
  <2>3. ~(j < i) /\ i # j
    BY <1>11, <1>13, <2>1, <2>2
  <2>4. i \in 1 .. j - 1 /\ i \in 1 .. m
    BY <1>2, <1>6, <2>2, <2>3
  <2> QED BY <1>10, <2>1, <2>4
<1>14. \A i \in DOMAIN out : /\ out[i].id \in S
              /\ out[i].score = Worth(out[i].id)
              /\ out[i].vectorRank = RankIn(v, out[i].id)
              /\ out[i].textRank = RankIn(t, out[i].id)
  <2> HIDE DEF id, Worth
  <2> QED BY <1>4, <1>8, <1>9, <1>10
<1>15. \A i, j \in DOMAIN out : i < j =>
              \/ out[i].score > out[j].score
              \/ out[i].score = out[j].score /\ out[i].id < out[j].id
  <2> HIDE DEF id, Worth
  <2> QED BY <1>8, <1>9, <1>10, <1>11
<1>16. \A x \in S, j \in DOMAIN out :
              Worth(x) > out[j].score => \E i \in 1 .. j - 1 : out[i].id = x
  <2> HIDE DEF id, Worth
  <2> QED BY <1>9, <1>10, <1>13
<1> QED BY <1>9, <1>14, <1>15, <1>16 DEF m, n, FusionOf

-----------------------------------------------------------------------------
(* The lists of a call.                                                    *)

\* A prefix of a list.
LEMMA LimitOK ==
  ASSUME NEW S, NEW s \in Seq(S), NEW n \in Nat
  PROVE  Limit(s, n) \in Seq(S) /\ Len(Limit(s, n)) \in 0 .. Len(s)
<1> DEFINE m == IF n < Len(s) THEN n ELSE Len(s)
<1>1. m \in 0 .. Len(s) /\ Len(s) \in Nat
  OBVIOUS
<1> HIDE DEF m
<1>2. SubSeq(s, 1, m) \in Seq(S) /\ Len(SubSeq(s, 1, m)) = m
  BY <1>1
<1> QED BY <1>1, <1>2 DEF Limit, m

\* The rows of a table in some order, up to a limit.
LEMMA RowsListed ==
  ASSUME NEW S \in SUBSET Rows, NEW ranked \in [1 .. Cardinality(S) -> S], NEW n \in Nat
  PROVE  Limit(ranked, n) \in Seq(S) /\ Len(Limit(ranked, n)) <= MaxRank
<1> DEFINE c == Cardinality(S)
<1>1. c \in Nat /\ c <= Cardinality(Rows) /\ Cardinality(Rows) \in Nat
  BY CallsAssumption, FS_Subset, FS_CardinalityType
<1>2. Cardinality(Rows) <= MaxRank /\ MaxRank \in Nat
  BY CallsAssumption, RankAssumption
<1> HIDE DEF c
<1>3. ranked \in Seq(S) /\ Len(ranked) = c
  BY <1>1 DEF c
<1>4. Limit(ranked, n) \in Seq(S) /\ Len(Limit(ranked, n)) \in 0 .. c
  BY <1>3, LimitOK
<1> QED BY <1>1, <1>2, <1>4

\* What the vector query returns, rows that have a vector, each at most once.
LEMMA VectorRows ==
  ASSUME NEW saw, NEW ranked \in Sorted(saw) \cup Scanned(saw)
  PROVE  \E S \in SUBSET Rankable(saw) : ranked \in [1 .. Cardinality(S) -> S]
<1>1. CASE ranked \in Sorted(saw)
  BY <1>1 DEF Sorted, Orders
<1>2. CASE ranked \in Scanned(saw)
  <2> DEFINE A == {j \in Existing : OrderingOperator[indexes[j].opclass] = call.operator}
             B == {T \in SUBSET Rankable(saw) : Cardinality(T) <= EfSearch}
             O(i, S) == Orders(S, LAMBDA a, b :
                          MetricNearer(indexes[i].header.metric, call.args.query,
                                       saw[a].vector, saw[b].vector))
  <2>1. Scanned(saw) = UNION {O(i, S) : i \in A, S \in B}
    BY DEF Scanned, Orders
  <2> HIDE DEF O, A, B
  <2>2. PICK i \in A, S \in B : ranked \in O(i, S)
    BY <1>2, <2>1
  <2>3. S \in SUBSET Rankable(saw) /\ ranked \in [1 .. Cardinality(S) -> S]
    BY <2>2 DEF O, B, Orders
  <2> QED BY <2>3
<1> QED BY <1>1, <1>2

\* The ids of rows, without those that are NULL.
LEMMA IdsListed ==
  ASSUME NEW saw, NEW R, NEW rows \in Seq(R), Len(rows) <= MaxRank,
         \A r \in R : saw[r].id \in {Null} \cup IdValues
  PROVE  Listing(FetchIds(saw, rows))
<1> DEFINE n == Len(rows)
           Id(p) == saw[rows[p]].id
           Step(c, p) == IF Id(p) = Null THEN c ELSE Append(c, Id(p))
           Eq(f) == f = [p \in 0 .. n |->
                           IF p = 0 THEN <<>>
                           ELSE IF saw[rows[p]].id = Null THEN f[p - 1]
                           ELSE Append(f[p - 1], saw[rows[p]].id)]
           Upto(p) == {s \in Seq(IdValues) : Len(s) <= p}
           S == [p \in 0 .. n |-> Upto(p)]
           F == [x \in Seq(IdValues) \X (1 .. n) |-> Step(x[1], x[2])]
           h == CHOOSE f : Eq(f)
<1>1. n \in Nat /\ n <= MaxRank /\ \A p \in 1 .. n : Id(p) \in {Null} \cup IdValues
  OBVIOUS
<1>2. FetchIds(saw, rows) = h[n]
  BY DEF FetchIds
<1> HIDE DEF n, Id
<1>3. <<>> \in S[0]
  BY <1>1
<1>4. \A p \in 1 .. n : \A c \in S[p - 1] : F[<<c, p>>] = Step(c, p) /\ Step(c, p) \in S[p]
  <2> SUFFICES ASSUME NEW p \in 1 .. n, NEW c \in S[p - 1]
               PROVE  F[<<c, p>>] = Step(c, p) /\ Step(c, p) \in S[p]
    OBVIOUS
  <2>1. c \in Seq(IdValues) /\ Len(c) <= p - 1 /\ p \in 0 .. n
    BY <1>1
  <2>2. F[<<c, p>>] = Step(c, p)
    <3> HIDE DEF Step
    <3> QED BY <2>1
  <2>3. Step(c, p) \in Upto(p)
    <3>1. CASE Id(p) = Null
      BY <1>1, <2>1, <3>1
    <3>2. CASE Id(p) # Null
      <4>1. Id(p) \in IdValues
        BY <1>1, <3>2
      <4>2. Append(c, Id(p)) \in Seq(IdValues) /\ Len(Append(c, Id(p))) = Len(c) + 1
        BY <2>1, <4>1
      <4>3. Len(c) \in Nat /\ Len(c) + 1 <= p
        BY <1>1, <2>1
      <4> QED BY <3>2, <4>2, <4>3
    <3> QED BY <3>1, <3>2
  <2> QED BY <2>1, <2>2, <2>3
<1> HIDE DEF F, Step, Upto
<1>5. PICK g : Runs(g, <<>>, F, n) /\ \A p \in 0 .. n : g[p] \in S[p]
  <2> HIDE DEF S
  <2>1. \A p \in 1 .. n : \A c \in S[p - 1] : F[<<c, p>>] \in S[p]
    BY <1>4
  <2> QED BY <1>1, <1>3, <2>1, RunIn
<1>6. \A f, p : (IF saw[rows[p]].id = Null THEN f[p - 1] ELSE Append(f[p - 1], saw[rows[p]].id))
                = Step(f[p - 1], p)
  BY DEF Step, Id
<1>7. Eq(g)
  <2>1. \A p \in 1 .. n : g[p] = Step(g[p - 1], p)
    <3> SUFFICES ASSUME NEW p \in 1 .. n PROVE g[p] = Step(g[p - 1], p)
      OBVIOUS
    <3>1. p - 1 \in 0 .. n
      BY <1>1
    <3> HIDE DEF S
    <3> QED BY <1>4, <1>5, <3>1 DEF Runs
  <2>2. g = [p \in 0 .. n |-> IF p = 0 THEN <<>> ELSE Step(g[p - 1], p)]
    <3>1. \A p \in 0 .. n : g[p] = IF p = 0 THEN <<>> ELSE Step(g[p - 1], p)
      <4> SUFFICES ASSUME NEW p \in 0 .. n
                   PROVE  g[p] = IF p = 0 THEN <<>> ELSE Step(g[p - 1], p)
        OBVIOUS
      <4>1. CASE p = 0
        BY <1>5, <4>1 DEF Runs
      <4>2. CASE p # 0
        <5>1. p \in 1 .. n
          BY <1>1, <4>2
        <5> QED BY <2>1, <4>2, <5>1
      <4> QED BY <4>1, <4>2
    <3>2. g = [p \in 0 .. n |-> g[p]]
      BY <1>5 DEF Runs
    <3> QED BY <3>1, <3>2
  <2> QED BY <1>6, <2>2
<1>8. Eq(h)
  <2> HIDE DEF Eq
  <2> QED BY <1>7
<1> HIDE DEF h
<1>9. h[0] = <<>> /\ \A p \in 1 .. n : h[p] = Step(h[p - 1], p)
  <2>1. h = [p \in 0 .. n |-> IF p = 0 THEN <<>> ELSE Step(h[p - 1], p)]
    BY <1>6, <1>8
  <2> HIDE DEF Eq
  <2>2. 0 \in 0 .. n /\ \A p \in 1 .. n : p \in 0 .. n /\ p # 0
    BY <1>1
  <2> QED BY <2>1, <2>2
<1>10. \A p \in 1 .. n : h[p - 1] \in S[p - 1] => h[p] \in S[p]
  <2> HIDE DEF S
  <2> QED BY <1>4, <1>9
<1>11. \A p \in 0 .. n : h[p] \in S[p]
  <2> HIDE DEF S
  <2> QED BY <1>1, <1>3, <1>9, <1>10, RunStays
<1>12. h[n] \in Upto(n)
  BY <1>1, <1>11
<1>13. h[n] \in Seq(IdValues) /\ Len(h[n]) <= MaxRank
  <2>1. h[n] \in Seq(IdValues) /\ Len(h[n]) <= n
    BY <1>12 DEF Upto
  <2>2. Len(h[n]) \in Nat /\ MaxRank \in Nat
    BY <2>1, RankAssumption
  <2> QED BY <1>1, <2>1, <2>2
<1> QED BY <1>2, <1>13 DEF Listing

-----------------------------------------------------------------------------
(* What a call has at each step, and what it returns.                      *)

Contents == [Rows -> {Null} \cup Documents]

\* Arguments that are not refused.
Ready(args) == /\ args \in Calls /\ args.k \in Nat \ {0} /\ args.rrf_k \in Int
               /\ Depth(args) \in Nat \ {0}

\* A snapshot.
Seen(s) == /\ s.table \in Contents
           /\ \A i \in Indexes : s.indexes[i] # NoIndex => s.indexes[i].opclass \in Opclasses

\* The lists hold ids, no more than may be fused, and what is returned is their fusion.
ResultInv ==
  /\ table \in Contents
  /\ call.step \in Running \cup {"idle", "done", "failed"}
  /\ call.operator \in Operators \cup {Null}
  /\ call.step \in Running \cup {"done"} => Ready(call.args)
  /\ call.step \in Running => Seen(call.snapshot)
  /\ Listing(call.vector) /\ Listing(call.text)
  /\ call.step = "done" =>
       /\ ~RrfRefuses(call.args.rrf_k)
       /\ call.out = Fused(call.vector, call.text, call.args.k, call.args.rrf_k)
  /\ call.step # "done" => call.out = <<>>

\* An empty list.
LEMMA NothingListed == Listing(<<>>)
BY RankAssumption DEF Listing

\* What a query sees.
LEMMA VisibleSeen ==
  ASSUME CatalogInv, ResultInv, call.step \in Running
  PROVE  Seen(Visible)
<1>1. CASE call.xid
  <2>1. Visible = [table |-> table, indexes |-> indexes]
    BY <1>1 DEF Visible
  <2>2. \A i \in Indexes : indexes[i] # NoIndex => indexes[i].opclass \in Opclasses
    BY DEF CatalogInv, Existing, Entry
  <2> QED BY <2>1, <2>2 DEF Seen, ResultInv
<1>2. CASE ~call.xid
  BY <1>2 DEF Visible, ResultInv
<1> QED BY <1>1, <1>2

\* A call without rows keeps the invariant.
LEMMA NoResultYet ==
  ASSUME NEW s, NEW ar, NEW x, NEW sn, call' = Blank(s, ar, x, sn), table' \in Contents,
         \/ s \in {"idle", "failed"}
         \/ s = "resolve" /\ Ready(ar) /\ Seen(sn)
  PROVE  ResultInv'
<1>1. /\ call'.step = s /\ call'.args = ar /\ call'.snapshot = sn /\ call'.operator = Null
      /\ call'.vector = <<>> /\ call'.text = <<>> /\ call'.out = <<>>
  BY DEF Blank
<1>2. s \in Running \cup {"idle", "done", "failed"} /\ s # "done"
      /\ (s \in Running => Ready(ar) /\ Seen(sn))
  BY DEF Running
<1>3. Contents' = Contents /\ (Ready(ar) => Ready(ar)') /\ (Seen(sn) => Seen(sn)')
  BY DEF Contents, Ready, Seen, Depth
<1> QED BY <1>1, <1>2, <1>3, NothingListed DEF ResultInv, Listing, Running, Contents, Ready, Seen

\* The table keeps its type.
LEMMA ContentsNext == table \in Contents /\ [Next]_vars => table' \in Contents
<1> SUFFICES ASSUME table \in Contents, [Next]_vars PROVE table' \in Contents
  OBVIOUS
<1>1. CASE UNCHANGED table
  BY <1>1
<1>2. ASSUME NEW r \in Rows, NEW value \in RowValues \cup {Null}, ChangeRow(r, value)
      PROVE  table' \in Contents
  <2> DEFINE V == {Null} \cup Documents
  <2>1. table' = [table EXCEPT ![r] = value] /\ value \in V
    BY <1>2, CallsAssumption DEF ChangeRow
  <2>2. table \in [Rows -> V]
    BY DEF Contents
  <2> HIDE DEF V
  <2>3. table' = [x \in Rows |-> IF x = r THEN value ELSE table[x]]
    BY <2>1, <2>2
  <2>4. \A x \in Rows : (IF x = r THEN value ELSE table[x]) \in V
    BY <2>1, <2>2
  <2>5. table' \in [Rows -> V]
    BY ONLY <2>3, <2>4
  <2> QED BY <2>5 DEF Contents, V
<1>3. UNCHANGED table \/ \E r \in Rows, value \in RowValues \cup {Null} : ChangeRow(r, value)
  BY DEF Next, vars, Call, Resolve, VectorSide, TextSide, Fuse, Return, ChangeIndexes
<1> QED BY <1>1, <1>2, <1>3

\* A call that goes on, with lists of ids.
LEMMA GoesOn ==
  ASSUME ResultInv, call.step \in Running,
         NEW s \in Running, NEW op \in Operators \cup {Null}, NEW saw, NEW near, NEW v, NEW t,
         Listing(v), Listing(t), table' \in Contents,
         call' = [step |-> s, args |-> call.args, xid |-> call.xid, snapshot |-> call.snapshot,
                  operator |-> op, saw |-> saw, near |-> near, vector |-> v, text |-> t,
                  out |-> call.out]
  PROVE  ResultInv'
<1>1. /\ call'.step = s /\ call'.args = call.args /\ call'.snapshot = call.snapshot
      /\ call'.operator = op /\ call'.vector = v /\ call'.text = t /\ call'.out = call.out
  OBVIOUS
<1>2. Ready(call.args) /\ Seen(call.snapshot) /\ call.out = <<>> /\ s # "done"
  BY DEF ResultInv, Running
<1>3. Contents' = Contents /\ Ready(call.args)' = Ready(call'.args) /\ Seen(call.snapshot)' = Seen(call'.snapshot)
      /\ Listing(call.vector)' = Listing(call'.vector) /\ Listing(call.text)' = Listing(call'.text)
  BY DEF Contents, Ready, Seen, Listing, Depth
<1> QED BY <1>1, <1>2, <1>3 DEF ResultInv

\* A call that ends with the fusion of its lists.
LEMMA Ends ==
  ASSUME ResultInv, call.step \in Running, ~RrfRefuses(call.args.rrf_k), table' \in Contents,
         NEW out, out = Fused(call.vector, call.text, call.args.k, call.args.rrf_k),
         call' = [step |-> "done", args |-> call.args, xid |-> call.xid,
                  snapshot |-> call.snapshot, operator |-> call.operator, saw |-> call.saw,
                  near |-> call.near, vector |-> call.vector, text |-> call.text, out |-> out]
  PROVE  ResultInv'
<1>1. PICK args, v, t, op : /\ args = call.args /\ v = call.vector /\ t = call.text
                            /\ op = call.operator
  OBVIOUS
<1>2. /\ call'.step = "done" /\ call'.args = args /\ call'.operator = op
      /\ call'.vector = v /\ call'.text = t /\ call'.out = out
  BY <1>1
<1>3. /\ Ready(args) /\ Listing(v) /\ Listing(t) /\ op \in Operators \cup {Null}
      /\ ~RrfRefuses(args.rrf_k) /\ out = Fused(v, t, args.k, args.rrf_k)
  BY <1>1 DEF ResultInv, Running
<1>4. "done" \notin Running
  BY DEF Running
<1>5. /\ table' \in Contents /\ call'.step = "done" /\ call'.operator \in Operators \cup {Null}
      /\ Ready(call'.args) /\ Listing(call'.vector) /\ Listing(call'.text)
      /\ ~RrfRefuses(call'.args.rrf_k)
      /\ call'.out = Fused(call'.vector, call'.text, call'.args.k, call'.args.rrf_k)
  BY <1>2, <1>3
<1> QED BY ONLY <1>4, <1>5 DEF ResultInv

\* No call has begun.
LEMMA ResultInit == Init => ResultInv
<1> SUFFICES ASSUME Init PROVE ResultInv
  OBVIOUS
<1>1. PICK x : call = Blank("idle", Null, x, Null)
  BY NoCallIsBlank DEF Init
<1>2. /\ call.step = "idle" /\ call.operator = Null /\ call.vector = <<>> /\ call.text = <<>>
      /\ call.out = <<>>
  BY <1>1 DEF Blank
<1>3. table \in Contents
  BY CallsAssumption DEF Init, Contents
<1> QED BY <1>2, <1>3, NothingListed DEF ResultInv, Running

\* Every step keeps it.
LEMMA ResultNext == CatalogInv /\ VectorInv /\ ResultInv /\ [Next]_vars => ResultInv'
<1> SUFFICES ASSUME CatalogInv, VectorInv, ResultInv, [Next]_vars PROVE ResultInv'
  OBVIOUS
<1>0. table' \in Contents
  BY ContentsNext DEF ResultInv
<1>1. CASE UNCHANGED call
  <2>1. \A x : Ready(x)' = Ready(x)
    BY DEF Ready, Depth
  <2>2. Contents' = Contents
    BY DEF Contents
  <2> QED BY <1>0, <1>1 DEF ResultInv, Ready, Seen, Depth, Contents, Listing
<1>2. CASE call' = NoCall \/ call' = Failed
  <2>1. PICK x : call' = Blank("idle", Null, x, Null) \/ call' = Blank("failed", Null, x, Null)
    BY <1>2, NoCallIsBlank
  <2> QED BY <1>0, <2>1, NoResultYet
<1>3. ASSUME NEW args \in Calls, NEW xid \in BOOLEAN, Call(args, xid), call' # Failed
      PROVE  ResultInv'
  <2>1. ~(args.k < 1) /\ ~(Depth(args) < 1)
        /\ call' = [NoCall EXCEPT !.step = "resolve", !.args = args, !.xid = xid,
                     !.snapshot = [table |-> table, indexes |-> indexes]]
    BY <1>3 DEF Call
  <2>2. PICK x, sn : x = xid /\ sn = [table |-> table, indexes |-> indexes]
    OBVIOUS
  <2>3. PICK y : NoCall = Blank("idle", Null, y, Null)
    BY NoCallIsBlank
  <2>4. call' = Blank("resolve", args, x, sn)
    <3>1. PICK old, new : old = NoCall /\ new = call'
      OBVIOUS
    <3>2. new = Called(old, args, x, sn)
      BY <2>1, <2>2, <3>1 DEF Called
    <3>3. old = Blank("idle", Null, y, Null)
      BY <2>3, <3>1
    <3>4. new = Blank("resolve", args, x, sn)
      BY <3>2, <3>3, BlankCalled
    <3> QED BY <3>1, <3>4
  <2>5. Ready(args)
    <3>1. args.k \in Int /\ args.rrf_k \in Int /\ Depth(args) \in Int
      BY CallsAssumption, DepthIsInt
    <3> QED BY <2>1, <3>1 DEF Ready
  <2>6. Seen(sn)
    <3>1. \A i \in Indexes : indexes[i] # NoIndex => indexes[i].opclass \in Opclasses
      BY DEF CatalogInv, Existing, Entry
    <3> QED BY <2>2, <3>1 DEF Seen, ResultInv
  <2> QED BY <1>0, <2>4, <2>5, <2>6, NoResultYet
<1>4. ASSUME Resolve, call' # Failed PROVE ResultInv'
  <2> DEFINE offered == OfferedOperators(Visible.indexes)
  <2>1. call.step = "resolve" /\ Cardinality(offered) = 1
        /\ call' = [call EXCEPT !.step = "vector", !.operator = CHOOSE op \in offered : TRUE]
    BY <1>4 DEF Resolve
  <2>2. call.step \in Running
    BY <2>1 DEF Running
  <2>3. offered \subseteq Operators
    <3>1. \A i \in Indexes : Visible.indexes[i] # NoIndex => Visible.indexes[i].opclass \in Opclasses
      BY <2>2, VisibleSeen DEF Seen
    <3>2. \A opclass \in Opclasses : OrderingOperator[opclass] \in Operators
      BY DEF OrderingOperator, Opclasses, Operators
    <3> QED BY <3>1, <3>2 DEF OfferedOperators
  <2>4. offered # {}
    BY <2>1, FS_EmptySet
  <2> HIDE DEF offered
  <2>5. PICK op : op = (CHOOSE o \in offered : TRUE) /\ op \in Operators
    BY <2>3, <2>4
  <2>6. call' = [step |-> "vector", args |-> call.args, xid |-> call.xid,
                 snapshot |-> call.snapshot, operator |-> op, saw |-> call.saw,
                 near |-> call.near, vector |-> call.vector, text |-> call.text,
                 out |-> call.out]
    BY <2>1, <2>5 DEF VectorInv, CallShape
  <2>7. "vector" \in Running /\ Listing(call.vector) /\ Listing(call.text)
    BY DEF ResultInv, Running
  <2> QED BY <1>0, <2>2, <2>5, <2>6, <2>7, GoesOn
<1>5. ASSUME VectorSide, call' # Failed PROVE ResultInv'
  <2> DEFINE saw == Visible.table
  <2>1. PICK ranked \in Sorted(saw) \cup Scanned(saw) :
          /\ call.step = "vector"
          /\ call' = [call EXCEPT !.step = "text", !.saw = saw,
                        !.near = Limit(ranked, Depth(call.args)),
                        !.vector = FetchIds(saw, Limit(ranked, Depth(call.args)))]
    BY <1>5 DEF VectorSide
  <2>2. PICK s, near, ids : /\ s = saw /\ near = Limit(ranked, Depth(call.args))
                            /\ ids = FetchIds(s, near)
    OBVIOUS
  <2>3. call' = [step |-> "text", args |-> call.args, xid |-> call.xid,
                 snapshot |-> call.snapshot, operator |-> call.operator, saw |-> s,
                 near |-> near, vector |-> ids, text |-> call.text, out |-> call.out]
    BY <2>1, <2>2 DEF VectorInv, CallShape
  <2>4. call.step \in Running /\ Depth(call.args) \in Nat
    BY <2>1 DEF ResultInv, Running, Ready
  <2>5. s \in Contents
    BY <2>2, <2>4, VisibleSeen DEF Seen
  <2>6. \A r \in Rankable(s) : s[r].id \in {Null} \cup IdValues
    BY <2>5 DEF Rankable, Contents, Documents
  <2>7. PICK S \in SUBSET Rankable(s) : ranked \in [1 .. Cardinality(S) -> S]
    BY <2>2, VectorRows
  <2>8. near \in Seq(S) /\ Len(near) <= MaxRank
    <3>1. S \in SUBSET Rows
      BY DEF Rankable
    <3> QED BY <2>2, <2>4, <2>7, <3>1, RowsListed
  <2>9. Listing(ids)
    BY <2>2, <2>6, <2>8, IdsListed
  <2> HIDE DEF saw
  <2>10. "text" \in Running /\ Listing(call.text) /\ call.operator \in Operators \cup {Null}
    BY DEF ResultInv, Running
  <2> QED BY <1>0, <2>3, <2>4, <2>9, <2>10, GoesOn
<1>6. ASSUME TextSide PROVE ResultInv'
  <2> DEFINE saw == Visible.table
             matches == {r \in Rows : saw[r] # Null /\ saw[r].rank > 0}
  <2>1. PICK ranked \in [1 .. Cardinality(matches) -> matches] :
          /\ call.step = "text"
          /\ call' = [call EXCEPT !.step = "fuse",
                        !.text = IF call.args.blank THEN <<>>
                                 ELSE FetchIds(saw, Limit(ranked, Depth(call.args)))]
    BY <1>6 DEF TextSide, Orders
  <2>2. PICK s, rows, t : /\ s = saw /\ rows = Limit(ranked, Depth(call.args))
                          /\ t = IF call.args.blank THEN <<>> ELSE FetchIds(s, rows)
    OBVIOUS
  <2>3. call' = [step |-> "fuse", args |-> call.args, xid |-> call.xid,
                 snapshot |-> call.snapshot, operator |-> call.operator, saw |-> call.saw,
                 near |-> call.near, vector |-> call.vector, text |-> t, out |-> call.out]
    BY <2>1, <2>2 DEF VectorInv, CallShape
  <2>4. call.step \in Running /\ Depth(call.args) \in Nat
    BY <2>1 DEF ResultInv, Running, Ready
  <2>5. s \in Contents
    BY <2>2, <2>4, VisibleSeen DEF Seen
  <2>6. \A r \in matches : s[r].id \in {Null} \cup IdValues
    BY <2>2, <2>5 DEF Contents, Documents
  <2>7. matches \in SUBSET Rows
    OBVIOUS
  <2> HIDE DEF matches, saw
  <2>8. rows \in Seq(matches) /\ Len(rows) <= MaxRank
    BY <2>1, <2>2, <2>4, <2>7, RowsListed
  <2>9. Listing(FetchIds(s, rows))
    BY <2>6, <2>8, IdsListed
  <2>10. Listing(t)
    BY <2>2, <2>9, NothingListed
  <2>11. "fuse" \in Running /\ Listing(call.vector) /\ call.operator \in Operators \cup {Null}
    BY DEF ResultInv, Running
  <2> QED BY <1>0, <2>3, <2>4, <2>10, <2>11, GoesOn
<1>7. ASSUME Fuse, call' # Failed PROVE ResultInv'
  <2>1. PICK out : /\ call.step = "fuse" /\ ~RrfRefuses(call.args.rrf_k)
                   /\ out = Fused(call.vector, call.text, call.args.k, call.args.rrf_k)
                   /\ call' = [call EXCEPT !.step = "done", !.out = out]
    BY <1>7 DEF Fuse, Fused
  <2>2. call' = [step |-> "done", args |-> call.args, xid |-> call.xid,
                 snapshot |-> call.snapshot, operator |-> call.operator, saw |-> call.saw,
                 near |-> call.near, vector |-> call.vector, text |-> call.text, out |-> out]
    BY <2>1 DEF VectorInv, CallShape
  <2>3. call.step \in Running
    BY <2>1 DEF Running
  <2> QED BY <1>0, <2>1, <2>2, <2>3, Ends
<1>8. \/ UNCHANGED call \/ Resolve \/ VectorSide \/ TextSide \/ Fuse \/ Return
      \/ \E args \in Calls, xid \in BOOLEAN : Call(args, xid)
  BY DEF Next, vars, ChangeRow, ChangeIndexes, Change
<1>9. Return => call' = NoCall
  BY DEF Return
<1> QED BY <1>1, <1>2, <1>3, <1>4, <1>5, <1>6, <1>7, <1>8, <1>9

\* As in Beats.
Place(list, id) == IF RankIn(list, id) = Null THEN MaxRank + 1 ELSE RankIn(list, id)

\* The earlier a list has an id, the more it gives.
LEMMA EarlierGainsMore ==
  ASSUME NEW k \in Nat, k < Absorbing, NEW list, Listing(list), NEW x, NEW y
  PROVE  /\ Gain(k, list, x) \in Nat /\ Gain(k, list, y) \in Nat
         /\ Place(list, x) \in Nat /\ Place(list, y) \in Nat
         /\ Place(list, x) < Place(list, y) => Gain(k, list, x) > Gain(k, list, y)
         /\ Place(list, x) = Place(list, y) => Gain(k, list, x) = Gain(k, list, y)
<1>1. list \in Seq(IdValues) /\ Len(list) <= MaxRank /\ Len(list) \in Nat /\ MaxRank \in Nat
  BY RankAssumption DEF Listing
<1>2. \A z : \/ RankIn(list, z) = Null
             \/ RankIn(list, z) \in 1 .. MaxRank /\ RankIn(list, z) # Null
  <2> SUFFICES ASSUME NEW z
               PROVE  \/ RankIn(list, z) = Null
                      \/ RankIn(list, z) \in 1 .. MaxRank /\ RankIn(list, z) # Null
    OBVIOUS
  <2>1. z \notin ToSet(list) => RankIn(list, z) = Null
    BY <1>1, RankInOK
  <2>2. z \in ToSet(list) => RankIn(list, z) \in 1 .. Len(list)
    BY <1>1, RankInOK
  <2> QED BY <1>1, <2>1, <2>2, CallsAssumption
<1>3. \A r \in 1 .. MaxRank : Contribution(k, r) \in Nat \ {0}
  BY ContributionPositive
<1> DEFINE rx == RankIn(list, x)
           ry == RankIn(list, y)
<1>4. /\ Gain(k, list, x) = IF rx = Null THEN 0 ELSE Contribution(k, rx)
      /\ Gain(k, list, y) = IF ry = Null THEN 0 ELSE Contribution(k, ry)
      /\ Place(list, x) = IF rx = Null THEN MaxRank + 1 ELSE rx
      /\ Place(list, y) = IF ry = Null THEN MaxRank + 1 ELSE ry
  BY DEF Gain, Place
<1>5. /\ rx = Null \/ (rx \in 1 .. MaxRank /\ rx # Null)
      /\ ry = Null \/ (ry \in 1 .. MaxRank /\ ry # Null)
  BY <1>2
<1> HIDE DEF rx, ry
<1>6. CASE rx = Null
  <2>1. Gain(k, list, x) = 0 /\ Place(list, x) = MaxRank + 1
    BY <1>4, <1>6
  <2>2. CASE ry = Null
    BY <1>1, <1>4, <2>1, <2>2
  <2>3. CASE ry # Null
    <3>1. Gain(k, list, y) \in Nat /\ Place(list, y) \in 1 .. MaxRank
      BY <1>3, <1>4, <1>5, <2>3
    <3> QED BY <1>1, <2>1, <3>1
  <2> QED BY <2>2, <2>3
<1>7. CASE rx # Null
  <2>1. rx \in 1 .. MaxRank /\ Gain(k, list, x) = Contribution(k, rx) /\ Place(list, x) = rx
        /\ Contribution(k, rx) \in Nat \ {0}
    BY <1>3, <1>4, <1>5, <1>7
  <2>2. CASE ry = Null
    <3>1. Gain(k, list, y) = 0 /\ Place(list, y) = MaxRank + 1
      BY <1>4, <2>2
    <3> QED BY <1>1, <2>1, <3>1
  <2>3. CASE ry # Null
    <3>1. ry \in 1 .. MaxRank /\ Gain(k, list, y) = Contribution(k, ry) /\ Place(list, y) = ry
          /\ Contribution(k, ry) \in Nat \ {0}
      BY <1>3, <1>4, <1>5, <2>3
    <3>2. rx < ry => Contribution(k, rx) > Contribution(k, ry)
      BY <2>1, <3>1, ContributionFalls
    <3> QED BY <1>1, <2>1, <3>1, <3>2
  <2> QED BY <2>2, <2>3
<1> QED BY <1>6, <1>7

\* A row that beats another is worth more.
LEMMA BeatsGainsMore ==
  ASSUME NEW k \in Nat, k < Absorbing, Listing(call.vector), Listing(call.text),
         NEW x, NEW y, Beats(x, y)
  PROVE  Gains(call.vector, call.text, k, x) > Gains(call.vector, call.text, k, y)
<1>1. \A list \in {call.vector, call.text} :
         /\ Gain(k, list, x) \in Nat /\ Gain(k, list, y) \in Nat
         /\ Place(list, x) \in Nat /\ Place(list, y) \in Nat
         /\ Place(list, x) < Place(list, y) => Gain(k, list, x) > Gain(k, list, y)
         /\ Place(list, x) = Place(list, y) => Gain(k, list, x) = Gain(k, list, y)
  BY EarlierGainsMore
<1>2. /\ Place(call.vector, x) <= Place(call.vector, y)
      /\ Place(call.text, x) <= Place(call.text, y)
      /\ \/ Place(call.vector, x) < Place(call.vector, y)
         \/ Place(call.text, x) < Place(call.text, y)
  BY DEF Beats, Place
<1> QED BY <1>1, <1>2 DEF Gains

\* What a call that is done returns.
LEMMA DoneOK ==
  ASSUME ResultInv, call.step = "done", NEW out, out = call.out,
         NEW v, v = call.vector, NEW t, t = call.text, NEW k, k = call.args.k,
         NEW rrf_k, rrf_k = call.args.rrf_k, NEW S, S = ToSet(v) \cup ToSet(t)
  PROVE  /\ rrf_k \in Nat /\ k \in Nat \ {0} /\ Listing(v) /\ Listing(t)
         /\ S \in SUBSET IdValues /\ Cardinality(S) \in Nat
         /\ \A x \in S : Gains(v, t, rrf_k, x) \in Nat \ {0}
         /\ FusionOf(out, S, v, t, k, rrf_k)
<1>1. /\ rrf_k \in Nat /\ k \in Nat \ {0} /\ k \in Nat /\ Listing(v) /\ Listing(t)
      /\ out = Fused(v, t, k, rrf_k)
  <2>1. Ready(call.args) /\ ~RrfRefuses(call.args.rrf_k)
    BY DEF ResultInv
  <2>2. call.args.rrf_k \in Int /\ ~(call.args.rrf_k < 0) /\ call.args.k \in Nat \ {0}
    BY <2>1 DEF Ready, RrfRefuses
  <2> QED BY <2>2 DEF ResultInv
<1>2. PICK s : s = Scores(<<KeysOf(v), KeysOf(t)>>, rrf_k)
  OBVIOUS
<1>3. /\ S \in SUBSET IdValues /\ Cardinality(S) \in Nat
      /\ \A x \in S : Gains(v, t, rrf_k, x) \in Nat \ {0}
  <2>1. KeysScored(s, S, v, t, rrf_k)
    BY <1>1, <1>2, KeyScores
  <2> QED BY <2>1 DEF KeysScored
<1>4. FusionOf(out, S, v, t, k, rrf_k)
  BY <1>1, FusedOK
<1> QED BY <1>1, <1>3, <1>4

-----------------------------------------------------------------------------
(* The theorems.                                                           *)

\* All three parts.
CallInv == CatalogInv /\ VectorInv /\ ResultInv

LEMMA CallsAreSound == Spec => []CallInv
<1>1. Init => CallInv
  BY CatalogInit, VectorInit, ResultInit DEF CallInv
<1>2. CallInv /\ [Next]_vars => CallInv'
  BY CatalogNext, VectorNext, ResultNext DEF CallInv
<1> QED BY <1>1, <1>2, PTL DEF Spec

\* A call is in one of its steps, its lists hold ids, and what it returns are ids with
\* positive scores (brindle_hybrid).
THEOREM HybridTyped == Spec => []HybridTypeOK
<1>1. CallInv => HybridTypeOK
  <2> SUFFICES ASSUME CallInv PROVE HybridTypeOK
    OBVIOUS
  <2>1. IndexTypeOK
    BY DEF CallInv, CatalogInv, Entry, IndexTypeOK, HeaderAccepted
  <2>2. /\ call.step \in Running \cup {"idle", "done", "failed"}
        /\ call.operator \in Operators \cup {Null}
        /\ {call.vector, call.text} \subseteq Seq(IdValues)
    BY DEF CallInv, ResultInv, Listing
  <2>3. ASSUME NEW k \in DOMAIN call.out
        PROVE  call.out[k].id \in IdValues /\ call.out[k].score > 0
    <3>1. CASE call.step = "done"
      <4>1. PICK out, v, t, n, rrf_k, S : /\ out = call.out /\ v = call.vector /\ t = call.text
              /\ n = call.args.k /\ rrf_k = call.args.rrf_k /\ S = ToSet(v) \cup ToSet(t)
        OBVIOUS
      <4>2. /\ S \in SUBSET IdValues /\ \A x \in S : Gains(v, t, rrf_k, x) \in Nat \ {0}
            /\ FusionOf(out, S, v, t, n, rrf_k)
        BY <3>1, <4>1, DoneOK DEF CallInv
      <4>3. out[k].id \in S /\ out[k].score = Gains(v, t, rrf_k, out[k].id)
        BY <2>3, <4>1, <4>2 DEF FusionOf
      <4>4. out[k].id \in IdValues /\ out[k].score > 0
        BY <4>2, <4>3
      <4> QED BY <4>1, <4>4
    <3>2. CASE call.step # "done"
      BY <2>3, <3>2 DEF CallInv, ResultInv
    <3> QED BY <3>1, <3>2
  <2> QED BY <2>1, <2>2, <2>3 DEF HybridTypeOK
<1> QED BY <1>1, CallsAreSound, PTL

\* A score is what the ranks reported beside it are worth, for any table, lists and k, where
\* an id is in a list more than once or in one list only included, and the ranks are those
\* in the lists of ids (rrf, the ranks maps of fuse, key_of and id_of).
THEOREM ScoresExplained == Spec => []ScoresAreExplained
<1>1. CallInv => ScoresAreExplained
  <2> SUFFICES ASSUME CallInv, call.step = "done", NEW i \in DOMAIN call.out
               PROVE  LET Part(rank) == IF rank = Null THEN 0 ELSE Contribution(call.args.rrf_k, rank)
                          row == call.out[i] IN
                      /\ row.score = Part(row.vectorRank) + Part(row.textRank)
                      /\ row.vectorRank = RankIn(call.vector, row.id)
                      /\ row.textRank = RankIn(call.text, row.id)
    BY DEF ScoresAreExplained
  <2>1. PICK out, v, t, n, rrf_k, S : /\ out = call.out /\ v = call.vector /\ t = call.text
          /\ n = call.args.k /\ rrf_k = call.args.rrf_k /\ S = ToSet(v) \cup ToSet(t)
    OBVIOUS
  <2>2. FusionOf(out, S, v, t, n, rrf_k)
    BY <2>1, DoneOK DEF CallInv
  <2>3. /\ out[i].score = Gain(rrf_k, v, out[i].id) + Gain(rrf_k, t, out[i].id)
        /\ out[i].vectorRank = RankIn(v, out[i].id)
        /\ out[i].textRank = RankIn(t, out[i].id)
    <3>1. i \in DOMAIN out
      BY <2>1
    <3>2. /\ out[i].score = Gains(v, t, rrf_k, out[i].id)
          /\ out[i].vectorRank = RankIn(v, out[i].id)
          /\ out[i].textRank = RankIn(t, out[i].id)
      BY ONLY <2>2, <3>1 DEF FusionOf
    <3> QED BY <3>2 DEF Gains
  <2> QED BY <2>1, <2>3 DEF Gain
<1> QED BY <1>1, CallsAreSound, PTL

\* As many rows as k allows, and none that another beats comes before it: for any lists,
\* an earlier rank in one list and no later one in the other is a higher score, as long as
\* k + rank differs from k (rrf, its sort and truncation, ID_SIGN).
THEOREM BetterFirst == Spec => []BetterRowsFirst
<1>1. CallInv => BetterRowsFirst
  <2> SUFFICES ASSUME CallInv, call.step = "done",
                      NEW ids, ids = [i \in DOMAIN call.out |-> call.out[i].id],
                      NEW listed, listed = ToSet(call.vector) \cup ToSet(call.text)
               PROVE  /\ Len(ids) = IF Cardinality(listed) < call.args.k
                                    THEN Cardinality(listed) ELSE call.args.k
                      /\ \A j \in DOMAIN ids :
                           /\ call.args.rrf_k < Absorbing =>
                                \A x \in listed : Beats(x, ids[j]) =>
                                  x \in {ids[i] : i \in 1 .. j - 1}
                           /\ \A i \in 1 .. j - 1 :
                                call.out[i].score = call.out[j].score => ids[i] < ids[j]
    BY DEF BetterRowsFirst
  <2>1. PICK out, v, t, n, rrf_k, S : /\ out = call.out /\ v = call.vector /\ t = call.text
          /\ n = call.args.k /\ rrf_k = call.args.rrf_k
          /\ S = ToSet(v) \cup ToSet(t) /\ S = listed
    OBVIOUS
  <2>2. /\ rrf_k \in Nat /\ n \in Nat \ {0} /\ Listing(v) /\ Listing(t)
        /\ S \in SUBSET IdValues /\ Cardinality(S) \in Nat
        /\ \A x \in S : Gains(v, t, rrf_k, x) \in Nat \ {0}
        /\ FusionOf(out, S, v, t, n, rrf_k)
    BY <2>1, DoneOK DEF CallInv
  <2> DEFINE m == Shorter(Cardinality(S), n)
  <2>3. m \in Nat /\ DOMAIN out = 1 .. m
    BY <2>2 DEF Shorter, FusionOf
  <2>4. Len(ids) = IF Cardinality(S) < n THEN Cardinality(S) ELSE n
    <3>1. m = IF Cardinality(S) < n THEN Cardinality(S) ELSE n
      BY DEF Shorter
    <3> HIDE DEF m
    <3>2. ids = [i \in 1 .. m |-> ids[i]]
      BY <2>1, <2>3
    <3>3. Len(ids) = m
      BY <2>3, <3>2
    <3> QED BY <3>1, <3>3
  <2> HIDE DEF m
  <2>10. DOMAIN ids = DOMAIN out /\ \A i \in DOMAIN out : ids[i] = out[i].id
    BY <2>1
  <2>5. ASSUME NEW j \in DOMAIN out, rrf_k < Absorbing, NEW x \in S, Beats(x, out[j].id)
        PROVE  x \in {ids[i] : i \in 1 .. j - 1}
    <3>1. Gains(v, t, rrf_k, x) > Gains(v, t, rrf_k, out[j].id)
      BY <2>1, <2>2, <2>5, BeatsGainsMore
    <3>2. out[j].score = Gains(v, t, rrf_k, out[j].id)
      BY <2>2, <2>5 DEF FusionOf
    <3>3. PICK i \in 1 .. j - 1 : out[i].id = x
      BY <2>2, <2>5, <3>1, <3>2 DEF FusionOf
    <3>4. i \in DOMAIN out
      BY <2>3, <2>5
    <3> QED BY <2>10, <3>3, <3>4
  <2>6. ASSUME NEW j \in DOMAIN out, NEW i \in 1 .. j - 1, out[i].score = out[j].score
        PROVE  out[i].id < out[j].id
    <3>1. i \in DOMAIN out /\ i < j
      BY <2>3
    <3>2. out[i].score \in Nat
      BY <2>2, <3>1 DEF FusionOf
    <3>3. out[i].score > out[j].score \/ out[i].id < out[j].id
      BY <2>2, <3>1 DEF FusionOf
    <3> QED BY <2>6, <3>2, <3>3
  <2>7. \A j \in DOMAIN out : /\ ids[j] = out[j].id
                              /\ \A i \in 1 .. j - 1 : ids[i] = out[i].id
    <3>1. \A j \in DOMAIN out : \A i \in 1 .. j - 1 : i \in DOMAIN out
      BY <2>3
    <3> QED BY <2>10, <3>1
  <2>8. \A j \in DOMAIN ids :
           /\ rrf_k < Absorbing =>
                \A x \in S : Beats(x, ids[j]) => x \in {ids[i] : i \in 1 .. j - 1}
           /\ \A i \in 1 .. j - 1 : out[i].score = out[j].score => ids[i] < ids[j]
    BY <2>5, <2>6, <2>7, <2>10
  <2> QED BY <2>1, <2>4, <2>8
<1> QED BY <1>1, CallsAreSound, PTL
=============================================================================
