------------------------------- MODULE Hybrid -------------------------------
(***************************************************************************)
(* One call of brindle_hybrid, query by query (src/hybrid.rs), while other *)
(* transactions change the table and its indexes.                          *)
(*                                                                         *)
(* What the function relies on of PostgreSQL is modelled as it uses it: a  *)
(* query sees a snapshot, the planner takes an index that offers the       *)
(* operator or sorts, and a lock on the table lasts to the end of the      *)
(* transaction.                                                            *)
(***************************************************************************)
EXTENDS IndexCatalog, Fusion, SequencesExt

CONSTANTS
  Rows,         \* names of rows
  Null,         \* no row, no value
  Tables,       \* contents that the table may have at first
  RowValues,    \* what another transaction may make of a row
  ColumnTypes,  \* type of each column
  Calls,        \* arguments of calls
  EfSearch,     \* brindle.ef_search
  MaxChanges    \* changes by other transactions

ASSUME HybridAssumption == EfSearch \in Nat \ {0} /\ MaxChanges \in Nat

\* A row: NULL in either column, and its rank against the query's text, 0 if it does not
\* match.
Documents == [id : {Null} \cup IdValues, vector : {Null} \cup Seq(Int), rank : Nat]

\* A table has no more rows than a list may have places; numbers are integers (n may be
\* left out).
ASSUME CallsAssumption ==
  /\ IsFiniteSet(Rows) /\ Cardinality(Rows) <= MaxRank
  /\ Null \notin Int
  /\ Tables \subseteq [Rows -> {Null} \cup Documents] /\ RowValues \subseteq Documents
  /\ \A args \in Calls : /\ args.k \in Int /\ args.n \in {Null} \cup Int
                          /\ args.rrf_k \in Int

VARIABLES table, call, changes

vars == <<table, indexes, call, changes>>

I32_MAX == 2147483647

\* snapshot: what the calling statement saw.  saw, near: the table as the vector
\* query saw it, and the rows it returned.
NoCall == [step |-> "idle", args |-> Null, xid |-> FALSE, snapshot |-> Null, operator |-> Null,
           saw |-> Null, near |-> <<>>, vector |-> <<>>, text |-> <<>>, out |-> <<>>]

Failed == [NoCall EXCEPT !.step = "failed"]

Running == {"resolve", "vector", "text", "fuse"}

HybridTypeOK ==
  /\ IndexTypeOK
  /\ call.step \in Running \cup {"idle", "done", "failed"}
  /\ call.operator \in Operators \cup {Null}
  /\ {call.vector, call.text} \subseteq Seq(IdValues)
  /\ \A k \in DOMAIN call.out : call.out[k].id \in IdValues /\ call.out[k].score > 0

-----------------------------------------------------------------------------
(* The call.                                                               *)

\* n, or four times k and at least 40.
Depth(args) ==
  IF args.n # Null THEN args.n
  ELSE IF args.k > I32_MAX \div 4 THEN I32_MAX
  ELSE IF 4 * args.k < 40 THEN 40 ELSE 4 * args.k

\* Whether the calling transaction has an id yet: one that has not reads every query of
\* the function under its own snapshot, one that has takes a new one for each.
Call(args, xid) ==
  /\ call.step = "idle"
  /\ call' = IF args.query = Null \/ args.k < 1 \/ Depth(args) < 1 THEN Failed
             ELSE [NoCall EXCEPT !.step = "resolve", !.args = args, !.xid = xid,
                     !.snapshot = [table |-> table, indexes |-> indexes]]
  /\ UNCHANGED <<table, indexes, changes>>

Visible == IF call.xid THEN [table |-> table, indexes |-> indexes] ELSE call.snapshot

TypeOf(column) == IF column \in DOMAIN ColumnTypes THEN ColumnTypes[column] ELSE Null

\* The ordering operators of the indexes on the vector column, each once.
OfferedOperators(seen) == {OrderingOperator[seen[i].opclass] : i \in {j \in Indexes : seen[j] # NoIndex}}

\* resolve: no metric is guessed.
Resolve ==
  LET offered == OfferedOperators(Visible.indexes)
      resolved == /\ call.args.relation = "documents"
                  /\ TypeOf(call.args.id) \in {"int2", "int4", "int8"}
                  /\ TypeOf(call.args.vector) = "brindle_vector"
                  /\ TypeOf(call.args.text) \in {"tsvector", "text", "varchar", "bpchar"}
                  /\ Cardinality(offered) = 1 IN
  /\ call.step = "resolve"
  /\ call' = IF resolved THEN [call EXCEPT !.step = "vector",
                                 !.operator = CHOOSE op \in offered : TRUE]
             ELSE Failed
  /\ UNCHANGED <<table, indexes, changes>>

\* The sequences of the rows S in which none is before one that comes First.
Orders(S, First(_, _)) ==
  {s \in [1 .. Cardinality(S) -> S] :
     /\ IsInjective(s)
     /\ \A j \in DOMAIN s : \A i \in 1 .. j - 1 : ~First(s[j], s[i])}

Limit(s, n) == SubSeq(s, 1, IF n < Len(s) THEN n ELSE Len(s))

\* Variant of FetchIds: a NULL id counts as an id.
FetchIdsOrNull(saw, rows) == [k \in DOMAIN rows |-> saw[rows[k]].id]

\* A row whose id is NULL takes a place in the LIMIT and is left out.
FetchIds(saw, rows) ==
  LET upTo[k \in 0 .. Len(rows)] ==
        IF k = 0 THEN <<>>
        ELSE IF saw[rows[k]].id = Null THEN upTo[k - 1]
        ELSE Append(upTo[k - 1], saw[rows[k]].id)
  IN upTo[Len(rows)]

Rankable(saw) == {r \in Rows : saw[r] # Null /\ saw[r].vector # Null}

\* vector_ids under a plan that sorts.
Sorted(saw) ==
  Orders(Rankable(saw), LAMBDA a, b :
           OperatorNearer(call.operator, call.args.query, saw[a].vector, saw[b].vector))

\* vector_ids under an index scan: the graph of an index there is now gives some of the
\* nearest, as many as its beam holds, in the order of its own metric.
Scanned(saw) ==
  UNION {Orders(S, LAMBDA a, b :
                  MetricNearer(indexes[i].header.metric, call.args.query,
                               saw[a].vector, saw[b].vector)) :
           i \in {j \in Existing : OrderingOperator[indexes[j].opclass] = call.operator},
           S \in {T \in SUBSET Rankable(saw) : Cardinality(T) <= EfSearch}}

VectorSide ==
  LET saw == Visible.table
      fits == \A r \in Rankable(saw) : Len(saw[r].vector) = Len(call.args.query) IN
  /\ call.step = "vector"
  /\ IF fits
     THEN \E ranked \in Sorted(saw) \cup Scanned(saw) :
            LET near == Limit(ranked, Depth(call.args)) IN
            call' = [call EXCEPT !.step = "text", !.saw = saw, !.near = near,
                                 !.vector = FetchIds(saw, near)]
     ELSE call' = Failed
  /\ UNCHANGED <<table, indexes, changes>>

\* ts_rank descending, then id ascending, where NULL comes last.
TextFirst(a, b) ==
  \/ a.rank > b.rank
  \/ a.rank = b.rank /\ a.id # Null /\ (b.id = Null \/ a.id < b.id)

TextSide ==
  LET saw == Visible.table
      matches == {r \in Rows : saw[r] # Null /\ saw[r].rank > 0} IN
  /\ call.step = "text"
  /\ \E ranked \in Orders(matches, LAMBDA a, b : TextFirst(saw[a], saw[b])) :
       call' = [call EXCEPT !.step = "fuse",
                  !.text = IF call.args.blank THEN <<>>
                           ELSE FetchIds(saw, Limit(ranked, Depth(call.args)))]
  /\ UNCHANGED <<table, indexes, changes>>

\* The place of an element in a list, its first.
RankIn(list, x) ==
  IF x \in ToSet(list)
  THEN CHOOSE k \in DOMAIN list : list[k] = x /\ \A j \in 1 .. k - 1 : list[j] # x
  ELSE Null

KeysOf(ids) == [k \in DOMAIN ids |-> KeyOf(ids[k])]

Fuse ==
  LET vectorKeys == KeysOf(call.vector)
      textKeys == KeysOf(call.text)
      fused == Rrf(<<vectorKeys, textKeys>>, call.args.rrf_k)
      best == Limit(fused, call.args.k) IN
  /\ call.step = "fuse"
  /\ call' = IF RrfRefuses(call.args.rrf_k) THEN Failed
             ELSE [call EXCEPT !.step = "done",
                     !.out = [k \in DOMAIN best |->
                        [id |-> IdOf(best[k].key), score |-> best[k].score,
                         vectorRank |-> RankIn(vectorKeys, best[k].key),
                         textRank |-> RankIn(textKeys, best[k].key)]]]
  /\ UNCHANGED <<table, indexes, changes>>

\* The end of the calling transaction.
Return ==
  /\ call.step \in {"done", "failed"}
  /\ call' = NoCall
  /\ UNCHANGED <<table, indexes, changes>>

-----------------------------------------------------------------------------
(* Other transactions, which commit.                                       *)

Change == changes < MaxChanges /\ changes' = changes + 1 /\ UNCHANGED call

ChangeRow(r, value) ==
  /\ Change /\ table' = [table EXCEPT ![r] = value]
  /\ UNCHANGED indexes

\* Since its vector query the call holds a lock on the table and its indexes.
Unlocked == call.step \notin {"text", "fuse", "done"}

ChangeIndexes ==
  /\ Change /\ UNCHANGED table
  /\ \E i \in Indexes :
       \/ \E opclass \in Opclasses, with \in WithLists : CreateIndex(i, opclass, with)
       \/ Unlocked /\ \E with \in WithLists \ {<<>>} : AlterIndex(i, with)
       \/ Unlocked /\ (Reindex(i) \/ DropIndex(i))

Init ==
  /\ table \in Tables
  /\ \E i \in Indexes, opclass \in Opclasses, with \in WithLists :
       /\ OptionsAccepted(with)
       /\ indexes = [j \in Indexes |-> IF j = i THEN Built(opclass, with) ELSE NoIndex]
  /\ call = NoCall /\ changes = 0

Next == \/ \E args \in Calls, xid \in BOOLEAN : Call(args, xid)
        \/ Resolve \/ VectorSide \/ TextSide \/ Fuse \/ Return
        \/ \E r \in Rows, value \in RowValues \cup {Null} : ChangeRow(r, value)
        \/ ChangeIndexes

Spec == Init /\ [][Next]_vars

-----------------------------------------------------------------------------
(* Properties.                                                             *)

\* The ranks reported with a row account for its score, also where an id is in a list
\* more than once or in one list only (rrf against the ranks map of fuse).
ScoresAreExplained ==
  LET Part(rank) == IF rank = Null THEN 0 ELSE Contribution(call.args.rrf_k, rank) IN
  call.step = "done" =>
    \A k \in DOMAIN call.out :
      LET row == call.out[k] IN
      /\ row.score = Part(row.vectorRank) + Part(row.textRank)
      /\ row.vectorRank = RankIn(call.vector, row.id)
      /\ row.textRank = RankIn(call.text, row.id)

Beats(x, y) ==
  LET Place(list, id) == IF RankIn(list, id) = Null THEN MaxRank + 1 ELSE RankIn(list, id) IN
  /\ Place(call.vector, x) <= Place(call.vector, y)
  /\ Place(call.text, x) <= Place(call.text, y)
  /\ Place(call.vector, x) < Place(call.vector, y) \/ Place(call.text, x) < Place(call.text, y)

\* A row that neither list ranks after another, and one ranks before it, comes first, or
\* is there where the other is cut off; rows of one score are in the order of their ids,
\* negative ids included.  As many rows as k allows.
BetterRowsFirst ==
  call.step = "done" =>
    LET ids == [k \in DOMAIN call.out |-> call.out[k].id]
        listed == ToSet(call.vector) \cup ToSet(call.text) IN
    /\ Len(ids) = IF Cardinality(listed) < call.args.k THEN Cardinality(listed)
                  ELSE call.args.k
    /\ \A j \in DOMAIN ids :
         /\ call.args.rrf_k < Absorbing =>
              \A x \in listed : Beats(x, ids[j]) => x \in {ids[i] : i \in 1 .. j - 1}
         /\ \A i \in 1 .. j - 1 : call.out[i].score = call.out[j].score => ids[i] < ids[j]

\* The vector side is in the order of the operator that was resolved and has no row
\* without a vector, whatever became of the index meanwhile and whatever its options:
\* nothing sorts what an index scan returns (the head of hybrid.rs, build_params).  With
\* more rows than an index scan gives it has the nearest there are, as many as it may.
VectorSideFollowsOperator ==
  LET Before(a, b) == OperatorNearer(call.operator, call.args.query, call.saw[a].vector,
                                     call.saw[b].vector)
  IN call.saw # Null =>
       /\ \A j \in DOMAIN call.near :
            /\ call.near[j] \in Rankable(call.saw)
            /\ \A i \in 1 .. j - 1 : ~Before(call.near[j], call.near[i])
       /\ Len(call.near) > EfSearch =>
            \A r \in Rankable(call.saw) \ ToSet(call.near) :
              /\ Len(call.near) = Depth(call.args)
              /\ \A j \in DOMAIN call.near : ~Before(r, call.near[j])
=============================================================================
