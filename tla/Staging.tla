------------------------------ MODULE Staging ------------------------------
(***************************************************************************)
(* Deferred writes: how the rows a transaction inserts reach the stored    *)
(* image of an index (src/index_am/storage.rs and mod.rs).                 *)
(*                                                                         *)
(* Each backend has one PENDING slot, a graph loaded from the image with   *)
(* the transaction's rows staged on top, and a DISCARDED stash where a     *)
(* rebuild sets a staged graph aside.  A statement that needs the slot     *)
(* first settles an outstanding rollback, then flushes what it must, then  *)
(* does its own work; each of these reads or writes the image under the    *)
(* image lock, so each is one step here and other backends run in between. *)
(*                                                                         *)
(* PostgreSQL around it is modelled from what the code relies on: nested   *)
(* subtransactions with their ids, row visibility, relfilenodes that an    *)
(* abort puts back, table locks that an aborted subtransaction releases,   *)
(* and a VACUUM that makes heap pointers reusable.                         *)
(***************************************************************************)
EXTENDS PendingWrite, FiniteSets

CONSTANTS
  Backends,
  InitialRows,  \* the rows of each table when its index was built
  MaxDepth,     \* open subtransactions at a time
  MaxSubs,      \* subtransactions per transaction
  MaxInserts,   \* rows inserted in a behaviour
  MaxRebuilds,  \* REINDEX or TRUNCATE commands per index
  CanVacuum,    \* whether rows are deleted and vacuumed
  CanDrop,      \* whether DROP INDEX is used
  Faults,       \* the steps that may raise: "settle", "flush", "stage"
  RiskDepth     \* subtransactions open at most when a step raises or an index is
                \* dropped

ASSUME FiniteAssumption == IsFiniteSet(Tids)

ASSUME BoundsAssumption ==
  /\ InitialRows \subseteq Tids
  /\ {MaxDepth, MaxSubs, MaxInserts, MaxRebuilds, RiskDepth} \subseteq Nat
  /\ {CanVacuum, CanDrop} \subseteq BOOLEAN
  /\ Faults \subseteq {"settle", "flush", "stage"}

VARIABLES
  catalog,    \* per index: does it exist, its heap file and its relfilenode
  heap,       \* per index and heap file: what each heap pointer holds
  image,      \* per index and relfilenode: the stored image
  nextFile,   \* per index: the next file number
  inserts,    \* rows inserted so far
  frames,     \* per backend: its (sub)transactions, outermost first
  nextSub,    \* per backend: the next SubTransactionId
  stmt,       \* per backend: the statement it is running
  pending,    \* per backend: PENDING
  discarded,  \* per backend: DISCARDED
  vacuum      \* the running VACUUM

storeVars == <<catalog, heap, image, nextFile, inserts>>
xactVars  == <<frames, nextSub>>
stageVars == <<pending, discarded>>
vars == <<storeVars, xactVars, stmt, stageVars, vacuum>>

TopSubTransactionId == 1

FileNos == 0 .. MaxRebuilds

Entry == [exists : BOOLEAN, heap : FileNos, file : FileNos]

\* A (sub)transaction: the rows it inserted, the indexes it holds ordinary and
\* exclusive locks on, and the catalog entries its abort puts back.
Frame == [sub : Nat, rows : SUBSET (Indexes \X FileNos \X Tids),
          locks : SUBSET Indexes, excl : SUBSET Indexes,
          undo : [Indexes -> Entry \cup {None}]]

NewFrame(s) == [sub |-> s, rows |-> {}, locks |-> {}, excl |-> {},
                undo |-> [i \in Indexes |-> None]]

\* A statement under way.  idx and tid are None where the kind has no use for
\* them: "insert" has both, "scan" an index, "parallel" and "commit" neither.
Statement == [kind : {"insert", "scan", "parallel", "commit"},
              step : {"settle", "flush", "work"},
              idx : Indexes \cup {None}, tid : Tids \cup {None}]

Vacuum == [idx : Indexes, dead : SUBSET Tids, step : {"bulkdelete", "heap"}]

\* An absent entry, statement or write is none of these.
ASSUME AbsentAssumption == None \notin Entry \cup Statement \cup Write

TypeOK ==
  /\ catalog \in [Indexes -> Entry]
  /\ heap \in [Indexes -> [FileNos -> [Tids -> {"free", "live", "dead"}]]]
  /\ image \in [Indexes -> [FileNos -> Image]]
  /\ nextFile \in [Indexes -> Nat]
  /\ inserts \in Nat
  /\ frames \in [Backends -> Seq(Frame)]
  /\ nextSub \in [Backends -> Nat]
  /\ stmt \in [Backends -> Statement \cup {None}]
  /\ pending \in [Backends -> Write \cup {None}]
  /\ discarded \in [Backends -> SUBSET Discard]
  /\ vacuum \in Vacuum \cup {None}

-----------------------------------------------------------------------------
(* What the code reads of PostgreSQL's state.                              *)

CurrentHeap(i) == heap[i][catalog[i].heap]

CurrentImage(i) == image[i][catalog[i].file]

CurrentSub(b) == frames[b][Len(frames[b])].sub

LocksOf(b) == UNION {frames[b][k].locks : k \in DOMAIN frames[b]}

ExclOf(b) == UNION {frames[b][k].excl : k \in DOMAIN frames[b]}

\* An ordinary lock on i waits while another backend holds the exclusive one.
Lockable(b, i) == \A c \in Backends \ {b} : i \notin ExclOf(c)

ExclLockable(b, i) ==
  /\ \A c \in Backends \ {b} : i \notin LocksOf(c) \cup ExclOf(c)
  /\ vacuum # None => vacuum.idx # i

\* Ready for the next command of an open transaction.
Idle(b) == frames[b] # <<>> /\ stmt[b] = None

OnTopFrame(b, f) == [frames EXCEPT ![b][Len(frames[b])] = f]

TopFrame(b) == frames[b][Len(frames[b])]

SetImage(i, img) == image' = [image EXCEPT ![i][catalog[i].file] = img]

\* The next transaction starts over with its subtransaction ids.
EndXact(b) ==
  /\ frames' = [frames EXCEPT ![b] = <<>>]
  /\ nextSub' = [nextSub EXCEPT ![b] = TopSubTransactionId + 1]

-----------------------------------------------------------------------------
\* The orders a heap scan can meet a set of rows in.
ScanOrders(rows) ==
  {s \in [1 .. Cardinality(rows) -> rows] :
     \A j, k \in DOMAIN s : s[j] = s[k] => j = k}

LiveNodes(s) == [k \in DOMAIN s |-> LiveNode(s[k])]

\* ambuild over a heap holding these rows, as CREATE INDEX left the relation: the
\* build callback files each row under the graph or the side table.
BuiltImages(rows) ==
  {[gen |-> FIRST_GENERATION, graph |-> LiveNodes(g), unrankable |-> LiveNodes(u)] :
     g \in ScanOrders(rows \ Vectorless), u \in ScanOrders(rows \cap Vectorless)}


\* Each index freshly built, by CREATE INDEX, on a table with the initial rows.
Init ==
  /\ catalog = [i \in Indexes |-> [exists |-> TRUE, heap |-> 0, file |-> 0]]
  /\ heap = [i \in Indexes |-> [f \in FileNos |-> [t \in Tids |->
               IF f = 0 /\ t \in InitialRows THEN "live" ELSE "free"]]]
  /\ image \in [Indexes -> [FileNos -> BuiltImages({}) \cup BuiltImages(InitialRows)]]
  /\ \A i \in Indexes, f \in FileNos :
       image[i][f] \in BuiltImages(IF f = 0 THEN InitialRows ELSE {})
  /\ nextFile = [i \in Indexes |-> 1]
  /\ inserts = 0
  /\ frames = [b \in Backends |-> <<>>]
  /\ nextSub = [b \in Backends |-> TopSubTransactionId + 1]
  /\ stmt = [b \in Backends |-> None]
  /\ pending = [b \in Backends |-> None]
  /\ discarded = [b \in Backends |-> {}]
  /\ vacuum = None

-----------------------------------------------------------------------------
(* Statements.                                                             *)

StartStmt(b, kind, i, t) ==
  stmt' = [stmt EXCEPT ![b] = [kind |-> kind, step |-> "settle",
                               idx |-> i, tid |-> t]]

\* BEGIN, explicit or implied by a statement.
Begin(b) ==
  /\ frames[b] = <<>>
  /\ frames' = [frames EXCEPT ![b] = <<NewFrame(TopSubTransactionId)>>]
  /\ UNCHANGED <<storeVars, nextSub, stmt, stageVars, vacuum>>

\* INSERT: the heap tuple is there, and PostgreSQL calls aminsert for it.
StartInsert(b, i, t) ==
  /\ Idle(b)
  /\ inserts < MaxInserts
  /\ catalog[i].exists /\ Lockable(b, i)
  /\ CurrentHeap(i)[t] = "free"
  /\ heap' = [heap EXCEPT ![i][catalog[i].heap][t] = "live"]
  /\ inserts' = inserts + 1
  /\ frames' = OnTopFrame(b, [TopFrame(b) EXCEPT
                 !.rows = @ \cup {<<i, catalog[i].heap, t>>},
                 !.locks = @ \cup {i}])
  /\ StartStmt(b, "insert", i, t)
  /\ UNCHANGED <<catalog, image, nextFile, nextSub, stageVars, vacuum>>

\* A scan of i in this backend: amrescan calls flush_pending_for before it reads.
StartScan(b, i) ==
  /\ Idle(b)
  /\ catalog[i].exists /\ Lockable(b, i)
  /\ frames' = OnTopFrame(b, [TopFrame(b) EXCEPT !.locks = @ \cup {i}])
  /\ StartStmt(b, "scan", i, None)
  /\ UNCHANGED <<storeVars, nextSub, stageVars, vacuum>>

\* ExecutorStart of a plan that needs parallel mode: flush_before_parallel_plan.
StartParallelPlan(b) ==
  /\ Idle(b)
  /\ StartStmt(b, "parallel", None, None)
  /\ UNCHANGED <<storeVars, xactVars, stageVars, vacuum>>

\* COMMIT or PREPARE, with every subtransaction already released.
StartCommit(b) ==
  /\ Idle(b)
  /\ Len(frames[b]) = 1
  /\ StartStmt(b, "commit", None, None)
  /\ UNCHANGED <<storeVars, xactVars, stageVars, vacuum>>

Advance(b, step) == stmt' = [stmt EXCEPT ![b].step = step]

AtStep(b, step) == stmt[b] # None /\ stmt[b].step = step

\* A rewind that keeps some rows is the one that has to read the image.
MustReload(w) == w # None /\ w.rewind # None /\ w.rewind # ZeroCount

\* Variant of Settle: the rollback is never carried out.
SettleSkipped(b) ==
  /\ AtStep(b, "settle")
  /\ Advance(b, "flush")
  /\ UNCHANGED <<storeVars, xactVars, stageVars, vacuum>>

\* settle_pending, which every path runs before it touches PENDING.
Settle(b) ==
  LET w == pending[b] IN
  /\ AtStep(b, "settle")
  /\ MustReload(w) => Lockable(b, w.idx)
  /\ pending' = [pending EXCEPT ![b] =
       IF w = None \/ w.rewind = None THEN w
       ELSE IF w.rewind = ZeroCount \/ ~catalog[w.idx].exists THEN None
       ELSE Settled(w, CurrentImage(w.idx))]
  /\ Advance(b, "flush")
  /\ UNCHANGED <<storeVars, xactVars, discarded, vacuum>>

\* Variant of Takes: a parallel plan reads what is on disk.
TakesUnlessParallel(s, w) ==
  /\ w # None
  /\ s.kind # "parallel"
  /\ s.kind = "insert" => w.idx # s.idx
  /\ s.kind = "scan"   => w.idx = s.idx

\* Which staged write the statement takes out of the slot to write back: another
\* index's before an insert, the scanned index's before a scan, else any.
Takes(s, w) ==
  /\ w # None
  /\ s.kind = "insert" => w.idx # s.idx
  /\ s.kind = "scan"   => w.idx = s.idx

\* flush_locked on the write taken, if any; a dropped index has nowhere to go.
Flush(b) ==
  LET w == pending[b] IN
  /\ AtStep(b, "flush")
  /\ IF Takes(stmt[b], w)
     THEN /\ Lockable(b, w.idx)
          /\ IF catalog[w.idx].exists
             THEN SetImage(w.idx, Written(w, CurrentImage(w.idx)))
             ELSE UNCHANGED image
          /\ pending' = [pending EXCEPT ![b] = None]
     ELSE UNCHANGED <<image, pending>>
  /\ Advance(b, "work")
  /\ UNCHANGED <<catalog, heap, nextFile, inserts, xactVars, discarded, vacuum>>

\* The slot an insert stages into, loaded from the image on first use.
Slot(b, i) == IF pending[b] = None THEN Loaded(i, CurrentImage(i)) ELSE pending[b]

\* The rest of pending_insert.
StageRow(b) ==
  /\ AtStep(b, "work") /\ stmt[b].kind = "insert"
  /\ pending' = [pending EXCEPT
                   ![b] = PushRow(Slot(b, stmt[b].idx), stmt[b].tid)]
  /\ stmt' = [stmt EXCEPT ![b] = None]
  /\ UNCHANGED <<storeVars, xactVars, discarded, vacuum>>

\* A scan or a parallel plan has read the images it wanted.
FinishRead(b) ==
  /\ AtStep(b, "work") /\ stmt[b].kind \in {"scan", "parallel"}
  /\ stmt' = [stmt EXCEPT ![b] = None]
  /\ UNCHANGED <<storeVars, xactVars, stageVars, vacuum>>

\* The end of the pre-commit arm of xact_callback, and the commit itself.
Commit(b) ==
  /\ AtStep(b, "work") /\ stmt[b].kind = "commit"
  /\ discarded' = [discarded EXCEPT ![b] = {}]
  /\ EndXact(b)
  /\ stmt' = [stmt EXCEPT ![b] = None]
  /\ UNCHANGED <<storeVars, pending, vacuum>>

-----------------------------------------------------------------------------
(* Transaction boundaries: xact_callback and subxact_callback.             *)

\* SAVEPOINT, or a plpgsql block with an EXCEPTION clause.
SubStart(b) ==
  /\ Idle(b)
  /\ Len(frames[b]) <= MaxDepth
  /\ nextSub[b] <= TopSubTransactionId + MaxSubs
  /\ frames' = [frames EXCEPT ![b] = Append(@, NewFrame(nextSub[b]))]
  /\ nextSub' = [nextSub EXCEPT ![b] = @ + 1]
  /\ pending' = [pending EXCEPT ![b] = MarkPending(@, "start")]
  /\ discarded' = [discarded EXCEPT ![b] = MarkStash(@, "start")]
  /\ UNCHANGED <<storeVars, stmt, vacuum>>

\* A released frame's rows, locks and undo pass to the parent.  Where both saved
\* a catalog entry, the parent's is the older.
Released(parent, f) ==
  [sub |-> parent.sub, rows |-> parent.rows \cup f.rows,
   locks |-> parent.locks \cup f.locks, excl |-> parent.excl \cup f.excl,
   undo |-> [i \in Indexes |-> IF parent.undo[i] = None THEN f.undo[i]
                               ELSE parent.undo[i]]]

\* RELEASE SAVEPOINT.
SubCommit(b) ==
  LET n == Len(frames[b])
      parent == frames[b][n - 1] IN
  /\ Idle(b) /\ n > 1
  /\ frames' = [frames EXCEPT ![b] =
                  Append(SubSeq(@, 1, n - 2), Released(parent, TopFrame(b)))]
  /\ pending' = [pending EXCEPT ![b] = MarkPending(@, "commit")]
  /\ discarded' = [discarded EXCEPT ![b] =
       MarkStash(StashCommit(@, CurrentSub(b), parent.sub), "commit")]
  /\ UNCHANGED <<storeVars, nextSub, stmt, vacuum>>

\* PostgreSQL's side of an abort: the frame's rows are dead, its catalog changes
\* are undone.
UndoFrame(f) ==
  /\ heap' = [i \in Indexes |-> [h \in FileNos |-> [t \in Tids |->
                IF <<i, h, t>> \in f.rows THEN "dead" ELSE heap[i][h][t]]]]
  /\ catalog' = [i \in Indexes |->
                   IF f.undo[i] = None THEN catalog[i] ELSE f.undo[i]]

\* ABORT_SUB, with p what PENDING holds as the subtransaction goes down.
AbortSub(b, p) ==
  LET s == CurrentSub(b)
      restored == StashRestored(discarded[b], s) IN
  /\ frames' = [frames EXCEPT ![b] = SubSeq(@, 1, Len(@) - 1)]
  /\ pending' = [pending EXCEPT ![b] =
       MarkPending(IF restored = None THEN p ELSE restored, "abort")]
  /\ discarded' = [discarded EXCEPT ![b] = MarkStash(StashDrain(@, s), "abort")]
  /\ UNCHANGED nextSub

\* Variant of AbortTop: the slot survives the transaction.
AbortTopKeeps(b) ==
  /\ EndXact(b)
  /\ discarded' = [discarded EXCEPT ![b] = {}]
  /\ UNCHANGED pending

\* XACT_EVENT_ABORT: nothing was written, so dropping is the rollback.
AbortTop(b) ==
  /\ EndXact(b)
  /\ pending' = [pending EXCEPT ![b] = None]
  /\ discarded' = [discarded EXCEPT ![b] = {}]

\* The innermost (sub)transaction aborts: ROLLBACK, ROLLBACK TO (which then opens
\* a new subtransaction), or an error.
AbortInnermost(b, p) ==
  /\ UndoFrame(TopFrame(b))
  /\ IF Len(frames[b]) > 1 THEN AbortSub(b, p) ELSE AbortTop(b)
  /\ stmt' = [stmt EXCEPT ![b] = None]
  /\ UNCHANGED <<image, nextFile, inserts, vacuum>>

Abort(b) == Idle(b) /\ AbortInnermost(b, pending[b])

AtRisk(b) == Len(frames[b]) <= RiskDepth + 1

MayRaise(b, step) == step \in Faults /\ AtRisk(b)

\* An error out of settle_pending once it has taken the write: waiting for the
\* image lock is cancelled, or the image cannot be read.
SettleFails(b) ==
  /\ MayRaise(b, "settle")
  /\ AtStep(b, "settle") /\ MustReload(pending[b])
  /\ catalog[pending[b].idx].exists
  /\ AbortInnermost(b, None)

\* An error out of flush_locked before it has rewritten the image.
FlushFails(b) ==
  /\ MayRaise(b, "flush")
  /\ AtStep(b, "flush") /\ Takes(stmt[b], pending[b])
  /\ catalog[pending[b].idx].exists
  /\ AbortInnermost(b, None)

\* An error while staging: the load fails with the slot empty, or the row is
\* refused (its dimension differs) with the slot loaded.
StageFails(b) ==
  /\ MayRaise(b, "stage")
  /\ AtStep(b, "work") /\ stmt[b].kind = "insert"
  /\ \/ AbortInnermost(b, pending[b])
     \/ /\ stmt[b].tid \notin Vectorless
        /\ AbortInnermost(b, Slot(b, stmt[b].idx))

-----------------------------------------------------------------------------
(* Commands that replace or remove an index.                               *)

\* The first change to i in a frame saves the entry its abort puts back.
ChangeCatalog(b, i, entry) ==
  /\ catalog' = [catalog EXCEPT ![i] = entry]
  /\ frames' = OnTopFrame(b, [TopFrame(b) EXCEPT
                 !.excl = @ \cup {i},
                 !.undo[i] = IF @ = None THEN catalog[i] ELSE @])

\* Variants of Forget: the staged rows are left in the slot; any index's are taken.
ForgetNothing(b, i) == UNCHANGED stageVars

ForgetAnyIndex(b, i) ==
  IF pending[b] = None THEN UNCHANGED stageVars
  ELSE /\ pending' = [pending EXCEPT ![b] = None]
       /\ discarded' = [discarded EXCEPT
                          ![b] = StashPush(@, CurrentSub(b), pending[b])]

\* What forget_pending leaves of PENDING and of DISCARDED.
Forget(b, i) ==
  LET w == pending[b] IN
  IF w # None /\ w.idx = i
  THEN /\ pending' = [pending EXCEPT ![b] = None]
       /\ discarded' = [discarded EXCEPT ![b] = StashPush(@, CurrentSub(b), w)]
  ELSE UNCHANGED stageVars

\* ambuild, called for a new relfilenode over the heap file h.
Rebuild(b, i, h, rows) ==
  /\ Idle(b)
  /\ catalog[i].exists /\ ExclLockable(b, i)
  /\ nextFile[i] <= MaxRebuilds
  /\ Forget(b, i)
  /\ \E img \in BuiltImages(rows) :
       image' = [image EXCEPT ![i][nextFile[i]] = img]
  /\ ChangeCatalog(b, i, [exists |-> TRUE, heap |-> h, file |-> nextFile[i]])
  /\ nextFile' = [nextFile EXCEPT ![i] = @ + 1]
  /\ UNCHANGED <<heap, inserts, nextSub, stmt, vacuum>>

\* REINDEX keeps the heap and indexes what is alive in it.
Reindex(b, i) ==
  Rebuild(b, i, catalog[i].heap, {t \in Tids : CurrentHeap(i)[t] = "live"})

\* TRUNCATE gives the table an empty heap as well.
Truncate(b, i) == Rebuild(b, i, nextFile[i], {})

\* DROP INDEX: no callback of the extension runs.
DropIndex(b, i) ==
  /\ CanDrop /\ AtRisk(b)
  /\ Idle(b)
  /\ catalog[i].exists /\ ExclLockable(b, i)
  /\ ChangeCatalog(b, i, [catalog[i] EXCEPT !.exists = FALSE])
  /\ UNCHANGED <<heap, image, nextFile, inserts, nextSub, stmt, stageVars, vacuum>>

-----------------------------------------------------------------------------
(* DELETE and VACUUM.                                                      *)

\* Rows of transactions that are still open.
InProgress(i) ==
  {t \in Tids : \E b \in Backends : \E k \in DOMAIN frames[b] :
                  <<i, catalog[i].heap, t>> \in frames[b][k].rows}

NoExclusive(i) == \A b \in Backends : i \notin ExclOf(b)

\* A committed row is deleted, by a transaction nobody's snapshot predates.
Delete(i, t) ==
  /\ CanVacuum
  /\ NoExclusive(i)
  /\ CurrentHeap(i)[t] = "live" /\ t \notin InProgress(i)
  /\ heap' = [heap EXCEPT ![i][catalog[i].heap][t] = "dead"]
  /\ UNCHANGED <<catalog, image, nextFile, inserts, xactVars, stmt, stageVars, vacuum>>

\* VACUUM's first heap pass collects the dead rows.
VacuumScan(i) ==
  /\ CanVacuum
  /\ vacuum = None
  /\ catalog[i].exists /\ NoExclusive(i)
  /\ LET dead == {t \in Tids : CurrentHeap(i)[t] = "dead"} IN
     /\ dead # {}
     /\ vacuum' = [idx |-> i, dead |-> dead, step |-> "bulkdelete"]
  /\ UNCHANGED <<storeVars, xactVars, stmt, stageVars>>

\* Variant of BulkDeleteStep: the image is rewritten under its old generation.
BulkDeleteSilently ==
  /\ vacuum # None /\ vacuum.step = "bulkdelete"
  /\ LET img == CurrentImage(vacuum.idx) IN
     SetImage(vacuum.idx, [gen |-> img.gen,
                           graph |-> BulkDelete(img.graph, vacuum.dead),
                           unrankable |-> BulkDelete(img.unrankable, vacuum.dead)])
  /\ vacuum' = [vacuum EXCEPT !.step = "heap"]
  /\ UNCHANGED <<catalog, heap, nextFile, inserts, xactVars, stmt, stageVars>>

\* ambulkdelete: nothing is written when nothing was removed.
BulkDeleteStep ==
  /\ vacuum # None /\ vacuum.step = "bulkdelete"
  /\ LET i   == vacuum.idx
         img == CurrentImage(i) IN
     IF LiveTids(img) \cap vacuum.dead = {} THEN UNCHANGED image
     ELSE SetImage(i, [gen |-> img.gen + 1,
                       graph |-> BulkDelete(img.graph, vacuum.dead),
                       unrankable |-> BulkDelete(img.unrankable, vacuum.dead)])
  /\ vacuum' = [vacuum EXCEPT !.step = "heap"]
  /\ UNCHANGED <<catalog, heap, nextFile, inserts, xactVars, stmt, stageVars>>

\* VACUUM's second heap pass: the pointers may be handed out again.
VacuumHeap ==
  /\ vacuum # None /\ vacuum.step = "heap"
  /\ LET i == vacuum.idx IN
     heap' = [heap EXCEPT ![i][catalog[i].heap] =
                [t \in Tids |-> IF t \in vacuum.dead THEN "free" ELSE @[t]]]
  /\ vacuum' = None
  /\ UNCHANGED <<catalog, image, nextFile, inserts, xactVars, stmt, stageVars>>

-----------------------------------------------------------------------------
BackendStep(b) ==
  \/ Begin(b) \/ StartParallelPlan(b) \/ StartCommit(b)
  \/ \E i \in Indexes, t \in Tids : StartInsert(b, i, t)
  \/ \E i \in Indexes : StartScan(b, i)
  \/ Settle(b) \/ Flush(b) \/ StageRow(b) \/ FinishRead(b) \/ Commit(b)
  \/ SubStart(b) \/ SubCommit(b) \/ Abort(b)
  \/ SettleFails(b) \/ FlushFails(b) \/ StageFails(b)
  \/ \E i \in Indexes : Reindex(b, i) \/ Truncate(b, i) \/ DropIndex(b, i)

MaintenanceStep ==
  \/ \E i \in Indexes, t \in Tids : Delete(i, t)
  \/ \E i \in Indexes : VacuumScan(i)
  \/ BulkDeleteStep \/ VacuumHeap

Next == (\E b \in Backends : BackendStep(b)) \/ MaintenanceStep

Spec == Init /\ [][Next]_vars

-----------------------------------------------------------------------------
(* Properties.                                                             *)

\* The rows a backend holds for index i that its next flush would write, leaving
\* out those a rollback has claimed.
StagedFor(b, i) ==
  IF pending[b] # None /\ pending[b].idx = i THEN SurvivingTids(pending[b]) ELSE {}

\* The row a running INSERT has put in the heap and not yet handed to the index.
BeingInserted(b, i) ==
  IF stmt[b] # None /\ stmt[b].kind = "insert" /\ stmt[b].idx = i
  THEN {stmt[b].tid} ELSE {}

\* No row is lost: every row alive in the heap of an index is in its image, or
\* staged and not rolled back in the backend that will write it.  This is what
\* deferring the writes must not break (storage.rs, PendingWrite), across
\* savepoints, rebuilds, replays and vacuums: a row missing here is one an index
\* scan never returns and no vacuum repairs.
NoRowLost ==
  \A i \in Indexes : catalog[i].exists =>
    {t \in Tids : CurrentHeap(i)[t] = "live"} \subseteq
      LiveTids(CurrentImage(i))
        \cup UNION {StagedFor(b, i) \cup BeingInserted(b, i) : b \in Backends}

Count1(nodes, t) == Cardinality({k \in DOMAIN nodes : nodes[k] = LiveNode(t)})

\* How many entries for row t the stored image and the staged rows hold.
Entries(i, t) ==
  LET img == CurrentImage(i)
      stagedBy == {b \in Backends : t \in StagedFor(b, i)}
  IN  Count1(img.graph, t) + Count1(img.unrankable, t) + Cardinality(stagedBy)

\* A row is indexed at most once: a replay, a settle or a rebuild never adds a row
\* that is already there (storage.rs staged_unrankable's comment, mod.rs ambuild's),
\* and a reused heap pointer never meets an entry of the row that had it before.
NoRowTwice ==
  \A i \in Indexes : catalog[i].exists => \A t \in Tids : Entries(i, t) <= 1

\* An entry of the image never points at a heap slot that VACUUM has freed or a
\* TRUNCATE has emptied: ambulkdelete runs before the slot is reused, and nothing
\* a backend still holds may bring the entry back.
NoDanglingEntry ==
  \A i \in Indexes : catalog[i].exists =>
    \A t \in LiveTids(CurrentImage(i)) : CurrentHeap(i)[t] # "free"

\* A read in a backend, serial or parallel, finds every row its own transaction
\* has inserted in the stored image, where a parallel worker would look for it
\* (flush_pending_for, flush_before_parallel_plan).
ReadsItsOwnRows ==
  \A b \in Backends : AtStep(b, "work") /\ stmt[b].kind \in {"scan", "parallel"} =>
    \A i \in Indexes :
      (catalog[i].exists /\ (stmt[b].kind = "parallel" \/ stmt[b].idx = i)) =>
        \A k \in DOMAIN frames[b] : \A t \in Tids :
          (/\ <<i, catalog[i].heap, t>> \in frames[b][k].rows
           /\ CurrentHeap(i)[t] = "live")
            => t \in LiveTids(CurrentImage(i))

\* A step that writes an image adds only rows that are alive at that moment: the
\* rows a ROLLBACK TO undid never reach it, because settle_pending runs before
\* every flush.
WritesOnlyLiveRows ==
  [][\A i \in Indexes : \A t \in Tids :
       (/\ catalog'[i] = catalog[i]
        /\ t \in LiveTids(image'[i][catalog[i].file]) \ LiveTids(CurrentImage(i)))
         => CurrentHeap(i)[t] = "live"]_vars

\* At most one entry of the stash per subtransaction, the rule forget_pending and
\* subxact_callback rely on to give back the right rows (has_duplicate_subxact).
OneDiscardPerSub ==
  \A b \in Backends : \A e, f \in discarded[b] : e.sub = f.sub => e = f

\* Nothing is left at a subtransaction id that is not open: ids restart with every
\* transaction, and a stale entry would be handed to a later one's rollback.
DiscardsAreOpen ==
  \A b \in Backends : \A e \in discarded[b] :
    \E k \in DOMAIN frames[b] : frames[b][k].sub = e.sub

\* The writes a backend holds.
Held(b) == (IF pending[b] = None THEN {} ELSE {pending[b]})
             \cup {e.write : e \in discarded[b]}

\* Savepoint marks draw lines inside what is staged, outer ones no later than inner
\* ones, in the staged write and in every write set aside: settle_pending slices
\* the staged rows by them and would panic, or keep a rolled-back row, otherwise.
MarksInBounds == \A b \in Backends : \A w \in Held(b) : MarksOrdered(w)

\* No update is lost: a staged write that would be written as it is, its generation
\* being that of the image, was loaded from exactly that image.
BaseIsCurrent ==
  \A b \in Backends :
    (/\ pending[b] # None /\ pending[b].rewind # ZeroCount
     /\ catalog[pending[b].idx].exists
     /\ pending[b].baseGen = CurrentImage(pending[b].idx).gen) =>
      LET w == pending[b]  img == CurrentImage(pending[b].idx) IN
      /\ SubSeq(w.graph, 1, w.baseN) = img.graph
      /\ SubSeq(w.unrankable, 1, w.baseUnrankable) = img.unrankable

=============================================================================
