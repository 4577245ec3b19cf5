----------------------------- MODULE RowProofs -----------------------------
(***************************************************************************)
(* Proofs about the rows of Staging: none is lost, none is indexed twice, no*)
(* entry of an image dangles, a staged base is current, a transaction reads*)
(* its own rows, and a flush adds live rows only.                          *)
(*                                                                         *)
(* The invariant RowInv puts the views of RowViews together with what images,*)
(* locks, files and statements owe each other; each action of Staging keeps*)
(* it as long as errors, and DROP INDEX, come outside savepoints.          *)
(***************************************************************************)
EXTENDS RowViews

\* An error, and DROP INDEX, come outside savepoints only: inside one the code
\* loses rows (a failed flush) or keeps a staged graph past its lock.
ErrorsEndTransactions == RiskDepth = 0

-----------------------------------------------------------------------------
(* The inductive invariant.                                                *)

\* The row an insert has put in the heap and not yet staged.
Busy(b) ==
  IF stmt[b] # None /\ stmt[b].kind = "insert" THEN {<<stmt[b].idx, stmt[b].tid>>} ELSE {}

ViewOf(b) == Views(pending[b], discarded[b], frames[b], catalog, image, Busy(b))

ViewInv == \A b \in Backends : ViewOf(b)

\* The entries of i: the present one, and those a rollback can bring back.
EntryFor(cat, fr, i, e) ==
  \/ e = cat[i]
  \/ \E b \in Backends : \E f \in DOMAIN fr[b] : Undone(fr[b], f, i) /\ e = fr[b][f].undo[i]

\* An open transaction inserted row t into heap h of index i.
Owned(fr, i, h, t) ==
  \E b \in Backends : \E f \in DOMAIN fr[b] : <<i, h, t>> \in fr[b][f].rows

\* Rows are filed by kind, and no row is live twice.
ImageOK(img) ==
  /\ \A v \in Kinds : \A k \in 1 .. Len(Part(img, v)) : KindOf(Part(img, v)[k].tid) = v
  /\ \A v \in Kinds : \A j, k \in 1 .. Len(Part(img, v)) :
       (/\ ~Part(img, v)[j].deleted /\ ~Part(img, v)[k].deleted
        /\ Part(img, v)[j].tid = Part(img, v)[k].tid) => j = k

\* The image of entry e indexes rows that are there, and every row that no open
\* transaction inserted.
EntryOK(i, e) ==
  LET img == image[i][e.file] IN
  /\ ImageOK(img)
  /\ \A t \in LiveTids(img) : heap[i][e.heap][t] # "free"
  /\ \A t \in Tids :
       heap[i][e.heap][t] = "live" /\ ~Owned(frames, i, e.heap, t) => t \in LiveTids(img)

EntryInv ==
  \A i \in Indexes :
    \A e \in {catalog[i]} \cup
             UNION {{frames[b][f].undo[i] : f \in DOMAIN frames[b]} : b \in Backends} :
      EntryFor(catalog, frames, i, e) /\ e.exists => EntryOK(i, e)

\* Subtransaction ids grow inwards; a backend without a transaction holds nothing.
SubsOK(b) ==
  /\ nextSub[b] > TopSubTransactionId
  /\ \A f \in DOMAIN frames[b] : frames[b][f].sub < nextSub[b]
  /\ \A f, g \in DOMAIN frames[b] : f < g => frames[b][f].sub < frames[b][g].sub
  /\ frames[b] = <<>> => pending[b] = None /\ discarded[b] = {}

SubsInv == \A b \in Backends : SubsOK(b)

\* A saved entry is older than what came after it.
UndoOK(i, fs, f) ==
  LET u == fs[f].undo[i] IN
  /\ u.exists /\ u.heap < nextFile[i]
  /\ u.file <= catalog[i].file
  /\ catalog[i].exists => u.file < catalog[i].file
  /\ \A g \in DOMAIN fs : f < g /\ Undone(fs, g, i) => u.file < fs[g].undo[i].file

\* File numbers are never used again.
FileOK(i) ==
  /\ catalog[i].heap < nextFile[i] /\ catalog[i].file < nextFile[i]
  /\ \A h \in FileNos : h >= nextFile[i] => \A t \in Tids : heap[i][h][t] = "free"

UndoInv ==
  \A b \in Backends : \A f \in DOMAIN frames[b] : \A i \in Indexes :
    Undone(frames[b], f, i) => UndoOK(i, frames[b], f)

FileInv == (\A i \in Indexes : FileOK(i)) /\ UndoInv

\* Who changes an index remembers its entry; at a (sub)transaction that set a write
\* aside it changed that write's index.
ExclOK(b) ==
  /\ \A f \in DOMAIN frames[b] : \A i \in Indexes :
       Undone(frames[b], f, i) <=> i \in frames[b][f].excl
  /\ \A d \in discarded[b] : \A f \in DOMAIN frames[b] :
       d.sub = frames[b][f].sub => Undone(frames[b], f, d.write.idx)

\* And it excludes everybody else.
LocksInv ==
  /\ \A b \in Backends : ExclOK(b)
  /\ \A b, c \in Backends : b # c => \A i \in ExclOf(b) : i \notin LocksOf(c) \cup ExclOf(c)
  /\ vacuum # None => \A b \in Backends : vacuum.idx \notin ExclOf(b)

\* The rows of an open frame are alive, locked, and no other frame's.
LiveRow(b, f, i, h, t) == heap[i][h][t] = "live" /\ i \in frames[b][f].locks

OwnInv ==
  /\ \A b \in Backends : \A f \in DOMAIN frames[b] : \A i \in Indexes, h \in FileNos, t \in Tids :
       <<i, h, t>> \in frames[b][f].rows => LiveRow(b, f, i, h, t)
  /\ \A b, c \in Backends : \A f \in DOMAIN frames[b] : \A g \in DOMAIN frames[c] :
       \A r \in Indexes \X FileNos \X Tids :
         r \in frames[b][f].rows /\ r \in frames[c][g].rows => b = c /\ f = g

\* The row an insert has yet to stage.
InsertOK(b, i, t) ==
  /\ catalog[i].exists
  /\ <<i, catalog[i].heap, t>> \in TopFrame(b).rows
  /\ t \notin LiveTids(CurrentImage(i))
  /\ pending[b] # None /\ pending[b].idx = i =>
       ~KeptRow(pending[b], Surviving(pending[b]), t)

\* Each step of a statement finds the slot as the steps before left it.
StmtRowOK(b) ==
  stmt[b] # None =>
    LET s == stmt[b] IN
    /\ s.step \in {"flush", "work"} => pending[b] = None \/ pending[b].rewind = None
    /\ s.step = "work" => ~Takes(s, pending[b])
    /\ s.kind = "commit" => Len(frames[b]) = 1
    /\ \A i \in Indexes, t \in Tids :
         s.kind = "insert" /\ s.idx = i /\ s.tid = t => InsertOK(b, i, t)

StmtRowInv == \A b \in Backends : StmtRowOK(b)

\* What VACUUM is about to free is dead, and out of the image after the first pass.
DeadInv ==
  vacuum # None =>
    /\ catalog[vacuum.idx].exists
    /\ \A t \in vacuum.dead : CurrentHeap(vacuum.idx)[t] = "dead"
    /\ vacuum.step = "heap" => LiveTids(CurrentImage(vacuum.idx)) \cap vacuum.dead = {}

RowInv == /\ ViewInv /\ EntryInv /\ SubsInv /\ FileInv /\ LocksInv /\ OwnInv
          /\ StmtRowInv /\ DeadInv

-----------------------------------------------------------------------------
(* What the steps make of an image.                                        *)

\* A flush files every row under its kind, and leaves none twice.
LEMMA WrittenOK ==
  ASSUME NEW w, WriteOK(w), StagedShape(w), Distinct(w, Staged(w)),
         NEW img \in Image, ImageOK(img), w.baseGen = img.gen => SameBase(w, img),
         \A t \in LiveTids(img) : ~KeptRow(w, Staged(w), t)
  PROVE  ImageOK(Written(w, img))
<1> DEFINE y == Written(w, img)
<1>1. ASSUME NEW v \in Kinds
      PROVE  /\ \A k \in 1 .. Len(Part(y, v)) : KindOf(Part(y, v)[k].tid) = v
             /\ \A j, k \in 1 .. Len(Part(y, v)) :
                  (/\ ~Part(y, v)[j].deleted /\ ~Part(y, v)[k].deleted
                   /\ Part(y, v)[j].tid = Part(y, v)[k].tid) => j = k
  <2>1. /\ Len(Part(y, v)) = Len(Part(img, v)) + Num(Staged(w), v)
        /\ \A k \in 1 .. Len(Part(img, v)) : Part(y, v)[k] = Part(img, v)[k]
        /\ \A k \in 1 .. Num(Staged(w), v) :
              Part(y, v)[Len(Part(img, v)) + k] = StagedRow(w, v, k)
    BY WrittenParts
  <2>2. \A k \in 1 .. Num(Staged(w), v) : ~StagedRow(w, v, k).deleted /\ KindOf(StagedRow(w, v, k).tid) = v
    BY DEF StagedShape
  <2>3. PICK m \in Nat : m = Len(Part(img, v))
    BY ImagePartType
  <2>4. PICK n \in Nat : n = Num(Staged(w), v)
    BY PartType
  <2> HIDE DEF y
  <2>5. /\ \A k \in 1 .. m + n : k \in 1 .. m \/ \E q \in 1 .. n : k = m + q
        /\ \A k \in 1 .. m : k \in 1 .. m + n
        /\ \A k \in 1 .. n : m + k \in 1 .. m + n
    <3>1. \A k \in 1 .. m + n : k \in 1 .. m \/ (k - m \in 1 .. n /\ k = m + (k - m))
      OBVIOUS
    <3> QED BY <3>1
  <2>6. /\ Len(Part(y, v)) = m + n
        /\ \A k \in 1 .. m : Part(y, v)[k] = Part(img, v)[k]
        /\ \A k \in 1 .. n : Part(y, v)[m + k] = StagedRow(w, v, k)
        /\ \A k \in 1 .. n : ~StagedRow(w, v, k).deleted /\ KindOf(StagedRow(w, v, k).tid) = v
    BY <2>1, <2>2, <2>3, <2>4
  <2>7. /\ \A k \in 1 .. m : KindOf(Part(img, v)[k].tid) = v
        /\ \A j, k \in 1 .. m : (/\ ~Part(img, v)[j].deleted /\ ~Part(img, v)[k].deleted
                                 /\ Part(img, v)[j].tid = Part(img, v)[k].tid) => j = k
    BY <2>3 DEF ImageOK
  <2>8. ASSUME NEW k \in 1 .. Len(Part(y, v)) PROVE KindOf(Part(y, v)[k].tid) = v
    BY <2>5, <2>6, <2>7
  <2>9. ASSUME NEW j \in 1 .. m, NEW k \in 1 .. n, ~Part(img, v)[j].deleted
        PROVE  Part(img, v)[j].tid # StagedRow(w, v, k).tid
    <3>1. Part(img, v)[j].tid \in LiveTids(img)
      BY <2>3, <2>9, LiveByKind
    <3>2. ~KeptRow(w, Staged(w), Part(img, v)[j].tid)
      BY <3>1
    <3> QED BY <2>4, <2>7, <3>2 DEF KeptRow
  <2>10. \A j, k \in 1 .. n : StagedRow(w, v, j).tid = StagedRow(w, v, k).tid => j = k
    BY <2>4 DEF Distinct
  <2>11. ASSUME NEW j \in 1 .. Len(Part(y, v)), NEW k \in 1 .. Len(Part(y, v)),
                ~Part(y, v)[j].deleted, ~Part(y, v)[k].deleted,
                Part(y, v)[j].tid = Part(y, v)[k].tid
         PROVE  j = k
    <3>1. j \in 1 .. m \/ \E q \in 1 .. n : j = m + q
      BY <2>5, <2>6
    <3>2. k \in 1 .. m \/ \E q \in 1 .. n : k = m + q
      BY <2>5, <2>6
    <3>3. CASE j \in 1 .. m /\ k \in 1 .. m
      BY <2>6, <2>7, <2>11, <3>3
    <3>4. CASE j \in 1 .. m /\ \E q \in 1 .. n : k = m + q
      BY <2>6, <2>9, <2>11, <3>4
    <3>5. CASE k \in 1 .. m /\ \E q \in 1 .. n : j = m + q
      BY <2>6, <2>9, <2>11, <3>5
    <3>6. CASE (\E q \in 1 .. n : j = m + q) /\ (\E q \in 1 .. n : k = m + q)
      <4>1. PICK q \in 1 .. n : j = m + q
        BY <3>6
      <4>2. PICK r \in 1 .. n : k = m + r
        BY <3>6
      <4>3. StagedRow(w, v, q).tid = StagedRow(w, v, r).tid
        BY <2>6, <2>11, <4>1, <4>2
      <4> QED BY <2>10, <4>1, <4>2, <4>3
    <3> QED BY <3>1, <3>2, <3>3, <3>4, <3>5, <3>6
  <2> QED BY <2>8, <2>11
<1> HIDE DEF y
<1>2. ImageOK(y)
  BY <1>1 DEF ImageOK
<1> QED BY <1>2 DEF y

\* A heap scan meets every row once.
LEMMA ScannedRows ==
  ASSUME NEW rows \in SUBSET Tids, NEW s \in ScanOrders(rows)
  PROVE  /\ LiveNodes(s) \in Seq(Node)
         /\ \A k \in 1 .. Len(LiveNodes(s)) : LiveNodes(s)[k].tid \in rows /\ ~LiveNodes(s)[k].deleted
         /\ \A j, k \in 1 .. Len(LiveNodes(s)) : LiveNodes(s)[j].tid = LiveNodes(s)[k].tid => j = k
         /\ \A t \in rows : \E k \in 1 .. Len(LiveNodes(s)) : LiveNodes(s)[k].tid = t
<1> DEFINE n == Cardinality(rows)
<1>1. IsFiniteSet(rows) /\ n \in Nat
  BY FiniteAssumption, FS_Subset, FS_CardinalityType
<1>2. s \in [1 .. n -> rows] /\ \A j, k \in 1 .. n : s[j] = s[k] => j = k
  BY DEF ScanOrders
<1> HIDE DEF n
<1>3. IsFiniteSet(1 .. n) /\ Cardinality(1 .. n) = n
  BY <1>1, FS_Interval
<1>4. s \in Injection(1 .. n, rows)
  BY <1>2 DEF Injection, IsInjective
<1>5. s \in Surjection(1 .. n, rows)
  BY <1>1, <1>3, <1>4, FS_Injection DEF n
<1>6. \A t \in rows : \E k \in 1 .. n : s[k] = t
  BY <1>5 DEF Surjection
<1>7. LiveNodes(s) \in Seq(Node)
  BY LiveNodesType
<1>8. DOMAIN LiveNodes(s) = 1 .. n
  BY <1>2 DEF LiveNodes
<1>9. Len(LiveNodes(s)) = n
  BY <1>1, <1>7, <1>8, LenProperties
<1>10. \A k \in 1 .. n : LiveNodes(s)[k].tid = s[k] /\ ~LiveNodes(s)[k].deleted /\ s[k] \in rows
  BY <1>2 DEF LiveNodes, LiveNode
<1> QED BY <1>2, <1>6, <1>7, <1>9, <1>10

\* A built image has the rows it was built from, each once.
LEMMA BuiltOK ==
  ASSUME NEW rows \in SUBSET Tids, NEW img \in BuiltImages(rows)
  PROVE  ImageOK(img) /\ LiveTids(img) = rows
<1>1. PICK g \in ScanOrders(rows \ Vectorless) : \E u \in ScanOrders(rows \cap Vectorless) :
        img = [gen |-> FIRST_GENERATION, graph |-> LiveNodes(g), unrankable |-> LiveNodes(u)]
  BY DEF BuiltImages
<1>2. PICK u \in ScanOrders(rows \cap Vectorless) :
        img = [gen |-> FIRST_GENERATION, graph |-> LiveNodes(g), unrankable |-> LiveNodes(u)]
  BY <1>1
<1> DEFINE R(v) == IF v = "graph" THEN rows \ Vectorless ELSE rows \cap Vectorless
<1>3. ASSUME NEW v \in Kinds
      PROVE  /\ \A k \in 1 .. Len(Part(img, v)) : Part(img, v)[k].tid \in R(v) /\ ~Part(img, v)[k].deleted
             /\ \A j, k \in 1 .. Len(Part(img, v)) : Part(img, v)[j].tid = Part(img, v)[k].tid => j = k
             /\ \A t \in R(v) : \E k \in 1 .. Len(Part(img, v)) : Part(img, v)[k].tid = t
  <2>1. rows \ Vectorless \in SUBSET Tids /\ rows \cap Vectorless \in SUBSET Tids
    OBVIOUS
  <2>2. CASE v = "graph"
    <3>1. Part(img, v) = LiveNodes(g) /\ R(v) = rows \ Vectorless
      BY <1>2, <2>2 DEF Part
    <3>2. LET s == LiveNodes(g) IN
          /\ \A k \in 1 .. Len(s) : s[k].tid \in rows \ Vectorless /\ ~s[k].deleted
          /\ \A j, k \in 1 .. Len(s) : s[j].tid = s[k].tid => j = k
          /\ \A t \in rows \ Vectorless : \E k \in 1 .. Len(s) : s[k].tid = t
      BY <2>1, ScannedRows
    <3> QED BY <3>1, <3>2
  <2>3. CASE v = "unrankable"
    <3>1. Part(img, v) = LiveNodes(u) /\ R(v) = rows \cap Vectorless
      BY <1>2, <2>3 DEF Part
    <3>2. LET s == LiveNodes(u) IN
          /\ \A k \in 1 .. Len(s) : s[k].tid \in rows \cap Vectorless /\ ~s[k].deleted
          /\ \A j, k \in 1 .. Len(s) : s[j].tid = s[k].tid => j = k
          /\ \A t \in rows \cap Vectorless : \E k \in 1 .. Len(s) : s[k].tid = t
      BY <2>1, ScannedRows
    <3> QED BY <3>1, <3>2
  <2> QED BY <2>2, <2>3 DEF Kinds
<1>4. \A v \in Kinds : \A t \in R(v) : KindOf(t) = v /\ t \in rows
  BY DEF Kinds, KindOf
<1>5. \A t \in rows : KindOf(t) \in Kinds /\ t \in R(KindOf(t))
  BY DEF Kinds, KindOf
<1> HIDE DEF R
<1>6. ImageOK(img)
  BY <1>3, <1>4 DEF ImageOK
<1>7. img \in Image
  BY BuiltImagesType
<1>8. ASSUME NEW t PROVE t \in LiveTids(img) <=> t \in rows
  <2>1. t \in LiveTids(img) <=> \E v \in Kinds : \E k \in 1 .. Len(Part(img, v)) :
                                  ~Part(img, v)[k].deleted /\ Part(img, v)[k].tid = t
    BY <1>7, LiveByKind
  <2> QED BY <1>3, <1>4, <1>5, <2>1
<1> QED BY <1>6, <1>8

\* VACUUM's first index pass.
Swept(img, dead) ==
  [gen |-> img.gen + 1, graph |-> BulkDelete(img.graph, dead),
   unrankable |-> BulkDelete(img.unrankable, dead)]

\* It takes the dead rows out and moves no other.
LEMMA SweptOK ==
  ASSUME NEW img \in Image, NEW dead
  PROVE  /\ Swept(img, dead) \in Image /\ Swept(img, dead).gen = img.gen + 1
         /\ LiveTids(Swept(img, dead)) = LiveTids(img) \ dead
         /\ ImageOK(img) => ImageOK(Swept(img, dead))
<1> DEFINE y == Swept(img, dead)
<1>1. y \in Image /\ y.gen = img.gen + 1
  BY BulkDeleteType DEF Image, Swept
<1>2. ASSUME NEW v \in Kinds
      PROVE  /\ Len(Part(y, v)) = Len(Part(img, v))
             /\ \A k \in 1 .. Len(Part(img, v)) :
                  /\ Part(y, v)[k].tid = Part(img, v)[k].tid
                  /\ Part(y, v)[k].deleted <=> Part(img, v)[k].deleted \/ Part(img, v)[k].tid \in dead
  <2>1. Part(y, v) = BulkDelete(Part(img, v), dead)
    BY DEF Part, Swept
  <2>2. /\ Part(img, v) \in Seq(Node) /\ DOMAIN Part(img, v) = 1 .. Len(Part(img, v))
        /\ Part(y, v) \in Seq(Node) /\ DOMAIN Part(y, v) = 1 .. Len(Part(y, v))
        /\ Len(Part(y, v)) \in Nat /\ Len(Part(img, v)) \in Nat
    BY <1>1, ImagePartType
  <2> HIDE DEF y
  <2>3. DOMAIN Part(y, v) = DOMAIN Part(img, v)
    BY <2>1 DEF BulkDelete
  <2>4. Len(Part(y, v)) = Len(Part(img, v))
    <3>1. \A a, b \in Nat : 1 .. a = 1 .. b => a <= b
      <4> SUFFICES ASSUME NEW a \in Nat, NEW b \in Nat, 1 .. a = 1 .. b, a > b PROVE FALSE
        OBVIOUS
      <4>1. a \in 1 .. a /\ a \notin 1 .. b
        OBVIOUS
      <4> QED BY <4>1
    <3>2. \A a, b \in Nat : a <= b /\ b <= a => a = b
      OBVIOUS
    <3>3. \A a, b \in Nat : 1 .. a = 1 .. b => a = b
      BY <3>1, <3>2, Zenon
    <3> QED BY <2>2, <2>3, <3>3, Zenon
  <2>5. ASSUME NEW k \in 1 .. Len(Part(img, v))
        PROVE  /\ Part(y, v)[k].tid = Part(img, v)[k].tid
               /\ Part(y, v)[k].deleted <=> Part(img, v)[k].deleted \/ Part(img, v)[k].tid \in dead
    <3> DEFINE d == Part(img, v)[k].deleted \/ Part(img, v)[k].tid \in dead
    <3>1. Part(y, v)[k] = [tid |-> Part(img, v)[k].tid, deleted |-> d]
      BY <2>1, <2>2 DEF BulkDelete
    <3> HIDE DEF d
    <3>2. Part(y, v)[k].tid = Part(img, v)[k].tid /\ Part(y, v)[k].deleted = d
      BY <3>1
    <3> QED BY <3>2 DEF d
  <2> QED BY <2>4, <2>5
<1> HIDE DEF y
<1>3. ASSUME NEW t PROVE t \in LiveTids(y) <=> t \in LiveTids(img) \ dead
  <2>1. t \in LiveTids(img) <=> \E v \in Kinds : \E k \in 1 .. Len(Part(img, v)) :
                                  ~Part(img, v)[k].deleted /\ Part(img, v)[k].tid = t
    BY LiveByKind
  <2>2. t \in LiveTids(y) <=> \E v \in Kinds : \E k \in 1 .. Len(Part(y, v)) :
                                ~Part(y, v)[k].deleted /\ Part(y, v)[k].tid = t
    BY <1>1, LiveByKind
  <2> QED BY <1>2, <2>1, <2>2
<1>4. LiveTids(y) = LiveTids(img) \ dead
  BY <1>3
<1>5. ASSUME ImageOK(img) PROVE ImageOK(y)
  BY <1>2, <1>5 DEF ImageOK
<1> QED BY <1>1, <1>4, <1>5 DEF y

-----------------------------------------------------------------------------
(* What the invariant says of one backend, of one entry and of one row.    *)

\* What a backend holds is of its type.
LEMMA BackendHolds ==
  ASSUME IInv, NEW b \in Backends
  PROVE  /\ Holding(pending[b], discarded[b], frames[b])
         /\ frames[b] \in Seq(Frame) /\ Len(frames[b]) \in Nat
         /\ DOMAIN frames[b] = 1 .. Len(frames[b])
         /\ \A f \in 1 .. Len(frames[b]) : frames[b][f] \in Frame
<1>1. frames[b] \in Seq(Frame)
  BY DEF IInv, XactInv
<1>2. /\ Len(frames[b]) \in Nat /\ DOMAIN frames[b] = 1 .. Len(frames[b])
      /\ \A f \in 1 .. Len(frames[b]) : frames[b][f] \in Frame
  BY <1>1, LenProperties, ElementOfSeq
<1>3. Holding(pending[b], discarded[b], frames[b])
  BY <1>1 DEF IInv, PendingInv, DiscardedInv, Holding
<1> QED BY <1>1, <1>2, <1>3

\* The ids of a backend's open (sub)transactions differ.
LEMMA SubsDiffer ==
  ASSUME IInv, SubsInv, NEW b \in Backends
  PROVE  \A f, g \in 1 .. Len(frames[b]) : f < g => frames[b][f].sub # frames[b][g].sub
<1>1. /\ DOMAIN frames[b] = 1 .. Len(frames[b])
      /\ \A f \in 1 .. Len(frames[b]) : frames[b][f].sub \in Nat
  BY BackendHolds DEF Frame
<1> QED BY <1>1 DEF SubsInv, SubsOK

\* A row of an open frame is alive, and under the lock.
LEMMA OpenRow ==
  ASSUME IInv, OwnInv, NEW b \in Backends, NEW f \in DOMAIN frames[b],
         NEW i, NEW h, NEW t, <<i, h, t>> \in frames[b][f].rows
  PROVE  /\ i \in Indexes /\ h \in FileNos /\ t \in Tids
         /\ heap[i][h][t] = "live" /\ i \in frames[b][f].locks /\ i \in LocksOf(b)
<1>1. frames[b][f] \in Frame
  BY BackendHolds
<1>2. i \in Indexes /\ h \in FileNos /\ t \in Tids
  BY <1>1 DEF Frame
<1>3. LiveRow(b, f, i, h, t)
  BY <1>2 DEF OwnInv
<1> QED BY <1>2, <1>3 DEF LiveRow, LocksOf

\* Two frames with a row in common are the same frame.
LEMMA OneOwner ==
  ASSUME IInv, OwnInv, NEW b \in Backends, NEW f \in DOMAIN frames[b],
         NEW c \in Backends, NEW g \in DOMAIN frames[c],
         NEW i, NEW h, NEW t, <<i, h, t>> \in frames[b][f].rows, <<i, h, t>> \in frames[c][g].rows
  PROVE  b = c /\ f = g
<1>1. i \in Indexes /\ h \in FileNos /\ t \in Tids
  BY OpenRow
<1>2. <<i, h, t>> \in Indexes \X FileNos \X Tids
  BY <1>1
<1> QED BY <1>2 DEF OwnInv

\* A backend without a lock on an index has no rows in its table.
LEMMA NoLock ==
  ASSUME IInv, OwnInv, NEW b \in Backends, NEW i, i \notin LocksOf(b), NEW g \in DOMAIN frames[b]
  PROVE  i \notin frames[b][g].locks /\ \A h, t : <<i, h, t>> \notin frames[b][g].rows
BY OpenRow DEF LocksOf

\* One without an exclusive lock has not changed its catalog entry.
LEMMA NoExcl ==
  ASSUME LocksInv, NEW b \in Backends, NEW i \in Indexes, i \notin ExclOf(b),
         NEW f \in DOMAIN frames[b]
  PROVE  ~Undone(frames[b], f, i)
<1>1. i \notin frames[b][f].excl
  BY DEF ExclOf
<1> QED BY <1>1 DEF LocksInv, ExclOK

\* One that has changed an entry excludes every other backend, and VACUUM.
LEMMA HasExcl ==
  ASSUME LocksInv, NEW b \in Backends, NEW f \in DOMAIN frames[b], NEW i \in Indexes,
         Undone(frames[b], f, i)
  PROVE  /\ i \in ExclOf(b)
         /\ \A c \in Backends \ {b} : i \notin LocksOf(c) /\ i \notin ExclOf(c)
         /\ vacuum # None => vacuum.idx # i
<1>1. i \in ExclOf(b)
  BY NoExcl
<1> QED BY <1>1 DEF LocksInv

\* The image of an entry is in order.
LEMMA EntryInOrder ==
  ASSUME EntryInv, NEW i \in Indexes, NEW e, EntryFor(catalog, frames, i, e), e.exists
  PROVE  EntryOK(i, e)
<1>1. e \in {catalog[i]} \cup
             UNION {{frames[b][f].undo[i] : f \in DOMAIN frames[b]} : b \in Backends}
  <2>1. CASE e = catalog[i]
    BY <2>1
  <2>2. ASSUME NEW b \in Backends, NEW f \in DOMAIN frames[b], e = frames[b][f].undo[i]
        PROVE  e \in UNION {{frames[c][g].undo[i] : g \in DOMAIN frames[c]} : c \in Backends}
    BY <2>2
  <2> QED BY <2>1, <2>2 DEF EntryFor
<1> QED BY <1>1 DEF EntryInv

\* The entries of an index are entries, and their files were given out.
LEMMA EntryForType ==
  ASSUME IInv, FileInv, NEW i \in Indexes, NEW e, EntryFor(catalog, frames, i, e)
  PROVE  /\ e \in Entry /\ e.heap < nextFile[i] /\ e.file < nextFile[i]
         /\ e.heap \in FileNos /\ e.file \in FileNos /\ e.heap \in Nat /\ e.file \in Nat
<1>1. /\ catalog[i] \in Entry /\ nextFile[i] \in Nat
      /\ catalog[i].heap < nextFile[i] /\ catalog[i].file < nextFile[i]
  BY DEF IInv, StoreInv, FileInv, FileOK
<1>2. \A f \in FileNos : f \in Nat
  BY DEF FileNos
<1>3. CASE e = catalog[i]
  BY <1>1, <1>2, <1>3 DEF Entry
<1>4. ASSUME NEW b \in Backends, NEW f \in DOMAIN frames[b], Undone(frames[b], f, i),
             e = frames[b][f].undo[i]
      PROVE  e \in Entry /\ e.heap < nextFile[i] /\ e.file <= catalog[i].file
  <2>1. frames[b][f] \in Frame
    BY BackendHolds
  <2>2. e \in Entry
    BY <1>4, <2>1 DEF Frame, Undone
  <2>3. UndoOK(i, frames[b], f)
    BY <1>4 DEF FileInv, UndoInv
  <2> QED BY <1>4, <2>2, <2>3 DEF UndoOK
<1>5. ASSUME e \in Entry, e.heap < nextFile[i], e.file <= catalog[i].file
      PROVE  e.file < nextFile[i] /\ e.heap \in FileNos /\ e.file \in FileNos
             /\ e.heap \in Nat /\ e.file \in Nat
  <2>1. e.heap \in FileNos /\ e.file \in FileNos /\ catalog[i].file \in FileNos
    BY <1>1, <1>5 DEF Entry
  <2> QED BY <1>1, <1>2, <1>5, <2>1
<1>6. CASE \E b \in Backends : \E f \in DOMAIN frames[b] :
             Undone(frames[b], f, i) /\ e = frames[b][f].undo[i]
  BY <1>4, <1>5, <1>6
<1> QED BY <1>3, <1>6 DEF EntryFor

-----------------------------------------------------------------------------
(* What a step leaves alone.                                               *)

\* Nothing a backend with frames fs could see of index i is disturbed.
Untouched(fs, cat, cat2, img, img2, i) ==
  \/ \A g \in DOMAIN fs : i \notin fs[g].locks /\ \A h, t : <<i, h, t>> \notin fs[g].rows
  \/ cat2[i] = cat[i] /\ img2[i] = img[i]
  \/ /\ cat2[i] = cat[i] /\ \A f \in DOMAIN fs : ~Undone(fs, f, i)
     /\ \/ img2[i][cat[i].file] = img[i][cat[i].file]
        \/ Moved(i, cat[i].heap, fs, img[i][cat[i].file], img2[i][cat[i].file])

\* Nor anything of its own.
Bystander(c) ==
  /\ frames'[c] = frames[c] /\ pending'[c] = pending[c] /\ discarded'[c] = discarded[c]
  /\ stmt'[c] = stmt[c] /\ nextSub'[c] = nextSub[c]
  /\ \A i \in Indexes : Untouched(frames[c], catalog, catalog', image, image', i)

\* A view is no concern of what others do.
LEMMA BystanderView ==
  ASSUME IInv, IInv', ViewInv, NEW c \in Backends, Bystander(c)
  PROVE  ViewOf(c)'
<1> DEFINE busy == Busy(c)
<1>1. Views(pending[c], discarded[c], frames[c], catalog, image, busy)
  BY DEF ViewInv, ViewOf
<1>2. Busy(c)' = busy
  BY DEF Bystander, Busy
<1> HIDE DEF busy
<1>3. /\ catalog \in [Indexes -> Entry] /\ image \in [Indexes -> [FileNos -> Image]]
      /\ image' \in [Indexes -> [FileNos -> Image]]
      /\ Holding(pending[c], discarded[c], frames[c])
  BY BackendHolds DEF IInv, StoreInv
<1>4. \A i \in Indexes : Untouched(frames[c], catalog, catalog', image, image', i)
  BY DEF Bystander
<1>5. Views(pending[c], discarded[c], frames[c], catalog', image', busy)
  BY <1>1, <1>3, <1>4, QuietViews DEF Untouched
<1> QED BY <1>2, <1>5 DEF ViewOf, Bystander

\* Nor is a statement under way.
LEMMA BystanderStmt ==
  ASSUME IInv, StmtRowInv, OwnInv, NEW c \in Backends, Bystander(c)
  PROVE  StmtRowOK(c)'
<1> SUFFICES ASSUME stmt[c] # None PROVE StmtRowOK(c)'
  BY DEF Bystander, StmtRowOK
<1>1. /\ pending'[c] = pending[c] /\ frames'[c] = frames[c] /\ stmt'[c] = stmt[c]
  BY DEF Bystander
<1>2. StmtRowOK(c)
  BY DEF StmtRowInv
<1>3. ASSUME NEW i \in Indexes, NEW t \in Tids,
             stmt[c].kind = "insert", stmt[c].idx = i, stmt[c].tid = t
      PROVE  InsertOK(c, i, t)'
  <2>1. frames[c] # <<>> /\ InsertOK(c, i, t)
    BY <1>2, <1>3 DEF StmtRowOK, IInv, StmtInv
  <2>2. Len(frames[c]) \in DOMAIN frames[c]
    BY <2>1, TopFrameType DEF IInv
  <2>3. <<i, catalog[i].heap, t>> \in frames[c][Len(frames[c])].rows
    BY <2>1 DEF InsertOK, TopFrame
  <2>4. catalog'[i] = catalog[i] /\ t \notin LiveTids(image'[i][catalog[i].file])
    <3>1. Untouched(frames[c], catalog, catalog', image, image', i)
      BY DEF Bystander
    <3>2. t \notin LiveTids(image[i][catalog[i].file])
      BY <2>1 DEF InsertOK, CurrentImage
    <3> QED BY <2>1, <2>2, <2>3, <3>1, <3>2 DEF Untouched, Moved
  <2> QED BY <1>1, <2>1, <2>4 DEF InsertOK, TopFrame, CurrentImage
<1> QED BY <1>1, <1>2, <1>3 DEF StmtRowOK

\* The rest of the invariant, for a backend that does nothing.
LEMMA BystanderSubs ==
  ASSUME SubsInv, NEW c \in Backends, Bystander(c)
  PROVE  SubsOK(c)'
BY DEF SubsInv, SubsOK, Bystander

-----------------------------------------------------------------------------
(* Steps that touch a statement and the slot only.                         *)

\* What makes the images of the entries be in order.
LEMMA EntryInvFrom ==
  ASSUME \A i \in Indexes : \A e : EntryFor(catalog', frames', i, e) /\ e.exists => EntryOK(i, e)'
  PROVE  EntryInv'
BY DEF EntryInv

\* An entry whose image stays is in order if rows come and go in open frames only.
LEMMA EntryStays ==
  ASSUME EntryInv, NEW i \in Indexes, NEW e, EntryFor(catalog, frames, i, e), e.exists,
         image'[i][e.file] = image[i][e.file],
         \A t \in LiveTids(image[i][e.file]) :
           heap[i][e.heap][t] # "free" => heap'[i][e.heap][t] # "free",
         \A t \in Tids : heap'[i][e.heap][t] = "live" /\ ~Owned(frames', i, e.heap, t) =>
           \/ heap[i][e.heap][t] = "live" /\ ~Owned(frames, i, e.heap, t)
           \/ t \in LiveTids(image[i][e.file])
  PROVE  EntryOK(i, e)'
<1>1. EntryOK(i, e)
  BY EntryInOrder
<1> QED BY <1>1 DEF EntryOK

\* Between commands and inside a statement, a step of b changes its slot and its
\* statement.
LEMMA StageStep ==
  ASSUME IInv, IInv', RowInv, NEW b \in Backends, frames[b] # <<>>,
         UNCHANGED <<catalog, heap, image, nextFile, frames, nextSub, discarded, vacuum>>,
         \A c \in Backends \ {b} : pending'[c] = pending[c] /\ stmt'[c] = stmt[c],
         ViewOf(b)', StmtRowOK(b)'
  PROVE  RowInv'
<1>1. \A c \in Backends \ {b} : Bystander(c)
  BY DEF Bystander, Untouched
<1>2. ViewInv' /\ StmtRowInv'
  <2>1. \A c \in Backends \ {b} : ViewOf(c)' /\ StmtRowOK(c)'
    BY <1>1, BystanderView, BystanderStmt DEF RowInv
  <2> QED BY <2>1 DEF ViewInv, StmtRowInv
<1>3. SubsInv'
  <2>1. \A c \in Backends \ {b} : SubsOK(c)'
    BY <1>1, BystanderSubs DEF RowInv
  <2>2. SubsOK(b)'
    BY DEF RowInv, SubsInv, SubsOK
  <2> QED BY <2>1, <2>2 DEF SubsInv
<1>4. EntryInv'
  BY DEF RowInv, EntryInv, EntryOK
<1>5. FileInv'
  BY DEF RowInv, FileInv, FileOK, UndoInv, UndoOK
<1>6. LocksInv'
  <2>1. \A c : ExclOf(c)' = ExclOf(c) /\ LocksOf(c)' = LocksOf(c)
    BY DEF ExclOf, LocksOf
  <2>2. \A c \in Backends : ExclOK(c)'
    BY DEF RowInv, LocksInv, ExclOK
  <2> QED BY <2>1, <2>2 DEF RowInv, LocksInv
<1>7. OwnInv'
  BY DEF RowInv, OwnInv, LiveRow
<1>8. DeadInv'
  BY DEF RowInv, DeadInv, CurrentHeap, CurrentImage
<1> QED BY <1>2, <1>3, <1>4, <1>5, <1>6, <1>7, <1>8 DEF RowInv

\* The next step of a statement.
LEMMA AdvanceStep ==
  ASSUME IInv, NEW b \in Backends, NEW s, AtStep(b, s),
         NEW step \in {"settle", "flush", "work"}, Advance(b, step)
  PROVE  /\ stmt[b] # None /\ stmt[b] \in Statement /\ frames[b] # <<>>
         /\ stmt'[b] # None /\ stmt'[b].kind = stmt[b].kind /\ stmt'[b].step = step
         /\ stmt'[b].idx = stmt[b].idx /\ stmt'[b].tid = stmt[b].tid
         /\ Busy(b)' = Busy(b)
         /\ \A c \in Backends \ {b} : stmt'[c] = stmt[c]
<1>1. stmt[b] # None /\ stmt[b] \in Statement /\ frames[b] # <<>>
  BY DEF AtStep, IInv, StmtInv
<1>2. /\ stmt'[b] = [stmt[b] EXCEPT !.step = step]
      /\ \A c \in Backends \ {b} : stmt'[c] = stmt[c]
  BY DEF Advance, IInv, StmtInv
<1>3. /\ stmt'[b] \in Statement /\ stmt'[b].kind = stmt[b].kind /\ stmt'[b].step = step
      /\ stmt'[b].idx = stmt[b].idx /\ stmt'[b].tid = stmt[b].tid
  BY <1>1, <1>2 DEF Statement
<1>4. stmt'[b] # None
  BY <1>3, AbsentAssumption
<1>5. Busy(b)' = Busy(b)
  BY <1>1, <1>3, <1>4 DEF Busy
<1> QED BY <1>1, <1>2, <1>3, <1>4, <1>5

\* The end of a statement.
LEMMA EndStep ==
  ASSUME IInv, NEW b \in Backends, stmt' = [stmt EXCEPT ![b] = None]
  PROVE  stmt'[b] = None /\ Busy(b)' = {} /\ \A c \in Backends \ {b} : stmt'[c] = stmt[c]
<1>1. stmt'[b] = None /\ \A c \in Backends \ {b} : stmt'[c] = stmt[c]
  BY DEF IInv, StmtInv
<1> QED BY <1>1 DEF Busy

\* Its start.
LEMMA StartStep ==
  ASSUME IInv, NEW b \in Backends, NEW kind, NEW i, NEW t, StartStmt(b, kind, i, t)
  PROVE  /\ stmt'[b].kind = kind /\ stmt'[b].step = "settle" /\ stmt'[b].idx = i /\ stmt'[b].tid = t
         /\ \A c \in Backends \ {b} : stmt'[c] = stmt[c]
<1>1. /\ stmt'[b] = [kind |-> kind, step |-> "settle", idx |-> i, tid |-> t]
      /\ \A c \in Backends \ {b} : stmt'[c] = stmt[c]
  BY DEF StartStmt, IInv, StmtInv
<1> QED BY <1>1

\* A parallel plan, or a commit, begins.
LEMMA StartOtherRows ==
  ASSUME IInv, IInv', RowInv, NEW b \in Backends, StartParallelPlan(b) \/ StartCommit(b)
  PROVE  RowInv'
<1>1. PICK kind \in {"parallel", "commit"} :
        StartStmt(b, kind, None, None) /\ (kind = "commit" => Len(frames[b]) = 1)
  BY DEF StartParallelPlan, StartCommit
<1>2. /\ UNCHANGED <<catalog, heap, image, nextFile, frames, nextSub, discarded, vacuum, pending>>
      /\ frames[b] # <<>> /\ stmt[b] = None
  BY DEF StartParallelPlan, StartCommit, Idle, storeVars, xactVars, stageVars
<1>3. /\ stmt'[b].kind = kind /\ stmt'[b].step = "settle"
      /\ \A c \in Backends \ {b} : stmt'[c] = stmt[c]
  BY <1>1, StartStep
<1>4. Busy(b)' = {} /\ Busy(b) = {}
  BY <1>1, <1>2, <1>3 DEF Busy
<1>5. ViewOf(b)'
  BY <1>2, <1>4 DEF RowInv, ViewInv, ViewOf
<1>6. StmtRowOK(b)'
  BY <1>1, <1>2, <1>3 DEF StmtRowOK
<1> QED BY <1>2, <1>3, <1>5, <1>6, StageStep

\* A read ends.
LEMMA FinishReadRows ==
  ASSUME IInv, IInv', RowInv, NEW b \in Backends, FinishRead(b)
  PROVE  RowInv'
<1>1. /\ UNCHANGED <<catalog, heap, image, nextFile, frames, nextSub, discarded, vacuum, pending>>
      /\ frames[b] # <<>>
  BY DEF FinishRead, AtStep, storeVars, xactVars, stageVars, IInv, StmtInv
<1>2. stmt'[b] = None /\ Busy(b)' = {} /\ \A c \in Backends \ {b} : stmt'[c] = stmt[c]
  BY EndStep DEF FinishRead
<1>3. Busy(b) = {}
  BY DEF Busy, FinishRead
<1>4. ViewOf(b)' /\ StmtRowOK(b)'
  BY <1>1, <1>2, <1>3 DEF RowInv, ViewInv, ViewOf, StmtRowOK
<1> QED BY <1>1, <1>2, <1>4, StageStep

\* A settled write keeps the rows that survive.
LEMMA SettleRows ==
  ASSUME IInv, IInv', RowInv, NEW b \in Backends, Settle(b)
  PROVE  RowInv'
<1> DEFINE w == pending[b]
           i == w.idx
           x == IF w = None \/ w.rewind = None THEN w
                ELSE IF w.rewind = ZeroCount \/ ~catalog[i].exists THEN None
                ELSE Settled(w, CurrentImage(i))
<1>1. /\ UNCHANGED <<catalog, heap, image, nextFile, frames, nextSub, discarded, vacuum>>
      /\ AtStep(b, "settle") /\ Advance(b, "flush")
  BY DEF Settle, storeVars, xactVars
<1>2. /\ stmt[b] # None /\ frames[b] # <<>>
      /\ stmt'[b] # None /\ stmt'[b].kind = stmt[b].kind /\ stmt'[b].step = "flush"
      /\ stmt'[b].idx = stmt[b].idx /\ stmt'[b].tid = stmt[b].tid
      /\ Busy(b)' = Busy(b)
      /\ \A c \in Backends \ {b} : stmt'[c] = stmt[c]
  BY <1>1, AdvanceStep
<1>3. pending'[b] = x /\ \A c \in Backends \ {b} : pending'[c] = pending[c]
  BY DEF Settle, IInv, PendingInv
<1>4. /\ Holding(w, discarded[b], frames[b])
      /\ Views(w, discarded[b], frames[b], catalog, image, Busy(b))
      /\ catalog \in [Indexes -> Entry] /\ image \in [Indexes -> [FileNos -> Image]]
      /\ w # None => WriteOK(w) /\ i \in Indexes
  BY BackendHolds DEF RowInv, ViewInv, ViewOf, IInv, StoreInv, PendingInv, WriteOK, Write
<1>5. /\ Views(x, discarded[b], frames[b], catalog, image, Busy(b))
      /\ x = None \/ x.rewind = None
      /\ \A t : x # None =>
           /\ w # None /\ x.idx = w.idx
           /\ KeptRow(x, Surviving(x), t) => KeptRow(w, Surviving(w), t)
  <2>1. CASE w = None \/ w.rewind = None
    BY <1>4, <2>1
  <2>2. CASE w # None /\ w.rewind # None /\ (w.rewind = ZeroCount \/ ~catalog[i].exists)
    <3>1. x = None
      BY <2>2
    <3> HIDE DEF x
    <3> QED BY <1>4, <2>2, <3>1, EmptySlot
  <2>3. CASE w # None /\ w.rewind # None /\ w.rewind # ZeroCount /\ catalog[i].exists
    <3>1. x = Settled(w, image[i][catalog[i].file])
      BY <2>3 DEF CurrentImage
    <3>2. image[i][catalog[i].file] \in Image
      BY <1>4, <2>3, CurrentImageType DEF IInv, CurrentImage
    <3> HIDE DEF x
    <3>3. Views(x, discarded[b], frames[b], catalog, image, Busy(b))
      <4> HIDE DEF w
      <4> QED BY <1>4, <2>3, <3>1, SettledSlot
    <3>4. /\ x.idx = w.idx /\ x.rewind = None /\ Surviving(x) = Surviving(w)
          /\ \A v \in Kinds : \A k \in 1 .. Num(w.rewind, v) :
               StagedRow(x, v, k) = StagedRow(w, v, k)
      <4> HIDE DEF w
      <4> QED BY <1>4, <2>3, <3>1, <3>2, SettledParts
    <3>5. ASSUME NEW t, KeptRow(x, Surviving(x), t) PROVE KeptRow(w, Surviving(w), t)
      <4>1. Surviving(w) = w.rewind /\ KindOf(t) \in Kinds
        BY <2>3, KindOfType DEF Surviving
      <4> HIDE DEF w
      <4> QED BY <3>4, <3>5, <4>1 DEF KeptRow
    <3> QED BY <2>3, <3>3, <3>4, <3>5
  <2> QED BY <2>1, <2>2, <2>3
<1> HIDE DEF x, w, i
<1>6. ViewOf(b)'
  BY <1>1, <1>2, <1>3, <1>5 DEF ViewOf
<1>7. StmtRowOK(b)'
  <2>1. StmtRowOK(b)
    BY DEF RowInv, StmtRowInv
  <2>2. ASSUME NEW j \in Indexes, NEW t \in Tids,
               stmt[b].kind = "insert", stmt[b].idx = j, stmt[b].tid = t
        PROVE  InsertOK(b, j, t)'
    <3>1. InsertOK(b, j, t)
      BY <1>2, <2>1, <2>2 DEF StmtRowOK
    <3> QED BY <1>1, <1>3, <1>5, <3>1 DEF InsertOK, TopFrame, CurrentImage, w
  <2> QED BY <1>1, <1>2, <1>3, <1>5, <2>1, <2>2 DEF StmtRowOK
<1> QED BY <1>1, <1>2, <1>3, <1>6, <1>7, StageStep

-----------------------------------------------------------------------------
(* The slot as it is now, and the steps that stage a row or take a lock.   *)

\* The innermost level is the present one.
LEMMA SlotTop ==
  ASSUME IInv, ViewInv, NEW b \in Backends, frames[b] # <<>>
  PROVE  /\ View(frames[b], Len(frames[b]), pending[b], catalog, image, Busy(b))
         /\ pending[b] # None =>
              /\ WriteOK(pending[b]) /\ pending[b].idx \in Indexes
              /\ FitsShape(pending[b], Len(frames[b]), frames[b])
              /\ Limit(pending[b], Len(frames[b]), Len(frames[b])) = Surviving(pending[b])
              /\ FitsEntry(pending[b], Len(frames[b]), frames[b], catalog[pending[b].idx],
                           image[pending[b].idx][catalog[pending[b].idx].file])
         /\ \A i \in Indexes : catalog[i].exists =>
              Kept(frames[b], Len(frames[b]), pending[b], i, catalog[i],
                   image[i][catalog[i].file], Busy(b))
<1> DEFINE p == pending[b]
           fs == frames[b]
           n == Len(fs)
<1>1. /\ Holding(p, discarded[b], fs) /\ fs \in Seq(Frame) /\ n \in Nat /\ n \in 1 .. n
      /\ Views(p, discarded[b], fs, catalog, image, Busy(b))
  BY BackendHolds, TopFrameType DEF ViewInv, ViewOf, IInv
<1>2. WriteAt(p, discarded[b], fs, n, p) /\ \A i : EntryAt(catalog[i], fs, n, i, catalog[i])
  BY <1>1, TopLevel
<1>3. View(fs, n, p, catalog, image, Busy(b))
  BY <1>1, <1>2, ViewsAt
<1>4. ASSUME p # None
      PROVE  WriteOK(p) /\ p.idx \in Indexes /\ FitsShape(p, n, fs) /\ Limit(p, n, n) = Surviving(p)
  BY <1>1, <1>3, <1>4, LimitTop DEF View, Holding, WriteOK, Write
<1>5. \A i \in Indexes :
        /\ p # None /\ p.idx = i => FitsEntry(p, n, fs, catalog[i], image[i][catalog[i].file])
        /\ catalog[i].exists => Kept(fs, n, p, i, catalog[i], image[i][catalog[i].file], Busy(b))
  BY <1>1, <1>2, <1>3, ViewAt
<1> QED BY <1>3, <1>4, <1>5

\* A staged row that survives is one of the transaction's own, and alive.
LEMMA KeptIsOwn ==
  ASSUME IInv, ViewInv, OwnInv, NEW b \in Backends, frames[b] # <<>>, pending[b] # None,
         NEW t \in Tids, KeptRow(pending[b], Surviving(pending[b]), t)
  PROVE  \E f \in DOMAIN frames[b] :
           /\ <<pending[b].idx, catalog[pending[b].idx].heap, t>> \in frames[b][f].rows
           /\ heap[pending[b].idx][catalog[pending[b].idx].heap][t] = "live"
<1> DEFINE p == pending[b]
           i == p.idx
           fs == frames[b]
           n == Len(fs)
<1>1. /\ InsertedBy(p, n, fs, catalog[i].heap) /\ Limit(p, n, n) = Surviving(p)
      /\ n \in Nat /\ n \in 1 .. n /\ DOMAIN fs = 1 .. n
  BY SlotTop, BackendHolds, TopFrameType DEF FitsEntry, IInv
<1>2. PICK g \in 1 .. n : <<i, catalog[i].heap, t>> \in fs[g].rows
  BY <1>1 DEF InsertedBy
<1> QED BY <1>1, <1>2, OpenRow

\* aminsert stages the row of the running INSERT.
LEMMA StageRowRows ==
  ASSUME IInv, IInv', RowInv, NEW b \in Backends, StageRow(b)
  PROVE  RowInv'
<1> DEFINE p == pending[b]
           fs == frames[b]
           i == stmt[b].idx
           t == stmt[b].tid
           q == Slot(b, i)
<1>1. /\ UNCHANGED <<catalog, heap, image, nextFile, frames, nextSub, discarded, vacuum>>
      /\ stmt[b] # None /\ stmt[b].kind = "insert" /\ stmt[b].step = "work"
      /\ stmt' = [stmt EXCEPT ![b] = None]
      /\ pending' = [pending EXCEPT ![b] = PushRow(q, t)]
  BY DEF StageRow, AtStep, storeVars, xactVars
<1>2. /\ fs # <<>> /\ i \in Indexes /\ t \in Tids /\ Len(fs) \in DOMAIN fs
  BY <1>1, TopFrameType DEF IInv, StmtInv
<1>3. stmt'[b] = None /\ Busy(b)' = {} /\ \A c \in Backends \ {b} : stmt'[c] = stmt[c]
  BY <1>1, EndStep
<1>4. pending'[b] = PushRow(q, t) /\ \A c \in Backends \ {b} : pending'[c] = pending[c]
  BY <1>1 DEF IInv, PendingInv
<1>5. /\ InsertOK(b, i, t) /\ (p # None => p.rewind = None /\ p.idx = i)
  BY <1>1, <1>2 DEF RowInv, StmtRowInv, StmtRowOK, Takes
<1>6. /\ Holding(p, discarded[b], fs) /\ DOMAIN fs = 1 .. Len(fs)
      /\ catalog \in [Indexes -> Entry] /\ image \in [Indexes -> [FileNos -> Image]]
  BY BackendHolds DEF IInv, StoreInv
<1>7. Views(p, discarded[b], fs, catalog, image, {<<i, t>>})
  BY <1>1 DEF RowInv, ViewInv, ViewOf, Busy
<1>8. /\ <<i, catalog[i].heap, t>> \in fs[Len(fs)].rows
      /\ p # None => ~KeptRow(p, Surviving(p), t)
      /\ t \notin LiveTids(image[i][catalog[i].file])
      /\ p = None => q = Loaded(i, image[i][catalog[i].file])
      /\ p # None => q = p
  BY <1>5 DEF InsertOK, TopFrame, CurrentImage, Slot
<1>9. i \in fs[Len(fs)].locks
  BY <1>2, <1>8, OpenRow DEF RowInv
<1>10. \A f \in DOMAIN fs : <<i, catalog[i].heap, t>> \in fs[f].rows => f = Len(fs)
  BY <1>2, <1>8, OneOwner DEF RowInv
<1> HIDE DEF p, fs, i, t, q
<1>11. Views(PushRow(q, t), discarded[b], fs, catalog, image, {})
  BY <1>2, <1>5, <1>6, <1>7, <1>8, <1>9, <1>10, StagedSlot
<1>12. ViewOf(b)' /\ StmtRowOK(b)'
  BY <1>1, <1>3, <1>4, <1>11 DEF ViewOf, StmtRowOK, fs
<1> QED BY <1>1, <1>2, <1>3, <1>4, <1>12, StageStep DEF fs

-----------------------------------------------------------------------------
(* A lock, and perhaps a row, onto the innermost frame.                    *)

\* The innermost frame is replaced.
LEMMA TopStep ==
  ASSUME IInv, NEW b \in Backends, frames[b] # <<>>, NEW f \in Frame, frames' = OnTopFrame(b, f)
  PROVE  /\ frames'[b] \in Seq(Frame) /\ Len(frames'[b]) = Len(frames[b])
         /\ DOMAIN frames'[b] = 1 .. Len(frames[b])
         /\ frames'[b][Len(frames[b])] = f
         /\ \A k \in 1 .. Len(frames[b]) : k # Len(frames[b]) => frames'[b][k] = frames[b][k]
         /\ \A c \in Backends \ {b} : frames'[c] = frames[c]
<1>1. /\ frames \in [Backends -> Seq(Frame)] /\ frames[b] \in Seq(Frame)
      /\ Len(frames[b]) \in DOMAIN frames[b] /\ DOMAIN frames[b] = 1 .. Len(frames[b])
  BY TopFrameType, BackendHolds DEF IInv, XactInv
<1>2. frames'[b] = [frames[b] EXCEPT ![Len(frames[b])] = f]
      /\ \A c \in Backends \ {b} : frames'[c] = frames[c]
  BY <1>1 DEF OnTopFrame
<1>3. frames'[b] \in Seq(Frame) /\ Len(frames'[b]) = Len(frames[b])
  BY <1>1, <1>2, ExceptSeq
<1> QED BY <1>1, <1>2, <1>3

\* The frames gs are fs but for a lock on i and the rows new, at the innermost.
Grown(fs, gs, i, new) ==
  /\ gs \in Seq(Frame) /\ Len(gs) = Len(fs) /\ DOMAIN gs = DOMAIN fs
  /\ \A k \in DOMAIN fs :
       /\ gs[k].sub = fs[k].sub /\ gs[k].undo = fs[k].undo /\ gs[k].excl = fs[k].excl
       /\ gs[k].rows = IF k = Len(fs) THEN fs[k].rows \cup new ELSE fs[k].rows
       /\ gs[k].locks = IF k = Len(fs) THEN fs[k].locks \cup {i} ELSE fs[k].locks

\* A frame grows so.
LEMMA GrownFrames ==
  ASSUME IInv, NEW b \in Backends, frames[b] # <<>>, NEW i \in Indexes,
         NEW new \in SUBSET (Indexes \X FileNos \X Tids), NEW f,
         f.sub = TopFrame(b).sub, f.undo = TopFrame(b).undo, f.excl = TopFrame(b).excl,
         f.rows = TopFrame(b).rows \cup new, f.locks = TopFrame(b).locks \cup {i}, f \in Frame,
         frames' = OnTopFrame(b, f)
  PROVE  /\ Grown(frames[b], frames'[b], i, new)
         /\ \A c \in Backends \ {b} : frames'[c] = frames[c]
<1> DEFINE n == Len(frames[b])
<1>1. DOMAIN frames[b] = 1 .. n /\ frames[b][n] = TopFrame(b)
  BY BackendHolds DEF TopFrame
<1>2. /\ frames'[b] \in Seq(Frame) /\ Len(frames'[b]) = n /\ DOMAIN frames'[b] = 1 .. n
      /\ frames'[b][n] = f
      /\ \A k \in 1 .. n : k # n => frames'[b][k] = frames[b][k]
      /\ \A c \in Backends \ {b} : frames'[c] = frames[c]
  BY TopStep
<1> HIDE DEF n
<1>3. ASSUME NEW k \in 1 .. n
      PROVE  /\ frames'[b][k].sub = frames[b][k].sub /\ frames'[b][k].undo = frames[b][k].undo
             /\ frames'[b][k].excl = frames[b][k].excl
             /\ k = n => /\ frames'[b][k].rows = frames[b][k].rows \cup new
                         /\ frames'[b][k].locks = frames[b][k].locks \cup {i}
             /\ k # n => frames'[b][k].rows = frames[b][k].rows /\ frames'[b][k].locks = frames[b][k].locks
  BY <1>1, <1>2
<1>4. Grown(frames[b], frames'[b], i, new)
  BY <1>1, <1>2, <1>3 DEF Grown, n
<1> QED BY <1>2, <1>4

\* A scan takes the lock.
LEMMA StartScanFrames ==
  ASSUME IInv, NEW b \in Backends, NEW i \in Indexes, StartScan(b, i)
  PROVE  /\ Grown(frames[b], frames'[b], i, {})
         /\ \A c \in Backends \ {b} : frames'[c] = frames[c]
<1> DEFINE f == [TopFrame(b) EXCEPT !.locks = @ \cup {i}]
<1>1. frames[b] # <<>> /\ TopFrame(b) \in Frame
  BY TopFrameType DEF IInv, StartScan, Idle
<1>2. /\ f \in Frame /\ f.sub = TopFrame(b).sub /\ f.undo = TopFrame(b).undo
      /\ f.excl = TopFrame(b).excl /\ f.rows = TopFrame(b).rows \cup {}
      /\ f.locks = TopFrame(b).locks \cup {i}
  BY <1>1 DEF Frame
<1>3. frames' = OnTopFrame(b, f)
  BY DEF StartScan
<1> HIDE DEF f
<1> QED BY <1>1, <1>2, <1>3, GrownFrames

\* An INSERT takes the lock and adds its row.
LEMMA StartInsertFrames ==
  ASSUME IInv, NEW b \in Backends, NEW i \in Indexes, NEW t \in Tids, StartInsert(b, i, t)
  PROVE  /\ Grown(frames[b], frames'[b], i, {<<i, catalog[i].heap, t>>})
         /\ \A c \in Backends \ {b} : frames'[c] = frames[c]
<1> DEFINE g == [TopFrame(b) EXCEPT !.rows = @ \cup {<<i, catalog[i].heap, t>>}]
           f == [TopFrame(b) EXCEPT !.rows = @ \cup {<<i, catalog[i].heap, t>>}, !.locks = @ \cup {i}]
<1>1. frames[b] # <<>> /\ TopFrame(b) \in Frame /\ catalog[i].heap \in FileNos
  BY TopFrameType DEF IInv, StartInsert, Idle, StoreInv, Entry
<1>2. /\ g \in Frame /\ g.sub = TopFrame(b).sub /\ g.undo = TopFrame(b).undo
      /\ g.excl = TopFrame(b).excl /\ g.rows = TopFrame(b).rows \cup {<<i, catalog[i].heap, t>>}
      /\ g.locks = TopFrame(b).locks
  BY <1>1 DEF Frame
<1>3. f = [g EXCEPT !.locks = @ \cup {i}]
  BY <1>1 DEF Frame
<1>4. frames' = OnTopFrame(b, f)
  BY DEF StartInsert
<1>5. {<<i, catalog[i].heap, t>>} \in SUBSET (Indexes \X FileNos \X Tids)
  BY <1>1
<1> HIDE DEF f, g
<1>6. /\ f \in Frame /\ f.sub = TopFrame(b).sub /\ f.undo = TopFrame(b).undo
      /\ f.excl = TopFrame(b).excl /\ f.rows = TopFrame(b).rows \cup {<<i, catalog[i].heap, t>>}
      /\ f.locks = TopFrame(b).locks \cup {i}
  BY <1>2, <1>3 DEF Frame
<1> QED BY <1>1, <1>4, <1>5, <1>6, GrownFrames

\* What a lock step leaves in order whatever the rows.
LEMMA GrownStep ==
  ASSUME IInv, RowInv, NEW b \in Backends, frames[b] # <<>>, NEW i \in Indexes, Lockable(b, i),
         NEW new, Grown(frames[b], frames'[b], i, new),
         \A c \in Backends \ {b} : frames'[c] = frames[c] /\ stmt'[c] = stmt[c],
         UNCHANGED <<catalog, image, nextFile, nextSub, pending, discarded, vacuum>>
  PROVE  /\ \A c \in Backends \ {b} : Bystander(c)
         /\ UndoInv' /\ SubsInv' /\ LocksInv'
         /\ \A j \in Indexes : \A e :
              EntryFor(catalog', frames', j, e) => EntryFor(catalog, frames, j, e)
<1>1. \A c \in Backends \ {b} : Bystander(c)
  BY DEF Bystander, Untouched
<1>2. /\ DOMAIN frames'[b] = DOMAIN frames[b] /\ frames'[b] # <<>>
      /\ \A k \in DOMAIN frames[b] :
           /\ frames'[b][k].sub = frames[b][k].sub /\ frames'[b][k].excl = frames[b][k].excl
           /\ \A j : frames'[b][k].undo[j] = frames[b][k].undo[j]
           /\ \A j \in Indexes : Undone(frames'[b], k, j) <=> Undone(frames[b], k, j)
  <2>1. frames'[b] # <<>>
    BY BackendHolds, EmptySeq DEF Grown
  <2> QED BY <2>1 DEF Grown, Undone
<1>3. SubsInv'
  <2>1. \A c \in Backends \ {b} : SubsOK(c)'
    BY <1>1, BystanderSubs DEF RowInv
  <2>2. SubsOK(b)'
    BY <1>2 DEF RowInv, SubsInv, SubsOK
  <2> QED BY <2>1, <2>2 DEF SubsInv
<1>4. UndoInv'
  <2> SUFFICES ASSUME NEW c \in Backends, NEW k \in DOMAIN frames'[c], NEW j \in Indexes,
                      Undone(frames'[c], k, j)
               PROVE  UndoOK(j, frames[c], k)'
    BY DEF UndoInv
  <2>1. CASE c # b
    <3>1. frames'[c] = frames[c] /\ UndoOK(j, frames[c], k)
      BY <2>1 DEF RowInv, FileInv, UndoInv
    <3> QED BY <3>1 DEF UndoOK
  <2>2. CASE c = b
    <3>1. k \in DOMAIN frames[b] /\ UndoOK(j, frames[b], k)
      BY <1>2, <2>2 DEF RowInv, FileInv, UndoInv
    <3> QED BY <1>2, <2>2, <3>1 DEF UndoOK
  <2> QED BY <2>1, <2>2
<1>5. \A c \in Backends : ExclOf(c)' = ExclOf(c)
  <2> SUFFICES ASSUME NEW c \in Backends, NEW x PROVE x \in ExclOf(c)' <=> x \in ExclOf(c)
    OBVIOUS
  <2>1. \A k : k \in DOMAIN frames'[c] <=> k \in DOMAIN frames[c]
    BY <1>2
  <2>2. \A k \in DOMAIN frames[c] : frames'[c][k].excl = frames[c][k].excl
    BY <1>2
  <2> QED BY <2>1, <2>2 DEF ExclOf
<1>6. \A c \in Backends : \A x \in LocksOf(c)' : x \in LocksOf(c) \/ (c = b /\ x = i)
  <2> SUFFICES ASSUME NEW c \in Backends, NEW x \in LocksOf(c)'
               PROVE  x \in LocksOf(c) \/ (c = b /\ x = i)
    OBVIOUS
  <2>1. PICK k \in DOMAIN frames'[c] : x \in frames'[c][k].locks
    BY DEF LocksOf
  <2>2. CASE c # b
    BY <2>1, <2>2 DEF LocksOf
  <2>3. CASE c = b
    <3>1. k \in DOMAIN frames[b] /\ (x \in frames[b][k].locks \/ x = i)
      BY <2>1, <2>3, ZenonT(60) DEF Grown
    <3> QED BY <2>3, <3>1 DEF LocksOf
  <2> QED BY <2>2, <2>3
<1>7. LocksInv'
  <2>1. ASSUME NEW c \in Backends PROVE ExclOK(c)'
    <3>1. ExclOK(c)
      BY DEF RowInv, LocksInv
    <3>2. CASE c # b
      <4>1. frames'[c] = frames[c] /\ discarded'[c] = discarded[c]
        BY <3>2
      <4> QED BY <3>1, <4>1 DEF ExclOK
    <3>3. CASE c = b
      <4>1. \A d \in discarded[b] : d.write.idx \in Indexes
        BY DEF IInv, DiscardedInv, StashOK, WriteOK, Write
      <4> QED BY <1>2, <3>1, <3>3, <4>1 DEF ExclOK
    <3> QED BY <3>2, <3>3
  <2>2. ASSUME NEW c \in Backends, NEW d \in Backends, c # d, NEW x \in ExclOf(c)'
        PROVE  x \notin LocksOf(d)' \cup ExclOf(d)'
    <3>1. x \in ExclOf(c) /\ x \notin LocksOf(d) \cup ExclOf(d)
      BY <1>5, <2>2 DEF RowInv, LocksInv
    <3>2. ~(d = b /\ x = i)
      BY <2>2, <3>1 DEF Lockable
    <3> QED BY <1>5, <1>6, <3>1, <3>2
  <2>3. vacuum' # None => \A c \in Backends : vacuum'.idx \notin ExclOf(c)'
    BY <1>5 DEF RowInv, LocksInv
  <2> QED BY <2>1, <2>2, <2>3 DEF LocksInv
<1>8. ASSUME NEW j \in Indexes, NEW e, EntryFor(catalog', frames', j, e)
      PROVE  EntryFor(catalog, frames, j, e)
  <2>1. CASE e = catalog'[j]
    BY <2>1 DEF EntryFor
  <2>2. ASSUME NEW c \in Backends, NEW f \in DOMAIN frames'[c], Undone(frames'[c], f, j),
               e = frames'[c][f].undo[j]
        PROVE  EntryFor(catalog, frames, j, e)
    <3>1. CASE c # b
      BY <2>2, <3>1 DEF EntryFor
    <3>2. CASE c = b
      BY <1>2, <2>2, <3>2 DEF EntryFor
    <3> QED BY <3>1, <3>2
  <2> QED BY <1>8, <2>1, <2>2 DEF EntryFor
<1> QED BY <1>1, <1>3, <1>4, <1>7, <1>8

-----------------------------------------------------------------------------
(* Statements start.                                                       *)

\* Free places of index i become the rows new.
Filled(i, new) ==
  /\ \A j \in Indexes, h \in FileNos, t \in Tids :
       <<j, h, t>> \notin new => heap'[j][h][t] = heap[j][h][t]
  /\ \A j, h, t : <<j, h, t>> \in new =>
       /\ j = i /\ h \in FileNos /\ t \in Tids /\ h < nextFile[i]
       /\ heap[j][h][t] = "free" /\ heap'[j][h][t] = "live"

\* New rows are the innermost frame's, and nobody else's.
LEMMA GrownOwn ==
  ASSUME IInv, OwnInv, NEW b \in Backends, frames[b] # <<>>, NEW i \in Indexes,
         NEW new, Grown(frames[b], frames'[b], i, new),
         \A c \in Backends \ {b} : frames'[c] = frames[c], Filled(i, new)
  PROVE  /\ OwnInv'
         /\ \A j, h, t : Owned(frames', j, h, t) <=>
              Owned(frames, j, h, t) \/ <<j, h, t>> \in new
<1> DEFINE n == Len(frames[b])
<1>1. n \in DOMAIN frames[b]
  BY TopFrameType DEF IInv
<1>2. /\ DOMAIN frames'[b] = DOMAIN frames[b]
      /\ \A k \in DOMAIN frames[b] : \A r :
           r \in frames'[b][k].rows <=> r \in frames[b][k].rows \/ (k = n /\ r \in new)
      /\ \A k \in DOMAIN frames[b] : \A j :
           (j \in frames[b][k].locks \/ (k = n /\ j = i)) => j \in frames'[b][k].locks
  BY DEF Grown
<1> HIDE DEF n
<1>3. ASSUME NEW c \in Backends, NEW k \in DOMAIN frames'[c], NEW r
      PROVE  /\ k \in DOMAIN frames[c]
             /\ r \in frames'[c][k].rows <=>
                  r \in frames[c][k].rows \/ (c = b /\ k = n /\ r \in new)
             /\ \A j : (j \in frames[c][k].locks \/ (c = b /\ k = n /\ j = i)) => j \in frames'[c][k].locks
  <2>1. CASE c = b
    BY <1>2, <2>1
  <2>2. CASE c # b
    BY <2>2
  <2> QED BY <2>1, <2>2
<1>4. ASSUME NEW j, NEW h, NEW t
      PROVE  Owned(frames', j, h, t) <=> Owned(frames, j, h, t) \/ <<j, h, t>> \in new
  <2>1. ASSUME Owned(frames', j, h, t) PROVE Owned(frames, j, h, t) \/ <<j, h, t>> \in new
    BY <1>3, <2>1 DEF Owned
  <2>2. ASSUME Owned(frames, j, h, t) PROVE Owned(frames', j, h, t)
    <3>1. PICK c \in Backends : \E k \in DOMAIN frames[c] : <<j, h, t>> \in frames[c][k].rows
      BY <2>2 DEF Owned
    <3>2. PICK k \in DOMAIN frames[c] : <<j, h, t>> \in frames[c][k].rows
      BY <3>1
    <3>3. k \in DOMAIN frames'[c]
      BY <1>2
    <3> QED BY <1>3, <3>2, <3>3 DEF Owned
  <2>3. ASSUME <<j, h, t>> \in new PROVE Owned(frames', j, h, t)
    BY <1>1, <1>2, <2>3 DEF Owned
  <2> QED BY <2>1, <2>2, <2>3
<1>5. ASSUME NEW c \in Backends, NEW k \in DOMAIN frames'[c],
             NEW j \in Indexes, NEW h \in FileNos, NEW t \in Tids, <<j, h, t>> \in frames'[c][k].rows
      PROVE  LiveRow(c, k, j, h, t)'
  <2>1. CASE <<j, h, t>> \in new
    <3>1. ~(<<j, h, t>> \in frames[c][k].rows)
      <4>1. heap[j][h][t] = "free"
        BY <2>1 DEF Filled
      <4> QED BY <1>3, <4>1, OpenRow
    <3>2. j = i /\ heap'[j][h][t] = "live"
      BY <2>1 DEF Filled
    <3> QED BY <1>3, <1>5, <3>1, <3>2 DEF LiveRow
  <2>2. CASE <<j, h, t>> \notin new
    <3>1. <<j, h, t>> \in frames[c][k].rows /\ k \in DOMAIN frames[c]
      BY <1>3, <1>5, <2>2
    <3>2. heap[j][h][t] = "live" /\ j \in frames[c][k].locks
      BY <3>1, OpenRow
    <3>3. heap'[j][h][t] = "live"
      BY <2>2, <3>2 DEF Filled
    <3> QED BY <1>3, <3>2, <3>3 DEF LiveRow
  <2> QED BY <2>1, <2>2
<1>6. ASSUME NEW c \in Backends, NEW d \in Backends, NEW k \in DOMAIN frames'[c],
             NEW g \in DOMAIN frames'[d], NEW r \in Indexes \X FileNos \X Tids,
             r \in frames'[c][k].rows, r \in frames'[d][g].rows
      PROVE  c = d /\ k = g
  <2>1. PICK j \in Indexes, h \in FileNos, t \in Tids : r = <<j, h, t>>
    OBVIOUS
  <2>2. CASE r \in new
    <3>1. heap[j][h][t] # "live"
      BY <2>1, <2>2 DEF Filled
    <3>2. r \notin frames[c][k].rows /\ r \notin frames[d][g].rows
      BY <1>3, <2>1, <3>1, OpenRow
    <3> QED BY <1>3, <1>6, <3>2
  <2>3. CASE r \notin new
    BY <1>3, <1>6, <2>1, <2>3, OneOwner
  <2> QED BY <2>2, <2>3
<1>7. OwnInv'
  BY <1>5, <1>6 DEF OwnInv
<1> QED BY <1>4, <1>7

\* A statement that starts with a lock, and perhaps a row.
LEMMA GrownRows ==
  ASSUME IInv, IInv', RowInv, NEW b \in Backends, frames[b] # <<>>, NEW i \in Indexes,
         Lockable(b, i), NEW new, Grown(frames[b], frames'[b], i, new), Filled(i, new),
         \A c \in Backends \ {b} : frames'[c] = frames[c] /\ stmt'[c] = stmt[c],
         UNCHANGED <<catalog, image, nextFile, nextSub, pending, discarded, vacuum>>,
         ViewOf(b)', StmtRowOK(b)'
  PROVE  RowInv'
<1>1. /\ \A c \in Backends \ {b} : Bystander(c)
      /\ UndoInv' /\ SubsInv' /\ LocksInv'
      /\ \A j \in Indexes : \A e : EntryFor(catalog', frames', j, e) => EntryFor(catalog, frames, j, e)
  BY GrownStep
<1>2. /\ OwnInv'
      /\ \A j, h, t : Owned(frames', j, h, t) <=> Owned(frames, j, h, t) \/ <<j, h, t>> \in new
  BY GrownOwn DEF RowInv
<1>3. /\ EntryInv /\ FileInv /\ ViewInv /\ StmtRowInv /\ OwnInv /\ DeadInv
  BY DEF RowInv
<1>4. ViewInv' /\ StmtRowInv'
  <2>1. \A c \in Backends \ {b} : ViewOf(c)' /\ StmtRowOK(c)'
    BY <1>1, <1>3, BystanderView, BystanderStmt
  <2> QED BY <2>1 DEF ViewInv, StmtRowInv
<1>5. EntryInv'
  <2> SUFFICES ASSUME NEW j \in Indexes, NEW e, EntryFor(catalog', frames', j, e), e.exists
               PROVE  EntryOK(j, e)'
    BY EntryInvFrom
  <2>1. EntryFor(catalog, frames, j, e) /\ e.heap \in FileNos
    BY <1>1, <1>3, EntryForType
  <2>2. EntryOK(j, e)
    BY <1>3, <2>1, EntryInOrder
  <2>3. \A t \in Tids : /\ <<j, e.heap, t>> \notin new => heap'[j][e.heap][t] = heap[j][e.heap][t]
                        /\ <<j, e.heap, t>> \in new => heap'[j][e.heap][t] = "live"
    BY <2>1 DEF Filled
  <2>4. \A t \in LiveTids(image[j][e.file]) : t \in Tids
    <3>1. image[j][e.file] \in Image
      BY <1>3, <2>1, EntryForType DEF IInv, StoreInv
    <3> QED BY <3>1, LiveTidsType
  <2> QED BY <1>2, <2>2, <2>3, <2>4 DEF EntryOK
<1>6. FileInv'
  <2>1. ASSUME NEW j \in Indexes PROVE FileOK(j)'
    <3>1. FileOK(j)
      BY <1>3 DEF FileInv
    <3>2. ASSUME NEW h \in FileNos, h >= nextFile[j], NEW t \in Tids PROVE heap'[j][h][t] = "free"
      <4>1. <<j, h, t>> \notin new
        <5>1. nextFile[j] \in Nat /\ h \in Nat
          BY DEF IInv, StoreInv, FileNos
        <5>2. ~(h < nextFile[j])
          BY <3>2, <5>1
        <5> QED BY <5>2 DEF Filled
      <4>2. heap'[j][h][t] = heap[j][h][t]
        BY <4>1 DEF Filled
      <4> QED BY <3>1, <3>2, <4>2 DEF FileOK
    <3> QED BY <3>1, <3>2 DEF FileOK
  <2> QED BY <1>1, <2>1 DEF FileInv
<1>7. DeadInv'
  <2> SUFFICES ASSUME vacuum # None PROVE DeadInv'
    BY DEF DeadInv
  <2>1. vacuum.idx \in Indexes /\ vacuum.dead \subseteq Tids /\ catalog[vacuum.idx].heap \in FileNos
    BY DEF IInv, VacuumInv, StoreInv, Vacuum, Entry
  <2>2. ASSUME NEW t \in vacuum.dead
        PROVE  heap'[vacuum.idx][catalog[vacuum.idx].heap][t] = "dead"
    <3>1. heap[vacuum.idx][catalog[vacuum.idx].heap][t] = "dead"
      BY <1>3 DEF DeadInv, CurrentHeap
    <3>2. <<vacuum.idx, catalog[vacuum.idx].heap, t>> \notin new
      BY <3>1 DEF Filled
    <3> QED BY <2>1, <3>1, <3>2 DEF Filled
  <2> QED BY <1>3, <2>2 DEF DeadInv, CurrentHeap, CurrentImage
<1> QED BY <1>1, <1>2, <1>4, <1>5, <1>6, <1>7 DEF RowInv

\* The slot when a statement starts.
LEMMA GrownView ==
  ASSUME IInv, RowInv, NEW b \in Backends, frames[b] # <<>>, stmt[b] = None, NEW i \in Indexes,
         NEW new, Grown(frames[b], frames'[b], i, new),
         \A j, h, t : <<j, h, t>> \in new => <<j, t>> \in Busy(b)',
         UNCHANGED <<catalog, image, pending, discarded>>
  PROVE  ViewOf(b)'
<1> DEFINE busy == Busy(b)
           fs == frames[b]
           gs == frames'[b]
<1>1. PICK busy2 : busy2 = Busy(b)'
  OBVIOUS
<1>2. /\ Holding(pending[b], discarded[b], fs) /\ DOMAIN fs = 1 .. Len(fs)
      /\ Views(pending[b], discarded[b], fs, catalog, image, busy)
  BY BackendHolds DEF RowInv, ViewInv, ViewOf
<1>3. busy = {}
  BY DEF Busy
<1>4. /\ gs \in Seq(Frame) /\ Len(gs) = Len(fs)
      /\ \A k \in 1 .. Len(fs) :
           /\ gs[k].sub = fs[k].sub /\ gs[k].undo = fs[k].undo
           /\ fs[k].rows \subseteq gs[k].rows /\ fs[k].locks \subseteq gs[k].locks
      /\ \A k \in 1 .. Len(fs) : \A j \in Indexes : \A h : \A t \in Tids :
           <<j, h, t>> \in gs[k].rows =>
             <<j, h, t>> \in fs[k].rows \/ (k = Len(fs) /\ <<j, t>> \in busy2)
  <2>1. \A k \in 1 .. Len(fs) : \A r : r \in gs[k].rows => r \in fs[k].rows \/ (k = Len(fs) /\ r \in new)
    BY <1>2 DEF Grown
  <2>2. \A j, h, t : <<j, h, t>> \in new => <<j, t>> \in busy2
    BY <1>1
  <2> QED BY <1>2, <2>1, <2>2 DEF Grown
<1>5. UNCHANGED <<catalog, image>> /\ pending'[b] = pending[b] /\ discarded'[b] = discarded[b]
  OBVIOUS
<1> HIDE DEF busy, fs, gs
<1>6. Views(pending[b], discarded[b], gs, catalog, image, busy2)
  BY <1>2, <1>3, <1>4, GrownSlot
<1> QED BY <1>1, <1>5, <1>6 DEF ViewOf, gs

\* A scan starts.
LEMMA StartScanRows ==
  ASSUME IInv, IInv', RowInv, NEW b \in Backends, NEW i \in Indexes, StartScan(b, i)
  PROVE  RowInv'
<1>1. /\ UNCHANGED <<catalog, heap, image, nextFile, nextSub, pending, discarded, vacuum>>
      /\ frames[b] # <<>> /\ stmt[b] = None /\ Lockable(b, i) /\ StartStmt(b, "scan", i, None)
  BY DEF StartScan, Idle, storeVars, stageVars
<1>2. PICK new : new = {}
  OBVIOUS
<1>3. Grown(frames[b], frames'[b], i, new) /\ \A c \in Backends \ {b} : frames'[c] = frames[c]
  BY <1>2, StartScanFrames
<1>4. /\ stmt'[b].kind = "scan" /\ stmt'[b].step = "settle"
      /\ \A c \in Backends \ {b} : stmt'[c] = stmt[c]
  BY <1>1, StartStep
<1>5. Filled(i, new)
  BY <1>1, <1>2 DEF Filled
<1>6. StmtRowOK(b)'
  BY <1>4 DEF StmtRowOK
<1>7. ViewOf(b)'
  BY <1>1, <1>2, <1>3, GrownView
<1> QED BY <1>1, <1>3, <1>4, <1>5, <1>6, <1>7, GrownRows

\* An INSERT starts: its row is in the heap and not yet in the slot.
LEMMA StartInsertRows ==
  ASSUME IInv, IInv', RowInv, NEW b \in Backends, NEW i \in Indexes, NEW t \in Tids,
         StartInsert(b, i, t)
  PROVE  RowInv'
<1> DEFINE h == catalog[i].heap
<1>1. /\ UNCHANGED <<catalog, image, nextFile, nextSub, pending, discarded, vacuum>>
      /\ frames[b] # <<>> /\ stmt[b] = None /\ Lockable(b, i) /\ StartStmt(b, "insert", i, t)
      /\ heap' = [heap EXCEPT ![i][h][t] = "live"] /\ heap[i][h][t] = "free" /\ catalog[i].exists
  BY DEF StartInsert, Idle, stageVars, CurrentHeap
<1>2. PICK new : new = {<<i, h, t>>}
  OBVIOUS
<1>3. Grown(frames[b], frames'[b], i, new) /\ \A c \in Backends \ {b} : frames'[c] = frames[c]
  BY <1>2, StartInsertFrames
<1>4. /\ stmt'[b].kind = "insert" /\ stmt'[b].step = "settle" /\ stmt'[b].idx = i /\ stmt'[b].tid = t
      /\ \A c \in Backends \ {b} : stmt'[c] = stmt[c]
  BY <1>1, StartStep
<1>5. h \in FileNos /\ h < nextFile[i]
  BY DEF IInv, StoreInv, Entry, RowInv, FileInv, FileOK
<1>6. Filled(i, new)
  BY <1>1, <1>2, <1>5 DEF Filled, IInv, StoreInv
<1>7. StmtRowOK(b)'
  <2>1. Len(frames[b]) \in DOMAIN frames[b] /\ Len(frames'[b]) = Len(frames[b])
    BY <1>1, <1>3, TopFrameType DEF IInv, Grown
  <2>2. <<i, h, t>> \in TopFrame(b)'.rows
    BY <1>2, <1>3, <2>1 DEF Grown, TopFrame
  <2>3. t \notin LiveTids(image[i][catalog[i].file])
    <3>1. EntryOK(i, catalog[i])
      BY <1>1, EntryInOrder DEF EntryFor, RowInv
    <3> QED BY <1>1, <3>1 DEF EntryOK
  <2>4. ASSUME pending[b] # None, pending[b].idx = i
        PROVE  ~KeptRow(pending[b], Surviving(pending[b]), t)
    BY <1>1, <2>4, KeptIsOwn DEF RowInv
  <2>5. InsertOK(b, i, t)'
    BY <1>1, <2>2, <2>3, <2>4 DEF InsertOK, CurrentImage
  <2> QED BY <1>4, <2>5 DEF StmtRowOK
<1>8. ViewOf(b)'
  <2>1. \A j, g, s : <<j, g, s>> \in new => <<j, s>> \in Busy(b)'
    <3>0. [kind |-> "insert", step |-> "settle", idx |-> i, tid |-> t] \in Statement
      BY DEF Statement
    <3>1. stmt'[b] # None
      BY <1>1, <3>0, AbsentAssumption DEF StartStmt, IInv, StmtInv
    <3> QED BY <1>2, <1>4, <3>1 DEF Busy
  <2> QED BY <1>1, <1>3, <2>1, GrownView
<1> HIDE DEF h
<1> QED BY <1>1, <1>3, <1>4, <1>6, <1>7, <1>8, GrownRows

-----------------------------------------------------------------------------
(* The flush.                                                              *)

\* What flush_locked writes: the image with the rows that are staged.
LEMMA FlushImage ==
  ASSUME IInv, RowInv, NEW b \in Backends, frames[b] # <<>>, NEW p, p = pending[b], p # None,
         p.rewind = None, NEW i, i = p.idx, catalog[i].exists,
         NEW now, now = image[i][catalog[i].file]
  PROVE  /\ i \in Indexes /\ catalog[i].file \in FileNos /\ now \in Image
         /\ Written(p, now) \in Image /\ Written(p, now).gen = now.gen + 1
         /\ ImageOK(Written(p, now))
         /\ \A t : t \in LiveTids(Written(p, now)) <=>
              t \in LiveTids(now) \/ KeptRow(p, Surviving(p), t)
         /\ \A t \in Tids : KeptRow(p, Surviving(p), t) => heap[i][catalog[i].heap][t] = "live"
<1> DEFINE n == Len(frames[b])
<1>1. /\ WriteOK(p) /\ i \in Indexes /\ FitsShape(p, n, frames[b])
      /\ Limit(p, n, n) = Surviving(p) /\ FitsEntry(p, n, frames[b], catalog[i], now)
  BY SlotTop DEF RowInv
<1>2. catalog[i].file \in FileNos /\ now \in Image
  BY <1>1, CurrentImageType DEF IInv, CurrentImage
<1>3. Surviving(p) = Staged(p)
  BY DEF Surviving
<1> HIDE DEF n
<1>4. /\ StagedShape(p) /\ Staged(p) # ZeroCount /\ Distinct(p, Staged(p))
      /\ p.baseGen = now.gen => SameBase(p, now)
      /\ \A t \in LiveTids(now) : ~KeptRow(p, Staged(p), t)
  <2>1. StagedShape(p) /\ Staged(p) # ZeroCount /\ Distinct(p, Staged(p))
    BY <1>1, <1>3 DEF FitsShape, StagedShape, n
  <2>2. Limit(p, n, n) = Staged(p)
    BY <1>1, <1>3
  <2>3. BaseFits(p, now) /\ \A t \in LiveTids(now) : ~KeptRow(p, Staged(p), t)
    BY <1>1, <2>1, <2>2 DEF FitsEntry, n
  <2> QED BY <2>1, <2>3 DEF BaseFits
<1>5. ImageOK(now)
  <2>1. EntryOK(i, catalog[i])
    BY <1>1, EntryInOrder DEF EntryFor, RowInv
  <2> QED BY <2>1 DEF EntryOK
<1>6. ImageOK(Written(p, now))
  BY <1>1, <1>2, <1>4, <1>5, WrittenOK
<1>7. Written(p, now) \in Image /\ Written(p, now).gen = now.gen + 1
  <2>1. "graph" \in Kinds
    BY DEF Kinds
  <2> QED BY <1>1, <1>2, <1>4, <2>1, WrittenParts, ZenonT(60)
<1>8. ASSUME NEW t
      PROVE  t \in LiveTids(Written(p, now)) <=> t \in LiveTids(now) \/ KeptRow(p, Surviving(p), t)
  BY <1>1, <1>2, <1>4, WrittenLive
<1>9. ASSUME NEW t \in Tids, KeptRow(p, Surviving(p), t)
      PROVE  heap[i][catalog[i].heap][t] = "live"
  BY <1>9, KeptIsOwn DEF RowInv
<1> QED BY <1>1, <1>2, <1>6, <1>7, <1>8, <1>9

\* A flush that finds nothing to write, or an index that is gone.
LEMMA FlushNothingRows ==
  ASSUME IInv, IInv', RowInv, NEW b \in Backends, Flush(b),
         ~(Takes(stmt[b], pending[b]) /\ catalog[pending[b].idx].exists)
  PROVE  RowInv'
<1> DEFINE p == pending[b]
<1>1. /\ UNCHANGED <<catalog, heap, nextFile, frames, nextSub, discarded, vacuum>>
      /\ AtStep(b, "flush") /\ Advance(b, "work") /\ UNCHANGED image
  BY DEF Flush, xactVars
<1>2. /\ stmt[b] # None /\ frames[b] # <<>>
      /\ stmt'[b] # None /\ stmt'[b].kind = stmt[b].kind /\ stmt'[b].step = "work"
      /\ stmt'[b].idx = stmt[b].idx /\ stmt'[b].tid = stmt[b].tid
      /\ Busy(b)' = Busy(b)
      /\ \A c \in Backends \ {b} : stmt'[c] = stmt[c]
  BY <1>1, AdvanceStep
<1>3. /\ pending'[b] = IF Takes(stmt[b], p) THEN None ELSE p
      /\ \A c \in Backends \ {b} : pending'[c] = pending[c]
  BY DEF Flush, IInv, PendingInv
<1>4. /\ Holding(p, discarded[b], frames[b])
      /\ Views(p, discarded[b], frames[b], catalog, image, Busy(b))
  BY BackendHolds DEF RowInv, ViewInv, ViewOf
<1>5. StmtRowOK(b)
  BY DEF RowInv, StmtRowInv
<1>6. ViewOf(b)'
  <2>1. Views(pending'[b], discarded[b], frames[b], catalog, image, Busy(b))
    <3>1. CASE Takes(stmt[b], p)
      <4>1. p # None /\ ~catalog[p.idx].exists
        BY <3>1 DEF Takes
      <4> HIDE DEF p
      <4>2. Views(None, discarded[b], frames[b], catalog, image, Busy(b))
        BY <1>4, <4>1, EmptySlot
      <4> QED BY <1>3, <3>1, <4>2
    <3>2. CASE ~Takes(stmt[b], p)
      BY <1>3, <1>4, <3>2
    <3> QED BY <3>1, <3>2
  <2> QED BY <1>1, <1>2, <2>1 DEF ViewOf
<1>7. StmtRowOK(b)'
  <2>1. ~Takes(stmt'[b], pending'[b])
    BY <1>2, <1>3 DEF Takes
  <2>2. pending'[b] = None \/ pending'[b].rewind = None
    BY <1>1, <1>2, <1>3, <1>5 DEF StmtRowOK, AtStep
  <2>3. ASSUME NEW j \in Indexes, NEW t \in Tids,
               stmt[b].kind = "insert", stmt[b].idx = j, stmt[b].tid = t
        PROVE  InsertOK(b, j, t)'
    <3>1. InsertOK(b, j, t)
      BY <1>2, <1>5, <2>3 DEF StmtRowOK
    <3> QED BY <1>1, <1>3, <3>1 DEF InsertOK, TopFrame, CurrentImage
  <2> QED BY <1>1, <1>2, <1>5, <2>1, <2>2, <2>3 DEF StmtRowOK
<1> QED BY <1>1, <1>2, <1>3, <1>6, <1>7, StageStep

\* A flush writes.
LEMMA FlushRows ==
  ASSUME IInv, IInv', RowInv, NEW b \in Backends, Flush(b),
         Takes(stmt[b], pending[b]), catalog[pending[b].idx].exists
  PROVE  RowInv'
<1> DEFINE p == pending[b]
           i == p.idx
           now == image[i][catalog[i].file]
           y == Written(p, now)
<1>1. /\ UNCHANGED <<catalog, heap, nextFile, frames, nextSub, discarded, vacuum>>
      /\ AtStep(b, "flush") /\ Advance(b, "work") /\ Lockable(b, i)
      /\ image' = [image EXCEPT ![i][catalog[i].file] = y]
      /\ pending' = [pending EXCEPT ![b] = None] /\ p # None
  BY DEF Flush, xactVars, SetImage, CurrentImage, Takes
<1>2. /\ stmt[b] # None /\ frames[b] # <<>>
      /\ stmt'[b] # None /\ stmt'[b].kind = stmt[b].kind /\ stmt'[b].step = "work"
      /\ stmt'[b].idx = stmt[b].idx /\ stmt'[b].tid = stmt[b].tid
      /\ Busy(b)' = Busy(b)
      /\ \A c \in Backends \ {b} : stmt'[c] = stmt[c]
  BY <1>1, AdvanceStep
<1>3. pending'[b] = None /\ \A c \in Backends \ {b} : pending'[c] = pending[c]
  BY <1>1 DEF IInv, PendingInv
<1>4. /\ Holding(p, discarded[b], frames[b]) /\ DOMAIN frames[b] = 1 .. Len(frames[b])
      /\ Views(p, discarded[b], frames[b], catalog, image, Busy(b))
      /\ catalog \in [Indexes -> Entry] /\ image \in [Indexes -> [FileNos -> Image]]
  BY BackendHolds DEF RowInv, ViewInv, ViewOf, IInv, StoreInv
<1>5. StmtRowOK(b) /\ p.rewind = None
  BY <1>1, <1>2 DEF RowInv, StmtRowInv, StmtRowOK, AtStep
<1>6. /\ i \in Indexes /\ catalog[i].file \in FileNos /\ now \in Image
      /\ y \in Image /\ y.gen = now.gen + 1 /\ ImageOK(y)
      /\ \A t : t \in LiveTids(y) <=> t \in LiveTids(now) \/ KeptRow(p, Surviving(p), t)
      /\ \A t \in Tids : KeptRow(p, Surviving(p), t) => heap[i][catalog[i].heap][t] = "live"
  <2>1. catalog[i].exists
    OBVIOUS
  <2>2. PICK q : q = pending[b]
    OBVIOUS
  <2>3. PICK j : j = q.idx
    OBVIOUS
  <2>4. PICK m : m = image[j][catalog[j].file]
    OBVIOUS
  <2>5. /\ j \in Indexes /\ catalog[j].file \in FileNos /\ m \in Image
        /\ Written(q, m) \in Image /\ Written(q, m).gen = m.gen + 1
        /\ ImageOK(Written(q, m))
        /\ \A t : t \in LiveTids(Written(q, m)) <=> t \in LiveTids(m) \/ KeptRow(q, Surviving(q), t)
        /\ \A t \in Tids : KeptRow(q, Surviving(q), t) => heap[j][catalog[j].heap][t] = "live"
    <3>1. q # None /\ q.rewind = None /\ catalog[j].exists /\ frames[b] # <<>>
      BY <1>1, <1>2, <1>5, <2>1, <2>2, <2>3
    <3> HIDE DEF p, i, now, y
    <3> QED BY <2>2, <2>3, <2>4, <3>1, FlushImage
  <2>6. q = p /\ j = i /\ m = now
    BY <2>2, <2>3, <2>4
  <2> QED BY <2>5, <2>6
<1>7. /\ image'[i][catalog[i].file] = y
      /\ \A f \in FileNos : f # catalog[i].file => image'[i][f] = image[i][f]
      /\ \A j \in Indexes : j # i => image'[j] = image[j]
  BY <1>1, <1>4, <1>6
<1>8. \A c \in Backends : \A f \in DOMAIN frames[c] :
        Undone(frames[c], f, i) => frames[c][f].undo[i].file # catalog[i].file
  <2> SUFFICES ASSUME NEW c \in Backends, NEW f \in DOMAIN frames[c], Undone(frames[c], f, i)
               PROVE  frames[c][f].undo[i].file # catalog[i].file
    OBVIOUS
  <2>1. UndoOK(i, frames[c], f)
    BY <1>6 DEF RowInv, FileInv, UndoInv
  <2>2. frames[c][f].undo[i].file < catalog[i].file
    BY <2>1 DEF UndoOK
  <2>3. EntryFor(catalog, frames, i, frames[c][f].undo[i])
    BY DEF EntryFor
  <2>4. EntryFor(catalog, frames, i, catalog[i])
    BY DEF EntryFor
  <2>5. FileInv
    BY DEF RowInv
  <2>6. PICK u : u = frames[c][f].undo[i]
    OBVIOUS
  <2>7. u.file \in Nat /\ catalog[i].file \in Nat
    BY <1>6, <2>3, <2>4, <2>5, <2>6, EntryForType
  <2> QED BY <2>2, <2>6, <2>7
<1>9. ASSUME NEW c \in Backends \ {b} PROVE Bystander(c)
  <2>1. ASSUME NEW j \in Indexes PROVE Untouched(frames[c], catalog, catalog', image, image', j)
    <3>1. CASE j # i
      BY <1>1, <1>7, <3>1 DEF Untouched
    <3>2. CASE j = i
      <4>1. \A f \in DOMAIN frames[c] : ~Undone(frames[c], f, i)
        BY <1>1, <1>6, NoExcl DEF RowInv, Lockable
      <4>2. ASSUME NEW g \in DOMAIN frames[c], NEW t \in Tids,
                   <<i, catalog[i].heap, t>> \in frames[c][g].rows
            PROVE  ~KeptRow(p, Surviving(p), t)
        <5> SUFFICES ASSUME KeptRow(p, Surviving(p), t) PROVE FALSE
          OBVIOUS
        <5>1. PICK f \in DOMAIN frames[b] : <<i, catalog[i].heap, t>> \in frames[b][f].rows
          BY <1>1, <1>2, KeptIsOwn DEF RowInv
        <5> QED BY <4>2, <5>1, OneOwner DEF RowInv
      <4>3. now.gen <= y.gen /\ now.gen # y.gen
        <5>1. PICK k \in Nat : k = now.gen
          BY <1>6 DEF Image
        <5>2. y.gen = k + 1
          BY <1>6, <5>1
        <5> HIDE DEF y, now
        <5> QED BY <5>1, <5>2
      <4>4. Moved(i, catalog[i].heap, frames[c], now, y)
        BY <1>6, <4>2, <4>3 DEF Moved
      <4>5. catalog' = catalog
        BY <1>1
      <4>6. Moved(i, catalog[i].heap, frames[c], now, image'[i][catalog[i].file])
        BY <1>7, <4>4
      <4> HIDE DEF y, p, i
      <4> QED BY <3>2, <4>1, <4>5, <4>6 DEF Untouched
    <3> QED BY <3>1, <3>2
  <2> QED BY <1>1, <1>2, <1>3, <2>1 DEF Bystander
<1>10. ViewOf(b)'
  <2>1. \A d \in discarded[b] : \A f \in DOMAIN frames[b] :
          d.sub = frames[b][f].sub => Undone(frames[b], f, d.write.idx)
    BY DEF RowInv, LocksInv, ExclOK
  <2>2. PICK img2 : img2 = image'
    OBVIOUS
  <2>3. p # None /\ catalog[i].exists /\ \A f \in DOMAIN frames[b] :
          Undone(frames[b], f, i) => frames[b][f].undo[i].file # catalog[i].file
    BY <1>1, <1>8
  <2>4. img2 = [image EXCEPT ![p.idx][catalog[p.idx].file] = Written(p, image[p.idx][catalog[p.idx].file])]
    BY <1>1, <2>2
  <2>5. PICK busy : busy = Busy(b)
    OBVIOUS
  <2> HIDE DEF p
  <2>6. Views(None, discarded[b], frames[b], catalog, img2, busy)
    BY <1>2, <1>4, <1>5, <2>1, <2>3, <2>4, <2>5, FlushedSlot
  <2> QED BY <1>1, <1>2, <1>3, <2>2, <2>5, <2>6 DEF ViewOf
<1>11. StmtRowOK(b)'
  <2>1. ASSUME NEW j \in Indexes, NEW t \in Tids,
               stmt[b].kind = "insert", stmt[b].idx = j, stmt[b].tid = t
        PROVE  InsertOK(b, j, t)'
    <3>1. InsertOK(b, j, t) /\ j # i
      BY <1>2, <1>5, <2>1 DEF StmtRowOK, Takes
    <3>2. image'[j] = image[j]
      BY <1>7, <3>1
    <3> QED BY <1>1, <1>3, <3>1, <3>2 DEF InsertOK, TopFrame, CurrentImage
  <2> QED BY <1>1, <1>2, <1>3, <1>5, <2>1 DEF StmtRowOK, Takes
<1>12. ViewInv' /\ StmtRowInv' /\ SubsInv'
  <2>1. \A c \in Backends \ {b} : ViewOf(c)' /\ StmtRowOK(c)' /\ SubsOK(c)'
    BY <1>9, BystanderView, BystanderStmt, BystanderSubs DEF RowInv
  <2>2. SubsOK(b)'
    BY <1>1, <1>2 DEF RowInv, SubsInv, SubsOK
  <2> QED BY <1>10, <1>11, <2>1, <2>2 DEF ViewInv, StmtRowInv, SubsInv
<1>13. EntryInv'
  <2> SUFFICES ASSUME NEW j \in Indexes, NEW e, EntryFor(catalog', frames', j, e), e.exists
               PROVE  EntryOK(j, e)'
    BY EntryInvFrom
  <2>1. EntryFor(catalog, frames, j, e) /\ e.file \in FileNos
    BY <1>1, EntryForType DEF RowInv
  <2>2. EntryOK(j, e)
    BY <2>1, EntryInOrder DEF RowInv
  <2>3. CASE image'[j][e.file] = image[j][e.file]
    BY <1>1, <2>2, <2>3 DEF EntryOK
  <2>4. CASE image'[j][e.file] # image[j][e.file]
    <3>1. j = i /\ e.file = catalog[i].file
      BY <1>7, <2>1, <2>4
    <3>2. e = catalog[i]
      BY <1>8, <2>1, <3>1 DEF EntryFor
    <3>3. image'[j][e.file] = y
      BY <1>7, <3>1
    <3>4. /\ \A t \in LiveTids(now) : heap[i][catalog[i].heap][t] # "free"
          /\ \A t \in Tids : heap[i][catalog[i].heap][t] = "live" /\ ~Owned(frames, i, catalog[i].heap, t) =>
               t \in LiveTids(now)
      BY <2>2, <3>1, <3>2 DEF EntryOK
    <3>5. \A t \in LiveTids(y) : t \in Tids
      BY <1>6, LiveTidsType
    <3> HIDE DEF y, now, p, i
    <3>6. ImageOK(y) /\ \A t \in LiveTids(y) : heap[i][catalog[i].heap][t] # "free"
      BY <1>6, <3>4, <3>5
    <3>7. \A t \in Tids : heap[i][catalog[i].heap][t] = "live" /\ ~Owned(frames, i, catalog[i].heap, t) =>
               t \in LiveTids(y)
      BY <1>6, <3>4
    <3> QED BY <1>1, <3>1, <3>2, <3>3, <3>6, <3>7 DEF EntryOK
  <2> QED BY <2>3, <2>4
<1>14. FileInv'
  BY <1>1 DEF RowInv, FileInv, FileOK, UndoInv, UndoOK
<1>15. LocksInv'
  <2>1. \A c : ExclOf(c)' = ExclOf(c) /\ LocksOf(c)' = LocksOf(c)
    BY <1>1 DEF ExclOf, LocksOf
  <2>2. \A c \in Backends : ExclOK(c)'
    BY <1>1 DEF RowInv, LocksInv, ExclOK
  <2> QED BY <1>1, <2>1, <2>2 DEF RowInv, LocksInv
<1>16. OwnInv'
  BY <1>1 DEF RowInv, OwnInv, LiveRow
<1>17. DeadInv'
  <2> SUFFICES ASSUME vacuum # None PROVE DeadInv'
    BY <1>1 DEF DeadInv
  <2>1. DeadInv /\ vacuum.idx \in Indexes /\ vacuum.dead \subseteq Tids
    BY DEF RowInv, IInv, VacuumInv, Vacuum
  <2>2. ASSUME vacuum.step = "heap", NEW t \in vacuum.dead
        PROVE  t \notin LiveTids(image'[vacuum.idx][catalog[vacuum.idx].file])
    <3>1. /\ t \notin LiveTids(image[vacuum.idx][catalog[vacuum.idx].file])
          /\ heap[vacuum.idx][catalog[vacuum.idx].heap][t] = "dead" /\ t \in Tids
      BY <2>1, <2>2 DEF DeadInv, CurrentImage, CurrentHeap
    <3>2. CASE vacuum.idx = i
      <4>1. ~KeptRow(p, Surviving(p), t)
        BY <1>6, <3>1, <3>2
      <4> QED BY <1>6, <1>7, <3>1, <3>2, <4>1
    <3>3. CASE vacuum.idx # i
      BY <1>7, <2>1, <3>1, <3>3
    <3> QED BY <3>2, <3>3
  <2> QED BY <1>1, <2>1, <2>2 DEF DeadInv, CurrentHeap, CurrentImage
<1> QED BY <1>12, <1>13, <1>14, <1>15, <1>16, <1>17 DEF RowInv

-----------------------------------------------------------------------------
(* Boundaries of (sub)transactions.                                        *)

\* The rows of the frames gs come each from one of the frames fs: f's go to m[f].
Inherited(fs, gs, m) ==
  \A g \in DOMAIN gs : \A r \in gs[g].rows :
    \E f \in DOMAIN fs : r \in fs[f].rows /\ m[f] = g /\ fs[f].locks \subseteq gs[g].locks

\* So do their locks, and the entries they saved, in the same order.
Regrouped(fs, gs) ==
  /\ \A g \in DOMAIN gs : \A i \in Indexes :
       /\ i \in gs[g].locks => \E f \in DOMAIN fs : i \in fs[f].locks
       /\ i \in gs[g].excl => \E f \in DOMAIN fs : i \in fs[f].excl
       /\ Undone(gs, g, i) =>
            \E f \in DOMAIN fs : Undone(fs, f, i) /\ gs[g].undo[i] = fs[f].undo[i]
  /\ \A g, h \in DOMAIN gs : \A i \in Indexes :
       g < h /\ Undone(gs, g, i) /\ Undone(gs, h, i) =>
         \E f, k \in DOMAIN fs :
           /\ f < k /\ Undone(fs, f, i) /\ Undone(fs, k, i)
           /\ gs[g].undo[i] = fs[f].undo[i] /\ gs[h].undo[i] = fs[k].undo[i]

\* Rows stay their frames' own.
LEMMA OwnKept ==
  ASSUME IInv, OwnInv, NEW b \in Backends, \A c \in Backends \ {b} : frames'[c] = frames[c],
         NEW m, Inherited(frames[b], frames'[b], m),
         \A c \in Backends : \A k \in DOMAIN frames'[c] : \A j, h, t :
           <<j, h, t>> \in frames'[c][k].rows /\ heap[j][h][t] = "live" => heap'[j][h][t] = "live"
  PROVE  OwnInv'
<1>1. ASSUME NEW c \in Backends, NEW k \in DOMAIN frames'[c], NEW r \in frames'[c][k].rows
      PROVE  \E f \in DOMAIN frames[c] :
               /\ r \in frames[c][f].rows /\ frames[c][f].locks \subseteq frames'[c][k].locks
               /\ IF c = b THEN m[f] = k ELSE f = k
  <2>1. CASE c = b
    <3>1. PICK f \in DOMAIN frames[b] :
            r \in frames[b][f].rows /\ m[f] = k /\ frames[b][f].locks \subseteq frames'[b][k].locks
      BY <1>1, <2>1 DEF Inherited
    <3> QED BY <2>1, <3>1
  <2>2. CASE c # b
    <3>1. frames'[c] = frames[c]
      BY <2>2
    <3>2. k \in DOMAIN frames[c] /\ r \in frames[c][k].rows
      BY <1>1, <3>1
    <3> QED BY <2>2, <3>1, <3>2
  <2> QED BY <2>1, <2>2
<1>2. ASSUME NEW c \in Backends, NEW k \in DOMAIN frames'[c],
             NEW j \in Indexes, NEW h \in FileNos, NEW t \in Tids, <<j, h, t>> \in frames'[c][k].rows
      PROVE  LiveRow(c, k, j, h, t)'
  <2>1. PICK f \in DOMAIN frames[c] :
          <<j, h, t>> \in frames[c][f].rows /\ frames[c][f].locks \subseteq frames'[c][k].locks
    BY <1>1, <1>2
  <2>2. heap[j][h][t] = "live" /\ j \in frames[c][f].locks
    BY <2>1, OpenRow
  <2> QED BY <1>2, <2>1, <2>2 DEF LiveRow
<1>3. ASSUME NEW c \in Backends, NEW d \in Backends, NEW k \in DOMAIN frames'[c],
             NEW g \in DOMAIN frames'[d], NEW r \in Indexes \X FileNos \X Tids,
             r \in frames'[c][k].rows, r \in frames'[d][g].rows
      PROVE  c = d /\ k = g
  <2>1. PICK f \in DOMAIN frames[c] : r \in frames[c][f].rows /\ IF c = b THEN m[f] = k ELSE f = k
    BY <1>1, <1>3
  <2>2. PICK e \in DOMAIN frames[d] : r \in frames[d][e].rows /\ IF d = b THEN m[e] = g ELSE e = g
    BY <1>1, <1>3
  <2>3. c = d /\ f = e
    BY <2>1, <2>2 DEF OwnInv
  <2> QED BY <2>1, <2>2, <2>3
<1> QED BY <1>2, <1>3 DEF OwnInv

\* Locks are only let go.
LEMMA LocksKept ==
  ASSUME IInv', LocksInv, NEW b \in Backends, \A c \in Backends \ {b} :
           frames'[c] = frames[c] /\ discarded'[c] = discarded[c],
         Regrouped(frames[b], frames'[b]), ExclOK(b)', UNCHANGED vacuum
  PROVE  /\ LocksInv'
         /\ \A c \in Backends : \A x : /\ x \in LocksOf(c)' => x \in LocksOf(c)
                                       /\ x \in ExclOf(c)' => x \in ExclOf(c)
<1>1. ASSUME NEW c \in Backends, NEW x
      PROVE  /\ x \in LocksOf(c)' => x \in LocksOf(c)
             /\ x \in ExclOf(c)' => x \in ExclOf(c)
  <2>1. CASE c # b
    BY <2>1 DEF LocksOf, ExclOf
  <2>2. CASE c = b
    <3>1. \A k \in DOMAIN frames'[b] : frames'[b][k] \in Frame
      <4>1. frames'[b] \in Seq(Frame)
        BY DEF IInv, XactInv
      <4> QED BY <4>1, LenProperties, ElementOfSeq
    <3>2. \A k \in DOMAIN frames'[b] : /\ x \in frames'[b][k].locks => x \in Indexes
                                       /\ x \in frames'[b][k].excl => x \in Indexes
      BY <3>1 DEF Frame
    <3>3. x \in LocksOf(b)' => x \in LocksOf(b)
      BY <3>2 DEF LocksOf, Regrouped
    <3>4. x \in ExclOf(b)' => x \in ExclOf(b)
      BY <3>2 DEF ExclOf, Regrouped
    <3> QED BY <2>2, <3>3, <3>4
  <2> QED BY <2>1, <2>2
<1>2. \A c \in Backends : ExclOK(c)'
  <2>1. \A c \in Backends \ {b} : ExclOK(c)'
    BY DEF LocksInv, ExclOK
  <2> QED BY <2>1
<1>3. ASSUME NEW c \in Backends, NEW d \in Backends, c # d, NEW x \in ExclOf(c)'
      PROVE  x \notin LocksOf(d)' \cup ExclOf(d)'
  BY <1>1, <1>3 DEF LocksInv
<1>4. vacuum' # None => \A c \in Backends : vacuum'.idx \notin ExclOf(c)'
  BY <1>1 DEF LocksInv
<1>5. LocksInv'
  BY <1>2, <1>3, <1>4 DEF LocksInv
<1> QED BY <1>1, <1>5

\* Saved entries stay in order.
LEMMA UndoKept ==
  ASSUME IInv, UndoInv, NEW b \in Backends, \A c \in Backends \ {b} : frames'[c] = frames[c],
         Regrouped(frames[b], frames'[b]), UNCHANGED <<catalog, nextFile>>
  PROVE  UndoInv'
<1> SUFFICES ASSUME NEW c \in Backends, NEW g \in DOMAIN frames'[c], NEW i \in Indexes,
                    Undone(frames'[c], g, i)
             PROVE  UndoOK(i, frames[c], g)'
  BY DEF UndoInv
<1>1. CASE c # b
  <2>1. frames'[c] = frames[c]
    BY <1>1
  <2>2. UndoOK(i, frames[c], g)
    BY <2>1 DEF UndoInv
  <2> QED BY <2>1, <2>2 DEF UndoOK
<1>2. CASE c = b
  <2> DEFINE fs == frames[b]
             gs == frames'[b]
             u == gs[g].undo[i]
  <2>1. PICK f \in DOMAIN fs : Undone(fs, f, i) /\ u = fs[f].undo[i]
    BY <1>2 DEF Regrouped
  <2>2. UndoOK(i, fs, f)
    BY <2>1 DEF UndoInv
  <2>3. ASSUME NEW h \in DOMAIN gs, g < h, Undone(gs, h, i)
        PROVE  u.file < gs[h].undo[i].file
    <3>1. PICK j \in DOMAIN fs, k \in DOMAIN fs :
            /\ j < k /\ Undone(fs, j, i) /\ Undone(fs, k, i)
            /\ u = fs[j].undo[i] /\ gs[h].undo[i] = fs[k].undo[i]
      BY <1>2, <2>3 DEF Regrouped
    <3>2. UndoOK(i, fs, j)
      BY <3>1 DEF UndoInv
    <3> QED BY <3>1, <3>2 DEF UndoOK
  <2>4. u.exists /\ u.heap < nextFile[i] /\ u.file <= catalog[i].file
        /\ (catalog[i].exists => u.file < catalog[i].file)
    BY <2>1, <2>2 DEF UndoOK
  <2> QED BY <1>2, <2>3, <2>4 DEF UndoOK
<1> QED BY <1>1, <1>2

\* What may be an entry was one before.
LEMMA EntriesFrom ==
  ASSUME NEW b \in Backends, \A c \in Backends \ {b} : frames'[c] = frames[c],
         Regrouped(frames[b], frames'[b]), NEW i \in Indexes, NEW e,
         EntryFor(catalog', frames', i, e)
  PROVE  e = catalog'[i] \/ EntryFor(catalog, frames, i, e)
<1>1. CASE e = catalog'[i]
  BY <1>1
<1>2. ASSUME NEW c \in Backends, NEW g \in DOMAIN frames'[c], Undone(frames'[c], g, i),
             e = frames'[c][g].undo[i]
      PROVE  EntryFor(catalog, frames, i, e)
  <2>1. CASE c # b
    BY <1>2, <2>1 DEF EntryFor
  <2>2. CASE c = b
    BY <1>2, <2>2 DEF EntryFor, Regrouped
  <2> QED BY <2>1, <2>2
<1> QED BY <1>1, <1>2 DEF EntryFor

\* A boundary that leaves rows and images alone.
LEMMA XactStep ==
  ASSUME IInv, IInv', RowInv, NEW b \in Backends,
         UNCHANGED <<catalog, heap, image, nextFile, stmt, vacuum>>,
         \A c \in Backends \ {b} : /\ frames'[c] = frames[c] /\ nextSub'[c] = nextSub[c]
                                   /\ pending'[c] = pending[c] /\ discarded'[c] = discarded[c],
         Regrouped(frames[b], frames'[b]), NEW m, Inherited(frames[b], frames'[b], m),
         \A f \in DOMAIN frames[b] : \A r \in frames[b][f].rows :
           \E g \in DOMAIN frames'[b] : r \in frames'[b][g].rows,
         ViewOf(b)', StmtRowOK(b)', SubsOK(b)', ExclOK(b)'
  PROVE  RowInv'
<1>1. /\ ViewInv /\ EntryInv /\ SubsInv /\ FileInv /\ LocksInv /\ OwnInv /\ StmtRowInv /\ DeadInv
  BY DEF RowInv
<1>2. \A c \in Backends \ {b} : Bystander(c)
  BY DEF Bystander, Untouched
<1>3. ViewInv' /\ StmtRowInv' /\ SubsInv'
  <2>1. \A c \in Backends \ {b} : ViewOf(c)' /\ StmtRowOK(c)' /\ SubsOK(c)'
    BY <1>1, <1>2, BystanderView, BystanderStmt, BystanderSubs
  <2> QED BY <2>1 DEF ViewInv, StmtRowInv, SubsInv
<1>4. EntryInv'
  <2> SUFFICES ASSUME NEW j \in Indexes, NEW e, EntryFor(catalog', frames', j, e), e.exists
               PROVE  EntryOK(j, e)'
    BY EntryInvFrom
  <2>1. EntryFor(catalog, frames, j, e)
    <3>1. e = catalog'[j] \/ EntryFor(catalog, frames, j, e)
      BY EntriesFrom
    <3> QED BY <3>1 DEF EntryFor
  <2>2. EntryOK(j, e)
    BY <1>1, <2>1, EntryInOrder
  <2>3. \A h, t : Owned(frames, j, h, t) => Owned(frames', j, h, t)
    <3> SUFFICES ASSUME NEW h, NEW t, Owned(frames, j, h, t) PROVE Owned(frames', j, h, t)
      OBVIOUS
    <3>1. PICK c \in Backends : \E f \in DOMAIN frames[c] : <<j, h, t>> \in frames[c][f].rows
      BY DEF Owned
    <3>2. \E f \in DOMAIN frames'[c] : <<j, h, t>> \in frames'[c][f].rows
      <4>1. CASE c = b
        BY <3>1, <4>1
      <4>2. CASE c # b
        BY <3>1, <4>2
      <4> QED BY <4>1, <4>2
    <3> QED BY <3>2 DEF Owned
  <2> QED BY <2>2, <2>3 DEF EntryOK
<1>5. FileInv'
  <2>1. UndoInv'
    BY <1>1, UndoKept DEF FileInv
  <2>2. \A j \in Indexes : FileOK(j)'
    BY <1>1 DEF FileInv, FileOK
  <2> QED BY <2>1, <2>2 DEF FileInv
<1>6. LocksInv'
  BY <1>1, LocksKept
<1>7. OwnInv'
  BY <1>1, OwnKept
<1>8. DeadInv'
  BY <1>1 DEF DeadInv, CurrentHeap, CurrentImage
<1> QED BY <1>3, <1>4, <1>5, <1>6, <1>7, <1>8 DEF RowInv

\* A frame that has just been opened.
LEMMA NewFrameIs ==
  ASSUME NEW s
  PROVE  /\ NewFrame(s).sub = s /\ NewFrame(s).rows = {} /\ NewFrame(s).locks = {}
         /\ NewFrame(s).excl = {} /\ \A i \in Indexes : NewFrame(s).undo[i] = None
BY DEF NewFrame

\* A transaction begins.
LEMMA BeginRows ==
  ASSUME IInv, IInv', RowInv, NEW b \in Backends, Begin(b)
  PROVE  RowInv'
<1> DEFINE s == TopSubTransactionId
<1>1. /\ UNCHANGED <<catalog, heap, image, nextFile, nextSub, stmt, pending, discarded, vacuum>>
      /\ frames[b] = <<>> /\ frames' = [frames EXCEPT ![b] = <<NewFrame(s)>>]
  BY DEF Begin, storeVars, stageVars
<1>2. /\ frames'[b] = <<NewFrame(s)>> /\ \A c \in Backends \ {b} : frames'[c] = frames[c]
  BY <1>1 DEF IInv, XactInv
<1>3. /\ DOMAIN frames'[b] = {1} /\ Len(frames'[b]) = 1 /\ frames'[b] # <<>>
      /\ frames'[b][1].sub = s /\ frames'[b][1].rows = {} /\ frames'[b][1].locks = {}
      /\ frames'[b][1].excl = {} /\ \A i \in Indexes : frames'[b][1].undo[i] = None
  <2> HIDE DEF s
  <2> QED BY <1>2, NewFrameIs
<1>4. /\ frames'[b] \in Seq(Frame) /\ DOMAIN frames[b] = {} /\ stmt[b] = None
  BY <1>1 DEF IInv, XactInv, StmtInv
<1>5. pending[b] = None /\ discarded[b] = {} /\ nextSub[b] > s
  BY <1>1 DEF RowInv, SubsInv, SubsOK
<1> HIDE DEF s
<1>6. ViewOf(b)'
  <2>1. PICK gs : gs = frames'[b]
    OBVIOUS
  <2>2. PICK stash : stash = discarded[b]
    OBVIOUS
  <2>3. PICK busy : busy = Busy(b)'
    OBVIOUS
  <2>4. Views(None, stash, gs, catalog, image, busy)
    BY <1>3, <1>4, <1>5, <2>1, <2>2, BegunSlot
  <2> QED BY <1>1, <1>5, <2>1, <2>2, <2>3, <2>4 DEF ViewOf
<1>7. StmtRowOK(b)'
  BY <1>1, <1>4 DEF StmtRowOK
<1>8. SubsOK(b)'
  BY <1>1, <1>3, <1>5 DEF SubsOK, s
<1>9. ExclOK(b)'
  BY <1>1, <1>3, <1>5 DEF ExclOK, Undone
<1>10. PICK m : m = <<>>
  OBVIOUS
<1>11. Regrouped(frames[b], frames'[b]) /\ Inherited(frames[b], frames'[b], m)
  BY <1>3 DEF Regrouped, Inherited, Undone
<1> QED BY <1>1, <1>2, <1>4, <1>6, <1>7, <1>8, <1>9, <1>11, XactStep

\* SAVEPOINT.
LEMMA SubStartRows ==
  ASSUME IInv, IInv', StashInv, RowInv, NEW b \in Backends, SubStart(b)
  PROVE  RowInv'
<1> DEFINE fs == frames[b]
           gs == frames'[b]
           n == Len(fs)
           s == nextSub[b]
<1>1. /\ UNCHANGED <<catalog, heap, image, nextFile, stmt, vacuum>>
      /\ fs # <<>> /\ stmt[b] = None
      /\ frames' = [frames EXCEPT ![b] = Append(@, NewFrame(s))]
      /\ nextSub' = [nextSub EXCEPT ![b] = @ + 1]
      /\ pending' = [pending EXCEPT ![b] = MarkPending(@, "start")]
      /\ discarded' = [discarded EXCEPT ![b] = MarkStash(@, "start")]
  BY DEF SubStart, Idle, storeVars
<1>2. /\ gs = Append(fs, NewFrame(s)) /\ nextSub'[b] = s + 1 /\ s \in Nat
      /\ pending'[b] = MarkPending(pending[b], "start")
      /\ discarded'[b] = MarkStash(discarded[b], "start")
      /\ \A c \in Backends \ {b} : /\ frames'[c] = frames[c] /\ nextSub'[c] = nextSub[c]
                                   /\ pending'[c] = pending[c] /\ discarded'[c] = discarded[c]
  BY <1>1 DEF IInv, XactInv, PendingInv, DiscardedInv
<1>3. /\ Holding(pending[b], discarded[b], fs) /\ fs \in Seq(Frame) /\ n \in Nat
      /\ DOMAIN fs = 1 .. n /\ n \in 1 .. n /\ gs \in Seq(Frame)
      /\ Views(pending[b], discarded[b], fs, catalog, image, Busy(b))
  BY <1>1, BackendHolds, TopFrameType DEF RowInv, ViewInv, ViewOf, IInv, XactInv
<1>4. NewFrame(s) \in Frame
  BY <1>2 DEF NewFrame, Frame
<1>5. /\ Len(gs) = n + 1 /\ DOMAIN gs = 1 .. n + 1 /\ gs[n + 1] = NewFrame(s)
      /\ \A k \in 1 .. n : gs[k] = fs[k]
  BY <1>2, <1>3, <1>4, AppendProperties, LenProperties
<1>6. /\ SubsOK(b) /\ ExclOK(b) /\ s > TopSubTransactionId
      /\ \A d \in discarded[b] : d.sub # s
  <2>1. SubsOK(b) /\ ExclOK(b)
    BY DEF RowInv, SubsInv, LocksInv
  <2>2. ASSUME NEW d \in discarded[b], d.sub = s PROVE FALSE
    <3>1. PICK k \in DOMAIN fs : fs[k].sub = d.sub
      BY StashOfBackend DEF OpenSub
    <3>2. fs[k].sub < s
      BY <2>1, <3>1 DEF SubsOK
    <3> QED BY <1>2, <2>2, <3>1, <3>2
  <2> QED BY <2>1, <2>2 DEF SubsOK
<1>7. /\ gs[n + 1].sub = s /\ gs[n + 1].rows = {} /\ gs[n + 1].locks = {} /\ gs[n + 1].excl = {}
      /\ \A i \in Indexes : ~Undone(gs, n + 1, i)
      /\ \A k \in 1 .. n : \A i : Undone(gs, k, i) <=> Undone(fs, k, i)
  BY <1>5, NewFrameIs DEF Undone
<1>8. \A k \in 1 .. n + 1 : k \in 1 .. n \/ k = n + 1
  BY <1>3
<1>9. \A k \in 1 .. n : k \in 1 .. n + 1 /\ k # n + 1 /\ k < n + 1
  BY <1>3
<1> HIDE DEF n, s
<1>10. Busy(b)' = {} /\ Busy(b) = {}
  BY <1>1 DEF Busy
<1>11. ViewOf(b)'
  <2>1. PICK busy : busy = {}
    OBVIOUS
  <2>2. PICK gs2 \in Seq(Frame) : gs2 = gs
    BY <1>3
  <2>3. Views(MarkPending(pending[b], "start"), MarkStash(discarded[b], "start"), gs2,
              catalog, image, busy)
    <3> HIDE DEF fs, gs
    <3> QED BY <1>1, <1>3, <1>5, <1>6, <1>10, <2>1, <2>2, StartedSub DEF n
  <2> QED BY <1>1, <1>2, <1>10, <2>1, <2>2, <2>3 DEF ViewOf
<1>12. StmtRowOK(b)'
  BY <1>1 DEF StmtRowOK
<1>13. SubsOK(b)'
  <2>1. \A k \in 1 .. n : gs[k].sub < s /\ gs[k].sub \in Nat
    <3>1. \A k \in 1 .. n : fs[k] \in Frame
      BY <1>3, ElementOfSeq DEF n
    <3> QED BY <1>3, <1>5, <1>6, <3>1 DEF SubsOK, Frame, s
  <2>2. \A f \in 1 .. n + 1 : gs[f].sub < s + 1
    <3>1. s < s + 1 /\ \A x \in Nat : x < s => x < s + 1
      BY <1>2
    <3> QED BY <1>7, <1>8, <2>1, <3>1
  <2>3. ASSUME NEW f \in 1 .. n + 1, NEW g \in 1 .. n + 1, f < g
        PROVE  gs[f].sub < gs[g].sub
    <3>1. f \in 1 .. n
      BY <1>3, <2>3
    <3>2. CASE g \in 1 .. n
      BY <1>3, <1>5, <1>6, <2>3, <3>1, <3>2 DEF SubsOK
    <3>3. CASE g = n + 1
      BY <1>7, <2>1, <3>1, <3>3
    <3> QED BY <1>8, <3>2, <3>3
  <2>4. gs # <<>>
    BY <1>3, <1>5
  <2>5. s + 1 > TopSubTransactionId
    BY <1>2, <1>6 DEF TopSubTransactionId
  <2> QED BY <1>2, <1>5, <2>2, <2>3, <2>4, <2>5 DEF SubsOK
<1>14. ExclOK(b)'
  <2>1. ASSUME NEW f \in 1 .. n + 1, NEW i \in Indexes
        PROVE  Undone(gs, f, i) <=> i \in gs[f].excl
    <3>1. CASE f \in 1 .. n
      BY <1>3, <1>5, <1>6, <1>7, <3>1 DEF ExclOK
    <3>2. CASE f = n + 1
      BY <1>7, <3>2
    <3> QED BY <1>8, <3>1, <3>2
  <2>2. ASSUME NEW d \in MarkStash(discarded[b], "start"), NEW f \in 1 .. n + 1, d.sub = gs[f].sub
        PROVE  Undone(gs, f, d.write.idx)
    <3>1. PICK e \in discarded[b] : d = [sub |-> e.sub, write |-> ApplyMarkEvent(e.write, "start")]
      BY DEF MarkStash
    <3>2. d.sub = e.sub /\ d.write.idx = e.write.idx
      BY <3>1 DEF ApplyMarkEvent, MarkStart, IInv, DiscardedInv, StashOK, WriteOK, Write
    <3>3. f \in 1 .. n
      BY <1>6, <1>7, <1>8, <2>2, <3>2
    <3> QED BY <1>3, <1>5, <1>6, <1>7, <2>2, <3>2, <3>3 DEF ExclOK
  <2> QED BY <1>2, <1>5, <2>1, <2>2 DEF ExclOK
<1>15. PICK m : m = [f \in DOMAIN fs |-> f]
  OBVIOUS
<1>16. Inherited(fs, gs, m)
  <2> SUFFICES ASSUME NEW g \in DOMAIN gs, NEW r \in gs[g].rows
               PROVE  g \in DOMAIN fs /\ gs[g] = fs[g]
    BY <1>15 DEF Inherited
  <2> QED BY <1>3, <1>5, <1>7, <1>8
<1>17. Regrouped(fs, gs)
  <2>1. \A g \in DOMAIN gs : \A i \in Indexes :
          i \in gs[g].locks \/ i \in gs[g].excl \/ Undone(gs, g, i) => g \in DOMAIN fs /\ gs[g] = fs[g]
    BY <1>3, <1>5, <1>7, <1>8
  <2> HIDE DEF fs, gs
  <2> QED BY <2>1 DEF Regrouped, Undone
<1>18. \A f \in DOMAIN fs : \A r \in fs[f].rows : \E g \in DOMAIN gs : r \in gs[g].rows
  BY <1>3, <1>5, <1>9
<1> HIDE DEF fs, gs
<1> QED BY <1>1, <1>2, <1>11, <1>12, <1>13, <1>14, <1>16, <1>17, <1>18, XactStep DEF fs, gs

\* RELEASE SAVEPOINT merges the innermost frame into its parent.
LEMMA SubCommitShape ==
  ASSUME IInv, NEW b \in Backends, SubCommit(b), NEW n, n = Len(frames[b])
  PROVE  /\ n \in Nat /\ n > 1 /\ n - 1 \in 1 .. n /\ n \in 1 .. n
         /\ frames[b][n] \in Frame /\ frames[b][n - 1] \in Frame
         /\ frames'[b] \in Seq(Frame) /\ Len(frames'[b]) = n - 1 /\ DOMAIN frames'[b] = 1 .. n - 1
         /\ frames'[b][n - 1] = Released(frames[b][n - 1], frames[b][n])
         /\ \A k \in 1 .. n - 2 : frames'[b][k] = frames[b][k]
         /\ \A c \in Backends \ {b} : frames'[c] = frames[c]
<1> DEFINE fs == SubSeq(frames[b], 1, n - 2)
           r == Released(frames[b][n - 1], frames[b][n])
<1>1. /\ frames[b] \in Seq(Frame) /\ n \in Nat /\ n > 1
      /\ \A k \in 1 .. n : frames[b][k] \in Frame
  BY BackendHolds DEF SubCommit
<1>2. n - 1 \in 1 .. n /\ n \in 1 .. n /\ n - 2 \in Nat /\ n - 2 <= n
  BY <1>1
<1>3. r \in Frame
  BY <1>1, <1>2, ReleasedType
<1>4. /\ fs \in Seq(Frame) /\ Len(fs) = n - 2
      /\ \A k \in 1 .. n - 2 : fs[k] = frames[b][k]
  BY <1>1, <1>2, FramesBut
<1>5. frames' = [frames EXCEPT ![b] = Append(fs, r)]
  BY DEF SubCommit, TopFrame
<1> HIDE DEF fs, r
<1>6. /\ Append(fs, r) \in Seq(Frame) /\ Len(Append(fs, r)) = n - 2 + 1
      /\ \A k \in 1 .. n - 2 : Append(fs, r)[k] = fs[k]
      /\ Append(fs, r)[n - 2 + 1] = r
  BY <1>3, <1>4, AppendProperties
<1>7. n - 2 + 1 = n - 1
  BY <1>1
<1>8. frames'[b] = Append(fs, r) /\ \A c \in Backends \ {b} : frames'[c] = frames[c]
  BY <1>5 DEF IInv, XactInv
<1>9. DOMAIN frames'[b] = 1 .. n - 1
  BY <1>6, <1>7, <1>8, LenProperties
<1> QED BY <1>1, <1>2, <1>4, <1>6, <1>7, <1>8, <1>9 DEF r

\* What it has.
LEMMA ReleasedIs ==
  ASSUME NEW parent, NEW f
  PROVE  /\ Released(parent, f).sub = parent.sub
         /\ Released(parent, f).rows = parent.rows \cup f.rows
         /\ Released(parent, f).locks = parent.locks \cup f.locks
         /\ Released(parent, f).excl = parent.excl \cup f.excl
         /\ \A i \in Indexes : Released(parent, f).undo[i] =
              IF parent.undo[i] = None THEN f.undo[i] ELSE parent.undo[i]
<1> DEFINE undo == [i \in Indexes |-> IF parent.undo[i] = None THEN f.undo[i] ELSE parent.undo[i]]
<1>1. /\ Released(parent, f).sub = parent.sub
      /\ Released(parent, f).rows = parent.rows \cup f.rows
      /\ Released(parent, f).locks = parent.locks \cup f.locks
      /\ Released(parent, f).excl = parent.excl \cup f.excl
  BY DEF Released
<1>2. Released(parent, f).undo = undo
  BY DEF Released
<1> QED BY <1>1, <1>2

\* The last two frames made one.
Merged(fs, gs, n) ==
  /\ n > 1 /\ DOMAIN fs = 1 .. n /\ DOMAIN gs = 1 .. n - 1
  /\ gs[n - 1] = Released(fs[n - 1], fs[n])
  /\ \A k \in 1 .. n - 2 : gs[k] = fs[k]

\* Merging keeps rows, locks and saved entries.
LEMMA MergedFrames ==
  ASSUME NEW fs, NEW gs, NEW n \in Nat, Merged(fs, gs, n),
         NEW m, m = [f \in 1 .. n |-> IF f = n THEN n - 1 ELSE f]
  PROVE  /\ Inherited(fs, gs, m) /\ Regrouped(fs, gs)
         /\ \A f \in DOMAIN fs : \A r \in fs[f].rows : \E g \in DOMAIN gs : r \in gs[g].rows
<1>0. /\ n > 1 /\ DOMAIN fs = 1 .. n /\ DOMAIN gs = 1 .. n - 1
      /\ gs[n - 1] = Released(fs[n - 1], fs[n])
      /\ \A k \in 1 .. n - 2 : gs[k] = fs[k]
  BY DEF Merged
<1>1. /\ \A k \in 1 .. n - 1 : k \in 1 .. n - 2 \/ k = n - 1
      /\ \A k \in 1 .. n - 2 : k \in 1 .. n /\ k # n /\ k \in 1 .. n - 1 /\ k < n - 1
      /\ n - 1 \in 1 .. n /\ n \in 1 .. n /\ n - 1 # n /\ n - 1 < n /\ n - 1 \in 1 .. n - 1
      /\ \A k \in 1 .. n : k \in 1 .. n - 2 \/ k = n - 1 \/ k = n
      /\ \A g, h \in 1 .. n - 1 : g < h => g \in 1 .. n - 2
      /\ \A g \in 1 .. n - 2 : g < n
  BY <1>0
<1>2. /\ gs[n - 1].rows = fs[n - 1].rows \cup fs[n].rows
      /\ gs[n - 1].locks = fs[n - 1].locks \cup fs[n].locks
      /\ gs[n - 1].excl = fs[n - 1].excl \cup fs[n].excl
      /\ \A i \in Indexes : gs[n - 1].undo[i] =
              IF fs[n - 1].undo[i] = None THEN fs[n].undo[i] ELSE fs[n - 1].undo[i]
  BY <1>0, ReleasedIs
<1>3. ASSUME NEW g \in DOMAIN gs, NEW r \in gs[g].rows
      PROVE  \E f \in DOMAIN fs : r \in fs[f].rows /\ m[f] = g /\ fs[f].locks \subseteq gs[g].locks
  <2>1. CASE g \in 1 .. n - 2
    <3>1. g \in DOMAIN fs /\ m[g] = g /\ gs[g] = fs[g]
      BY <1>0, <1>1, <2>1
    <3> QED BY <1>0, <1>3, <3>1
  <2>2. CASE g = n - 1 /\ r \in fs[n - 1].rows
    <3>1. n - 1 \in DOMAIN fs /\ m[n - 1] = n - 1
      BY <1>0, <1>1
    <3> QED BY <1>2, <2>2, <3>1
  <2>3. CASE g = n - 1 /\ r \in fs[n].rows
    <3>1. n \in DOMAIN fs /\ m[n] = n - 1
      BY <1>0, <1>1
    <3> QED BY <1>2, <2>3, <3>1
  <2> QED BY <1>0, <1>1, <1>2, <1>3, <2>1, <2>2, <2>3
<1>4. \A g \in DOMAIN gs : \A i \in Indexes :
        /\ i \in gs[g].locks => \E f \in DOMAIN fs : i \in fs[f].locks
        /\ i \in gs[g].excl => \E f \in DOMAIN fs : i \in fs[f].excl
  BY <1>0, <1>1, <1>2
<1>5. ASSUME NEW g \in DOMAIN gs, NEW i \in Indexes, Undone(gs, g, i)
      PROVE  \E f \in DOMAIN fs : /\ Undone(fs, f, i) /\ gs[g].undo[i] = fs[f].undo[i]
                                  /\ g \in 1 .. n - 2 => f = g
                                  /\ g = n - 1 => f = n - 1 \/ f = n
  <2>1. CASE g \in 1 .. n - 2
    BY <1>0, <1>1, <1>5, <2>1 DEF Undone
  <2>2. CASE g = n - 1 /\ Undone(fs, n - 1, i)
    BY <1>0, <1>1, <1>2, <2>2 DEF Undone
  <2>3. CASE g = n - 1 /\ ~Undone(fs, n - 1, i)
    BY <1>0, <1>1, <1>2, <1>5, <2>3 DEF Undone
  <2> QED BY <1>0, <1>1, <2>1, <2>2, <2>3
<1>6. ASSUME NEW g \in DOMAIN gs, NEW h \in DOMAIN gs, NEW i \in Indexes,
             g < h, Undone(gs, g, i), Undone(gs, h, i)
      PROVE  \E f, k \in DOMAIN fs :
               /\ f < k /\ Undone(fs, f, i) /\ Undone(fs, k, i)
               /\ gs[g].undo[i] = fs[f].undo[i] /\ gs[h].undo[i] = fs[k].undo[i]
  <2>1. g \in 1 .. n - 2 /\ g \in DOMAIN fs /\ Undone(fs, g, i) /\ gs[g].undo[i] = fs[g].undo[i]
    BY <1>0, <1>1, <1>6 DEF Undone
  <2>2. PICK k \in DOMAIN fs : /\ Undone(fs, k, i) /\ gs[h].undo[i] = fs[k].undo[i]
                               /\ h \in 1 .. n - 2 => k = h
                               /\ h = n - 1 => k = n - 1 \/ k = n
    BY <1>5, <1>6
  <2>3. g < k
    BY <1>0, <1>1, <1>6, <2>1, <2>2
  <2> QED BY <2>1, <2>2, <2>3
<1>7. Regrouped(fs, gs)
  BY <1>4, <1>5, <1>6 DEF Regrouped
<1>8. ASSUME NEW f \in DOMAIN fs, NEW r \in fs[f].rows
      PROVE  \E g \in DOMAIN gs : r \in gs[g].rows
  BY <1>0, <1>1, <1>2, <1>8
<1> QED BY <1>3, <1>7, <1>8 DEF Inherited

\* RELEASE SAVEPOINT.
LEMMA SubCommitRows ==
  ASSUME IInv, IInv', StashInv, RowInv, NEW b \in Backends, SubCommit(b)
  PROVE  RowInv'
<1> DEFINE fs == frames[b]
           gs == frames'[b]
           n == Len(fs)
           s == fs[n].sub
           parent == fs[n - 1].sub
           kept == StashCommit(discarded[b], s, parent)
<1>1. /\ UNCHANGED <<catalog, heap, image, nextFile, nextSub, stmt, vacuum>>
      /\ fs # <<>> /\ stmt[b] = None
      /\ pending' = [pending EXCEPT ![b] = MarkPending(@, "commit")]
      /\ discarded' = [discarded EXCEPT ![b] = MarkStash(StashCommit(@, s, parent), "commit")]
  BY DEF SubCommit, Idle, storeVars, CurrentSub
<1>2. /\ pending'[b] = MarkPending(pending[b], "commit")
      /\ discarded'[b] = MarkStash(kept, "commit")
      /\ \A c \in Backends \ {b} : pending'[c] = pending[c] /\ discarded'[c] = discarded[c]
  BY <1>1 DEF IInv, PendingInv, DiscardedInv
<1>3. /\ n \in Nat /\ n > 1 /\ n - 1 \in 1 .. n /\ n \in 1 .. n
      /\ fs[n] \in Frame /\ fs[n - 1] \in Frame
      /\ gs \in Seq(Frame) /\ Len(gs) = n - 1 /\ DOMAIN gs = 1 .. n - 1
      /\ gs[n - 1] = Released(fs[n - 1], fs[n])
      /\ \A k \in 1 .. n - 2 : gs[k] = fs[k]
      /\ \A c \in Backends \ {b} : frames'[c] = frames[c]
  BY SubCommitShape
<1>4. /\ Holding(pending[b], discarded[b], fs) /\ fs \in Seq(Frame) /\ DOMAIN fs = 1 .. n
      /\ Views(pending[b], discarded[b], fs, catalog, image, Busy(b))
      /\ StashOK(discarded[b])
  BY BackendHolds DEF RowInv, ViewInv, ViewOf, IInv, DiscardedInv
<1>5. /\ Busy(b)' = {} /\ Busy(b) = {}
      /\ s \in Nat /\ parent \in Nat /\ SubsOK(b) /\ ExclOK(b)
  BY <1>1, <1>3 DEF Busy, Frame, RowInv, SubsInv, LocksInv
<1>6. StashOK(kept)
  BY <1>4, <1>5, StashCommitOK
<1>7. \A f, g \in 1 .. n : f < g => fs[f].sub # fs[g].sub
  BY SubsDiffer DEF RowInv
<1>8. PICK m : m = [f \in 1 .. n |-> IF f = n THEN n - 1 ELSE f]
  OBVIOUS
<1>9. /\ Inherited(fs, gs, m) /\ Regrouped(fs, gs)
      /\ \A f \in DOMAIN fs : \A r \in fs[f].rows : \E g \in DOMAIN gs : r \in gs[g].rows
  <2>1. Merged(fs, gs, n)
    BY <1>3, <1>4 DEF Merged
  <2> HIDE DEF n, fs, gs
  <2> QED BY <1>3, <1>8, <2>1, MergedFrames
<1>10. /\ \A k \in 1 .. n - 1 : k \in 1 .. n - 2 \/ k = n - 1
       /\ \A k \in 1 .. n - 2 : k \in 1 .. n
       /\ n - 1 < n
  BY <1>3
<1>11. /\ gs[n - 1].sub = parent /\ gs[n - 1].excl = fs[n - 1].excl \cup fs[n].excl
       /\ \A i \in Indexes : Undone(gs, n - 1, i) <=> Undone(fs, n - 1, i) \/ Undone(fs, n, i)
       /\ \A k \in 1 .. n - 2 : \A i : Undone(gs, k, i) <=> Undone(fs, k, i)
  <2>1. /\ gs[n - 1].sub = parent /\ gs[n - 1].excl = fs[n - 1].excl \cup fs[n].excl
        /\ \A i \in Indexes : gs[n - 1].undo[i] =
             IF fs[n - 1].undo[i] = None THEN fs[n].undo[i] ELSE fs[n - 1].undo[i]
    BY <1>3, ReleasedIs
  <2> QED BY <1>3, <2>1 DEF Undone
<1>12. \A k \in 1 .. n - 1 : gs[k].sub = fs[k].sub /\ k \in 1 .. n
  BY <1>3, <1>10, <1>11
<1>13. ViewOf(b)'
  <2>1. PICK busy : busy = {}
    OBVIOUS
  <2>2. PICK gs2 \in Seq(Frame) : gs2 = gs
    BY <1>3
  <2>3. PICK kept2 : kept2 = kept
    OBVIOUS
  <2>4. Views(MarkPending(pending[b], "commit"), MarkStash(kept2, "commit"), gs2, catalog, image, busy)
    <3> HIDE DEF fs, gs
    <3> QED BY <1>3, <1>4, <1>5, <1>6, <1>7, <2>1, <2>2, <2>3, CommittedSub, ZenonT(60)
  <2> QED BY <1>1, <1>2, <1>5, <2>1, <2>2, <2>3, <2>4 DEF ViewOf
<1>14. StmtRowOK(b)'
  BY <1>1 DEF StmtRowOK
<1>15. SubsOK(b)'
  <2>1. gs # <<>>
    BY <1>3, EmptySeq
  <2>2. \A f \in 1 .. n - 1 : gs[f].sub < nextSub[b]
    BY <1>4, <1>5, <1>12 DEF SubsOK
  <2>3. \A f, g \in 1 .. n - 1 : f < g => gs[f].sub < gs[g].sub
    BY <1>4, <1>5, <1>12 DEF SubsOK
  <2> QED BY <1>1, <1>3, <1>5, <2>1, <2>2, <2>3 DEF SubsOK
<1> HIDE DEF n, s, parent
<1>16. ExclOK(b)'
  <2>1. ASSUME NEW f \in 1 .. n - 1, NEW i \in Indexes
        PROVE  Undone(gs, f, i) <=> i \in gs[f].excl
    <3>1. \A k \in 1 .. n : Undone(fs, k, i) <=> i \in fs[k].excl
      BY <1>4, <1>5 DEF ExclOK
    <3> QED BY <1>3, <1>10, <1>11, <3>1
  <2>2. ASSUME NEW e \in discarded[b], NEW f \in 1 .. n, e.sub = fs[f].sub
        PROVE  Undone(fs, f, e.write.idx) /\ e.write.idx \in Indexes
    BY <1>4, <1>5, <2>2 DEF ExclOK, StashOK, WriteOK, Write
  <2>3. ASSUME NEW d \in MarkStash(kept, "commit"), NEW f \in 1 .. n - 1, d.sub = gs[f].sub
        PROVE  Undone(gs, f, d.write.idx)
    <3>1. PICK c \in kept : d = [sub |-> c.sub, write |-> ApplyMarkEvent(c.write, "commit")]
      BY DEF MarkStash
    <3>2. d.sub = c.sub /\ d.write.idx = c.write.idx
      <4>1. c.write \in Write
        BY <1>6 DEF StashOK, WriteOK
      <4> QED BY <3>1, <4>1 DEF ApplyMarkEvent, MarkCommit, PopMark, Write
    <3>3. CASE c \in discarded[b]
      <4>1. c.sub = fs[f].sub /\ f \in 1 .. n
        BY <1>12, <2>3, <3>2
      <4>2. Undone(fs, f, c.write.idx) /\ c.write.idx \in Indexes
        BY <2>2, <3>3, <4>1
      <4> QED BY <1>10, <1>11, <3>2, <4>2
    <3>4. CASE c \notin discarded[b]
      <4>1. PICK e \in discarded[b] : c = [sub |-> parent, write |-> e.write] /\ e.sub = s
        BY <3>4 DEF StashCommit, StashDrain, StashOf
      <4>2. c.sub = parent /\ c.write = e.write
        BY <4>1
      <4>3. Undone(fs, n, e.write.idx) /\ e.write.idx \in Indexes
        BY <1>3, <2>2, <4>1 DEF s
      <4>4. f = n - 1
        <5> SUFFICES ASSUME f \in 1 .. n - 2 PROVE FALSE
          BY <1>10
        <5>1. f < n - 1 /\ f \in 1 .. n
          BY <1>3
        <5>2. fs[f].sub # fs[n - 1].sub
          BY <1>3, <1>7, <5>1
        <5> QED BY <1>12, <2>3, <3>2, <4>2, <5>2 DEF parent
      <4> QED BY <1>11, <3>2, <4>2, <4>3, <4>4
    <3> QED BY <3>3, <3>4
  <2> QED BY <1>2, <1>3, <2>1, <2>3 DEF ExclOK
<1> HIDE DEF fs, gs
<1> QED BY <1>1, <1>2, <1>3, <1>9, <1>13, <1>14, <1>15, <1>16, XactStep DEF fs, gs

\* A transaction that ends leaves its backend with nothing.
LEMMA EndedXact ==
  ASSUME IInv, NEW b \in Backends, EndXact(b), discarded' = [discarded EXCEPT ![b] = {}]
  PROVE  /\ frames'[b] = <<>> /\ DOMAIN frames'[b] = {} /\ discarded'[b] = {}
         /\ nextSub'[b] > TopSubTransactionId
         /\ \A c \in Backends \ {b} : /\ frames'[c] = frames[c] /\ nextSub'[c] = nextSub[c]
                                      /\ discarded'[c] = discarded[c]
         /\ Regrouped(frames[b], frames'[b]) /\ \A m : Inherited(frames[b], frames'[b], m)
<1>1. /\ frames'[b] = <<>> /\ nextSub'[b] = TopSubTransactionId + 1 /\ discarded'[b] = {}
      /\ \A c \in Backends \ {b} : /\ frames'[c] = frames[c] /\ nextSub'[c] = nextSub[c]
                                   /\ discarded'[c] = discarded[c]
  BY DEF EndXact, IInv, XactInv, DiscardedInv
<1>2. DOMAIN frames'[b] = {}
  BY <1>1
<1> QED BY <1>1, <1>2 DEF Regrouped, Inherited, TopSubTransactionId

\* COMMIT finds every row it inserted in the image.
LEMMA CommitRows ==
  ASSUME IInv, IInv', RowInv, NEW b \in Backends, Commit(b)
  PROVE  RowInv'
<1>1. /\ ViewInv /\ EntryInv /\ SubsInv /\ FileInv /\ LocksInv /\ OwnInv /\ StmtRowInv /\ DeadInv
  BY DEF RowInv
<1>2. /\ UNCHANGED <<catalog, heap, image, nextFile, pending, vacuum>>
      /\ EndXact(b) /\ discarded' = [discarded EXCEPT ![b] = {}]
      /\ stmt' = [stmt EXCEPT ![b] = None]
      /\ stmt[b] # None /\ stmt[b].step = "work" /\ stmt[b].kind = "commit"
  BY DEF Commit, storeVars, AtStep
<1>3. /\ frames'[b] = <<>> /\ DOMAIN frames'[b] = {} /\ discarded'[b] = {}
      /\ nextSub'[b] > TopSubTransactionId
      /\ \A c \in Backends \ {b} : /\ frames'[c] = frames[c] /\ nextSub'[c] = nextSub[c]
                                   /\ discarded'[c] = discarded[c]
      /\ Regrouped(frames[b], frames'[b]) /\ \A m : Inherited(frames[b], frames'[b], m)
  BY <1>2, EndedXact
<1>4. stmt'[b] = None /\ \A c \in Backends \ {b} : stmt'[c] = stmt[c]
  BY <1>2, EndStep
<1>5. pending[b] = None /\ Busy(b) = {} /\ frames[b] # <<>>
  <2>1. ~Takes(stmt[b], pending[b])
    BY <1>1, <1>2 DEF StmtRowInv, StmtRowOK
  <2> QED BY <1>2, <2>1 DEF Takes, Busy, IInv, StmtInv
<1>6. \A c \in Backends \ {b} : Bystander(c)
  BY <1>2, <1>3, <1>4 DEF Bystander, Untouched
<1>7. ViewInv' /\ StmtRowInv' /\ SubsInv'
  <2>1. \A c \in Backends \ {b} : ViewOf(c)' /\ StmtRowOK(c)' /\ SubsOK(c)'
    BY <1>1, <1>6, BystanderView, BystanderStmt, BystanderSubs
  <2>2. ViewOf(b)'
    BY <1>3 DEF ViewOf, Views
  <2>3. StmtRowOK(b)' /\ SubsOK(b)'
    BY <1>2, <1>3, <1>4, <1>5 DEF StmtRowOK, SubsOK
  <2> QED BY <2>1, <2>2, <2>3 DEF ViewInv, StmtRowInv, SubsInv
<1>8. EntryInv'
  <2> SUFFICES ASSUME NEW i \in Indexes, NEW e, EntryFor(catalog', frames', i, e), e.exists
               PROVE  EntryOK(i, e)'
    BY EntryInvFrom
  <2>1. EntryFor(catalog, frames, i, e)
    <3>1. e = catalog'[i] \/ EntryFor(catalog, frames, i, e)
      BY <1>3, EntriesFrom
    <3> QED BY <1>2, <3>1 DEF EntryFor
  <2>2. ASSUME NEW t \in Tids, Owned(frames, i, e.heap, t), ~Owned(frames', i, e.heap, t)
        PROVE  t \in LiveTids(image[i][e.file])
    <3>1. PICK c \in Backends : \E f \in DOMAIN frames[c] : <<i, e.heap, t>> \in frames[c][f].rows
      BY <2>2 DEF Owned
    <3>2. c = b
      BY <1>3, <2>2, <3>1 DEF Owned
    <3>3. PICK f \in DOMAIN frames[b] : <<i, e.heap, t>> \in frames[b][f].rows
      BY <3>1, <3>2
    <3>4. i \in LocksOf(b)
      BY <1>1, <3>3, OpenRow
    <3>5. e = catalog[i]
      <4> SUFFICES ASSUME NEW d \in Backends, NEW g \in DOMAIN frames'[d],
                          Undone(frames'[d], g, i)
                   PROVE  FALSE
        BY <1>2 DEF EntryFor
      <4>1. d \in Backends \ {b} /\ frames'[d] = frames[d]
        BY <1>3
      <4>2. g \in DOMAIN frames[d] /\ Undone(frames[d], g, i)
        BY <4>1
      <4> QED BY <1>1, <3>4, <4>1, <4>2, HasExcl
    <3>6. Kept(frames[b], Len(frames[b]), pending[b], i, catalog[i],
               image[i][catalog[i].file], Busy(b))
      BY <1>1, <1>5, <3>5, SlotTop
    <3>7. DOMAIN frames[b] = 1 .. Len(frames[b])
      BY BackendHolds
    <3> QED BY <1>5, <3>3, <3>5, <3>6, <3>7 DEF Kept
  <2> QED BY <1>1, <1>2, <2>1, <2>2, EntryStays
<1>9. FileInv'
  <2>1. UndoInv'
    BY <1>1, <1>2, <1>3, UndoKept DEF FileInv
  <2>2. \A j \in Indexes : FileOK(j)'
    BY <1>1, <1>2 DEF FileInv, FileOK
  <2> QED BY <2>1, <2>2 DEF FileInv
<1>10. LocksInv'
  <2>1. ExclOK(b)'
    BY <1>3 DEF ExclOK
  <2> QED BY <1>1, <1>2, <1>3, <2>1, LocksKept
<1>11. OwnInv'
  BY <1>1, <1>2, <1>3, OwnKept
<1>12. DeadInv'
  BY <1>1, <1>2 DEF DeadInv, CurrentHeap, CurrentImage
<1> QED BY <1>7, <1>8, <1>9, <1>10, <1>11, <1>12 DEF RowInv

\* Each frame that is left is the one it was.
LEMMA UnnestedFrames ==
  ASSUME NEW fs \in Seq(Frame), fs # <<>>, NEW gs, Unnested(fs, gs),
         NEW m, m = [k \in DOMAIN fs |-> k]
  PROVE  /\ Inherited(fs, gs, m) /\ Regrouped(fs, gs)
         /\ \A k \in DOMAIN gs : k \in DOMAIN fs /\ gs[k] = fs[k] /\ k < Len(fs)
         /\ \A k \in DOMAIN fs : k # Len(fs) => k \in DOMAIN gs
         /\ Len(fs) \in DOMAIN fs
<1>1. Len(fs) \in Nat /\ DOMAIN fs = 1 .. Len(fs) /\ Len(fs) # 0
  BY EmptySeq
<1>2. /\ \A k \in 1 .. Len(fs) - 1 : k \in 1 .. Len(fs) /\ k < Len(fs)
      /\ \A k \in 1 .. Len(fs) : k # Len(fs) => k \in 1 .. Len(fs) - 1
      /\ Len(fs) \in 1 .. Len(fs)
  <2>1. PICK p \in Nat : p = Len(fs) /\ p # 0
    BY <1>1
  <2>2. /\ \A k \in 1 .. p - 1 : k \in 1 .. p /\ k < p
        /\ \A k \in 1 .. p : k # p => k \in 1 .. p - 1
        /\ p \in 1 .. p
    BY <2>1
  <2> QED BY <2>1, <2>2
<1>3. /\ \A k \in DOMAIN gs : k \in DOMAIN fs /\ gs[k] = fs[k] /\ k < Len(fs)
      /\ \A k \in DOMAIN fs : k # Len(fs) => k \in DOMAIN gs
      /\ Len(fs) \in DOMAIN fs
  BY <1>1, <1>2 DEF Unnested
<1>4. Inherited(fs, gs, m)
  BY <1>3 DEF Inherited
<1>5. Regrouped(fs, gs)
  BY <1>3 DEF Regrouped, Undone
<1> QED BY <1>3, <1>4, <1>5

\* What PostgreSQL undoes when a frame goes down.
LEMMA UndoneFrame ==
  ASSUME IInv, NEW b \in Backends, frames[b] # <<>>, UndoFrame(TopFrame(b)),
         NEW n, n = Len(frames[b])
  PROVE  /\ \A i \in Indexes, h \in FileNos, t \in Tids :
              /\ <<i, h, t>> \in frames[b][n].rows => heap'[i][h][t] = "dead"
              /\ <<i, h, t>> \notin frames[b][n].rows => heap'[i][h][t] = heap[i][h][t]
         /\ \A i \in Indexes :
              /\ Undone(frames[b], n, i) => catalog'[i] = frames[b][n].undo[i]
              /\ ~Undone(frames[b], n, i) => catalog'[i] = catalog[i]
BY DEF UndoFrame, TopFrame, Undone

\* The innermost frame goes down; the rest of what an abort does concerns one backend.
LEMMA AbortStep ==
  ASSUME IInv, IInv', RowInv, NEW b \in Backends, frames[b] # <<>>,
         UndoFrame(TopFrame(b)), UNCHANGED <<image, nextFile, vacuum>>,
         \A c \in Backends \ {b} : /\ frames'[c] = frames[c] /\ nextSub'[c] = nextSub[c]
                                   /\ pending'[c] = pending[c] /\ discarded'[c] = discarded[c]
                                   /\ stmt'[c] = stmt[c],
         Unnested(frames[b], frames'[b]), stmt'[b] = None,
         ViewOf(b)', SubsOK(b)', ExclOK(b)'
  PROVE  RowInv'
<1> DEFINE n == Len(frames[b])
<1>1. /\ ViewInv /\ EntryInv /\ SubsInv /\ FileInv /\ LocksInv /\ OwnInv /\ StmtRowInv /\ DeadInv
  BY DEF RowInv
<1>2. /\ \A i \in Indexes, h \in FileNos, t \in Tids :
           /\ <<i, h, t>> \in frames[b][n].rows => heap'[i][h][t] = "dead"
           /\ <<i, h, t>> \notin frames[b][n].rows => heap'[i][h][t] = heap[i][h][t]
      /\ \A i \in Indexes :
           /\ Undone(frames[b], n, i) => catalog'[i] = frames[b][n].undo[i]
           /\ ~Undone(frames[b], n, i) => catalog'[i] = catalog[i]
  BY UndoneFrame
<1>3. PICK m : m = [k \in DOMAIN frames[b] |-> k]
  OBVIOUS
<1>4. /\ Inherited(frames[b], frames'[b], m) /\ Regrouped(frames[b], frames'[b])
      /\ \A k \in DOMAIN frames'[b] : k \in DOMAIN frames[b] /\ frames'[b][k] = frames[b][k] /\ k < n
      /\ \A k \in DOMAIN frames[b] : k # n => k \in DOMAIN frames'[b]
      /\ n \in DOMAIN frames[b]
  <2>1. frames[b] \in Seq(Frame)
    BY BackendHolds
  <2>2. PICK fs \in Seq(Frame) : fs = frames[b]
    BY <2>1
  <2>3. PICK gs : gs = frames'[b]
    OBVIOUS
  <2>4. fs # <<>> /\ Unnested(fs, gs) /\ m = [k \in DOMAIN fs |-> k]
    BY <1>3, <2>2, <2>3
  <2>5. /\ Inherited(fs, gs, m) /\ Regrouped(fs, gs)
        /\ \A k \in DOMAIN gs : k \in DOMAIN fs /\ gs[k] = fs[k] /\ k < Len(fs)
        /\ \A k \in DOMAIN fs : k # Len(fs) => k \in DOMAIN gs
        /\ Len(fs) \in DOMAIN fs
    BY <2>4, UnnestedFrames
  <2> QED BY <2>2, <2>3, <2>5
<1> HIDE DEF n
<1>5. \A c \in Backends \ {b} : Bystander(c)
  <2> SUFFICES ASSUME NEW c \in Backends \ {b}, NEW i \in Indexes
               PROVE  Untouched(frames[c], catalog, catalog', image, image', i)
    BY DEF Bystander
  <2>1. CASE Undone(frames[b], n, i)
    <3>1. i \notin LocksOf(c)
      BY <1>1, <1>4, <2>1, HasExcl
    <3>2. \A g \in DOMAIN frames[c] : i \notin frames[c][g].locks
            /\ \A h, t : <<i, h, t>> \notin frames[c][g].rows
      BY <1>1, <3>1, NoLock
    <3> QED BY <3>2 DEF Untouched
  <2>2. CASE ~Undone(frames[b], n, i)
    BY <1>2, <2>2 DEF Untouched
  <2> QED BY <2>1, <2>2
<1>6. ViewInv' /\ StmtRowInv' /\ SubsInv'
  <2>1. \A c \in Backends \ {b} : ViewOf(c)' /\ StmtRowOK(c)' /\ SubsOK(c)'
    BY <1>1, <1>5, BystanderView, BystanderStmt, BystanderSubs
  <2>2. StmtRowOK(b)'
    BY DEF StmtRowOK
  <2> QED BY <2>1, <2>2 DEF ViewInv, StmtRowInv, SubsInv
<1>7. ASSUME NEW i \in Indexes, NEW e, EntryFor(catalog', frames', i, e)
      PROVE  EntryFor(catalog, frames, i, e)
  <2>1. e = catalog'[i] \/ EntryFor(catalog, frames, i, e)
    BY <1>4, <1>7, EntriesFrom
  <2>2. CASE e = catalog'[i] /\ Undone(frames[b], n, i)
    BY <1>2, <1>4, <2>2 DEF EntryFor
  <2>3. CASE e = catalog'[i] /\ ~Undone(frames[b], n, i)
    BY <1>2, <2>3 DEF EntryFor
  <2> QED BY <2>1, <2>2, <2>3
<1>8. ASSUME NEW i \in Indexes, NEW h \in FileNos, NEW t \in Tids, Owned(frames, i, h, t)
      PROVE  Owned(frames', i, h, t) \/ <<i, h, t>> \in frames[b][n].rows
  <2>1. PICK c \in Backends : \E k \in DOMAIN frames[c] : <<i, h, t>> \in frames[c][k].rows
    BY <1>8 DEF Owned
  <2>2. PICK k \in DOMAIN frames[c] : <<i, h, t>> \in frames[c][k].rows
    BY <2>1
  <2>3. CASE c = b /\ k = n
    BY <2>2, <2>3
  <2>4. CASE c = b /\ k # n
    <3>1. k \in DOMAIN frames'[c] /\ frames'[c][k] = frames[c][k]
      BY <1>4, <2>2, <2>4
    <3> QED BY <2>2, <3>1 DEF Owned
  <2>5. CASE c # b
    <3>1. k \in DOMAIN frames'[c] /\ frames'[c][k] = frames[c][k]
      BY <2>2, <2>5
    <3> QED BY <2>2, <3>1 DEF Owned
  <2> QED BY <2>3, <2>4, <2>5
<1>9. EntryInv'
  <2> SUFFICES ASSUME NEW i \in Indexes, NEW e, EntryFor(catalog', frames', i, e), e.exists
               PROVE  EntryOK(i, e)'
    BY EntryInvFrom
  <2>1. EntryFor(catalog, frames, i, e)
    BY <1>7
  <2>2. e.heap \in FileNos
    BY <1>1, <2>1, EntryForType
  <2>3. \A t \in LiveTids(image[i][e.file]) :
          heap[i][e.heap][t] # "free" => heap'[i][e.heap][t] # "free"
    <3> SUFFICES ASSUME NEW t \in LiveTids(image[i][e.file]), heap[i][e.heap][t] # "free"
                 PROVE  heap'[i][e.heap][t] # "free"
      OBVIOUS
    <3>1. image[i][e.file] \in Image
      BY <1>1, <2>1, EntryForType DEF IInv, StoreInv
    <3>2. t \in Tids
      BY <3>1, LiveTidsType
    <3> QED BY <1>2, <2>2, <3>2
  <2>4. ASSUME NEW t \in Tids, heap'[i][e.heap][t] = "live", ~Owned(frames', i, e.heap, t)
        PROVE  heap[i][e.heap][t] = "live" /\ ~Owned(frames, i, e.heap, t)
    <3>1. <<i, e.heap, t>> \notin frames[b][n].rows
      BY <1>2, <2>2, <2>4
    <3> QED BY <1>2, <1>8, <2>2, <2>4, <3>1
  <2> QED BY <1>1, <2>1, <2>3, <2>4, EntryStays
<1>10. \A i \in Indexes : FileOK(i)'
  <2> SUFFICES ASSUME NEW i \in Indexes PROVE FileOK(i)'
    OBVIOUS
  <2>1. catalog'[i].heap < nextFile[i] /\ catalog'[i].file < nextFile[i]
    <3>1. EntryFor(catalog, frames, i, catalog'[i])
      <4>1. EntryFor(catalog', frames', i, catalog'[i])
        BY DEF EntryFor
      <4>2. PICK e : e = catalog'[i]
        OBVIOUS
      <4> QED BY <1>7, <4>1, <4>2
    <3>2. PICK e : e = catalog'[i]
      OBVIOUS
    <3>3. e.heap < nextFile[i] /\ e.file < nextFile[i]
      BY <1>1, <3>1, <3>2, EntryForType
    <3> QED BY <3>2, <3>3
  <2>2. ASSUME NEW h \in FileNos, h >= nextFile[i], NEW t \in Tids
        PROVE  heap'[i][h][t] = "free"
    <3>1. heap[i][h][t] = "free"
      BY <1>1, <2>2 DEF FileInv, FileOK
    <3>2. <<i, h, t>> \notin frames[b][n].rows
      BY <1>1, <1>4, <3>1, OpenRow
    <3> QED BY <1>2, <3>1, <3>2
  <2> QED BY <2>1, <2>2 DEF FileOK
<1>11. UndoInv'
  <2> SUFFICES ASSUME NEW c \in Backends, NEW g \in DOMAIN frames'[c], NEW i \in Indexes,
                      Undone(frames'[c], g, i)
               PROVE  UndoOK(i, frames[c], g)'
    BY DEF UndoInv
  <2>1. CASE c # b
    <3>1. frames'[c] = frames[c] /\ Undone(frames[c], g, i) /\ g \in DOMAIN frames[c]
      BY <2>1
    <3>2. UndoOK(i, frames[c], g)
      BY <1>1, <3>1 DEF FileInv, UndoInv
    <3>3. ~Undone(frames[b], n, i)
      <4>1. i \in ExclOf(c)
        BY <1>1, <3>1, HasExcl
      <4> QED BY <1>1, <1>4, <2>1, <4>1, HasExcl
    <3>4. catalog'[i] = catalog[i]
      BY <1>2, <3>3
    <3> QED BY <3>1, <3>2, <3>4 DEF UndoOK
  <2>2. CASE c = b
    <3> DEFINE fs == frames[b]
               gs == frames'[b]
               u == fs[g].undo[i]
    <3>1. /\ g \in DOMAIN fs /\ gs[g] = fs[g] /\ g < n /\ Undone(fs, g, i)
          /\ gs[g].undo[i] = u
      BY <1>4, <2>2 DEF Undone
    <3>2. UndoOK(i, fs, g)
      BY <1>1, <3>1 DEF FileInv, UndoInv
    <3>3. u.exists /\ u.heap < nextFile[i]
      BY <3>2 DEF UndoOK
    <3>4. u.file <= catalog'[i].file /\ (catalog'[i].exists => u.file < catalog'[i].file)
      <4>1. CASE Undone(fs, n, i)
        <5>1. u.file < fs[n].undo[i].file
          BY <1>4, <3>1, <3>2, <4>1 DEF UndoOK
        <5>2. u.file \in Nat /\ fs[n].undo[i].file \in Nat
          <6>1. EntryFor(catalog, frames, i, u) /\ EntryFor(catalog, frames, i, fs[n].undo[i])
            BY <1>4, <3>1, <4>1 DEF EntryFor
          <6>2. PICK u2 : u2 = u
            OBVIOUS
          <6>3. PICK v2 : v2 = fs[n].undo[i]
            OBVIOUS
          <6>4. u2.file \in Nat /\ v2.file \in Nat
            BY <1>1, <6>1, <6>2, <6>3, EntryForType
          <6> QED BY <6>2, <6>3, <6>4
        <5>3. catalog'[i].file = fs[n].undo[i].file
          BY <1>2, <4>1
        <5> QED BY <5>1, <5>2, <5>3
      <4>2. CASE ~Undone(fs, n, i)
        BY <1>2, <3>2, <4>2 DEF UndoOK
      <4> QED BY <4>1, <4>2
    <3>5. ASSUME NEW h \in DOMAIN gs, g < h, Undone(gs, h, i)
          PROVE  u.file < gs[h].undo[i].file
      <4>1. h \in DOMAIN fs /\ gs[h] = fs[h] /\ Undone(fs, h, i)
        BY <1>4, <3>5 DEF Undone
      <4> QED BY <3>2, <3>5, <4>1 DEF UndoOK
    <3> QED BY <2>2, <3>1, <3>3, <3>4, <3>5 DEF UndoOK
  <2> QED BY <2>1, <2>2
<1>12. LocksInv'
  BY <1>1, <1>4, LocksKept
<1>13. OwnInv'
  <2>1. ASSUME NEW c \in Backends, NEW k \in DOMAIN frames'[c], NEW j, NEW h, NEW t,
               <<j, h, t>> \in frames'[c][k].rows, heap[j][h][t] = "live"
        PROVE  heap'[j][h][t] = "live"
    <3>1. k \in DOMAIN frames[c] /\ <<j, h, t>> \in frames[c][k].rows /\ (c = b => k < n)
      <4>1. CASE c = b
        BY <1>4, <2>1, <4>1
      <4>2. CASE c # b
        BY <2>1, <4>2
      <4> QED BY <4>1, <4>2
    <3>2. j \in Indexes /\ h \in FileNos /\ t \in Tids
      BY <1>1, <3>1, OpenRow
    <3>3. <<j, h, t>> \notin frames[b][n].rows
      <4> SUFFICES ASSUME <<j, h, t>> \in frames[b][n].rows PROVE FALSE
        OBVIOUS
      <4>1. c = b /\ k = n
        BY <1>1, <1>4, <3>1, OneOwner
      <4>2. n \in Nat
        BY BackendHolds DEF n
      <4> QED BY <3>1, <4>1, <4>2
    <3> QED BY <1>2, <2>1, <3>2, <3>3
  <2> QED BY <1>1, <1>4, <2>1, OwnKept
<1>14. DeadInv'
  <2> SUFFICES ASSUME vacuum # None
               PROVE  /\ catalog'[vacuum.idx].exists
                      /\ \A t \in vacuum.dead : heap'[vacuum.idx][catalog'[vacuum.idx].heap][t] = "dead"
                      /\ vacuum.step = "heap" =>
                           LiveTids(image[vacuum.idx][catalog'[vacuum.idx].file]) \cap vacuum.dead = {}
    BY DEF DeadInv, CurrentHeap, CurrentImage
  <2>1. vacuum.idx \in Indexes /\ vacuum.dead \in SUBSET Tids
    BY DEF IInv, VacuumInv, Vacuum
  <2>2. catalog'[vacuum.idx] = catalog[vacuum.idx]
    <3>1. \A i \in Indexes : Undone(frames[b], n, i) => vacuum.idx # i
      BY <1>1, <1>4, HasExcl
    <3> QED BY <1>2, <2>1, <3>1
  <2>3. catalog[vacuum.idx].heap \in FileNos
    BY <2>1 DEF IInv, StoreInv, Entry
  <2>4. ASSUME NEW t \in vacuum.dead
        PROVE  heap'[vacuum.idx][catalog[vacuum.idx].heap][t] = "dead"
    <3>1. t \in Tids /\ heap[vacuum.idx][catalog[vacuum.idx].heap][t] = "dead"
      BY <1>1, <2>1 DEF DeadInv, CurrentHeap
    <3> QED BY <1>2, <2>1, <2>3, <3>1
  <2> QED BY <1>1, <2>2, <2>4 DEF DeadInv, CurrentHeap, CurrentImage
<1>15. FileInv'
  BY <1>10, <1>11 DEF FileInv
<1> QED BY <1>6, <1>9, <1>12, <1>13, <1>14, <1>15 DEF RowInv

\* A transaction that goes down as a whole takes everything it held with it.
LEMMA AbortTopRows ==
  ASSUME IInv, IInv', RowInv, NEW b \in Backends, frames[b] # <<>>, ~(Len(frames[b]) > 1),
         UndoFrame(TopFrame(b)), AbortTop(b), stmt' = [stmt EXCEPT ![b] = None],
         UNCHANGED <<image, nextFile, vacuum>>
  PROVE  RowInv'
<1>1. EndXact(b) /\ discarded' = [discarded EXCEPT ![b] = {}]
      /\ pending' = [pending EXCEPT ![b] = None]
  BY DEF AbortTop
<1>2. /\ frames'[b] = <<>> /\ DOMAIN frames'[b] = {} /\ discarded'[b] = {}
      /\ nextSub'[b] > TopSubTransactionId
      /\ \A c \in Backends \ {b} : /\ frames'[c] = frames[c] /\ nextSub'[c] = nextSub[c]
                                   /\ discarded'[c] = discarded[c]
  BY <1>1, EndedXact
<1>3. pending'[b] = None /\ \A c \in Backends \ {b} : pending'[c] = pending[c]
  BY <1>1 DEF IInv, PendingInv
<1>4. stmt'[b] = None /\ \A c \in Backends \ {b} : stmt'[c] = stmt[c]
  BY EndStep
<1>5. Unnested(frames[b], frames'[b])
  <2>1. Len(frames[b]) \in Nat
    BY BackendHolds
  <2>2. PICK n \in Nat : n = Len(frames[b]) /\ ~(n > 1)
    BY <2>1
  <2>3. 1 .. n - 1 = {}
    BY <2>2
  <2> QED BY <1>2, <2>2, <2>3 DEF Unnested
<1>6. ViewOf(b)' /\ ExclOK(b)'
  BY <1>2 DEF ViewOf, Views, ExclOK
<1>7. SubsOK(b)'
  BY <1>2, <1>3 DEF SubsOK
<1> QED BY <1>2, <1>3, <1>4, <1>5, <1>6, <1>7, AbortStep

\* A rewind is about the same index.
LEMMA AbortedIdx ==
  ASSUME NEW w, WriteOK(w)
  PROVE  MarkAbort(w).idx = w.idx
<1> DEFINE p == PopMark(w)
           mark == TopMark(w)
           prior == IF w.rewind = None THEN mark ELSE w.rewind
           r == IF CountLeq(Staged(w), mark) THEN p.rewind ELSE CountMin(prior, mark)
           marks == IF w.marks = <<>> THEN <<>> ELSE SubSeq(w.marks, 1, Len(w.marks) - 1)
<1>1. w \in Write
  BY DEF WriteOK
<1>2. p = [w EXCEPT !.marks = marks]
  BY DEF PopMark
<1>3. MarkAbort(w) = [p EXCEPT !.rewind = r]
  BY DEF MarkAbort
<1> HIDE DEF marks, r
<1>4. DOMAIN p = DOMAIN w /\ p.idx = w.idx
  BY <1>1, <1>2 DEF Write
<1> HIDE DEF p
<1>5. MarkAbort(w).idx = p.idx
  BY <1>1, <1>3, <1>4 DEF Write
<1> QED BY <1>4, <1>5

\* ROLLBACK TO gives back what the subtransaction had set aside, or else rewinds.
LEMMA AbortSubRows ==
  ASSUME IInv, IInv', RowInv, NEW b \in Backends, Abort(b), Len(frames[b]) > 1
  PROVE  RowInv'
<1> DEFINE fs == frames[b]
           gs == frames'[b]
           n == Len(fs)
           s == fs[n].sub
           kept == StashDrain(discarded[b], s)
           restored == StashRestored(discarded[b], s)
           q == IF restored = None THEN pending[b] ELSE restored
<1>1. /\ UNCHANGED <<image, nextFile, nextSub, vacuum>>
      /\ fs # <<>> /\ stmt[b] = None /\ stmt' = [stmt EXCEPT ![b] = None]
      /\ UndoFrame(TopFrame(b)) /\ AbortSub(b, pending[b])
      /\ pending' = [pending EXCEPT ![b] = MarkPending(q, "abort")]
      /\ discarded' = [discarded EXCEPT ![b] = MarkStash(kept, "abort")]
  BY DEF Abort, Idle, AbortInnermost, AbortSub, CurrentSub
<1>2. /\ pending'[b] = MarkPending(q, "abort")
      /\ discarded'[b] = MarkStash(kept, "abort")
      /\ \A c \in Backends \ {b} : pending'[c] = pending[c] /\ discarded'[c] = discarded[c]
  BY <1>1 DEF IInv, PendingInv, DiscardedInv
<1>3. /\ n \in Nat /\ fs \in Seq(Frame) /\ gs \in Seq(Frame) /\ Len(gs) = n - 1
      /\ \A k \in 1 .. n - 1 : gs[k] = fs[k]
      /\ \A c \in Backends \ {b} : frames'[c] = frames[c]
  <2>1. XactInv
    BY DEF IInv
  <2> QED BY <1>1, <2>1, AbortSubFrames
<1>4. n > 1 /\ DOMAIN gs = 1 .. n - 1
  BY <1>3, LenProperties
<1>5. /\ stmt'[b] = None /\ Busy(b)' = {} /\ Busy(b) = {}
      /\ \A c \in Backends \ {b} : stmt'[c] = stmt[c]
  BY <1>1, EndStep DEF Busy
<1>6. /\ Holding(pending[b], discarded[b], fs) /\ DOMAIN fs = 1 .. n
      /\ Views(pending[b], discarded[b], fs, catalog, image, Busy(b))
      /\ StashOK(discarded[b]) /\ SubsOK(b) /\ ExclOK(b)
  BY BackendHolds DEF RowInv, ViewInv, ViewOf, IInv, DiscardedInv, SubsInv, LocksInv
<1>7. \A f, g \in 1 .. n : f < g => fs[f].sub # fs[g].sub
  BY SubsDiffer DEF RowInv
<1>8. \A i \in Indexes : /\ ~Undone(fs, n, i) => catalog'[i] = catalog[i]
                         /\ Undone(fs, n, i) => catalog'[i] = fs[n].undo[i]
  BY <1>1, UndoneFrame
<1>9. ViewOf(b)'
  <2>1. PICK busy : busy = {}
    OBVIOUS
  <2>2. PICK gs2 \in Seq(Frame) : gs2 = gs
    BY <1>3
  <2>3. PICK kept2 : kept2 = kept
    OBVIOUS
  <2>4. PICK q2 : q2 = q
    OBVIOUS
  <2>5. PICK cat2 : cat2 = catalog'
    OBVIOUS
  <2>6. GivenBack(pending[b], discarded[b], fs, catalog, q2, kept2, cat2)
    BY <1>8, <2>3, <2>4, <2>5 DEF GivenBack
  <2>7. Unnested(fs, gs2) /\ SubsApart(fs)
    BY <1>3, <1>4, <1>7, <2>2 DEF Unnested, SubsApart
  <2>8. Views(MarkPending(q2, "abort"), MarkStash(kept2, "abort"), gs2, cat2, image, busy)
    <3>1. Views(pending[b], discarded[b], fs, catalog, image, busy)
      BY <1>5, <1>6, <2>1
    <3> HIDE DEF fs, gs
    <3> QED BY <1>3, <1>4, <1>6, <2>1, <2>6, <2>7, <3>1, AbortedSub DEF n
  <2> QED BY <1>1, <1>2, <1>5, <2>1, <2>2, <2>3, <2>4, <2>5, <2>8 DEF ViewOf
<1> HIDE DEF n, q, kept
<1>10. \A k \in 1 .. n - 1 : k \in 1 .. n
  BY <1>3
<1>11. SubsOK(b)'
  <2>1. gs # <<>>
    BY <1>3, <1>4, EmptySeq
  <2>2. \A f \in 1 .. n - 1 : gs[f].sub < nextSub[b]
    BY <1>3, <1>6, <1>10 DEF SubsOK
  <2>3. \A f, g \in 1 .. n - 1 : f < g => gs[f].sub < gs[g].sub
    BY <1>3, <1>6, <1>10 DEF SubsOK
  <2> QED BY <1>1, <1>4, <1>6, <2>1, <2>2, <2>3 DEF SubsOK
<1>12. ExclOK(b)'
  <2>1. ASSUME NEW f \in 1 .. n - 1, NEW i \in Indexes
        PROVE  Undone(gs, f, i) <=> i \in gs[f].excl
    BY <1>3, <1>6, <1>10 DEF ExclOK, Undone
  <2>2. ASSUME NEW d \in MarkStash(kept, "abort"), NEW f \in 1 .. n - 1, d.sub = gs[f].sub
        PROVE  Undone(gs, f, d.write.idx)
    <3>1. PICK e \in discarded[b] : d = [sub |-> e.sub, write |-> ApplyMarkEvent(e.write, "abort")]
      BY DEF MarkStash, StashDrain, kept
    <3>2. d.sub = e.sub /\ d.write.idx = e.write.idx
      BY <1>6, <3>1, AbortedIdx DEF ApplyMarkEvent, StashOK
    <3>3. Undone(fs, f, e.write.idx)
      BY <1>3, <1>6, <1>10, <2>2, <3>2 DEF ExclOK
    <3> QED BY <1>3, <3>2, <3>3 DEF Undone
  <2> QED BY <1>2, <1>4, <2>1, <2>2 DEF ExclOK
<1>13. Unnested(fs, gs)
  BY <1>3, <1>4 DEF Unnested, n
<1> QED BY <1>1, <1>2, <1>3, <1>5, <1>9, <1>11, <1>12, <1>13, AbortStep

\* ROLLBACK, and an error outside savepoints.
LEMMA AbortRows ==
  ASSUME IInv, IInv', RowInv, ErrorsEndTransactions, NEW b \in Backends,
         Abort(b) \/ SettleFails(b) \/ FlushFails(b) \/ StageFails(b)
  PROVE  RowInv'
<1>1. frames[b] # <<>> /\ Len(frames[b]) \in Nat
  BY BackendHolds DEF Abort, Idle, SettleFails, FlushFails, StageFails, AtStep, IInv, StmtInv
<1>2. CASE Abort(b) /\ Len(frames[b]) > 1
  BY <1>2, AbortSubRows
<1>3. CASE ~(Abort(b) /\ Len(frames[b]) > 1)
  <2>1. ~(Len(frames[b]) > 1)
    <3>1. AtRisk(b) => ~(Len(frames[b]) > 1)
      BY <1>1 DEF AtRisk, ErrorsEndTransactions
    <3> QED BY <1>3, <3>1 DEF SettleFails, FlushFails, StageFails, MayRaise
  <2>2. UndoFrame(TopFrame(b)) /\ AbortTop(b) /\ stmt' = [stmt EXCEPT ![b] = None]
        /\ UNCHANGED <<image, nextFile, vacuum>>
    BY <2>1 DEF Abort, SettleFails, FlushFails, StageFails, AbortInnermost
  <2> QED BY <1>1, <2>1, <2>2, AbortTopRows
<1> QED BY <1>2, <1>3

\* What a catalog change leaves in the frames.
LEMMA ChangedFrames ==
  ASSUME IInv, NEW b \in Backends, Idle(b), NEW i \in Indexes, NEW entry,
         ChangeCatalog(b, i, entry), NEW n, n = Len(frames[b])
  PROVE  /\ Replaced(frames[b], frames'[b], catalog, catalog', i) /\ catalog'[i] = entry
         /\ frames'[b] \in Seq(Frame) /\ DOMAIN frames'[b] = 1 .. n /\ n \in 1 .. n
         /\ frames'[b][n].excl = frames[b][n].excl \cup {i}
         /\ \A c \in Backends \ {b} : frames'[c] = frames[c]
<1> DEFINE u == IF TopFrame(b).undo[i] = None THEN catalog[i] ELSE TopFrame(b).undo[i]
           undo == [TopFrame(b).undo EXCEPT ![i] = u]
           excl == TopFrame(b).excl \cup {i}
           g == [TopFrame(b) EXCEPT !.excl = excl]
           f == [TopFrame(b) EXCEPT !.excl = @ \cup {i},
                   !.undo[i] = IF @ = None THEN catalog[i] ELSE @]
<1>0. frames[b] # <<>>
  BY DEF Idle
<1>1. TopFrame(b) \in Frame /\ catalog \in [Indexes -> Entry] /\ TopFrame(b) = frames[b][n]
  BY <1>0, TopFrameType DEF IInv, StoreInv, TopFrame
<1>2. /\ undo \in [Indexes -> Entry \cup {None}] /\ undo[i] = u /\ excl \in SUBSET Indexes
      /\ \A j \in Indexes : j # i => undo[j] = TopFrame(b).undo[j]
  BY <1>1 DEF Frame
<1>3. frames' = OnTopFrame(b, f)
  BY DEF ChangeCatalog
<1> HIDE DEF excl
<1>4. /\ g \in Frame /\ g.undo = TopFrame(b).undo /\ g.sub = TopFrame(b).sub
      /\ g.rows = TopFrame(b).rows /\ g.locks = TopFrame(b).locks /\ g.excl = excl
  BY <1>1, <1>2 DEF Frame
<1>5. f = [g EXCEPT !.undo = undo]
  BY <1>1 DEF Frame, excl
<1> HIDE DEF f, g, undo
<1>6. /\ f \in Frame /\ f.sub = TopFrame(b).sub /\ f.rows = TopFrame(b).rows
      /\ f.locks = TopFrame(b).locks /\ f.excl = excl /\ f.undo = undo
  BY <1>2, <1>4, <1>5 DEF Frame
<1>7. /\ frames'[b] \in Seq(Frame) /\ Len(frames'[b]) = n /\ DOMAIN frames'[b] = 1 .. n
      /\ frames'[b][n] = f
      /\ \A k \in 1 .. n : k # n => frames'[b][k] = frames[b][k]
      /\ \A c \in Backends \ {b} : frames'[c] = frames[c]
  <2>1. PICK f2 \in Frame : f2 = f
    BY <1>6
  <2> QED BY <1>0, <1>3, <2>1, TopStep
<1>8. n \in Nat /\ n \in 1 .. n /\ \A k \in 1 .. n - 1 : k \in 1 .. n /\ k # n
  <2>1. n \in Nat /\ n # 0
    BY <1>0, BackendHolds, EmptySeq
  <2> QED BY <2>1
<1>9. catalog'[i] = entry /\ \A j \in Indexes : j # i => catalog'[j] = catalog[j]
  BY <1>1 DEF ChangeCatalog
<1>10. /\ \A k \in 1 .. n : /\ frames'[b][k].sub = frames[b][k].sub
                            /\ frames'[b][k].rows = frames[b][k].rows
                            /\ frames'[b][k].locks = frames[b][k].locks
       /\ \A k \in 1 .. n - 1 : frames'[b][k] = frames[b][k]
  BY <1>1, <1>6, <1>7, <1>8
<1>11. /\ \A j \in Indexes : j # i => frames'[b][n].undo[j] = frames[b][n].undo[j]
       /\ frames'[b][n].undo[i] = IF Undone(frames[b], n, i) THEN frames[b][n].undo[i] ELSE catalog[i]
  BY <1>1, <1>2, <1>6, <1>7 DEF Undone
<1>12. Replaced(frames[b], frames'[b], catalog, catalog', i)
  BY <1>7, <1>9, <1>10, <1>11 DEF Replaced
<1> QED BY <1>1, <1>6, <1>7, <1>8, <1>9, <1>12 DEF excl

\* What an older frame may have saved is not what the innermost one changes now.
ReplacedEntries(fs, gs, cat, i, n) ==
  /\ Undone(gs, n, i)
  /\ \A k \in 1 .. n : \A j \in Indexes : j # i => (Undone(gs, k, j) <=> Undone(fs, k, j))
  /\ \A k \in 1 .. n : \A j \in Indexes : Undone(fs, k, j) => Undone(gs, k, j)
  /\ \A k \in 1 .. n : \A j \in Indexes : Undone(gs, k, j) =>
       \/ Undone(fs, k, j) /\ gs[k].undo[j] = fs[k].undo[j]
       \/ k = n /\ j = i /\ ~Undone(fs, k, j) /\ gs[k].undo[j] = cat[i]

\* That is what replacing an entry saves.
LEMMA ReplacedUndone ==
  ASSUME NEW fs, NEW gs, NEW cat \in [Indexes -> Entry], NEW cat2, NEW i \in Indexes,
         Replaced(fs, gs, cat, cat2, i), NEW n \in Nat, n = Len(fs), n \in 1 .. n
  PROVE  ReplacedEntries(fs, gs, cat, i, n)
<1>1. \A k \in 1 .. n : k \in 1 .. n - 1 \/ k = n
  OBVIOUS
<1>2. cat[i] # None
  BY AbsentAssumption
<1>3. \A k \in 1 .. n - 1 : gs[k] = fs[k]
  BY DEF Replaced
<1>4. /\ \A j \in Indexes : j # i => gs[n].undo[j] = fs[n].undo[j]
      /\ gs[n].undo[i] = IF Undone(fs, n, i) THEN fs[n].undo[i] ELSE cat[i]
  BY DEF Replaced
<1>5. Undone(gs, n, i)
  BY <1>2, <1>4 DEF Undone
<1>6. \A k \in 1 .. n : \A j \in Indexes : j # i =>
        (Undone(gs, k, j) <=> Undone(fs, k, j)) /\ gs[k].undo[j] = fs[k].undo[j]
  BY <1>1, <1>3, <1>4 DEF Undone
<1>7. \A k \in 1 .. n : Undone(fs, k, i) => Undone(gs, k, i) /\ gs[k].undo[i] = fs[k].undo[i]
  BY <1>1, <1>3, <1>4, <1>5 DEF Undone
<1>8. \A k \in 1 .. n : Undone(gs, k, i) /\ ~Undone(fs, k, i) => k = n /\ gs[k].undo[i] = cat[i]
  BY <1>1, <1>3, <1>4 DEF Undone
<1> QED BY <1>5, <1>6, <1>7, <1>8 DEF ReplacedEntries

\* A command that replaces or removes an index disturbs the levels of its own backend only.
LEMMA ReplaceStep ==
  ASSUME IInv, IInv', RowInv, NEW b \in Backends, Idle(b), NEW i \in Indexes,
         catalog[i].exists, ExclLockable(b, i), NEW entry, ChangeCatalog(b, i, entry),
         UNCHANGED <<heap, nextSub, stmt, vacuum>>,
         \A c \in Backends \ {b} : pending'[c] = pending[c] /\ discarded'[c] = discarded[c],
         \A j \in Indexes : \A f \in FileNos :
           j # i \/ f < nextFile[i] => image'[j][f] = image[j][f],
         \A j \in Indexes : j # i => nextFile'[j] = nextFile[j],
         nextFile[i] <= nextFile'[i], entry.heap < nextFile'[i], entry.file < nextFile'[i],
         catalog[i].file <= entry.file, entry.exists => catalog[i].file < entry.file,
         ViewOf(b)', ExclOK(b)', entry.exists => EntryOK(i, entry)'
  PROVE  RowInv'
<1> DEFINE fs == frames[b]
           gs == frames'[b]
           n == Len(fs)
<1>1. /\ ViewInv /\ EntryInv /\ SubsInv /\ FileInv /\ LocksInv /\ OwnInv /\ StmtRowInv /\ DeadInv
  BY DEF RowInv
<1>2. /\ Replaced(fs, gs, catalog, catalog', i) /\ catalog'[i] = entry
      /\ gs \in Seq(Frame) /\ DOMAIN gs = 1 .. n /\ n \in 1 .. n
      /\ gs[n].excl = fs[n].excl \cup {i}
      /\ \A c \in Backends \ {b} : frames'[c] = frames[c]
  BY ChangedFrames
<1>3. n \in Nat /\ DOMAIN fs = 1 .. n /\ fs # <<>> /\ stmt[b] = None
  BY BackendHolds DEF Idle
<1>4. /\ \A k \in 1 .. n : /\ gs[k].sub = fs[k].sub /\ gs[k].rows = fs[k].rows
                           /\ gs[k].locks = fs[k].locks
      /\ \A k \in 1 .. n - 1 : gs[k] = fs[k]
      /\ \A j \in Indexes : j # i => catalog'[j] = catalog[j]
  BY <1>2 DEF Replaced
<1>5. /\ Undone(gs, n, i)
      /\ \A k \in 1 .. n : \A j \in Indexes : j # i => (Undone(gs, k, j) <=> Undone(fs, k, j))
      /\ \A k \in 1 .. n : \A j \in Indexes : Undone(fs, k, j) => Undone(gs, k, j)
      /\ \A k \in 1 .. n : \A j \in Indexes : Undone(gs, k, j) =>
           \/ Undone(fs, k, j) /\ gs[k].undo[j] = fs[k].undo[j]
           \/ k = n /\ j = i /\ ~Undone(fs, k, j) /\ gs[k].undo[j] = catalog[i]
  <2>1. PICK cat \in [Indexes -> Entry] : cat = catalog
    BY DEF IInv, StoreInv
  <2>2. PICK cat2 : cat2 = catalog'
    OBVIOUS
  <2>3. PICK gs2 : gs2 = gs
    OBVIOUS
  <2>4. PICK fs2 : fs2 = fs
    OBVIOUS
  <2>5. PICK m \in Nat : m = n
    BY <1>3
  <2>6. Replaced(fs2, gs2, cat, cat2, i) /\ m = Len(fs2) /\ m \in 1 .. m
    BY <1>2, <2>1, <2>2, <2>3, <2>4, <2>5
  <2>7. ReplacedEntries(fs2, gs2, cat, i, m)
    BY <2>1, <2>5, <2>6, ReplacedUndone
  <2> QED BY <2>1, <2>3, <2>4, <2>5, <2>7 DEF ReplacedEntries
<1> HIDE DEF fs, gs, n
<1>6. /\ LocksOf(b)' = LocksOf(b)
      /\ \A j : j \in ExclOf(b)' => j \in ExclOf(b) \/ j = i
      /\ \A c \in Backends \ {b} : LocksOf(c)' = LocksOf(c) /\ ExclOf(c)' = ExclOf(c)
  <2>1. LocksOf(b)' = LocksOf(b)
    BY <1>2, <1>3, <1>4 DEF LocksOf, fs, gs
  <2>2. ASSUME NEW j \in ExclOf(b)' PROVE j \in ExclOf(b) \/ j = i
    <3>1. PICK k \in 1 .. n : j \in gs[k].excl
      BY <1>2 DEF ExclOf, gs
    <3>2. k \in 1 .. n - 1 \/ k = n
      BY <1>3
    <3>3. j \in fs[k].excl \/ j = i
      BY <1>2, <1>4, <3>1, <3>2
    <3> QED BY <1>3, <3>3 DEF ExclOf, fs
  <2>3. \A c \in Backends \ {b} : LocksOf(c)' = LocksOf(c) /\ ExclOf(c)' = ExclOf(c)
    BY <1>2 DEF LocksOf, ExclOf
  <2> QED BY <2>1, <2>2, <2>3
<1>7. \A c \in Backends \ {b} : i \notin LocksOf(c) /\ i \notin ExclOf(c)
  BY DEF ExclLockable
<1>8. \A c \in Backends \ {b} : Bystander(c)
  <2> SUFFICES ASSUME NEW c \in Backends \ {b}, NEW j \in Indexes
               PROVE  Untouched(frames[c], catalog, catalog', image, image', j)
    BY <1>2 DEF Bystander
  <2>1. CASE j = i
    <3>1. \A g \in DOMAIN frames[c] : i \notin frames[c][g].locks
            /\ \A h, t : <<i, h, t>> \notin frames[c][g].rows
      BY <1>1, <1>7, NoLock
    <3> QED BY <2>1, <3>1 DEF Untouched
  <2>2. CASE j # i
    <3>1. image'[j] = image[j]
      <4>1. \A f \in FileNos : image'[j][f] = image[j][f]
        BY <2>2
      <4>2. image[j] \in [FileNos -> Image] /\ image'[j] \in [FileNos -> Image]
        BY DEF IInv, StoreInv
      <4> QED BY <4>1, <4>2
    <3> QED BY <1>4, <2>2, <3>1 DEF Untouched
  <2> QED BY <2>1, <2>2
<1>9. ViewInv' /\ StmtRowInv' /\ SubsInv'
  <2>1. \A c \in Backends \ {b} : ViewOf(c)' /\ StmtRowOK(c)' /\ SubsOK(c)'
    BY <1>1, <1>8, BystanderView, BystanderStmt, BystanderSubs
  <2>2. StmtRowOK(b)'
    BY <1>3 DEF StmtRowOK
  <2>3. SubsOK(b)'
    <3>1. SubsOK(b)
      BY <1>1 DEF SubsInv
    <3>2. gs # <<>>
      BY <1>2, <1>3
    <3> QED BY <1>2, <1>3, <1>4, <3>1, <3>2 DEF SubsOK, fs, gs
  <2> QED BY <2>1, <2>2, <2>3 DEF ViewInv, StmtRowInv, SubsInv
<1>10. \A j, h, t : Owned(frames, j, h, t) => Owned(frames', j, h, t)
  <2> SUFFICES ASSUME NEW j, NEW h, NEW t, Owned(frames, j, h, t) PROVE Owned(frames', j, h, t)
    OBVIOUS
  <2>1. PICK c \in Backends : \E k \in DOMAIN frames[c] : <<j, h, t>> \in frames[c][k].rows
    BY DEF Owned
  <2>2. PICK k \in DOMAIN frames[c] : <<j, h, t>> \in frames[c][k].rows
    BY <2>1
  <2>3. k \in DOMAIN frames'[c] /\ <<j, h, t>> \in frames'[c][k].rows
    <3>1. CASE c = b
      BY <1>2, <1>3, <1>4, <2>2, <3>1 DEF fs, gs
    <3>2. CASE c # b
      BY <1>2, <2>2, <3>2
    <3> QED BY <3>1, <3>2
  <2> QED BY <2>3 DEF Owned
<1>11. ASSUME NEW j \in Indexes, NEW e, EntryFor(catalog', frames', j, e)
       PROVE  (e = entry /\ j = i) \/ EntryFor(catalog, frames, j, e)
  <2>1. CASE e = catalog'[j]
    BY <1>2, <1>4, <2>1 DEF EntryFor
  <2>2. ASSUME NEW c \in Backends, NEW g \in DOMAIN frames'[c], Undone(frames'[c], g, j),
               e = frames'[c][g].undo[j]
        PROVE  EntryFor(catalog, frames, j, e)
    <3>1. CASE c # b
      BY <1>2, <2>2, <3>1 DEF EntryFor
    <3>2. CASE c = b
      <4>1. \/ Undone(fs, g, j) /\ e = fs[g].undo[j] /\ g \in DOMAIN fs
            \/ j = i /\ e = catalog[i]
        BY <1>2, <1>3, <1>5, <2>2, <3>2 DEF gs
      <4> QED BY <4>1 DEF EntryFor, fs
    <3> QED BY <3>1, <3>2
  <2> QED BY <1>11, <2>1, <2>2 DEF EntryFor
<1>12. EntryInv'
  <2> SUFFICES ASSUME NEW j \in Indexes, NEW e, EntryFor(catalog', frames', j, e), e.exists
               PROVE  EntryOK(j, e)'
    BY EntryInvFrom
  <2>1. CASE e = entry /\ j = i
    BY <2>1
  <2>2. CASE EntryFor(catalog, frames, j, e)
    <3>1. e.file \in FileNos /\ e.file < nextFile[j]
      BY <1>1, <2>2, EntryForType
    <3>2. image'[j][e.file] = image[j][e.file]
      BY <3>1
    <3> QED BY <1>1, <1>10, <2>2, <3>2, EntryStays
  <2> QED BY <1>11, <2>1, <2>2
<1>13. /\ nextFile \in [Indexes -> Nat] /\ nextFile' \in [Indexes -> Nat]
       /\ FileNos \subseteq Nat
  BY DEF IInv, StoreInv, FileNos
<1>14. \A j \in Indexes : FileOK(j)'
  <2> SUFFICES ASSUME NEW j \in Indexes PROVE FileOK(j)'
    OBVIOUS
  <2>0. FileOK(j)
    BY <1>1 DEF FileInv
  <2>1. CASE j # i
    BY <1>4, <2>0, <2>1 DEF FileOK
  <2>2. CASE j = i
    <3>1. \A h \in FileNos : h >= nextFile'[i] => h >= nextFile[i]
      <4>1. nextFile[i] \in Nat /\ nextFile'[i] \in Nat
        BY <1>13
      <4> QED BY <1>13, <4>1
    <3> QED BY <1>2, <2>0, <2>2, <3>1 DEF FileOK
  <2> QED BY <2>1, <2>2
<1>15. UndoInv'
  <2> SUFFICES ASSUME NEW c \in Backends, NEW g \in DOMAIN frames'[c], NEW j \in Indexes,
                      Undone(frames'[c], g, j)
               PROVE  UndoOK(j, frames[c], g)'
    BY DEF UndoInv
  <2>0. \A d \in Backends : \A f \in DOMAIN frames[d] : \A k \in Indexes :
          Undone(frames[d], f, k) => UndoOK(k, frames[d], f)
    BY <1>1 DEF FileInv, UndoInv
  <2>1. CASE c # b
    <3>1. frames'[c] = frames[c] /\ Undone(frames[c], g, j) /\ g \in DOMAIN frames[c]
      BY <1>2, <2>1
    <3>2. UndoOK(j, frames[c], g)
      BY <2>0, <3>1
    <3>3. j # i
      <4>1. j \in ExclOf(c)
        BY <1>1, <3>1, HasExcl
      <4> QED BY <1>7, <2>1, <4>1
    <3> QED BY <1>4, <3>1, <3>2, <3>3 DEF UndoOK
  <2>2. CASE c = b /\ j # i
    <3>1. g \in DOMAIN fs /\ Undone(fs, g, j) /\ gs[g].undo[j] = fs[g].undo[j]
          /\ \A k \in 1 .. n : Undone(gs, k, j) => Undone(fs, k, j) /\ gs[k].undo[j] = fs[k].undo[j]
      BY <1>2, <1>3, <1>5, <2>2 DEF gs
    <3>2. UndoOK(j, fs, g)
      BY <2>0, <2>2, <3>1 DEF fs
    <3> QED BY <1>2, <1>3, <1>4, <2>2, <3>1, <3>2 DEF UndoOK, gs
  <2>3. CASE c = b /\ j = i
    <3> DEFINE u == gs[g].undo[i]
    <3>0. g \in 1 .. n /\ Undone(gs, g, i)
      BY <1>2, <2>3 DEF gs
    <3>1. EntryFor(catalog, frames, i, u)
      <4>1. \/ Undone(fs, g, i) /\ u = fs[g].undo[i]
            \/ u = catalog[i]
        BY <1>5, <3>0
      <4> QED BY <1>3, <3>0, <4>1 DEF EntryFor, fs
    <3>2. u.heap < nextFile[i] /\ u.heap \in Nat /\ u.file \in Nat
      <4>1. PICK e : e = u
        OBVIOUS
      <4>2. e.heap < nextFile[i] /\ e.heap \in Nat /\ e.file \in Nat
        BY <1>1, <3>1, <4>1, EntryForType
      <4> QED BY <4>1, <4>2
    <3>3. catalog[i].file \in Nat /\ entry.file \in Nat /\ nextFile[i] \in Nat /\ nextFile'[i] \in Nat
      <4>1. catalog[i] \in Entry /\ catalog'[i] \in Entry
        BY DEF IInv, StoreInv
      <4> QED BY <1>2, <1>13, <4>1 DEF Entry
    <3>4. u.exists /\ u.file <= catalog[i].file
      <4>1. CASE Undone(fs, g, i) /\ u = fs[g].undo[i]
        <5>1. UndoOK(i, fs, g)
          BY <1>3, <2>0, <3>0, <4>1 DEF fs
        <5> QED BY <4>1, <5>1 DEF UndoOK
      <4>2. CASE u = catalog[i]
        BY <3>3, <4>2
      <4> QED BY <1>5, <3>0, <4>1, <4>2
    <3>5. u.heap < nextFile'[i]
      BY <3>2, <3>3
    <3>6. u.file <= entry.file /\ (entry.exists => u.file < entry.file)
      BY <3>2, <3>3, <3>4
    <3>7. ASSUME NEW h \in 1 .. n, g < h, Undone(gs, h, i)
          PROVE  u.file < gs[h].undo[i].file
      <4>1. Undone(fs, g, i) /\ u = fs[g].undo[i]
        <5>1. g # n
          BY <1>3, <3>0, <3>7
        <5> QED BY <1>5, <3>0, <5>1
      <4>2. UndoOK(i, fs, g)
        BY <1>3, <2>0, <3>0, <4>1 DEF fs
      <4>3. CASE Undone(fs, h, i) /\ gs[h].undo[i] = fs[h].undo[i]
        BY <1>3, <3>7, <4>1, <4>2, <4>3 DEF UndoOK
      <4>4. CASE gs[h].undo[i] = catalog[i]
        BY <4>1, <4>2, <4>4 DEF UndoOK
      <4> QED BY <1>5, <3>7, <4>3, <4>4
    <3> QED BY <1>2, <2>3, <3>4, <3>5, <3>6, <3>7 DEF UndoOK, gs
  <2> QED BY <2>1, <2>2, <2>3
<1>16. FileInv'
  BY <1>14, <1>15 DEF FileInv
<1>17. LocksInv'
  <2>1. \A c \in Backends : ExclOK(c)'
    <3>1. \A c \in Backends \ {b} : ExclOK(c)'
      BY <1>1, <1>2 DEF LocksInv, ExclOK
    <3> QED BY <3>1
  <2>2. ASSUME NEW c \in Backends, NEW d \in Backends, c # d, NEW j \in ExclOf(c)'
        PROVE  j \notin LocksOf(d)' \cup ExclOf(d)'
    <3>1. ASSUME NEW x \in ExclOf(c) PROVE x \notin LocksOf(d) /\ x \notin ExclOf(d)
      BY <1>1, <2>2, <3>1 DEF LocksInv
    <3>2. CASE c = b
      BY <1>6, <1>7, <2>2, <3>1, <3>2
    <3>3. CASE c # b
      <4>1. j \in ExclOf(c)
        BY <1>6, <2>2, <3>3
      <4>2. j # i
        BY <1>7, <3>3, <4>1
      <4> QED BY <1>6, <3>1, <4>1, <4>2
    <3> QED BY <3>2, <3>3
  <2>3. vacuum' # None => \A c \in Backends : vacuum'.idx \notin ExclOf(c)'
    BY <1>1, <1>6 DEF LocksInv, ExclLockable
  <2> QED BY <2>1, <2>2, <2>3 DEF LocksInv
<1>18. OwnInv'
  <2>1. PICK m : m = [k \in 1 .. n |-> k]
    OBVIOUS
  <2>2. Inherited(fs, gs, m)
    BY <1>2, <1>3, <1>4, <2>1 DEF Inherited
  <2> QED BY <1>1, <1>2, <2>2, OwnKept DEF fs, gs
<1>19. DeadInv'
  <2> SUFFICES ASSUME vacuum # None
               PROVE  /\ catalog'[vacuum.idx].exists
                      /\ \A t \in vacuum.dead : heap[vacuum.idx][catalog'[vacuum.idx].heap][t] = "dead"
                      /\ vacuum.step = "heap" =>
                           LiveTids(image'[vacuum.idx][catalog'[vacuum.idx].file]) \cap vacuum.dead = {}
    BY DEF DeadInv, CurrentHeap, CurrentImage
  <2>1. vacuum.idx \in Indexes /\ vacuum.idx # i
    BY DEF IInv, VacuumInv, Vacuum, ExclLockable
  <2>2. catalog'[vacuum.idx] = catalog[vacuum.idx] /\ catalog[vacuum.idx].file \in FileNos
    BY <1>4, <2>1 DEF IInv, StoreInv, Entry
  <2>3. image'[vacuum.idx][catalog[vacuum.idx].file] = image[vacuum.idx][catalog[vacuum.idx].file]
    BY <2>1, <2>2
  <2> QED BY <1>1, <2>2, <2>3 DEF DeadInv, CurrentHeap, CurrentImage
<1> QED BY <1>9, <1>12, <1>16, <1>17, <1>18, <1>19 DEF RowInv

\* What a rebuild does to the slot and the stash of its backend.
LEMMA ForgetStep ==
  ASSUME IInv, NEW b \in Backends, NEW i \in Indexes, Forget(b, i), frames[b] # <<>>
  PROVE  /\ Forgotten(pending[b], discarded[b], frames[b][Len(frames[b])].sub, i,
                      pending'[b], discarded'[b])
         /\ \A c \in Backends \ {b} : pending'[c] = pending[c] /\ discarded'[c] = discarded[c]
<1>1. pending \in [Backends -> Write \cup {None}] /\ discarded \in [Backends -> SUBSET Discard]
  BY DEF IInv, PendingInv, DiscardedInv
<1>2. CASE pending[b] # None /\ pending[b].idx = i
  BY <1>1, <1>2 DEF Forget, Forgotten, CurrentSub
<1>3. CASE ~(pending[b] # None /\ pending[b].idx = i)
  BY <1>3 DEF Forget, Forgotten, stageVars
<1> QED BY <1>2, <1>3

\* A rebuild is an exclusive change at the innermost (sub)transaction.
LEMMA ReplacedExcl ==
  ASSUME NEW stash, NEW stash2, NEW p, NEW p2, NEW fs \in Seq(Frame), NEW gs, NEW n \in Nat,
         n = Len(fs), n \in 1 .. n,
         NEW cat, NEW i \in Indexes, NEW s, s = fs[n].sub, Forgotten(p, stash, s, i, p2, stash2),
         StashOK(stash), DOMAIN gs = 1 .. n, SubsApart(fs),
         \A k \in 1 .. n : gs[k].sub = fs[k].sub,
         \A k \in 1 .. n - 1 : gs[k].excl = fs[k].excl, gs[n].excl = fs[n].excl \cup {i},
         ReplacedEntries(fs, gs, cat, i, n),
         \A f \in 1 .. n : \A j \in Indexes : Undone(fs, f, j) <=> j \in fs[f].excl,
         \A d \in stash : \A f \in 1 .. n : d.sub = fs[f].sub => Undone(fs, f, d.write.idx)
  PROVE  /\ \A f \in 1 .. n : \A j \in Indexes : Undone(gs, f, j) <=> j \in gs[f].excl
         /\ \A d \in stash2 : \A f \in 1 .. n : d.sub = gs[f].sub => Undone(gs, f, d.write.idx)
<1>1. \A k \in 1 .. n : k \in 1 .. n - 1 \/ k = n
  OBVIOUS
<1>2. /\ Undone(gs, n, i)
      /\ \A k \in 1 .. n : \A j \in Indexes : j # i => (Undone(gs, k, j) <=> Undone(fs, k, j))
      /\ \A k \in 1 .. n : \A j \in Indexes : Undone(fs, k, j) => Undone(gs, k, j)
      /\ \A k \in 1 .. n : \A j \in Indexes : Undone(gs, k, j) =>
           Undone(fs, k, j) \/ (k = n /\ j = i)
  BY DEF ReplacedEntries
<1>3. ASSUME NEW f \in 1 .. n, NEW j \in Indexes
      PROVE  Undone(gs, f, j) <=> j \in gs[f].excl
  <2>1. CASE f = n
    <3>1. j \in gs[f].excl <=> j \in fs[n].excl \/ j = i
      BY <2>1
    <3>2. Undone(gs, f, j) <=> Undone(fs, f, j) \/ j = i
      BY <1>2, <2>1
    <3> QED BY <2>1, <3>1, <3>2
  <2>2. CASE f # n
    <3>1. gs[f].excl = fs[f].excl
      BY <1>1, <2>2
    <3>2. Undone(gs, f, j) <=> Undone(fs, f, j)
      BY <1>2, <2>2
    <3> QED BY <3>1, <3>2
  <2> QED BY <2>1, <2>2
<1>4. ASSUME NEW d \in stash2, NEW f \in 1 .. n, d.sub = gs[f].sub
      PROVE  Undone(gs, f, d.write.idx)
  <2>1. CASE d \in stash
    <3>1. Undone(fs, f, d.write.idx)
      BY <1>4, <2>1
    <3>2. d.write.idx \in Indexes
      BY <2>1 DEF StashOK, WriteOK, Write
    <3> QED BY <1>2, <3>1, <3>2
  <2>2. CASE d \notin stash
    <3>1. p # None /\ p.idx = i /\ d = [sub |-> s, write |-> p]
      BY <1>4, <2>2 DEF Forgotten, StashPush
    <3>2. d.sub = s /\ d.write.idx = i
      BY <3>1
    <3>3. f = n
      <4>1. fs[f].sub = fs[n].sub
        BY <1>4, <3>2
      <4>2. f < n \/ f = n
        OBVIOUS
      <4> QED BY <4>1, <4>2 DEF SubsApart
    <3> QED BY <1>2, <3>2, <3>3
  <2> QED BY <2>1, <2>2
<1> QED BY <1>3, <1>4

\* REINDEX and TRUNCATE index exactly what is alive in the heap they are given.
LEMMA RebuildRows ==
  ASSUME IInv, IInv', RowInv, NEW b \in Backends, NEW i \in Indexes, NEW h \in FileNos,
         NEW rows \in SUBSET Tids, Rebuild(b, i, h, rows), h <= nextFile[i],
         \A t \in Tids : heap[i][h][t] = "live" <=> t \in rows
  PROVE  RowInv'
<1> DEFINE fs == frames[b]
           gs == frames'[b]
           n == Len(fs)
           file == nextFile[i]
           entry == [exists |-> TRUE, heap |-> h, file |-> file]
<1>1. /\ ViewInv /\ EntryInv /\ SubsInv /\ FileInv /\ LocksInv /\ OwnInv /\ StmtRowInv /\ DeadInv
  BY DEF RowInv
<1>2. /\ Idle(b) /\ catalog[i].exists /\ ExclLockable(b, i) /\ file <= MaxRebuilds
      /\ Forget(b, i) /\ ChangeCatalog(b, i, entry)
      /\ nextFile' = [nextFile EXCEPT ![i] = @ + 1]
      /\ UNCHANGED <<heap, inserts, nextSub, stmt, vacuum>>
  BY DEF Rebuild
<1>3. PICK new \in BuiltImages(rows) : image' = [image EXCEPT ![i][file] = new]
  BY DEF Rebuild
<1>4. ImageOK(new) /\ LiveTids(new) = rows /\ new \in Image
  BY <1>3, BuiltOK, BuiltImagesType
<1>5. /\ file \in Nat /\ file \in FileNos /\ nextFile'[i] = file + 1 /\ h \in Nat
      /\ \A j \in Indexes : j # i => nextFile'[j] = nextFile[j]
      /\ catalog[i] \in Entry /\ catalog \in [Indexes -> Entry]
      /\ image \in [Indexes -> [FileNos -> Image]]
  BY <1>2, BoundsAssumption DEF IInv, StoreInv, FileNos
<1>6. /\ catalog[i].file < file /\ catalog[i].file \in Nat
      /\ entry.exists /\ entry.heap = h /\ entry.file = file
  BY <1>1, <1>5 DEF FileInv, FileOK, Entry, FileNos
<1>7. fs # <<>> /\ n \in Nat /\ DOMAIN fs = 1 .. n /\ fs \in Seq(Frame) /\ stmt[b] = None
  BY <1>2, BackendHolds DEF Idle
<1>8. /\ Forgotten(pending[b], discarded[b], fs[n].sub, i, pending'[b], discarded'[b])
      /\ \A c \in Backends \ {b} : pending'[c] = pending[c] /\ discarded'[c] = discarded[c]
  BY <1>2, <1>7, ForgetStep
<1> HIDE DEF entry
<1>9. PICK e2 : e2 = entry
  OBVIOUS
<1>10. ChangeCatalog(b, i, e2)
  BY <1>2, <1>9
<1>11. /\ Replaced(fs, gs, catalog, catalog', i) /\ catalog'[i] = e2
       /\ gs \in Seq(Frame) /\ DOMAIN gs = 1 .. n /\ n \in 1 .. n
       /\ gs[n].excl = fs[n].excl \cup {i}
       /\ \A c \in Backends \ {b} : frames'[c] = frames[c]
  BY <1>2, <1>10, ChangedFrames
<1>12. /\ image'[i][file] = new
       /\ \A j \in Indexes : \A f \in FileNos : j # i \/ f # file => image'[j][f] = image[j][f]
  BY <1>3, <1>5
<1>13. /\ Holding(pending[b], discarded[b], fs) /\ Views(pending[b], discarded[b], fs, catalog, image, Busy(b))
       /\ StashOK(discarded[b]) /\ ExclOK(b) /\ Busy(b) = {} /\ Busy(b)' = {}
       /\ \A f, g \in 1 .. n : f < g => fs[f].sub # fs[g].sub
  <2>1. \A f, g \in 1 .. n : f < g => fs[f].sub # fs[g].sub
    BY <1>1, SubsDiffer
  <2>2. Busy(b) = {} /\ Busy(b)' = {}
    BY <1>2, <1>7 DEF Busy
  <2> QED BY <1>1, <2>1, <2>2, BackendHolds DEF ViewInv, ViewOf, IInv, DiscardedInv, LocksInv
<1>14. ViewOf(b)'
  <2>1. PICK busy : busy = {}
    OBVIOUS
  <2>2. PICK gs2 \in Seq(Frame) : gs2 = gs
    BY <1>11
  <2>3. PICK p2 : p2 = pending'[b]
    OBVIOUS
  <2>4. PICK stash2 : stash2 = discarded'[b]
    OBVIOUS
  <2>5. PICK cat2 : cat2 = catalog'
    OBVIOUS
  <2>6. PICK img2 : img2 = image'
    OBVIOUS
  <2>7. PICK cat \in [Indexes -> Entry] : cat = catalog
    BY <1>5
  <2>8. PICK img \in [Indexes -> [FileNos -> Image]] : img = image
    BY <1>5
  <2>9. NewFile(fs, cat, i, e2.file, img, img2)
    <3>1. \A f \in DOMAIN fs : Undone(fs, f, i) => fs[f].undo[i].file # file
      <4> SUFFICES ASSUME NEW f \in DOMAIN fs, Undone(fs, f, i)
                   PROVE  fs[f].undo[i].file # file
        OBVIOUS
      <4>1. EntryFor(catalog, frames, i, fs[f].undo[i])
        BY DEF EntryFor
      <4>2. PICK e : e = fs[f].undo[i]
        OBVIOUS
      <4>3. e.file < nextFile[i] /\ e.file \in Nat
        BY <1>1, <4>1, <4>2, EntryForType
      <4> QED BY <1>5, <4>2, <4>3
    <3>2. catalog[i].file # file
      BY <1>5, <1>6
    <3> QED BY <1>6, <1>9, <1>12, <2>6, <2>7, <2>8, <3>1, <3>2 DEF NewFile
  <2>10. \A f \in DOMAIN fs : \A t \in Tids : <<i, e2.heap, t>> \in fs[f].rows => t \in LiveTids(new)
    <3> SUFFICES ASSUME NEW f \in DOMAIN fs, NEW t \in Tids, <<i, e2.heap, t>> \in fs[f].rows
                 PROVE  t \in LiveTids(new)
      OBVIOUS
    <3>1. heap[i][h][t] = "live"
      BY <1>1, <1>6, <1>9, OpenRow
    <3> QED BY <1>4, <3>1
  <2>11. PICK fs2 : fs2 = fs
    OBVIOUS
  <2>12. PICK p : p = pending[b]
    OBVIOUS
  <2>13. PICK stash : stash = discarded[b]
    OBVIOUS
  <2>14. Views(p2, stash2, gs2, cat2, img2, busy)
    <3>1. /\ Holding(p, stash, fs2) /\ fs2 # <<>> /\ SubsApart(fs2)
          /\ Replaced(fs2, gs2, cat, cat2, i) /\ cat2[i] = e2
          /\ Forgotten(p, stash, fs2[Len(fs2)].sub, i, p2, stash2)
          /\ e2.file \in FileNos /\ Rebuilt(fs2, i, e2, img, img2, new)
          /\ NewFile(fs2, cat, i, e2.file, img, img2)
          /\ Views(p, stash, fs2, cat, img, busy)
      BY <1>3, <1>5, <1>6, <1>7, <1>8, <1>9, <1>11, <1>13, <2>1, <2>2, <2>3, <2>4, <2>5, <2>6,
         <2>7, <2>8, <2>9, <2>10, <2>11, <2>12, <2>13 DEF Rebuilt, SubsApart
    <3> HIDE DEF fs, gs, n
    <3> QED BY <2>1, <2>2, <2>7, <2>8, <3>1, RebuiltSlot
  <2> QED BY <1>13, <2>1, <2>2, <2>3, <2>4, <2>5, <2>6, <2>14 DEF ViewOf
<1> HIDE DEF fs, gs, n, file
<1>15. ExclOK(b)'
  <2>1. /\ \A k \in 1 .. n : gs[k].sub = fs[k].sub
        /\ \A k \in 1 .. n - 1 : gs[k].excl = fs[k].excl
    BY <1>11 DEF Replaced, n
  <2>2. ReplacedEntries(fs, gs, catalog, i, n)
    <3>1. PICK cat \in [Indexes -> Entry] : cat = catalog
      BY <1>5
    <3>2. PICK cat2 : cat2 = catalog'
      OBVIOUS
    <3>3. PICK gs2 : gs2 = gs
      OBVIOUS
    <3>4. PICK fs2 : fs2 = fs
      OBVIOUS
    <3>5. PICK m \in Nat : m = n
      BY <1>7
    <3>6. Replaced(fs2, gs2, cat, cat2, i) /\ m = Len(fs2) /\ m \in 1 .. m
      BY <1>11, <3>1, <3>2, <3>3, <3>4, <3>5 DEF n
    <3>7. ReplacedEntries(fs2, gs2, cat, i, m)
      BY <3>1, <3>5, <3>6, ReplacedUndone
    <3> QED BY <3>1, <3>3, <3>4, <3>5, <3>7
  <2>3. /\ \A f \in 1 .. n : \A j \in Indexes : Undone(fs, f, j) <=> j \in fs[f].excl
        /\ \A d \in discarded[b] : \A f \in 1 .. n : d.sub = fs[f].sub => Undone(fs, f, d.write.idx)
    BY <1>7, <1>13 DEF ExclOK, fs
  <2>4. SubsApart(fs)
    BY <1>13 DEF SubsApart, n
  <2>5. /\ \A f \in 1 .. n : \A j \in Indexes : Undone(gs, f, j) <=> j \in gs[f].excl
        /\ \A d \in discarded'[b] : \A f \in 1 .. n : d.sub = gs[f].sub => Undone(gs, f, d.write.idx)
    <3>1. n = Len(fs)
      BY DEF n
    <3> QED BY <1>7, <1>8, <1>11, <1>13, <2>1, <2>2, <2>3, <2>4, <3>1, ReplacedExcl, ZenonT(60)
  <2> QED BY <1>11, <2>5 DEF ExclOK, gs
<1>16. EntryOK(i, e2)'
  <2>1. image'[i][e2.file] = new /\ e2.heap = h
    BY <1>6, <1>9, <1>12
  <2>2. \A t \in rows : heap[i][h][t] = "live" /\ t \in Tids
    OBVIOUS
  <2> QED BY <1>2, <1>4, <2>1, <2>2 DEF EntryOK
<1>17. /\ nextFile[i] <= nextFile'[i] /\ e2.heap < nextFile'[i] /\ e2.file < nextFile'[i]
       /\ catalog[i].file <= e2.file /\ (e2.exists => catalog[i].file < e2.file)
  <2>1. e2.heap = h /\ e2.file = file /\ file = nextFile[i]
    BY <1>6, <1>9 DEF file
  <2>2. h <= file
    BY <2>1
  <2> QED BY <1>5, <1>6, <2>1, <2>2
<1>18. \A j \in Indexes : \A f \in FileNos :
         j # i \/ f < nextFile[i] => image'[j][f] = image[j][f]
  <2>1. ASSUME NEW f \in FileNos, f < nextFile[i] PROVE f # file
    BY <1>5, <2>1 DEF file, FileNos
  <2> QED BY <1>12, <2>1
<1> QED BY <1>2, <1>5, <1>8, <1>10, <1>14, <1>15, <1>16, <1>17, <1>18, ReplaceStep

\* DROP INDEX, outside savepoints: the rows staged for it have nowhere to go.
LEMMA DropRows ==
  ASSUME IInv, IInv', RowInv, ErrorsEndTransactions, NEW b \in Backends, NEW i \in Indexes,
         DropIndex(b, i)
  PROVE  RowInv'
<1> DEFINE fs == frames[b]
           gs == frames'[b]
           n == Len(fs)
           entry == [catalog[i] EXCEPT !.exists = FALSE]
<1>1. /\ Idle(b) /\ AtRisk(b) /\ catalog[i].exists /\ ExclLockable(b, i)
      /\ ChangeCatalog(b, i, entry)
      /\ UNCHANGED <<heap, image, nextFile, inserts, nextSub, stmt, pending, discarded, vacuum>>
  BY DEF DropIndex, stageVars
<1>2. /\ catalog[i] \in Entry /\ catalog \in [Indexes -> Entry] /\ nextFile[i] \in Nat
      /\ catalog[i].heap < nextFile[i] /\ catalog[i].file < nextFile[i]
      /\ catalog[i].heap \in Nat /\ catalog[i].file \in Nat
  BY DEF IInv, StoreInv, RowInv, FileInv, FileOK, Entry, FileNos
<1>3. ~entry.exists /\ entry.heap = catalog[i].heap /\ entry.file = catalog[i].file
  BY <1>2 DEF Entry
<1>4. n = 1 /\ n \in Nat /\ fs # <<>> /\ DOMAIN fs = 1 .. n /\ fs \in Seq(Frame) /\ stmt[b] = None
  <2>1. n \in Nat /\ fs # <<>> /\ DOMAIN fs = 1 .. n /\ fs \in Seq(Frame) /\ stmt[b] = None
    BY <1>1, BackendHolds DEF Idle
  <2>2. PICK m \in Nat : m = n /\ m # 0
    BY <2>1, EmptySeq
  <2>3. m <= 1
    BY <1>1, <2>2 DEF AtRisk, ErrorsEndTransactions
  <2>4. m = 1
    <3>1. m # 0
      BY <2>2
    <3>2. m = 0 \/ m = 1
      BY <2>3
    <3> QED BY <3>1, <3>2
  <2>5. n = 1
    BY <2>2, <2>4
  <2> QED BY <2>1, <2>5
<1>5. PICK e2 : e2 = entry
  OBVIOUS
<1> HIDE DEF entry
<1>6. ChangeCatalog(b, i, e2) /\ ~e2.exists /\ e2.heap = catalog[i].heap /\ e2.file = catalog[i].file
  BY <1>1, <1>3, <1>5
<1>7. /\ Replaced(fs, gs, catalog, catalog', i) /\ catalog'[i] = e2
      /\ gs \in Seq(Frame) /\ DOMAIN gs = 1 .. n /\ n \in 1 .. n
      /\ gs[n].excl = fs[n].excl \cup {i}
      /\ \A c \in Backends \ {b} : frames'[c] = frames[c]
  BY <1>1, <1>6, ChangedFrames
<1>8. /\ Holding(pending[b], discarded[b], fs) /\ Views(pending[b], discarded[b], fs, catalog, image, Busy(b))
      /\ StashOK(discarded[b]) /\ ExclOK(b) /\ Busy(b) = {} /\ Busy(b)' = {}
      /\ \A f, g \in 1 .. n : f < g => fs[f].sub # fs[g].sub
  <2>1. \A f, g \in 1 .. n : f < g => fs[f].sub # fs[g].sub
    BY SubsDiffer DEF RowInv
  <2>2. Busy(b) = {} /\ Busy(b)' = {}
    BY <1>1, <1>4 DEF Busy
  <2> QED BY <2>1, <2>2, BackendHolds DEF RowInv, ViewInv, ViewOf, IInv, DiscardedInv, LocksInv
<1>9. ViewOf(b)'
  <2>1. PICK busy : busy = {}
    OBVIOUS
  <2>2. PICK gs2 \in Seq(Frame) : gs2 = gs
    BY <1>7
  <2>3. PICK cat2 : cat2 = catalog'
    OBVIOUS
  <2>4. PICK cat \in [Indexes -> Entry] : cat = catalog
    BY <1>2
  <2>5. PICK fs2 : fs2 = fs
    OBVIOUS
  <2>6. PICK p : p = pending[b]
    OBVIOUS
  <2>7. PICK stash : stash = discarded[b]
    OBVIOUS
  <2>8. /\ Holding(p, stash, fs2) /\ Len(fs2) = 1 /\ Replaced(fs2, gs2, cat, cat2, i)
        /\ cat2[i] = [cat[i] EXCEPT !.exists = FALSE]
        /\ Views(p, stash, fs2, cat, image, busy)
    BY <1>4, <1>5, <1>7, <1>8, <2>1, <2>2, <2>3, <2>4, <2>5, <2>6, <2>7 DEF entry
  <2>9. Views(p, stash, gs2, cat2, image, busy)
    BY <2>1, <2>2, <2>4, <2>8, DroppedSlot
  <2> QED BY <1>1, <1>8, <2>1, <2>2, <2>3, <2>6, <2>7, <2>9 DEF ViewOf
<1> HIDE DEF fs, gs, n
<1>10. ExclOK(b)'
  <2>1. /\ \A k \in 1 .. n : gs[k].sub = fs[k].sub
        /\ \A k \in 1 .. n - 1 : gs[k].excl = fs[k].excl
    BY <1>7 DEF Replaced, n
  <2>2. ReplacedEntries(fs, gs, catalog, i, n)
    <3>1. PICK cat \in [Indexes -> Entry] : cat = catalog
      BY <1>2
    <3>2. PICK cat2 : cat2 = catalog'
      OBVIOUS
    <3>3. PICK gs2 : gs2 = gs
      OBVIOUS
    <3>4. PICK fs2 : fs2 = fs
      OBVIOUS
    <3>5. PICK m \in Nat : m = n
      BY <1>4
    <3>6. Replaced(fs2, gs2, cat, cat2, i) /\ m = Len(fs2) /\ m \in 1 .. m
      BY <1>7, <3>1, <3>2, <3>3, <3>4, <3>5 DEF n
    <3>7. ReplacedEntries(fs2, gs2, cat, i, m)
      BY <3>1, <3>5, <3>6, ReplacedUndone
    <3> QED BY <3>1, <3>3, <3>4, <3>5, <3>7
  <2>3. /\ \A f \in 1 .. n : \A j \in Indexes : Undone(fs, f, j) <=> j \in fs[f].excl
        /\ \A d \in discarded[b] : \A f \in 1 .. n : d.sub = fs[f].sub => Undone(fs, f, d.write.idx)
    BY <1>4, <1>8 DEF ExclOK, fs
  <2>4. SubsApart(fs) /\ Forgotten(None, discarded[b], fs[n].sub, i, None, discarded[b])
    BY <1>8 DEF SubsApart, n, Forgotten
  <2>5. /\ \A f \in 1 .. n : \A j \in Indexes : Undone(gs, f, j) <=> j \in gs[f].excl
        /\ \A d \in discarded[b] : \A f \in 1 .. n : d.sub = gs[f].sub => Undone(gs, f, d.write.idx)
    <3>1. n = Len(fs)
      BY DEF n
    <3> QED BY <1>4, <1>7, <1>8, <2>1, <2>2, <2>3, <2>4, <3>1, ReplacedExcl
  <2> QED BY <1>1, <1>7, <2>5 DEF ExclOK, gs
<1> QED BY <1>1, <1>2, <1>6, <1>9, <1>10, ReplaceStep

-----------------------------------------------------------------------------
(* DELETE and VACUUM.                                                      *)

\* Maintenance changes no frame, statement or slot.
LEMMA MaintenanceRows ==
  ASSUME IInv, IInv', RowInv,
         UNCHANGED <<catalog, nextFile, frames, nextSub, stmt, pending, discarded>>,
         \A c \in Backends : \A i \in Indexes :
           Untouched(frames[c], catalog, catalog', image, image', i),
         \A i \in Indexes : FileOK(i)',
         \A c \in Backends : \A f \in DOMAIN frames[c] : \A j, h, t :
           <<j, h, t>> \in frames[c][f].rows => heap'[j][h][t] = "live",
         vacuum' # None => \A c \in Backends : vacuum'.idx \notin ExclOf(c),
         EntryInv', DeadInv'
  PROVE  RowInv'
<1>1. /\ ViewInv /\ EntryInv /\ SubsInv /\ FileInv /\ LocksInv /\ OwnInv /\ StmtRowInv /\ DeadInv
  BY DEF RowInv
<1>2. \A c \in Backends : Bystander(c)
  BY DEF Bystander
<1>3. ViewInv' /\ StmtRowInv' /\ SubsInv'
  <2>1. \A c \in Backends : ViewOf(c)' /\ StmtRowOK(c)' /\ SubsOK(c)'
    BY <1>1, <1>2, BystanderView, BystanderStmt, BystanderSubs
  <2> QED BY <2>1 DEF ViewInv, StmtRowInv, SubsInv
<1>4. FileInv'
  <2>1. UndoInv'
    BY <1>1 DEF FileInv, UndoInv, UndoOK
  <2> QED BY <2>1 DEF FileInv
<1>5. LocksInv'
  <2>1. \A c : LocksOf(c)' = LocksOf(c) /\ ExclOf(c)' = ExclOf(c)
    BY DEF LocksOf, ExclOf
  <2>2. \A c \in Backends : ExclOK(c)'
    BY <1>1 DEF LocksInv, ExclOK
  <2> QED BY <1>1, <2>1, <2>2 DEF LocksInv
<1>6. OwnInv'
  <2>1. ASSUME NEW c \in Backends, NEW f \in DOMAIN frames[c], NEW i \in Indexes, NEW h \in FileNos,
               NEW t \in Tids, <<i, h, t>> \in frames[c][f].rows
        PROVE  LiveRow(c, f, i, h, t)'
    BY <1>1, <2>1, OpenRow DEF LiveRow
  <2> QED BY <1>1, <2>1 DEF OwnInv
<1> QED BY <1>3, <1>4, <1>5, <1>6 DEF RowInv

\* The only entry of an index nobody holds exclusively is the present one.
LEMMA OnlyEntry ==
  ASSUME LocksInv, NEW i \in Indexes, \A c \in Backends : i \notin ExclOf(c),
         NEW e, EntryFor(catalog, frames, i, e)
  PROVE  e = catalog[i]
BY NoExcl DEF EntryFor

\* A committed row dies.
LEMMA DeleteRows ==
  ASSUME IInv, IInv', RowInv, NEW i \in Indexes, NEW t \in Tids, Delete(i, t)
  PROVE  RowInv'
<1>1. /\ ViewInv /\ EntryInv /\ SubsInv /\ FileInv /\ LocksInv /\ OwnInv /\ StmtRowInv /\ DeadInv
  BY DEF RowInv
<1>2. /\ UNCHANGED <<catalog, image, nextFile, frames, nextSub, stmt, pending, discarded, vacuum>>
      /\ heap' = [heap EXCEPT ![i][catalog[i].heap][t] = "dead"]
      /\ heap[i][catalog[i].heap][t] = "live" /\ t \notin InProgress(i)
  BY DEF Delete, xactVars, stageVars, CurrentHeap
<1>3. /\ catalog[i] \in Entry /\ catalog[i].heap \in FileNos
      /\ heap \in [Indexes -> [FileNos -> [Tids -> {"free", "live", "dead"}]]]
  BY DEF IInv, StoreInv, Entry
<1>4. \A j \in Indexes, h \in FileNos, r \in Tids :
        \/ j = i /\ h = catalog[i].heap /\ r = t /\ heap[j][h][r] = "live" /\ heap'[j][h][r] = "dead"
        \/ heap'[j][h][r] = heap[j][h][r] /\ (j # i \/ h # catalog[i].heap \/ r # t)
  BY <1>2, <1>3
<1>5. \A c \in Backends : \A j \in Indexes :
        Untouched(frames[c], catalog, catalog', image, image', j)
  BY <1>2 DEF Untouched
<1>6. \A j \in Indexes : FileOK(j)'
  <2> SUFFICES ASSUME NEW j \in Indexes, NEW h \in FileNos, h >= nextFile[j], NEW r \in Tids
               PROVE  heap'[j][h][r] = "free"
    BY <1>1, <1>2 DEF FileInv, FileOK
  <2>1. heap[j][h][r] = "free"
    BY <1>1 DEF FileInv, FileOK
  <2> QED BY <1>4, <2>1
<1>7. \A c \in Backends : \A f \in DOMAIN frames[c] : \A j, h, r :
        <<j, h, r>> \in frames[c][f].rows => heap'[j][h][r] = "live"
  <2> SUFFICES ASSUME NEW c \in Backends, NEW f \in DOMAIN frames[c], NEW j, NEW h, NEW r,
                      <<j, h, r>> \in frames[c][f].rows
               PROVE  heap'[j][h][r] = "live"
    OBVIOUS
  <2>1. j \in Indexes /\ h \in FileNos /\ r \in Tids /\ heap[j][h][r] = "live"
    BY <1>1, OpenRow
  <2>2. ~(j = i /\ h = catalog[i].heap /\ r = t)
    BY <1>2 DEF InProgress
  <2> QED BY <1>4, <2>1, <2>2
<1>8. EntryInv'
  <2> SUFFICES ASSUME NEW j \in Indexes, NEW e, EntryFor(catalog', frames', j, e), e.exists
               PROVE  EntryOK(j, e)'
    BY EntryInvFrom
  <2>1. EntryFor(catalog, frames, j, e)
    BY <1>2
  <2>2. e.heap \in FileNos /\ image[j][e.file] \in Image
    BY <1>1, <2>1, EntryForType DEF IInv, StoreInv
  <2>3. \A r \in LiveTids(image[j][e.file]) : heap[j][e.heap][r] # "free" => heap'[j][e.heap][r] # "free"
    BY <1>4, <2>2, LiveTidsType
  <2>4. \A r \in Tids : heap'[j][e.heap][r] = "live" => heap[j][e.heap][r] = "live"
    BY <1>4, <2>2
  <2> QED BY <1>1, <1>2, <2>1, <2>3, <2>4, EntryStays
<1>9. DeadInv'
  <2> SUFFICES ASSUME vacuum # None, NEW r \in vacuum.dead
               PROVE  heap'[vacuum.idx][catalog[vacuum.idx].heap][r] = "dead"
    BY <1>1, <1>2 DEF DeadInv, CurrentHeap, CurrentImage
  <2>1. vacuum.idx \in Indexes /\ r \in Tids
    BY DEF IInv, VacuumInv, Vacuum
  <2>2. catalog[vacuum.idx].heap \in FileNos
    BY <2>1 DEF IInv, StoreInv, Entry
  <2> QED BY <1>1, <1>4, <2>1, <2>2 DEF DeadInv, CurrentHeap
<1>10. vacuum' # None => \A c \in Backends : vacuum'.idx \notin ExclOf(c)
  BY <1>1, <1>2 DEF LocksInv
<1> QED BY <1>2, <1>5, <1>6, <1>7, <1>8, <1>9, <1>10, MaintenanceRows

\* REINDEX.
LEMMA ReindexRows ==
  ASSUME IInv, IInv', RowInv, NEW b \in Backends, NEW i \in Indexes, Reindex(b, i)
  PROVE  RowInv'
<1>1. PICK h : h = catalog[i].heap
  OBVIOUS
<1>2. PICK rows : rows = {t \in Tids : CurrentHeap(i)[t] = "live"}
  OBVIOUS
<1>3. Rebuild(b, i, h, rows)
  BY <1>1, <1>2 DEF Reindex
<1>4. h \in FileNos /\ h \in Nat /\ nextFile[i] \in Nat /\ h < nextFile[i]
  <2>1. catalog[i] \in Entry /\ nextFile[i] \in Nat /\ catalog[i].heap < nextFile[i]
    BY DEF IInv, StoreInv, RowInv, FileInv, FileOK
  <2>2. catalog[i].heap \in FileNos
    BY <2>1 DEF Entry
  <2> QED BY <1>1, <2>1, <2>2 DEF FileNos
<1>5. h <= nextFile[i]
  BY <1>4
<1>6. rows \in SUBSET Tids /\ \A t \in Tids : heap[i][h][t] = "live" <=> t \in rows
  BY <1>1, <1>2 DEF CurrentHeap
<1> QED BY <1>3, <1>4, <1>5, <1>6, RebuildRows

\* TRUNCATE.
LEMMA TruncateRows ==
  ASSUME IInv, IInv', RowInv, NEW b \in Backends, NEW i \in Indexes, Truncate(b, i)
  PROVE  RowInv'
<1>1. PICK h : h = nextFile[i]
  OBVIOUS
<1>2. PICK rows : rows = {}
  OBVIOUS
<1>3. Rebuild(b, i, h, rows)
  BY <1>1, <1>2 DEF Truncate
<1>4. h \in Nat
  BY <1>1 DEF IInv, StoreInv
<1>5. h <= MaxRebuilds
  BY <1>1, <1>3 DEF Rebuild
<1>6. MaxRebuilds \in Nat
  BY BoundsAssumption
<1>7. h \in FileNos
  BY <1>4, <1>5, <1>6 DEF FileNos
<1>8. h <= nextFile[i]
  BY <1>1, <1>4
<1>9. \A t \in Tids : heap[i][h][t] = "free"
  <2>1. h >= nextFile[i]
    BY <1>1, <1>4
  <2> QED BY <1>7, <2>1 DEF RowInv, FileInv, FileOK
<1>10. rows \in SUBSET Tids /\ \A t \in Tids : heap[i][h][t] = "live" <=> t \in rows
  BY <1>2, <1>9
<1> QED BY <1>3, <1>7, <1>8, <1>10, RebuildRows

\* VACUUM's first heap pass.
LEMMA VacuumScanRows ==
  ASSUME IInv, IInv', RowInv, NEW i \in Indexes, VacuumScan(i)
  PROVE  RowInv'
<1>1. /\ UNCHANGED <<catalog, heap, image, nextFile, frames, nextSub, stmt, pending, discarded>>
      /\ catalog[i].exists /\ NoExclusive(i)
      /\ vacuum' = [idx |-> i, dead |-> {t \in Tids : CurrentHeap(i)[t] = "dead"},
                    step |-> "bulkdelete"]
  BY DEF VacuumScan, storeVars, xactVars, stageVars
<1>2. \A c \in Backends : \A j \in Indexes :
        Untouched(frames[c], catalog, catalog', image, image', j)
  BY <1>1 DEF Untouched
<1>3. \A j \in Indexes : FileOK(j)'
  BY <1>1 DEF RowInv, FileInv, FileOK
<1>4. \A c \in Backends : \A f \in DOMAIN frames[c] : \A j, h, r :
        <<j, h, r>> \in frames[c][f].rows => heap'[j][h][r] = "live"
  BY <1>1, OpenRow DEF RowInv
<1>5. EntryInv'
  BY <1>1 DEF RowInv, EntryInv, EntryOK
<1>6. vacuum'.idx = i /\ vacuum'.step = "bulkdelete"
      /\ vacuum'.dead = {t \in Tids : CurrentHeap(i)[t] = "dead"}
  BY <1>1
<1>7. DeadInv'
  BY <1>1, <1>6 DEF DeadInv, CurrentHeap
<1>8. \A c \in Backends : vacuum'.idx \notin ExclOf(c)
  BY <1>1, <1>6 DEF NoExclusive
<1> QED BY <1>1, <1>2, <1>3, <1>4, <1>5, <1>7, <1>8, MaintenanceRows

\* The running VACUUM: its index exists, nobody replaces it, and the rows it has
\* collected are dead.
LEMMA VacuumHolds ==
  ASSUME IInv, RowInv, vacuum # None
  PROVE  /\ vacuum \in Vacuum /\ vacuum.idx \in Indexes /\ vacuum.dead \subseteq Tids
         /\ catalog[vacuum.idx] \in Entry /\ catalog[vacuum.idx].exists
         /\ catalog[vacuum.idx].heap \in FileNos /\ catalog[vacuum.idx].file \in FileNos
         /\ CurrentImage(vacuum.idx) \in Image
         /\ \A c \in Backends : vacuum.idx \notin ExclOf(c)
         /\ \A t \in vacuum.dead : heap[vacuum.idx][catalog[vacuum.idx].heap][t] = "dead"
         /\ EntryOK(vacuum.idx, catalog[vacuum.idx])
         /\ \A e : EntryFor(catalog, frames, vacuum.idx, e) => e = catalog[vacuum.idx]
<1>1. vacuum \in Vacuum /\ vacuum.idx \in Indexes /\ vacuum.dead \subseteq Tids
  BY DEF IInv, VacuumInv, Vacuum
<1>2. /\ catalog[vacuum.idx] \in Entry /\ catalog[vacuum.idx].heap \in FileNos
      /\ catalog[vacuum.idx].file \in FileNos
  BY <1>1 DEF IInv, StoreInv, Entry
<1>3. CurrentImage(vacuum.idx) \in Image
  BY <1>1, CurrentImageType DEF IInv
<1>4. /\ catalog[vacuum.idx].exists
      /\ \A t \in vacuum.dead : heap[vacuum.idx][catalog[vacuum.idx].heap][t] = "dead"
  BY DEF RowInv, DeadInv, CurrentHeap
<1>5. \A c \in Backends : vacuum.idx \notin ExclOf(c)
  BY DEF RowInv, LocksInv
<1>6. \A e : EntryFor(catalog, frames, vacuum.idx, e) => e = catalog[vacuum.idx]
  BY <1>1, <1>5, OnlyEntry DEF RowInv
<1>7. EntryOK(vacuum.idx, catalog[vacuum.idx])
  <2>1. EntryFor(catalog, frames, vacuum.idx, catalog[vacuum.idx])
    BY DEF EntryFor
  <2> QED BY <1>1, <1>4, <2>1, EntryInOrder DEF RowInv
<1> QED BY <1>1, <1>2, <1>3, <1>4, <1>5, <1>6, <1>7

\* VACUUM's pass over the index.
LEMMA BulkDeleteRows ==
  ASSUME IInv, IInv', RowInv, BulkDeleteStep
  PROVE  RowInv'
<1>1. PICK i : i = vacuum.idx
  OBVIOUS
<1>2. PICK dead : dead = vacuum.dead
  OBVIOUS
<1>3. PICK now : now = image[i][catalog[i].file]
  OBVIOUS
<1>4. /\ UNCHANGED <<catalog, heap, nextFile, frames, nextSub, stmt, pending, discarded>>
      /\ vacuum # None /\ vacuum' = [vacuum EXCEPT !.step = "heap"]
      /\ \/ LiveTids(now) \cap dead = {} /\ image' = image
         \/ image' = [image EXCEPT ![i][catalog[i].file] = Swept(now, dead)]
  BY <1>1, <1>2, <1>3
     DEF BulkDeleteStep, xactVars, stageVars, SetImage, CurrentImage, Swept
<1>5. /\ i \in Indexes /\ dead \subseteq Tids /\ catalog[i] \in Entry /\ catalog[i].exists
      /\ catalog[i].file \in FileNos /\ now \in Image
      /\ \A c \in Backends : i \notin ExclOf(c)
      /\ \A t \in dead : heap[i][catalog[i].heap][t] = "dead"
      /\ EntryOK(i, catalog[i])
      /\ \A e : EntryFor(catalog, frames, i, e) => e = catalog[i]
  BY <1>1, <1>2, <1>3, <1>4, VacuumHolds DEF CurrentImage
<1>6. vacuum'.idx = i /\ vacuum'.dead = dead /\ vacuum'.step = "heap"
  BY <1>1, <1>2, <1>4, VacuumHolds DEF Vacuum
<1>7. PICK new : new = image'[i][catalog[i].file]
  OBVIOUS
<1>8. /\ \A j \in Indexes : j # i => image'[j] = image[j]
      /\ LiveTids(new) = LiveTids(now) \ dead /\ ImageOK(new)
      /\ now.gen <= new.gen /\ (now.gen = new.gen => now = new)
  <2>1. image \in [Indexes -> [FileNos -> Image]] /\ ImageOK(now)
    BY <1>3, <1>5 DEF IInv, StoreInv, EntryOK
  <2>2. now.gen \in Nat
    BY <1>5 DEF Image
  <2>3. CASE LiveTids(now) \cap dead = {} /\ image' = image
    <3>1. new = now
      BY <1>3, <1>7, <2>3
    <3> QED BY <2>1, <2>2, <2>3, <3>1
  <2>4. CASE image' = [image EXCEPT ![i][catalog[i].file] = Swept(now, dead)]
    <3>1. new = Swept(now, dead) /\ \A j \in Indexes : j # i => image'[j] = image[j]
      BY <1>5, <1>7, <2>1, <2>4
    <3>2. new.gen = now.gen + 1 /\ LiveTids(new) = LiveTids(now) \ dead /\ ImageOK(new)
      BY <1>5, <2>1, <3>1, SweptOK
    <3>3. now.gen <= new.gen /\ now.gen # new.gen
      <4>1. PICK k \in Nat : k = now.gen
        BY <2>2
      <4>2. new.gen = k + 1
        BY <3>2, <4>1
      <4> QED BY <4>1, <4>2
    <3> QED BY <3>1, <3>2, <3>3
  <2> QED BY <1>4, <2>3, <2>4
<1>9. ASSUME NEW c \in Backends, NEW j \in Indexes
      PROVE  Untouched(frames[c], catalog, catalog', image, image', j)
  <2>1. CASE j # i
    BY <1>4, <1>8, <2>1 DEF Untouched
  <2>2. CASE j = i
    <3>1. \A f \in DOMAIN frames[c] : ~Undone(frames[c], f, i)
      BY <1>5, NoExcl DEF RowInv
    <3>2. \A g \in DOMAIN frames[c] : \A t \in Tids : <<i, catalog[i].heap, t>> \in frames[c][g].rows =>
            t \notin dead
      <4> SUFFICES ASSUME NEW g \in DOMAIN frames[c], NEW t \in Tids,
                          <<i, catalog[i].heap, t>> \in frames[c][g].rows, t \in dead
                   PROVE  FALSE
        OBVIOUS
      <4>1. heap[i][catalog[i].heap][t] = "live"
        BY OpenRow DEF RowInv
      <4> QED BY <1>5, <4>1
    <3>3. Moved(i, catalog[i].heap, frames[c], now, new)
      BY <1>8, <3>2 DEF Moved
    <3> QED BY <1>3, <1>4, <1>7, <2>2, <3>1, <3>3 DEF Untouched
  <2> QED BY <2>1, <2>2
<1>10. \A j \in Indexes : FileOK(j)'
  BY <1>4 DEF RowInv, FileInv, FileOK
<1>11. \A c \in Backends : \A f \in DOMAIN frames[c] : \A j, h, r :
        <<j, h, r>> \in frames[c][f].rows => heap'[j][h][r] = "live"
  BY <1>4, OpenRow DEF RowInv
<1>12. EntryInv'
  <2> SUFFICES ASSUME NEW j \in Indexes, NEW e, EntryFor(catalog', frames', j, e), e.exists
               PROVE  EntryOK(j, e)'
    BY EntryInvFrom
  <2>1. EntryFor(catalog, frames, j, e)
    BY <1>4
  <2>2. CASE j # i
    <3>1. EntryOK(j, e)
      BY <2>1, EntryInOrder DEF RowInv
    <3> QED BY <1>4, <1>8, <2>2, <3>1 DEF EntryOK
  <2>3. CASE j = i
    <3>1. e = catalog[i]
      BY <1>5, <2>1, <2>3
    <3>2. /\ \A t \in LiveTids(now) : heap[i][catalog[i].heap][t] # "free"
          /\ \A t \in Tids : heap[i][catalog[i].heap][t] = "live" /\ ~Owned(frames, i, catalog[i].heap, t) =>
               t \in LiveTids(now)
      BY <1>3, <1>5 DEF EntryOK
    <3>3. /\ \A t \in LiveTids(new) : heap[i][catalog[i].heap][t] # "free"
          /\ \A t \in Tids : heap[i][catalog[i].heap][t] = "live" /\ ~Owned(frames, i, catalog[i].heap, t) =>
               t \in LiveTids(new)
      BY <1>5, <1>8, <3>2
    <3> QED BY <1>4, <1>7, <1>8, <2>3, <3>1, <3>3 DEF EntryOK
  <2> QED BY <2>2, <2>3
<1>13. DeadInv'
  <2>1. LiveTids(new) \cap dead = {}
    BY <1>8
  <2> QED BY <1>4, <1>5, <1>6, <1>7, <2>1 DEF DeadInv, CurrentHeap, CurrentImage
<1>14. \A c \in Backends : vacuum'.idx \notin ExclOf(c)
  BY <1>5, <1>6
<1> QED BY <1>4, <1>9, <1>10, <1>11, <1>12, <1>13, <1>14, MaintenanceRows

\* VACUUM's second heap pass.
LEMMA VacuumHeapRows ==
  ASSUME IInv, IInv', RowInv, VacuumHeap
  PROVE  RowInv'
<1>1. PICK i : i = vacuum.idx
  OBVIOUS
<1>2. PICK dead : dead = vacuum.dead
  OBVIOUS
<1>3. PICK h : h = catalog[i].heap
  OBVIOUS
<1>4. /\ UNCHANGED <<catalog, image, nextFile, frames, nextSub, stmt, pending, discarded>>
      /\ vacuum # None /\ vacuum' = None /\ vacuum.step = "heap"
      /\ heap' = [heap EXCEPT ![i][h] = [t \in Tids |-> IF t \in dead THEN "free" ELSE @[t]]]
  BY <1>1, <1>2, <1>3 DEF VacuumHeap, xactVars, stageVars
<1>5. /\ i \in Indexes /\ dead \subseteq Tids /\ h \in FileNos /\ catalog[i].exists
      /\ \A t \in dead : heap[i][h][t] = "dead"
      /\ \A e : EntryFor(catalog, frames, i, e) => e = catalog[i]
      /\ LiveTids(CurrentImage(i)) \cap dead = {}
  BY <1>1, <1>2, <1>3, <1>4, VacuumHolds DEF RowInv, DeadInv
<1>6. \A j \in Indexes, g \in FileNos, t \in Tids :
        \/ j = i /\ g = h /\ t \in dead /\ heap[j][g][t] = "dead" /\ heap'[j][g][t] = "free"
        \/ heap'[j][g][t] = heap[j][g][t] /\ ~(j = i /\ g = h /\ t \in dead)
  <2>1. heap \in [Indexes -> [FileNos -> [Tids -> {"free", "live", "dead"}]]]
    BY DEF IInv, StoreInv
  <2>2. \A t \in Tids : heap'[i][h][t] = IF t \in dead THEN "free" ELSE heap[i][h][t]
    BY <1>4, <1>5, <2>1
  <2>3. /\ \A j \in Indexes : j # i => heap'[j] = heap[j]
        /\ \A g \in FileNos : g # h => heap'[i][g] = heap[i][g]
    BY <1>4, <1>5, <2>1
  <2> QED BY <1>5, <2>2, <2>3
<1>7. \A c \in Backends : \A j \in Indexes :
        Untouched(frames[c], catalog, catalog', image, image', j)
  BY <1>4 DEF Untouched
<1>8. \A j \in Indexes : FileOK(j)'
  <2> SUFFICES ASSUME NEW j \in Indexes, NEW g \in FileNos, g >= nextFile[j], NEW r \in Tids
               PROVE  heap'[j][g][r] = "free"
    BY <1>4 DEF RowInv, FileInv, FileOK
  <2>1. heap[j][g][r] = "free"
    BY DEF RowInv, FileInv, FileOK
  <2> QED BY <1>6, <2>1
<1>9. \A c \in Backends : \A f \in DOMAIN frames[c] : \A j, g, r :
        <<j, g, r>> \in frames[c][f].rows => heap'[j][g][r] = "live"
  <2> SUFFICES ASSUME NEW c \in Backends, NEW f \in DOMAIN frames[c], NEW j, NEW g, NEW r,
                      <<j, g, r>> \in frames[c][f].rows
               PROVE  heap'[j][g][r] = "live"
    OBVIOUS
  <2>1. j \in Indexes /\ g \in FileNos /\ r \in Tids /\ heap[j][g][r] = "live"
    BY OpenRow DEF RowInv
  <2> QED BY <1>6, <2>1
<1>10. EntryInv'
  <2> SUFFICES ASSUME NEW j \in Indexes, NEW e, EntryFor(catalog', frames', j, e), e.exists
               PROVE  EntryOK(j, e)'
    BY EntryInvFrom
  <2>1. EntryFor(catalog, frames, j, e)
    BY <1>4
  <2>2. e.heap \in FileNos /\ e.file \in FileNos /\ image[j][e.file] \in Image
    BY <2>1, EntryForType DEF RowInv, IInv, StoreInv
  <2>3. \A r \in LiveTids(image[j][e.file]) : heap[j][e.heap][r] # "free" => heap'[j][e.heap][r] # "free"
    <3> SUFFICES ASSUME NEW r \in LiveTids(image[j][e.file]), heap[j][e.heap][r] # "free"
                 PROVE  heap'[j][e.heap][r] # "free"
      OBVIOUS
    <3>1. r \in Tids
      BY <2>2, LiveTidsType
    <3>2. ~(j = i /\ e.heap = h /\ r \in dead)
      BY <1>5, <2>1 DEF CurrentImage
    <3> QED BY <1>6, <2>2, <3>1, <3>2
  <2>4. \A r \in Tids : heap'[j][e.heap][r] = "live" => heap[j][e.heap][r] = "live"
    BY <1>6, <2>2
  <2> QED BY <1>4, <2>1, <2>3, <2>4, EntryStays DEF RowInv
<1>11. DeadInv'
  BY <1>4 DEF DeadInv
<1> QED BY <1>4, <1>7, <1>8, <1>9, <1>10, <1>11, MaintenanceRows

\* Nothing happens.
LEMMA StutterRows ==
  ASSUME RowInv, UNCHANGED vars
  PROVE  RowInv'
<1>1. UNCHANGED <<catalog, heap, image, nextFile, frames, nextSub, stmt, pending, discarded, vacuum>>
  BY DEF vars, storeVars, xactVars, stageVars
<1>2. ViewInv' /\ SubsInv' /\ EntryInv'
  <2>1. \A c \in Backends : Busy(c)' = Busy(c)
    BY <1>1 DEF Busy
  <2>2. \A c \in Backends : ViewOf(c)'
    BY <1>1, <2>1 DEF RowInv, ViewInv, ViewOf
  <2>3. SubsInv'
    BY <1>1 DEF RowInv, SubsInv, SubsOK
  <2>4. EntryInv'
    BY <1>1 DEF RowInv, EntryInv, EntryOK
  <2> QED BY <2>2, <2>3, <2>4 DEF ViewInv
<1>3. FileInv' /\ OwnInv' /\ DeadInv'
  BY <1>1 DEF RowInv, FileInv, FileOK, UndoInv, UndoOK, OwnInv, LiveRow, DeadInv, CurrentHeap, CurrentImage
<1>4. LocksInv' /\ StmtRowInv'
  <2>1. \A c : ExclOf(c)' = ExclOf(c) /\ LocksOf(c)' = LocksOf(c)
    BY <1>1 DEF ExclOf, LocksOf
  <2>2. LocksInv'
    BY <1>1, <2>1 DEF RowInv, LocksInv, ExclOK
  <2>3. StmtRowInv'
    BY <1>1 DEF RowInv, StmtRowInv, StmtRowOK, InsertOK, TopFrame, CurrentImage
  <2> QED BY <2>2, <2>3
<1> QED BY <1>2, <1>3, <1>4 DEF RowInv

-----------------------------------------------------------------------------
(* The invariant, and what follows from it.                                *)

\* Freshly built indexes.
LEMMA InitRows == Init => RowInv
<1> SUFFICES ASSUME Init PROVE RowInv
  OBVIOUS
<1>1. IInv
  BY InitInv
<1>2. /\ \A b \in Backends : frames[b] = <<>> /\ DOMAIN frames[b] = {}
      /\ \A b \in Backends : /\ stmt[b] = None /\ pending[b] = None /\ discarded[b] = {}
                             /\ nextSub[b] = TopSubTransactionId + 1
      /\ vacuum = None
  BY DEF Init
<1>3. \A i \in Indexes : /\ catalog[i].exists /\ catalog[i].heap = 0 /\ catalog[i].file = 0
                         /\ nextFile[i] = 1
  BY DEF Init
<1>4. 0 \in FileNos
  BY BoundsAssumption DEF FileNos
<1>5. ViewInv /\ OwnInv /\ StmtRowInv /\ DeadInv
  <2>1. ViewInv
    BY <1>2 DEF ViewInv, ViewOf, Views
  <2>2. OwnInv
    BY <1>2 DEF OwnInv
  <2> QED BY <1>2, <2>1, <2>2 DEF StmtRowInv, StmtRowOK, DeadInv
<1>6. SubsInv
  BY <1>2 DEF SubsInv, SubsOK, TopSubTransactionId
<1>7. FileInv
  <2>1. \A i \in Indexes : FileOK(i)
    <3> SUFFICES ASSUME NEW i \in Indexes PROVE FileOK(i)
      OBVIOUS
    <3>1. \A h \in FileNos : h >= 1 => h # 0 /\ \A t \in Tids : heap[i][h][t] = "free"
      BY DEF Init, FileNos
    <3> QED BY <1>3, <3>1 DEF FileOK
  <2> QED BY <1>2, <2>1 DEF FileInv, UndoInv
<1>8. LocksInv
  <2>1. \A b \in Backends : ExclOK(b)
    BY <1>2 DEF ExclOK
  <2>2. \A b \in Backends : ExclOf(b) = {}
    BY <1>2 DEF ExclOf
  <2> QED BY <1>2, <2>1, <2>2 DEF LocksInv
<1>9. EntryInv
  <2> SUFFICES ASSUME NEW i \in Indexes, NEW e, EntryFor(catalog, frames, i, e), e.exists
               PROVE  EntryOK(i, e)
    BY DEF EntryInv
  <2>1. e = catalog[i]
    BY <1>2 DEF EntryFor
  <2>2. InitialRows \in SUBSET Tids
    BY BoundsAssumption
  <2>3. image[i][0] \in BuiltImages(InitialRows)
    BY <1>4 DEF Init
  <2>4. ImageOK(image[i][0]) /\ LiveTids(image[i][0]) = InitialRows
    BY <2>2, <2>3, BuiltOK
  <2>5. \A t \in Tids : heap[i][0][t] = IF t \in InitialRows THEN "live" ELSE "free"
    BY <1>4 DEF Init
  <2> QED BY <1>3, <2>1, <2>2, <2>4, <2>5 DEF EntryOK
<1> QED BY <1>5, <1>6, <1>7, <1>8, <1>9 DEF RowInv

\* Every step keeps the rows in order.
LEMMA NextRows ==
  ASSUME IInv, IInv', StashInv, RowInv, ErrorsEndTransactions, [Next]_vars
  PROVE  RowInv'
<1>1. ASSUME NEW b \in Backends, BackendStep(b)
      PROVE  RowInv'
  <2>1. CASE Begin(b) \/ StartParallelPlan(b) \/ StartCommit(b)
    BY <2>1, BeginRows, StartOtherRows
  <2>2. ASSUME NEW i \in Indexes, NEW t \in Tids, StartInsert(b, i, t)
        PROVE  RowInv'
    BY <2>2, StartInsertRows
  <2>3. ASSUME NEW i \in Indexes, StartScan(b, i)
        PROVE  RowInv'
    BY <2>3, StartScanRows
  <2>4. CASE Settle(b) \/ StageRow(b) \/ FinishRead(b) \/ Commit(b)
    BY <2>4, SettleRows, StageRowRows, FinishReadRows, CommitRows
  <2>5. CASE Flush(b)
    BY <2>5, FlushRows, FlushNothingRows
  <2>6. CASE SubStart(b) \/ SubCommit(b)
    BY <2>6, SubStartRows, SubCommitRows
  <2>7. CASE Abort(b) \/ SettleFails(b) \/ FlushFails(b) \/ StageFails(b)
    BY <2>7, AbortRows
  <2>8. ASSUME NEW i \in Indexes, Reindex(b, i) \/ Truncate(b, i) \/ DropIndex(b, i)
        PROVE  RowInv'
    BY <2>8, ReindexRows, TruncateRows, DropRows
  <2> QED
    BY <1>1, <2>1, <2>2, <2>3, <2>4, <2>5, <2>6, <2>7, <2>8, Zenon DEF BackendStep
<1>2. CASE MaintenanceStep
  <2>1. ASSUME NEW i \in Indexes, NEW t \in Tids, Delete(i, t) PROVE RowInv'
    BY <2>1, DeleteRows
  <2>2. ASSUME NEW i \in Indexes, VacuumScan(i) PROVE RowInv'
    BY <2>2, VacuumScanRows
  <2> QED BY <1>2, <2>1, <2>2, BulkDeleteRows, VacuumHeapRows DEF MaintenanceStep
<1>3. CASE UNCHANGED vars
  BY <1>3, StutterRows
<1> QED BY <1>1, <1>2, <1>3 DEF Next

\* While errors, and DROP INDEX, come outside savepoints, the rows are in order at every
\* level a rollback can go back to.
THEOREM RowsInOrder ==
  ASSUME ErrorsEndTransactions
  PROVE  Spec => []RowInv
<1>1. Init => RowInv
  BY InitRows
<1>2. IInv /\ IInv' /\ StashInv /\ RowInv /\ [Next]_vars => RowInv'
  BY NextRows
<1>3. Spec => []StashInv
  BY StashInOrder DEF StashInv
<1> QED BY <1>1, <1>2, <1>3, Inductive, PTL DEF Spec

\* A row an open transaction inserted is in the image, or staged and not rolled back, or
\* about to be staged.
LEMMA OwnRowKept ==
  ASSUME IInv, RowInv, NEW b \in Backends, NEW f \in DOMAIN frames[b], NEW i \in Indexes,
         NEW t \in Tids, catalog[i].exists, <<i, catalog[i].heap, t>> \in frames[b][f].rows
  PROVE  \/ t \in LiveTids(CurrentImage(i))
         \/ pending[b] # None /\ pending[b].idx = i /\ KeptRow(pending[b], Surviving(pending[b]), t)
         \/ stmt[b] # None /\ stmt[b].kind = "insert" /\ stmt[b].idx = i /\ stmt[b].tid = t
<1>1. /\ frames[b] # <<>> /\ DOMAIN frames[b] = 1 .. Len(frames[b]) /\ Len(frames[b]) \in Nat
  BY BackendHolds
<1>2. Kept(frames[b], Len(frames[b]), pending[b], i, catalog[i], CurrentImage(i), Busy(b))
  BY <1>1, SlotTop DEF RowInv, CurrentImage
<1>3. \/ t \in LiveTids(CurrentImage(i))
      \/ /\ pending[b] # None /\ pending[b].idx = i
         /\ KeptRow(pending[b], Limit(pending[b], Len(frames[b]), f), t)
      \/ <<i, t>> \in Busy(b)
  BY <1>1, <1>2 DEF Kept
<1>4. CASE <<i, t>> \in Busy(b)
  BY <1>4 DEF Busy
<1>5. CASE /\ pending[b] # None /\ pending[b].idx = i
           /\ KeptRow(pending[b], Limit(pending[b], Len(frames[b]), f), t)
  <2>1. PICK n : n = Len(frames[b])
    OBVIOUS
  <2>2. PICK p : p = pending[b]
    OBVIOUS
  <2>3. /\ WriteOK(p) /\ FitsShape(p, n, frames[b]) /\ Limit(p, n, n) = Surviving(p)
    BY <1>1, <1>5, <2>1, <2>2, SlotTop DEF RowInv
  <2>4. Len(p.marks) < n /\ n \in Nat /\ f \in 0 .. n /\ n \in 0 .. n /\ f <= n
    BY <1>1, <2>1, <2>3 DEF FitsShape
  <2>5. KeptRow(p, Limit(p, n, f), t)
    BY <1>5, <2>1, <2>2
  <2>6. CountLeq(Limit(p, n, f), Limit(p, n, n)) /\ Limit(p, n, f) \in Count /\ Limit(p, n, n) \in Count
    BY <2>3, <2>4, LimitMono, LimitType
  <2>7. KeptRow(p, Limit(p, n, n), t)
    BY <2>5, <2>6, KeptMono
  <2> QED BY <1>5, <2>2, <2>3, <2>7
<1> QED BY <1>3, <1>4, <1>5

\* The rows staged for an index are those its slot keeps.
LEMMA StagedForKept ==
  ASSUME IInv, RowInv, NEW b \in Backends, NEW i \in Indexes, NEW t
  PROVE  t \in StagedFor(b, i) <=>
           pending[b] # None /\ pending[b].idx = i /\ KeptRow(pending[b], Surviving(pending[b]), t)
<1>1. CASE pending[b] # None /\ pending[b].idx = i
  <2>1. frames[b] # <<>>
    BY <1>1 DEF RowInv, SubsInv, SubsOK
  <2>2. WriteOK(pending[b]) /\ StagedShape(pending[b])
    BY <1>1, <2>1, SlotTop DEF RowInv, FitsShape
  <2>3. t \in SurvivingTids(pending[b]) <=> KeptRow(pending[b], Surviving(pending[b]), t)
    BY <2>2, SurvivingKept
  <2> QED BY <1>1, <2>3 DEF StagedFor
<1>2. CASE ~(pending[b] # None /\ pending[b].idx = i)
  BY <1>2 DEF StagedFor
<1> QED BY <1>1, <1>2

\* No row is lost: a row that is alive in the table of an index is in its image, or staged
\* and not rolled back, or about to be staged.
THEOREM NoRowIsLost ==
  ASSUME ErrorsEndTransactions
  PROVE  Spec => []NoRowLost
<1>1. ASSUME IInv, RowInv PROVE NoRowLost
  <2> SUFFICES ASSUME NEW i \in Indexes, catalog[i].exists, NEW t \in Tids, CurrentHeap(i)[t] = "live"
               PROVE  \/ t \in LiveTids(CurrentImage(i))
                      \/ \E b \in Backends : t \in StagedFor(b, i) \/ t \in BeingInserted(b, i)
    BY DEF NoRowLost
  <2>1. CASE ~Owned(frames, i, catalog[i].heap, t)
    <3>1. EntryOK(i, catalog[i])
      BY <1>1, EntryInOrder DEF EntryFor, RowInv
    <3> QED BY <2>1, <3>1 DEF EntryOK, CurrentHeap, CurrentImage
  <2>2. CASE Owned(frames, i, catalog[i].heap, t)
    <3>1. PICK b \in Backends : \E f \in DOMAIN frames[b] : <<i, catalog[i].heap, t>> \in frames[b][f].rows
      BY <2>2 DEF Owned
    <3>2. \/ t \in LiveTids(CurrentImage(i))
          \/ pending[b] # None /\ pending[b].idx = i /\ KeptRow(pending[b], Surviving(pending[b]), t)
          \/ stmt[b] # None /\ stmt[b].kind = "insert" /\ stmt[b].idx = i /\ stmt[b].tid = t
      BY <1>1, <3>1, OwnRowKept
    <3>3. CASE pending[b] # None /\ pending[b].idx = i /\ KeptRow(pending[b], Surviving(pending[b]), t)
      BY <1>1, <3>3, StagedForKept
    <3>4. CASE stmt[b] # None /\ stmt[b].kind = "insert" /\ stmt[b].idx = i /\ stmt[b].tid = t
      BY <3>4 DEF BeingInserted
    <3> QED BY <3>2, <3>3, <3>4
  <2> QED BY <2>1, <2>2
<1> QED BY <1>1, Inductive, RowsInOrder, PTL

\* An entry of the image never points at a freed heap slot: what a backend still holds, and
\* what a rollback gives back to it, never brings such an entry back.
THEOREM NoEntryDangles ==
  ASSUME ErrorsEndTransactions
  PROVE  Spec => []NoDanglingEntry
<1>1. ASSUME IInv, RowInv PROVE NoDanglingEntry
  <2> SUFFICES ASSUME NEW i \in Indexes, catalog[i].exists
               PROVE  \A t \in LiveTids(CurrentImage(i)) : CurrentHeap(i)[t] # "free"
    BY DEF NoDanglingEntry
  <2>1. EntryOK(i, catalog[i])
    BY <1>1, EntryInOrder DEF EntryFor, RowInv
  <2> QED BY <2>1 DEF EntryOK, CurrentHeap, CurrentImage
<1> QED BY <1>1, Inductive, RowsInOrder, PTL

\* A backend that reads an index, itself or through parallel workers, finds in the image
\* what its own transaction inserted (flush_pending_for, flush_before_parallel_plan).
THEOREM OwnRowsAreRead ==
  ASSUME ErrorsEndTransactions
  PROVE  Spec => []ReadsItsOwnRows
<1>1. ASSUME IInv, RowInv PROVE ReadsItsOwnRows
  <2> SUFFICES ASSUME NEW b \in Backends, AtStep(b, "work"), stmt[b].kind \in {"scan", "parallel"},
                      NEW i \in Indexes, catalog[i].exists,
                      stmt[b].kind = "parallel" \/ stmt[b].idx = i,
                      NEW k \in DOMAIN frames[b], NEW t \in Tids,
                      <<i, catalog[i].heap, t>> \in frames[b][k].rows
               PROVE  t \in LiveTids(CurrentImage(i))
    BY DEF ReadsItsOwnRows
  <2>1. stmt[b] # None /\ stmt[b].kind # "insert" /\ ~Takes(stmt[b], pending[b])
    BY <1>1 DEF AtStep, RowInv, StmtRowInv, StmtRowOK
  <2>2. ~(pending[b] # None /\ pending[b].idx = i)
    BY <2>1 DEF Takes
  <2> QED BY <1>1, <2>1, <2>2, OwnRowKept
<1> QED BY <1>1, Inductive, RowsInOrder, PTL

\* A row of a part that is the image's.
LEMMA BasePart ==
  ASSUME NEW w, WriteOK(w), NEW img \in Image, SameBase(w, img), NEW v \in Kinds
  PROVE  SubSeq(Part(w, v), 1, BaseLen(w, v)) = Part(img, v)
<1>1. PICK n \in Nat : n = BaseLen(w, v)
  BY PartType
<1>2. PICK m \in Nat : m = Len(Part(w, v))
  BY PartType
<1>3. PICK s \in Seq(Node) : s = Part(w, v)
  BY PartType
<1>4. PICK r \in Seq(Node) : r = Part(img, v)
  BY ImagePartType
<1>5. n <= m /\ m = Len(s) /\ Len(r) = n /\ \A k \in 1 .. n : s[k] = r[k]
  BY <1>1, <1>2, <1>3, <1>4, PartType DEF SameBase
<1>6. \A k \in 1 .. n : k \in 1 .. Len(s)
  BY <1>5
<1>7. \A k \in 1 .. n : s[k] \in Node
  BY <1>6, ElementOfSeq
<1>8. /\ SubSeq(s, 1, n) \in Seq(Node)
      /\ Len(SubSeq(s, 1, n)) = IF 1 <= n THEN n - 1 + 1 ELSE 0
      /\ \A k \in 1 .. n - 1 + 1 : SubSeq(s, 1, n)[k] = s[1 + k - 1]
  BY <1>7, SubSeqProperties
<1>9. Len(SubSeq(s, 1, n)) = n /\ \A k \in 1 .. n : SubSeq(s, 1, n)[k] = s[k]
  BY <1>8
<1>10. SubSeq(s, 1, n) = r
  BY <1>5, <1>8, <1>9, SeqEqual
<1> QED BY <1>1, <1>3, <1>4, <1>10

\* No update is lost: a staged write that would be written as it is was loaded from the
\* image that is there.
THEOREM BaseStaysCurrent ==
  ASSUME ErrorsEndTransactions
  PROVE  Spec => []BaseIsCurrent
<1>1. ASSUME IInv, RowInv PROVE BaseIsCurrent
  <2> SUFFICES ASSUME NEW b \in Backends, pending[b] # None, pending[b].rewind # ZeroCount,
                      catalog[pending[b].idx].exists,
                      pending[b].baseGen = CurrentImage(pending[b].idx).gen
               PROVE  /\ SubSeq(pending[b].graph, 1, pending[b].baseN)
                           = CurrentImage(pending[b].idx).graph
                      /\ SubSeq(pending[b].unrankable, 1, pending[b].baseUnrankable)
                           = CurrentImage(pending[b].idx).unrankable
    BY DEF BaseIsCurrent
  <2>1. PICK w : w = pending[b]
    OBVIOUS
  <2>2. PICK img : img = CurrentImage(w.idx)
    OBVIOUS
  <2>3. frames[b] # <<>>
    BY <1>1 DEF RowInv, SubsInv, SubsOK
  <2>4. PICK n : n = Len(frames[b])
    OBVIOUS
  <2>5. /\ WriteOK(w) /\ w.idx \in Indexes /\ n \in Nat
        /\ FitsShape(w, n, frames[b]) /\ FitsEntry(w, n, frames[b], catalog[w.idx], img)
    BY <1>1, <2>1, <2>2, <2>3, <2>4, SlotTop, BackendHolds DEF RowInv, CurrentImage
  <2>6. img \in Image
    BY <1>1, <2>2, <2>5, CurrentImageType DEF IInv
  <2>7. Staged(w) # ZeroCount
    BY <2>5 DEF FitsShape, StagedShape
  <2>8. Limit(w, n, n) # ZeroCount
    BY <2>1, <2>5, <2>7, LimitTopZero
  <2>9. SameBase(w, img)
    BY <2>1, <2>2, <2>4, <2>5, <2>8 DEF FitsEntry, BaseFits
  <2>10. SubSeq(Part(w, "graph"), 1, BaseLen(w, "graph")) = Part(img, "graph")
         /\ SubSeq(Part(w, "unrankable"), 1, BaseLen(w, "unrankable")) = Part(img, "unrankable")
    BY <2>5, <2>6, <2>9, BasePart DEF Kinds
  <2>11. SubSeq(w.graph, 1, w.baseN) = img.graph /\ SubSeq(w.unrankable, 1, w.baseUnrankable) = img.unrankable
    BY <2>10 DEF Part, BaseLen
  <2> QED BY <2>1, <2>2, <2>11
<1> QED BY <1>1, Inductive, RowsInOrder, PTL

\* At most one entry of a part is live for a row, and of the part of its kind only.
LEMMA CountOfPart ==
  ASSUME NEW img \in Image, ImageOK(img), NEW t, NEW v \in Kinds
  PROVE  /\ Count1(Part(img, v), t) \in {0, 1}
         /\ Count1(Part(img, v), t) = 1 => KindOf(t) = v /\ t \in LiveTids(img)
<1> DEFINE s == Part(img, v)
           hits == {k \in DOMAIN s : s[k] = LiveNode(t)}
<1>1. DOMAIN s = 1 .. Len(s)
  BY ImagePartType
<1>2. \A k \in hits : ~s[k].deleted /\ s[k].tid = t
  BY DEF LiveNode
<1>3. ASSUME NEW j \in hits, NEW k \in hits PROVE j = k
  BY <1>1, <1>2 DEF ImageOK
<1>4. CASE hits = {}
  BY <1>4, FS_EmptySet DEF Count1
<1>5. CASE hits # {}
  <2>1. PICK k \in hits : hits = {k}
    BY <1>3, <1>5
  <2>2. Cardinality(hits) = 1
    BY <2>1, FS_Singleton
  <2>3. KindOf(t) = v
    BY <1>1, <1>2, <2>1 DEF ImageOK
  <2>4. t \in LiveTids(img)
    BY <1>1, <1>2, <2>1, LiveByKind
  <2> QED BY <2>2, <2>3, <2>4 DEF Count1
<1> QED BY <1>4, <1>5

\* No row is indexed twice: a row is in one part of the image once, or staged by one backend,
\* or neither.
THEOREM NoRowIsTwice ==
  ASSUME ErrorsEndTransactions
  PROVE  Spec => []NoRowTwice
<1>1. ASSUME IInv, RowInv PROVE NoRowTwice
  <2> SUFFICES ASSUME NEW i \in Indexes, catalog[i].exists, NEW t \in Tids
               PROVE  Entries(i, t) <= 1
    BY DEF NoRowTwice
  <2>1. PICK img : img = CurrentImage(i)
    OBVIOUS
  <2>2. PICK S : S = {b \in Backends : t \in StagedFor(b, i)}
    OBVIOUS
  <2>3. img \in Image /\ ImageOK(img)
    <3>1. EntryOK(i, catalog[i])
      BY <1>1, EntryInOrder DEF EntryFor, RowInv
    <3> QED BY <1>1, <2>1, <3>1, CurrentImageType DEF EntryOK, IInv, CurrentImage
  <2>4. /\ Count1(img.graph, t) \in {0, 1} /\ Count1(img.unrankable, t) \in {0, 1}
        /\ Count1(img.graph, t) = 1 => KindOf(t) = "graph" /\ t \in LiveTids(img)
        /\ Count1(img.unrankable, t) = 1 => KindOf(t) = "unrankable" /\ t \in LiveTids(img)
    <3>1. Part(img, "graph") = img.graph /\ Part(img, "unrankable") = img.unrankable
      BY DEF Part
    <3>2. "graph" \in Kinds /\ "unrankable" \in Kinds
      BY DEF Kinds
    <3>3. /\ Count1(Part(img, "graph"), t) \in {0, 1}
          /\ Count1(Part(img, "graph"), t) = 1 => KindOf(t) = "graph" /\ t \in LiveTids(img)
      BY <2>3, <3>2, CountOfPart
    <3>4. /\ Count1(Part(img, "unrankable"), t) \in {0, 1}
          /\ Count1(Part(img, "unrankable"), t) = 1 => KindOf(t) = "unrankable" /\ t \in LiveTids(img)
      BY <2>3, <3>2, CountOfPart
    <3> QED BY <3>1, <3>3, <3>4
  <2>5. ASSUME NEW b \in S
        PROVE  /\ \E f \in DOMAIN frames[b] : <<i, catalog[i].heap, t>> \in frames[b][f].rows
               /\ t \notin LiveTids(img)
    <3>1. /\ b \in Backends /\ pending[b] # None /\ pending[b].idx = i
          /\ KeptRow(pending[b], Surviving(pending[b]), t)
      BY <1>1, <2>2, StagedForKept
    <3>2. frames[b] # <<>>
      BY <1>1, <3>1 DEF RowInv, SubsInv, SubsOK
    <3>3. \E f \in DOMAIN frames[b] : <<i, catalog[i].heap, t>> \in frames[b][f].rows
      BY <1>1, <3>1, <3>2, KeptIsOwn DEF RowInv
    <3>4. \A r \in LiveTids(img) : ~KeptRow(pending[b], Surviving(pending[b]), r)
      BY <1>1, <2>1, <3>1, <3>2, SlotTop DEF RowInv, FitsEntry, CurrentImage
    <3> QED BY <3>1, <3>3, <3>4
  <2>6. ASSUME NEW b \in S, NEW c \in S PROVE b = c
    <3>1. b \in Backends /\ c \in Backends
      BY <2>2
    <3> QED BY <1>1, <2>5, <3>1, OneOwner DEF RowInv
  <2>7. Cardinality(S) \in {0, 1} /\ (Cardinality(S) = 1 => t \notin LiveTids(img))
    <3>1. CASE S = {}
      BY <3>1, FS_EmptySet
    <3>2. CASE S # {}
      <4>1. PICK b \in S : S = {b}
        BY <2>6, <3>2
      <4> QED BY <2>5, <4>1, FS_Singleton
    <3> QED BY <3>1, <3>2
  <2>8. Entries(i, t) = Count1(img.graph, t) + Count1(img.unrankable, t) + Cardinality(S)
    BY <2>1, <2>2 DEF Entries
  <2>9. PICK x \in {0, 1}, y \in {0, 1}, z \in {0, 1} :
          x = Count1(img.graph, t) /\ y = Count1(img.unrankable, t) /\ z = Cardinality(S)
    BY <2>4, <2>7
  <2>10. ~(x = 1 /\ y = 1) /\ ~(x = 1 /\ z = 1) /\ ~(y = 1 /\ z = 1)
    BY <2>4, <2>7, <2>9
  <2>11. x + y + z <= 1
    BY <2>10
  <2> QED BY <2>8, <2>9, <2>11
<1> QED BY <1>1, Inductive, RowsInOrder, PTL

\* The steps that write the current image of an index are a flush, which adds what is staged
\* and alive, and a vacuum, which takes rows out.
LEMMA ImageWriter ==
  ASSUME IInv, RowInv, [Next]_vars, NEW i \in Indexes, NEW t,
         t \in LiveTids(image'[i][catalog[i].file]), t \notin LiveTids(CurrentImage(i))
  PROVE  \E b \in Backends : /\ Flush(b) /\ Takes(stmt[b], pending[b]) /\ pending[b].idx = i
                             /\ catalog[i].exists
<1> DEFINE now == image[i][catalog[i].file]
<1>1. image'[i][catalog[i].file] # now
  BY DEF CurrentImage
<1>2. /\ catalog \in [Indexes -> Entry] /\ image \in [Indexes -> [FileNos -> Image]]
      /\ catalog[i].file \in FileNos /\ catalog[i].file \in Nat
  BY DEF IInv, StoreInv, Entry, FileNos
<1>3. ASSUME NEW b \in Backends, BackendStep(b), ~Flush(b)
      PROVE  FALSE
  <2>1. CASE \E j \in Indexes : Reindex(b, j) \/ Truncate(b, j)
    <3>1. PICK j \in Indexes : Reindex(b, j) \/ Truncate(b, j)
      BY <2>1
    <3>2. PICK img : image' = [image EXCEPT ![j][nextFile[j]] = img]
      BY <3>1 DEF Reindex, Truncate, Rebuild
    <3>3. catalog[j].file < nextFile[j] /\ catalog[j].file \in Nat /\ nextFile[j] \in Nat
      BY DEF RowInv, FileInv, FileOK, IInv, StoreInv, Entry, FileNos
    <3>4. catalog[j].file # nextFile[j]
      BY <3>3
    <3>5. image'[i][catalog[i].file] = image[i][catalog[i].file]
      BY <1>2, <3>2, <3>4
    <3> QED BY <1>1, <3>5
  <2>2. CASE ~\E j \in Indexes : Reindex(b, j) \/ Truncate(b, j)
    <3>1. image' = image
      BY <1>3, <2>2
         DEF BackendStep, Begin, StartParallelPlan, StartCommit, StartInsert, StartScan, Settle,
             StageRow, FinishRead, Commit, SubStart, SubCommit, Abort, SettleFails, FlushFails,
             StageFails, AbortInnermost, DropIndex, storeVars
    <3> QED BY <1>1, <3>1
  <2> QED BY <2>1, <2>2
<1>4. ASSUME NEW b \in Backends, Flush(b)
      PROVE  Takes(stmt[b], pending[b]) /\ pending[b].idx = i /\ catalog[i].exists
  <2>1. Takes(stmt[b], pending[b]) /\ catalog[pending[b].idx].exists
    BY <1>1, <1>4 DEF Flush
  <2>2. PICK img : image' = [image EXCEPT ![pending[b].idx][catalog[pending[b].idx].file] = img]
    BY <1>4, <2>1 DEF Flush, SetImage
  <2>3. pending[b].idx = i
    BY <1>1, <1>2, <2>2
  <2> QED BY <2>1, <2>3
<1>5. CASE BulkDeleteStep
  <2>1. PICK j : j = vacuum.idx
    OBVIOUS
  <2>2. PICK dead : dead = vacuum.dead
    OBVIOUS
  <2>3. \/ image' = image
        \/ image' = [image EXCEPT ![j][catalog[j].file] = Swept(CurrentImage(j), dead)]
    BY <1>5, <2>1, <2>2 DEF BulkDeleteStep, SetImage, Swept
  <2>4. image' = [image EXCEPT ![j][catalog[j].file] = Swept(CurrentImage(j), dead)]
    BY <1>1, <2>3
  <2>5. j = i
    BY <1>1, <1>2, <2>4
  <2>6. image'[i][catalog[i].file] = Swept(CurrentImage(i), dead)
    BY <1>2, <2>4, <2>5
  <2>7. LiveTids(Swept(CurrentImage(i), dead)) = LiveTids(CurrentImage(i)) \ dead
    BY CurrentImageType, SweptOK DEF IInv
  <2> QED BY <2>6, <2>7
<1>6. CASE MaintenanceStep /\ ~BulkDeleteStep
  BY <1>1, <1>6 DEF MaintenanceStep, Delete, VacuumScan, VacuumHeap, storeVars
<1>7. CASE UNCHANGED vars
  BY <1>1, <1>7 DEF vars, storeVars
<1> QED BY <1>3, <1>4, <1>5, <1>6, <1>7 DEF Next

\* A step that writes an image adds only rows that are alive: what a ROLLBACK TO undid never
\* gets there.
THEOREM OnlyLiveRowsWritten ==
  ASSUME ErrorsEndTransactions
  PROVE  Spec => WritesOnlyLiveRows
<1>1. ASSUME IInv, RowInv, [Next]_vars, NEW i \in Indexes, NEW t \in Tids,
             t \in LiveTids(image'[i][catalog[i].file]) \ LiveTids(CurrentImage(i))
      PROVE  CurrentHeap(i)[t] = "live"
  <2>1. PICK b \in Backends : /\ Flush(b) /\ Takes(stmt[b], pending[b]) /\ pending[b].idx = i
                              /\ catalog[i].exists
    BY <1>1, ImageWriter
  <2>2. PICK p : p = pending[b]
    OBVIOUS
  <2>3. PICK now : now = image[i][catalog[i].file]
    OBVIOUS
  <2>4. /\ frames[b] # <<>> /\ p # None /\ p.rewind = None /\ i = p.idx
        /\ AtStep(b, "flush") /\ stmt[b] # None
    BY <1>1, <2>1, <2>2
       DEF Flush, AtStep, IInv, StmtInv, RowInv, StmtRowInv, StmtRowOK, Takes
  <2>5. /\ \A r : r \in LiveTids(Written(p, now)) <=> r \in LiveTids(now) \/ KeptRow(p, Surviving(p), r)
        /\ \A r \in Tids : KeptRow(p, Surviving(p), r) => heap[i][catalog[i].heap][r] = "live"
        /\ catalog[i].file \in FileNos
    BY <1>1, <2>1, <2>2, <2>3, <2>4, FlushImage
  <2>6. image'[i][catalog[i].file] = Written(p, now)
    BY <1>1, <2>1, <2>2, <2>3, <2>5 DEF Flush, SetImage, CurrentImage, IInv, StoreInv
  <2> QED BY <1>1, <2>3, <2>5, <2>6 DEF CurrentHeap, CurrentImage
<1>2. IInv /\ RowInv /\ [Next]_vars =>
        [\A i \in Indexes : \A t \in Tids :
           (/\ catalog'[i] = catalog[i]
            /\ t \in LiveTids(image'[i][catalog[i].file]) \ LiveTids(CurrentImage(i)))
             => CurrentHeap(i)[t] = "live"]_vars
  BY <1>1
<1> QED BY <1>2, Inductive, RowsInOrder, PTL DEF Spec, WritesOnlyLiveRows

=============================================================================
