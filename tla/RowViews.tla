------------------------------ MODULE RowViews ------------------------------
(***************************************************************************)
(* What a backend holds, seen from every level it can roll back to.        *)
(*                                                                         *)
(* With n (sub)transactions open, level L is what is left once those above *)
(* the L-th have aborted: WriteAt is what PENDING holds then, EntryAt the  *)
(* catalog entry of an index, and Limit how many of the staged rows survive.*)
(* A View says of one level that the staged rows fit the entry and its image*)
(* and that no row is missing.  A savepoint event or a rebuild moves the   *)
(* levels and changes nothing at any of them, so a rollback finds in order *)
(* whatever it brings back; that is what the lemmas of this module show.   *)
(***************************************************************************)
EXTENDS StagingProofs

-----------------------------------------------------------------------------
(* Levels of one backend, with p what PENDING holds, stash what DISCARDED  *)
(* holds, and fs its open (sub)transactions.                               *)

Stashed(stash, fs, f) == \E d \in stash : d.sub = fs[f].sub

\* What PENDING holds once the frames above L have aborted: the write the
\* outermost of them set aside, or else what it holds now.
WriteAt(p, stash, fs, L, w) ==
  \/ w = p /\ \A f \in L + 1 .. Len(fs) : ~Stashed(stash, fs, f)
  \/ \E f \in L + 1 .. Len(fs) :
       /\ \E d \in stash : d.sub = fs[f].sub /\ d.write = w
       /\ \A g \in L + 1 .. f - 1 : ~Stashed(stash, fs, g)

Undone(fs, f, i) == fs[f].undo[i] # None

\* The catalog entry of i then: the one the outermost of them saved, or else the
\* present one.
EntryAt(now, fs, L, i, e) ==
  \/ e = now /\ \A f \in L + 1 .. Len(fs) : ~Undone(fs, f, i)
  \/ \E f \in L + 1 .. Len(fs) :
       /\ Undone(fs, f, i) /\ e = fs[f].undo[i]
       /\ \A g \in L + 1 .. f - 1 : ~Undone(fs, g, i)

-----------------------------------------------------------------------------
(* A write at a level.                                                     *)

BaseFits(w, img) ==
  w.baseGen <= img.gen /\ (w.baseGen = img.gen => SameBase(w, img))

Distinct(w, c) ==
  \A v \in Kinds : \A j, k \in 1 .. Num(c, v) :
    StagedRow(w, v, j).tid = StagedRow(w, v, k).tid => j = k

\* A write that keeps rows at level L: they are distinct, an open frame holds the
\* lock, and none is older than a rebuild that level L can still undo.
FitsShape(w, L, fs) ==
  /\ Len(w.marks) < Len(fs)
  /\ StagedShape(w)
  /\ Distinct(w, Limit(w, Len(fs), L))
  /\ Limit(w, Len(fs), L) # ZeroCount => \E g \in 1 .. L : w.idx \in fs[g].locks
  /\ \A f \in 1 .. L : Undone(fs, f, w.idx) => Limit(w, Len(fs), f - 1) = ZeroCount

\* What survives at level f was inserted by the frames up to f, into heap h.
InsertedBy(w, L, fs, h) ==
  \A f \in 1 .. L : \A t \in Tids : KeptRow(w, Limit(w, Len(fs), f), t) =>
    \E g \in 1 .. f : <<w.idx, h, t>> \in fs[g].rows

\* The rows the write keeps at level L belong to the heap of entry e, are missing from
\* its image, and were staged on it or on an older one.
FitsEntry(w, L, fs, e, img) ==
  /\ InsertedBy(w, L, fs, e.heap)
  /\ Limit(w, Len(fs), L) # ZeroCount => BaseFits(w, img)
  /\ \A t \in LiveTids(img) : ~KeptRow(w, Limit(w, Len(fs), L), t)

\* A row inserted by a frame up to L is in the image, or staged, or about to be.
Kept(fs, L, w, i, e, img, busy) ==
  \A f \in 1 .. L : \A t \in Tids :
    <<i, e.heap, t>> \in fs[f].rows =>
      \/ t \in LiveTids(img)
      \/ w # None /\ w.idx = i /\ KeptRow(w, Limit(w, Len(fs), f), t)
      \/ L = Len(fs) /\ <<i, t>> \in busy

\* Level L in order, with write w.
View(fs, L, w, cat, img, busy) ==
  /\ w # None => FitsShape(w, L, fs)
  /\ \A i \in Indexes : \A e \in {cat[i]} \cup {fs[f].undo[i] : f \in DOMAIN fs} :
       EntryAt(cat[i], fs, L, i, e) =>
         /\ w # None /\ w.idx = i => FitsEntry(w, L, fs, e, img[i][e.file])
         /\ e.exists => Kept(fs, L, w, i, e, img[i][e.file], busy)

\* Every level in order.
Views(p, stash, fs, cat, img, busy) ==
  \A L \in DOMAIN fs : \A w \in {p} \cup {d.write : d \in stash} :
    WriteAt(p, stash, fs, L, w) => View(fs, L, w, cat, img, busy)

-----------------------------------------------------------------------------
(* Views.                                                                  *)

\* No rewind is not a rewind to nothing.
LEMMA ZeroIsNoNone == ZeroCount # None
BY NoneAssumption DEF Count, ZeroCount

\* An image's live rows are rows.
LEMMA LiveTidsType ==
  ASSUME NEW img \in Image, NEW t \in LiveTids(img)
  PROVE  t \in Tids
<1>1. PICK v \in Kinds : \E k \in 1 .. Len(Part(img, v)) : Part(img, v)[k].tid = t
  BY LiveByKind
<1>2. PICK k \in 1 .. Len(Part(img, v)) : Part(img, v)[k].tid = t
  BY <1>1
<1>3. Part(img, v)[k] \in Node
  BY ImagePartType, ElementOfSeq
<1> QED BY <1>2, <1>3 DEF Node

\* What a view says of one entry.
LEMMA ViewAt ==
  ASSUME NEW fs \in Seq(Frame), NEW L \in 1 .. Len(fs), NEW w, NEW cat, NEW img, NEW busy,
         View(fs, L, w, cat, img, busy), NEW i \in Indexes, NEW e, EntryAt(cat[i], fs, L, i, e)
  PROVE  /\ w # None /\ w.idx = i => FitsEntry(w, L, fs, e, img[i][e.file])
         /\ e.exists => Kept(fs, L, w, i, e, img[i][e.file], busy)
<1>1. Len(fs) \in Nat /\ DOMAIN fs = 1 .. Len(fs)
  BY LenProperties
<1>2. e \in {cat[i]} \cup {fs[f].undo[i] : f \in DOMAIN fs}
  <2>1. CASE e = cat[i]
    BY <2>1
  <2>2. CASE \E f \in L + 1 .. Len(fs) : e = fs[f].undo[i]
    BY <1>1, <2>2
  <2> QED BY <2>1, <2>2 DEF EntryAt
<1> QED BY <1>2 DEF View

\* What makes a view.
LEMMA ViewFrom ==
  ASSUME NEW fs, NEW L, NEW w, NEW cat, NEW img, NEW busy,
         w # None => FitsShape(w, L, fs),
         ASSUME NEW i \in Indexes, NEW e, EntryAt(cat[i], fs, L, i, e)
         PROVE  /\ w # None /\ w.idx = i => FitsEntry(w, L, fs, e, img[i][e.file])
                /\ e.exists => Kept(fs, L, w, i, e, img[i][e.file], busy)
  PROVE  View(fs, L, w, cat, img, busy)
BY DEF View

\* The types of what a backend holds.
Holding(p, stash, fs) ==
  fs \in Seq(Frame) /\ (p # None => WriteOK(p)) /\ StashOK(stash)

\* A write at a level is one of those held.
LEMMA WriteAtType ==
  ASSUME NEW p, NEW stash, NEW fs, Holding(p, stash, fs), NEW L, NEW w,
         WriteAt(p, stash, fs, L, w)
  PROVE  w \in {p} \cup {d.write : d \in stash} /\ (w # None => WriteOK(w))
BY DEF WriteAt, Holding, StashOK

\* Views, used at a level.
LEMMA ViewsAt ==
  ASSUME NEW p, NEW stash, NEW fs, Holding(p, stash, fs), NEW cat, NEW img, NEW busy,
         Views(p, stash, fs, cat, img, busy), NEW L \in 1 .. Len(fs), NEW w,
         WriteAt(p, stash, fs, L, w)
  PROVE  View(fs, L, w, cat, img, busy)
<1>1. DOMAIN fs = 1 .. Len(fs)
  BY LenProperties DEF Holding
<1> QED BY <1>1, WriteAtType DEF Views

\* Views, shown level by level.
LEMMA ViewsFrom ==
  ASSUME NEW p, NEW stash, NEW fs \in Seq(Frame), NEW cat, NEW img, NEW busy,
         ASSUME NEW L \in 1 .. Len(fs), NEW w, WriteAt(p, stash, fs, L, w)
         PROVE  View(fs, L, w, cat, img, busy)
  PROVE  Views(p, stash, fs, cat, img, busy)
<1>1. DOMAIN fs = 1 .. Len(fs)
  BY LenProperties
<1> QED BY <1>1 DEF Views

\* At the top, the write is the one in the slot and the entry the present one.
LEMMA TopLevel ==
  ASSUME NEW fs \in Seq(Frame)
  PROVE  /\ \A p, stash, w : WriteAt(p, stash, fs, Len(fs), w) <=> w = p
         /\ \A now, i, e : EntryAt(now, fs, Len(fs), i, e) <=> e = now
<1>1. Len(fs) + 1 .. Len(fs) = {}
  BY LenProperties
<1> QED BY <1>1 DEF WriteAt, EntryAt

\* A write goes over to frames that agree up to its level.
LEMMA CarryShape ==
  ASSUME NEW fs \in Seq(Frame), NEW gs \in Seq(Frame), NEW L \in 1 .. Len(fs), L <= Len(gs),
         NEW w, NEW x, SameWrite(w, x), Len(x.marks) < Len(gs), FitsShape(w, L, fs),
         \A f \in 0 .. L : Limit(x, Len(gs), f) = Limit(w, Len(fs), f),
         \A g \in 1 .. L : fs[g].locks \subseteq gs[g].locks,
         \A g \in 1 .. L : Undone(gs, g, w.idx) => Undone(fs, g, w.idx)
  PROVE  FitsShape(x, L, gs)
<1>1. /\ StagedShape(x) /\ x.idx = w.idx
      /\ \A v, k : StagedRow(x, v, k) = StagedRow(w, v, k)
  BY SameWriteRows DEF FitsShape, SameWrite
<1>2. Limit(x, Len(gs), L) = Limit(w, Len(fs), L)
  BY LenProperties
<1>3. Distinct(x, Limit(x, Len(gs), L))
  BY <1>1, <1>2 DEF FitsShape, Distinct
<1>4. Limit(x, Len(gs), L) # ZeroCount => \E g \in 1 .. L : x.idx \in gs[g].locks
  BY <1>1, <1>2 DEF FitsShape
<1>5. ASSUME NEW f \in 1 .. L, Undone(gs, f, x.idx)
      PROVE  Limit(x, Len(gs), f - 1) = ZeroCount
  <2>1. f - 1 \in 0 .. L
    BY LenProperties
  <2> QED BY <1>1, <1>5, <2>1 DEF FitsShape
<1> QED BY <1>1, <1>3, <1>4, <1>5 DEF FitsShape

\* What a write keeps goes over with it.
LEMMA CarryEntry ==
  ASSUME NEW fs \in Seq(Frame), NEW gs \in Seq(Frame), NEW L \in 1 .. Len(fs), L <= Len(gs),
         NEW w, NEW x, SameWrite(w, x),
         \A f \in 0 .. L : Limit(x, Len(gs), f) = Limit(w, Len(fs), f),
         \A g \in 1 .. L : fs[g].rows \subseteq gs[g].rows,
         NEW e, NEW img, FitsEntry(w, L, fs, e, img)
  PROVE  FitsEntry(x, L, gs, e, img)
<1>1. /\ x.idx = w.idx /\ x.baseGen = w.baseGen
      /\ \A c, t : KeptRow(x, c, t) <=> KeptRow(w, c, t)
      /\ \A v : BaseLen(x, v) = BaseLen(w, v) /\ Part(x, v) = Part(w, v)
  BY SameWriteRows, KeptSame DEF SameWrite
<1>2. \A f \in 1 .. L : Limit(x, Len(gs), f) = Limit(w, Len(fs), f)
  BY LenProperties
<1>3. Limit(x, Len(gs), L) = Limit(w, Len(fs), L)
  BY LenProperties
<1>4. InsertedBy(x, L, gs, e.heap)
  <2> SUFFICES ASSUME NEW f \in 1 .. L, NEW t \in Tids, KeptRow(x, Limit(x, Len(gs), f), t)
               PROVE  \E g \in 1 .. f : <<x.idx, e.heap, t>> \in gs[g].rows
    BY DEF InsertedBy
  <2>1. PICK g \in 1 .. f : <<w.idx, e.heap, t>> \in fs[g].rows
    BY <1>1, <1>2 DEF FitsEntry, InsertedBy
  <2>2. g \in 1 .. L
    BY LenProperties
  <2> QED BY <1>1, <2>1, <2>2
<1>5. BaseFits(w, img) => BaseFits(x, img)
  BY <1>1 DEF BaseFits, SameBase
<1> QED BY <1>1, <1>3, <1>4, <1>5 DEF FitsEntry

\* x is w with its marks moved from the frames fs to the frames gs, alike up to L.
Aligned(w, x, fs, gs, L) ==
  /\ (w = None) <=> (x = None)
  /\ w # None => /\ WriteOK(w) /\ SameWrite(w, x) /\ Len(x.marks) < Len(gs)
                 /\ \A f \in 0 .. L : Limit(x, Len(gs), f) = Limit(w, Len(fs), f)

\* Up to L, the frames gs lack nothing that fs have; their new rows are yet to be staged.
FramesKept(fs, gs, L, busy, busy2) ==
  /\ \A g \in 1 .. L :
       /\ fs[g].locks \subseteq gs[g].locks
       /\ fs[g].rows \subseteq gs[g].rows
       /\ \A i \in Indexes : Undone(gs, g, i) => Undone(fs, g, i)
  /\ \A g \in 1 .. L : \A i \in Indexes : \A h : \A t \in Tids :
       <<i, h, t>> \in gs[g].rows =>
         <<i, h, t>> \in fs[g].rows \/ (L = Len(gs) /\ <<i, t>> \in busy2)
  /\ \A i \in Indexes : \A t \in Tids :
       L = Len(fs) /\ <<i, t>> \in busy => L = Len(gs) /\ <<i, t>> \in busy2

\* What is an entry at level L after the step was one before, with the same image.
EntriesKept(cat, fs, img, cat2, gs, img2, L) ==
  \A i \in Indexes : \A e : EntryAt(cat2[i], gs, L, i, e) =>
    EntryAt(cat[i], fs, L, i, e) /\ img2[i][e.file] = img[i][e.file]

\* A view goes over to frames, entries and images that agree with the old up to its level.
LEMMA Carry ==
  ASSUME NEW fs \in Seq(Frame), NEW gs \in Seq(Frame), NEW L \in 1 .. Len(fs), L <= Len(gs),
         NEW w, NEW x, Aligned(w, x, fs, gs, L),
         NEW cat, NEW cat2, NEW img, NEW img2, NEW busy, NEW busy2,
         FramesKept(fs, gs, L, busy, busy2), EntriesKept(cat, fs, img, cat2, gs, img2, L),
         View(fs, L, w, cat, img, busy)
  PROVE  View(gs, L, x, cat2, img2, busy2)
<1>0. /\ (w = None) <=> (x = None)
      /\ w # None => /\ SameWrite(w, x) /\ Len(x.marks) < Len(gs)
                     /\ \A f \in 0 .. L : Limit(x, Len(gs), f) = Limit(w, Len(fs), f)
                     /\ w.idx \in Indexes
  BY DEF Aligned, WriteOK, Write
<1>10. \A g \in 1 .. L :
         /\ fs[g].locks \subseteq gs[g].locks
         /\ fs[g].rows \subseteq gs[g].rows
         /\ \A i \in Indexes : Undone(gs, g, i) => Undone(fs, g, i)
  BY DEF FramesKept
<1>11. \A g \in 1 .. L : \A i \in Indexes : \A h : \A t \in Tids :
         <<i, h, t>> \in gs[g].rows =>
           <<i, h, t>> \in fs[g].rows \/ (L = Len(gs) /\ <<i, t>> \in busy2)
  BY DEF FramesKept
<1>12. \A i \in Indexes : \A t \in Tids :
         L = Len(fs) /\ <<i, t>> \in busy => L = Len(gs) /\ <<i, t>> \in busy2
  BY DEF FramesKept
<1>1. ASSUME x # None PROVE FitsShape(x, L, gs)
  <2>1. FitsShape(w, L, fs)
    BY <1>0, <1>1 DEF View
  <2>2. \A g \in 1 .. L : Undone(gs, g, w.idx) => Undone(fs, g, w.idx)
    BY <1>0, <1>1, <1>10
  <2> QED BY <1>0, <1>1, <1>10, <2>1, <2>2, CarryShape
<1>2. ASSUME NEW i \in Indexes, NEW e, EntryAt(cat2[i], gs, L, i, e)
      PROVE  /\ x # None /\ x.idx = i => FitsEntry(x, L, gs, e, img2[i][e.file])
             /\ e.exists => Kept(gs, L, x, i, e, img2[i][e.file], busy2)
  <2>1. EntryAt(cat[i], fs, L, i, e) /\ img2[i][e.file] = img[i][e.file]
    BY <1>2 DEF EntriesKept
  <2>2. /\ w # None /\ w.idx = i => FitsEntry(w, L, fs, e, img[i][e.file])
        /\ e.exists => Kept(fs, L, w, i, e, img[i][e.file], busy)
    BY <2>1, ViewAt
  <2>3. x # None /\ x.idx = i => FitsEntry(x, L, gs, e, img2[i][e.file])
    <3> SUFFICES ASSUME x # None, x.idx = i PROVE FitsEntry(x, L, gs, e, img2[i][e.file])
      OBVIOUS
    <3>1. w # None /\ w.idx = i
      BY <1>0 DEF SameWrite
    <3>2. \A g \in 1 .. L : fs[g].rows \subseteq gs[g].rows
      BY <1>10
    <3> QED BY <1>0, <2>1, <2>2, <3>1, <3>2, CarryEntry
  <2>4. ASSUME e.exists PROVE Kept(gs, L, x, i, e, img2[i][e.file], busy2)
    <3> SUFFICES ASSUME NEW f \in 1 .. L, NEW t \in Tids, <<i, e.heap, t>> \in gs[f].rows
                 PROVE  \/ t \in LiveTids(img2[i][e.file])
                        \/ x # None /\ x.idx = i /\ KeptRow(x, Limit(x, Len(gs), f), t)
                        \/ L = Len(gs) /\ <<i, t>> \in busy2
      BY DEF Kept
    <3>1. CASE <<i, e.heap, t>> \in fs[f].rows
      <4>1. \/ t \in LiveTids(img[i][e.file])
            \/ w # None /\ w.idx = i /\ KeptRow(w, Limit(w, Len(fs), f), t)
            \/ L = Len(fs) /\ <<i, t>> \in busy
        BY <2>2, <2>4, <3>1 DEF Kept
      <4>2. ASSUME w # None, w.idx = i, KeptRow(w, Limit(w, Len(fs), f), t)
            PROVE  x # None /\ x.idx = i /\ KeptRow(x, Limit(x, Len(gs), f), t)
        <5>1. x.idx = i /\ \A c, r : KeptRow(x, c, r) <=> KeptRow(w, c, r)
          BY <1>0, <4>2, KeptSame DEF SameWrite
        <5>2. f \in 0 .. L
          BY LenProperties
        <5> QED BY <1>0, <4>2, <5>1, <5>2
      <4> QED BY <1>12, <2>1, <4>1, <4>2
    <3>2. CASE ~(<<i, e.heap, t>> \in fs[f].rows)
      BY <1>11, <3>2
    <3> QED BY <3>1, <3>2
  <2> QED BY <2>3, <2>4
<1> QED BY <1>1, <1>2, ViewFrom, Zenon

\* Nothing is kept at a level below one that keeps nothing.
LEMMA KeptNowhere ==
  ASSUME NEW fs \in Seq(Frame), NEW w, WriteOK(w), Len(w.marks) < Len(fs),
         NEW L \in 1 .. Len(fs), Limit(w, Len(fs), L) = ZeroCount, NEW f \in 1 .. L
  PROVE  \A t : ~KeptRow(w, Limit(w, Len(fs), f), t)
<1>1. Len(fs) \in Nat /\ L \in 0 .. Len(fs) /\ f \in 0 .. Len(fs) /\ f <= L
  BY LenProperties
<1>2. Limit(w, Len(fs), f) = ZeroCount
  BY <1>1, LimitZero
<1> QED BY <1>2, NoneKept

\* An image another backend has moved to, for rows that are not among its own.
Moved(i, h, fs, a, b) ==
  /\ a.gen <= b.gen /\ (a.gen = b.gen => a = b)
  /\ \A g \in DOMAIN fs : \A t \in Tids : <<i, h, t>> \in fs[g].rows =>
       (t \in LiveTids(b) <=> t \in LiveTids(a))

\* What other backends do to an index leaves a view of this one in order: either it has
\* no lock on the index, or they change its image only, and not for this one's rows.
LEMMA QuietView ==
  ASSUME NEW fs \in Seq(Frame), NEW L \in 1 .. Len(fs),
         NEW w, w # None => WriteOK(w),
         NEW cat, NEW cat2, NEW img, NEW img2, NEW busy,
         \A i \in Indexes :
           \/ \A g \in DOMAIN fs : i \notin fs[g].locks /\ \A h, t : <<i, h, t>> \notin fs[g].rows
           \/ cat2[i] = cat[i] /\ \A e : EntryAt(cat[i], fs, L, i, e) =>
                img2[i][e.file] = img[i][e.file] \/
                Moved(i, e.heap, fs, img[i][e.file], img2[i][e.file]),
         \A i \in Indexes : \A e : EntryAt(cat[i], fs, L, i, e) =>
           img[i][e.file] \in Image /\ img2[i][e.file] \in Image,
         View(fs, L, w, cat, img, busy)
  PROVE  View(fs, L, w, cat2, img2, busy)
<1>0. Len(fs) \in Nat /\ DOMAIN fs = 1 .. Len(fs) /\ L \in 0 .. Len(fs)
  BY LenProperties
<1>1. w # None => FitsShape(w, L, fs) /\ w.idx \in Indexes /\ WriteOK(w) /\ Len(w.marks) < Len(fs)
  BY DEF View, WriteOK, Write, FitsShape
<1>2. ASSUME NEW i \in Indexes, NEW e, EntryAt(cat2[i], fs, L, i, e)
      PROVE  /\ w # None /\ w.idx = i => FitsEntry(w, L, fs, e, img2[i][e.file])
             /\ e.exists => Kept(fs, L, w, i, e, img2[i][e.file], busy)
  <2>1. CASE \A g \in DOMAIN fs : i \notin fs[g].locks /\ \A h, t : <<i, h, t>> \notin fs[g].rows
    <3>1. Kept(fs, L, w, i, e, img2[i][e.file], busy)
      <4> SUFFICES ASSUME NEW f \in 1 .. L, NEW t \in Tids, <<i, e.heap, t>> \in fs[f].rows
                   PROVE  FALSE
        BY Zenon DEF Kept
      <4>1. f \in DOMAIN fs
        BY <1>0
      <4> QED BY <2>1, <4>1
    <3>2. ASSUME w # None, w.idx = i PROVE FitsEntry(w, L, fs, e, img2[i][e.file])
      <4>1. Limit(w, Len(fs), L) = ZeroCount
        <5>1. Limit(w, Len(fs), L) # ZeroCount => \E g \in 1 .. L : w.idx \in fs[g].locks
          BY <1>1, <3>2 DEF FitsShape
        <5>2. \A g \in 1 .. L : g \in DOMAIN fs
          BY <1>0
        <5> QED BY <2>1, <3>2, <5>1, <5>2
      <4>2. \A f \in 1 .. L : \A t : ~KeptRow(w, Limit(w, Len(fs), f), t)
        BY <1>1, <3>2, <4>1, KeptNowhere
      <4>3. L \in 1 .. L
        BY <1>0
      <4> QED BY <4>1, <4>2, <4>3 DEF FitsEntry, InsertedBy
    <3> QED BY <3>1, <3>2
  <2>2. CASE cat2[i] = cat[i] /\ \A d : EntryAt(cat[i], fs, L, i, d) =>
               img2[i][d.file] = img[i][d.file] \/
               Moved(i, d.heap, fs, img[i][d.file], img2[i][d.file])
    <3>1. EntryAt(cat[i], fs, L, i, e)
      BY <1>2, <2>2
    <3>2. /\ w # None /\ w.idx = i => FitsEntry(w, L, fs, e, img[i][e.file])
          /\ e.exists => Kept(fs, L, w, i, e, img[i][e.file], busy)
      BY <3>1, ViewAt
    <3>3. CASE img2[i][e.file] = img[i][e.file]
      BY <3>2, <3>3
    <3>4. CASE Moved(i, e.heap, fs, img[i][e.file], img2[i][e.file])
      <4>1. ASSUME e.exists PROVE Kept(fs, L, w, i, e, img2[i][e.file], busy)
        <5> SUFFICES ASSUME NEW f \in 1 .. L, NEW t \in Tids, <<i, e.heap, t>> \in fs[f].rows
                     PROVE  \/ t \in LiveTids(img2[i][e.file])
                            \/ w # None /\ w.idx = i /\ KeptRow(w, Limit(w, Len(fs), f), t)
                            \/ L = Len(fs) /\ <<i, t>> \in busy
          BY DEF Kept
        <5>1. \/ t \in LiveTids(img[i][e.file])
              \/ w # None /\ w.idx = i /\ KeptRow(w, Limit(w, Len(fs), f), t)
              \/ L = Len(fs) /\ <<i, t>> \in busy
          BY <3>2, <4>1 DEF Kept
        <5>2. f \in DOMAIN fs
          BY <1>0
        <5> QED BY <3>4, <5>1, <5>2 DEF Moved
      <4>2. ASSUME w # None, w.idx = i PROVE FitsEntry(w, L, fs, e, img2[i][e.file])
        <5>1. FitsEntry(w, L, fs, e, img[i][e.file])
          BY <3>2, <4>2
        <5>2. Limit(w, Len(fs), L) # ZeroCount => BaseFits(w, img2[i][e.file])
          <6>1. w.baseGen \in Nat /\ img[i][e.file].gen \in Nat /\ img2[i][e.file].gen \in Nat
            BY <1>1, <3>1, <4>2 DEF WriteOK, Write, Image
          <6> QED BY <5>1, <6>1, <3>4 DEF FitsEntry, BaseFits, Moved
        <5>3. ASSUME NEW t \in LiveTids(img2[i][e.file]), KeptRow(w, Limit(w, Len(fs), L), t)
              PROVE  FALSE
          <6>1. t \in Tids
            BY <1>1, <3>1, <4>2, LiveTidsType
          <6>2. L \in 1 .. L
            BY <1>0
          <6>3. PICK g \in 1 .. L : <<i, e.heap, t>> \in fs[g].rows
            BY <4>2, <5>1, <5>3, <6>1, <6>2 DEF FitsEntry, InsertedBy
          <6>4. t \in LiveTids(img[i][e.file])
            BY <1>0, <3>4, <6>1, <6>3 DEF Moved
          <6> QED BY <5>1, <5>3, <6>4 DEF FitsEntry
        <5> QED BY <5>1, <5>2, <5>3 DEF FitsEntry
      <4> QED BY <4>1, <4>2
    <3> QED BY <2>2, <3>1, <3>3, <3>4
  <2> QED BY <2>1, <2>2
<1> QED BY <1>1, <1>2, ViewFrom, Zenon

\* An entry at a level is an entry.
LEMMA EntryAtType ==
  ASSUME NEW fs \in Seq(Frame), NEW L \in 1 .. Len(fs), NEW now \in Entry, NEW i \in Indexes,
         NEW e, EntryAt(now, fs, L, i, e)
  PROVE  e \in Entry
<1>1. CASE e = now
  BY <1>1
<1>2. CASE \E f \in L + 1 .. Len(fs) : Undone(fs, f, i) /\ e = fs[f].undo[i]
  <2>1. PICK f \in L + 1 .. Len(fs) : Undone(fs, f, i) /\ e = fs[f].undo[i]
    BY <1>2
  <2>2. f \in 1 .. Len(fs)
    BY LenProperties
  <2>3. fs[f] \in Frame
    BY <2>2, ElementOfSeq
  <2>4. fs[f].undo[i] \in Entry \cup {None}
    BY <2>3 DEF Frame
  <2> QED BY <2>1, <2>4 DEF Undone
<1> QED BY <1>1, <1>2 DEF EntryAt

\* An index with no undo record has its present entry at every level.
LEMMA PresentEntry ==
  ASSUME NEW fs \in Seq(Frame), NEW L \in 1 .. Len(fs), NEW now, NEW i,
         NEW e, EntryAt(now, fs, L, i, e)
  PROVE  e = now \/ \E f \in L + 1 .. Len(fs) :
                      f \in DOMAIN fs /\ Undone(fs, f, i) /\ e = fs[f].undo[i]
<1>1. DOMAIN fs = 1 .. Len(fs) /\ Len(fs) \in Nat
  BY LenProperties
<1>2. \A f \in L + 1 .. Len(fs) : f \in DOMAIN fs
  BY <1>1
<1> QED BY <1>2 DEF EntryAt

\* The same, at every level.
LEMMA QuietViews ==
  ASSUME NEW p, NEW stash, NEW fs, Holding(p, stash, fs),
         NEW cat \in [Indexes -> Entry], NEW cat2,
         NEW img \in [Indexes -> [FileNos -> Image]],
         NEW img2 \in [Indexes -> [FileNos -> Image]], NEW busy,
         \A i \in Indexes :
           \/ \A g \in DOMAIN fs : i \notin fs[g].locks /\ \A h, t : <<i, h, t>> \notin fs[g].rows
           \/ cat2[i] = cat[i] /\ img2[i] = img[i]
           \/ /\ cat2[i] = cat[i] /\ \A f \in DOMAIN fs : ~Undone(fs, f, i)
              /\ \/ img2[i][cat[i].file] = img[i][cat[i].file]
                 \/ Moved(i, cat[i].heap, fs, img[i][cat[i].file], img2[i][cat[i].file]),
         Views(p, stash, fs, cat, img, busy)
  PROVE  Views(p, stash, fs, cat2, img2, busy)
<1>1. ASSUME NEW L \in 1 .. Len(fs), NEW w, WriteAt(p, stash, fs, L, w)
      PROVE  View(fs, L, w, cat2, img2, busy)
  <2>1. View(fs, L, w, cat, img, busy) /\ (w # None => WriteOK(w)) /\ fs \in Seq(Frame)
    BY <1>1, ViewsAt, WriteAtType DEF Holding
  <2>2. ASSUME NEW i \in Indexes
        PROVE  \/ \A g \in DOMAIN fs : i \notin fs[g].locks /\ \A h, t : <<i, h, t>> \notin fs[g].rows
               \/ cat2[i] = cat[i] /\ \A e : EntryAt(cat[i], fs, L, i, e) =>
                    img2[i][e.file] = img[i][e.file] \/
                    Moved(i, e.heap, fs, img[i][e.file], img2[i][e.file])
    <3>1. ASSUME \A f \in DOMAIN fs : ~Undone(fs, f, i), NEW e, EntryAt(cat[i], fs, L, i, e)
          PROVE  e = cat[i]
      BY <2>1, <3>1, PresentEntry
    <3> QED BY <3>1
  <2>3. ASSUME NEW i \in Indexes, NEW e, EntryAt(cat[i], fs, L, i, e)
        PROVE  img[i][e.file] \in Image /\ img2[i][e.file] \in Image
    <3>1. e \in Entry
      BY <2>1, <2>3, EntryAtType
    <3>2. e.file \in FileNos
      BY <3>1 DEF Entry
    <3> QED BY <3>2
  <2> QED BY <2>1, <2>2, <2>3, QuietView
<1> QED BY <1>1, ViewsFrom DEF Holding

\* A view without its write, whose rows have gone into the images.
LEMMA ForgetView ==
  ASSUME NEW fs \in Seq(Frame), NEW L \in 1 .. Len(fs), NEW w,
         NEW cat, NEW img, NEW img2, NEW busy,
         ASSUME NEW i \in Indexes, NEW e, EntryAt(cat[i], fs, L, i, e), e.exists
         PROVE  /\ LiveTids(img[i][e.file]) \subseteq LiveTids(img2[i][e.file])
                /\ w # None /\ w.idx = i => \A f \in 1 .. L : \A t \in Tids :
                     KeptRow(w, Limit(w, Len(fs), f), t) => t \in LiveTids(img2[i][e.file]),
         View(fs, L, w, cat, img, busy)
  PROVE  View(fs, L, None, cat, img2, busy)
<1>1. ASSUME NEW i \in Indexes, NEW e, EntryAt(cat[i], fs, L, i, e), e.exists
      PROVE  Kept(fs, L, None, i, e, img2[i][e.file], busy)
  <2>1. Kept(fs, L, w, i, e, img[i][e.file], busy)
    BY <1>1, ViewAt
  <2> QED BY <1>1, <2>1 DEF Kept
<1> QED BY <1>1, ViewFrom, Zenon

\* A view whose images have grown, but for its write's.
LEMMA GrowView ==
  ASSUME NEW fs \in Seq(Frame), NEW L \in 1 .. Len(fs), NEW w,
         NEW cat, NEW img, NEW img2, NEW busy,
         ASSUME NEW i \in Indexes, NEW e, EntryAt(cat[i], fs, L, i, e)
         PROVE  /\ w # None /\ w.idx = i => img2[i][e.file] = img[i][e.file]
                /\ LiveTids(img[i][e.file]) \subseteq LiveTids(img2[i][e.file]),
         View(fs, L, w, cat, img, busy)
  PROVE  View(fs, L, w, cat, img2, busy)
<1>1. ASSUME NEW i \in Indexes, NEW e, EntryAt(cat[i], fs, L, i, e)
      PROVE  /\ w # None /\ w.idx = i => FitsEntry(w, L, fs, e, img2[i][e.file])
             /\ e.exists => Kept(fs, L, w, i, e, img2[i][e.file], busy)
  <2>1. /\ w # None /\ w.idx = i => FitsEntry(w, L, fs, e, img[i][e.file])
        /\ e.exists => Kept(fs, L, w, i, e, img[i][e.file], busy)
    BY <1>1, ViewAt
  <2>2. /\ w # None /\ w.idx = i => img2[i][e.file] = img[i][e.file]
        /\ LiveTids(img[i][e.file]) \subseteq LiveTids(img2[i][e.file])
    BY <1>1
  <2>3. e.exists => Kept(fs, L, w, i, e, img2[i][e.file], busy)
    BY <2>1, <2>2 DEF Kept
  <2> QED BY <2>1, <2>2, <2>3
<1>2. w # None => FitsShape(w, L, fs)
  BY DEF View
<1> QED BY <1>1, <1>2, ViewFrom, Zenon

\* What PENDING holds matters at a level only if nothing above was set aside.
LEMMA WriteAtOther ==
  ASSUME NEW p, NEW x, NEW stash, NEW fs, NEW L, NEW w, WriteAt(x, stash, fs, L, w)
  PROVE  \/ w = x /\ WriteAt(p, stash, fs, L, p)
         \/ /\ WriteAt(p, stash, fs, L, w)
            /\ \E f \in L + 1 .. Len(fs) : \E d \in stash : d.sub = fs[f].sub /\ d.write = w
BY DEF WriteAt

\* A write keeps nothing at a level that a rebuild of its index comes after.
LEMMA BelowUndo ==
  ASSUME NEW fs \in Seq(Frame), NEW w, WriteOK(w), FitsShape(w, Len(fs), fs),
         NEW L \in 1 .. Len(fs), NEW f \in L + 1 .. Len(fs), Undone(fs, f, w.idx)
  PROVE  Limit(w, Len(fs), L) = ZeroCount
<1>1. /\ Len(fs) \in Nat /\ f \in 1 .. Len(fs) /\ f - 1 \in 0 .. Len(fs)
      /\ L \in 0 .. Len(fs) /\ L <= f - 1
  BY LenProperties
<1>2. Limit(w, Len(fs), f - 1) = ZeroCount /\ Len(w.marks) < Len(fs)
  BY <1>1 DEF FitsShape
<1> QED BY <1>1, <1>2, LimitZero

\* The slot is emptied: its write keeps no row that an image or a level needs.
LEMMA EmptySlot ==
  ASSUME NEW p, NEW stash, NEW fs, Holding(p, stash, fs), p # None,
         NEW cat, NEW img, NEW busy, Views(p, stash, fs, cat, img, busy),
         p.rewind = ZeroCount \/ ~cat[p.idx].exists
  PROVE  Views(None, stash, fs, cat, img, busy)
<1>1. WriteOK(p) /\ fs \in Seq(Frame)
  BY DEF Holding
<1>2. ASSUME NEW L \in 1 .. Len(fs), NEW w, WriteAt(None, stash, fs, L, w)
      PROVE  View(fs, L, w, cat, img, busy)
  <2>1. CASE w = None /\ WriteAt(p, stash, fs, L, p)
    <3>1. View(fs, L, p, cat, img, busy)
      BY <2>1, ViewsAt
    <3>2. /\ Len(fs) \in 1 .. Len(fs) /\ Len(fs) \in Nat /\ L \in 0 .. Len(fs)
      BY <1>1, LenProperties
    <3>3. FitsShape(p, Len(fs), fs) /\ Len(p.marks) < Len(fs)
      <4>1. WriteAt(p, stash, fs, Len(fs), p)
        BY <1>1, TopLevel
      <4>2. View(fs, Len(fs), p, cat, img, busy)
        BY <3>2, <4>1, ViewsAt
      <4> QED BY <4>2 DEF View, FitsShape
    <3>4. ASSUME NEW e, EntryAt(cat[p.idx], fs, L, p.idx, e), e.exists
          PROVE  Limit(p, Len(fs), L) = ZeroCount
      <4>1. CASE p.rewind = ZeroCount
        <5>1. Surviving(p) = ZeroCount
          BY <4>1, ZeroIsNoNone DEF Surviving
        <5>2. Limit(p, Len(fs), Len(fs)) = ZeroCount
          BY <5>1 DEF Limit
        <5> QED BY <1>1, <3>2, <3>3, <5>2, LimitZero
      <4>2. CASE ~cat[p.idx].exists
        <5>1. e # cat[p.idx]
          BY <3>4, <4>2
        <5>2. PICK f \in L + 1 .. Len(fs) : Undone(fs, f, p.idx)
          BY <1>1, <3>4, <5>1, PresentEntry
        <5> QED BY <1>1, <3>3, <5>2, BelowUndo
      <4> QED BY <4>1, <4>2
    <3>5. ASSUME NEW i \in Indexes, NEW e, EntryAt(cat[i], fs, L, i, e), e.exists
          PROVE  /\ LiveTids(img[i][e.file]) \subseteq LiveTids(img[i][e.file])
                 /\ p # None /\ p.idx = i => \A f \in 1 .. L : \A t \in Tids :
                      KeptRow(p, Limit(p, Len(fs), f), t) => t \in LiveTids(img[i][e.file])
      BY <1>1, <3>3, <3>4, <3>5, KeptNowhere
    <3>6. View(fs, L, None, cat, img, busy)
      BY <1>1, <3>1, <3>5, ForgetView, Zenon
    <3> QED BY <2>1, <3>6
  <2>2. CASE WriteAt(p, stash, fs, L, w)
    BY <2>2, ViewsAt
  <2> QED BY <1>2, <2>1, <2>2, WriteAtOther
<1> QED BY <1>1, <1>2, ViewsFrom

\* settle_pending re-applies the surviving rows to the image.
LEMMA SettledSlot ==
  ASSUME NEW p, NEW stash, NEW fs, Holding(p, stash, fs), p # None,
         NEW cat \in [Indexes -> Entry], NEW img \in [Indexes -> [FileNos -> Image]], NEW busy,
         Views(p, stash, fs, cat, img, busy), p.rewind # None, p.rewind # ZeroCount
  PROVE  Views(Settled(p, img[p.idx][cat[p.idx].file]), stash, fs, cat, img, busy)
<1> DEFINE now == img[p.idx][cat[p.idx].file]
           x == Settled(p, now)
<1>1. /\ WriteOK(p) /\ fs \in Seq(Frame) /\ p.idx \in Indexes
      /\ p.rewind \in Count
  BY DEF Holding, WriteOK, Write
<1>2. now \in Image
  BY <1>1 DEF Entry
<1>3. /\ x.idx = p.idx /\ x.baseGen = now.gen /\ x.marks = p.marks /\ x.rewind = None
      /\ Staged(x) = p.rewind /\ Surviving(x) = Surviving(p)
      /\ SameBase(x, now)
      /\ \A v \in Kinds : \A k \in 1 .. Num(p.rewind, v) : StagedRow(x, v, k) = StagedRow(p, v, k)
      /\ \A n, f : Limit(x, n, f) = Limit(p, n, f)
  BY <1>1, <1>2, SettledParts
<1>4. WriteOK(x)
  BY <1>1, <1>2, SettledOK
<1>5. now.gen \in Nat
  BY <1>2 DEF Image
<1>6. Surviving(p) = p.rewind
  BY DEF Surviving
<1> HIDE DEF x, now
<1>7. ASSUME NEW L \in 1 .. Len(fs), WriteAt(p, stash, fs, L, p)
      PROVE  View(fs, L, x, cat, img, busy)
  <2>1. View(fs, L, p, cat, img, busy)
    BY <1>7, ViewsAt
  <2>2. FitsShape(p, L, fs)
    BY <2>1 DEF View
  <2>3. ASSUME NEW f \in 0 .. Len(fs)
        PROVE  /\ \A v \in Kinds : Num(Limit(p, Len(fs), f), v) <= Num(p.rewind, v)
               /\ Limit(p, Len(fs), f) \in Count
    <3>1. Len(p.marks) < Len(fs) /\ Len(fs) \in Nat
      BY <1>1, <2>2, LenProperties DEF FitsShape
    <3>2. Limit(p, Len(fs), f) \in Count /\ CountLeq(Limit(p, Len(fs), f), p.rewind)
      BY <1>1, <1>6, <3>1, LimitType
    <3> QED BY <1>1, <3>2, CountLeqByKind
  <2>4. ASSUME NEW f \in 0 .. Len(fs), NEW v \in Kinds, NEW k \in 1 .. Num(Limit(p, Len(fs), f), v)
        PROVE  StagedRow(x, v, k) = StagedRow(p, v, k)
    <3>1. /\ Num(Limit(p, Len(fs), f), v) <= Num(p.rewind, v)
          /\ Num(Limit(p, Len(fs), f), v) \in Nat /\ Num(p.rewind, v) \in Nat
      BY <1>1, <2>3, NumType
    <3>2. k \in 1 .. Num(p.rewind, v)
      BY <3>1
    <3> QED BY <1>3, <3>2
  <2>5. \A f \in 0 .. Len(fs) : \A t :
          KeptRow(x, Limit(x, Len(fs), f), t) <=> KeptRow(p, Limit(p, Len(fs), f), t)
    BY <1>3, <2>4, KindOfType DEF KeptRow
  <2>6. L \in 0 .. Len(fs) /\ \A f \in 1 .. L : f \in 0 .. Len(fs)
    BY <1>1, LenProperties
  <2>7. FitsShape(x, L, fs)
    <3>1. StagedShape(x)
      <4>1. ASSUME NEW v \in Kinds, NEW k \in 1 .. Num(p.rewind, v)
            PROVE  LET r == StagedRow(x, v, k) IN ~r.deleted /\ KindOf(r.tid) = v
        <5>1. /\ CountLeq(p.rewind, Staged(p)) /\ Staged(p) \in Count
          BY <1>1, <1>6, WriteCounts
        <5>2. Num(p.rewind, v) <= Num(Staged(p), v) /\ Num(p.rewind, v) \in Nat
              /\ Num(Staged(p), v) \in Nat
          BY <1>1, <5>1, CountLeqByKind, NumType
        <5>3. k \in 1 .. Num(Staged(p), v)
          BY <5>2
        <5>4. StagedRow(x, v, k) = StagedRow(p, v, k)
          BY <1>3
        <5> QED BY <2>2, <5>3, <5>4 DEF FitsShape, StagedShape
      <4> QED BY <1>3, <4>1 DEF StagedShape
    <3>2. Distinct(x, Limit(x, Len(fs), L))
      BY <1>3, <2>2, <2>4, <2>6 DEF FitsShape, Distinct
    <3> QED BY <1>3, <2>2, <3>1, <3>2 DEF FitsShape
  <2>8. ASSUME NEW i \in Indexes, NEW e, EntryAt(cat[i], fs, L, i, e)
        PROVE  /\ x # None /\ x.idx = i => FitsEntry(x, L, fs, e, img[i][e.file])
               /\ e.exists => Kept(fs, L, x, i, e, img[i][e.file], busy)
    <3>1. /\ p.idx = i => FitsEntry(p, L, fs, e, img[i][e.file])
          /\ e.exists => Kept(fs, L, p, i, e, img[i][e.file], busy)
      BY <1>1, <2>1, <2>8, ViewAt
    <3>2. e.exists => Kept(fs, L, x, i, e, img[i][e.file], busy)
      <4>1. x # None
        BY <1>4, AbsentAssumption DEF WriteOK
      <4> QED BY <1>3, <2>5, <2>6, <3>1, <4>1 DEF Kept
    <3>3. ASSUME p.idx = i PROVE FitsEntry(x, L, fs, e, img[i][e.file])
      <4>1. InsertedBy(x, L, fs, e.heap)
        BY <1>3, <2>5, <2>6, <3>1, <3>3 DEF FitsEntry, InsertedBy
      <4>2. \A t \in LiveTids(img[i][e.file]) : ~KeptRow(x, Limit(x, Len(fs), L), t)
        BY <2>5, <2>6, <3>1, <3>3 DEF FitsEntry
      <4>3. ASSUME Limit(x, Len(fs), L) # ZeroCount PROVE BaseFits(x, img[i][e.file])
        <5>1. e = cat[i]
          <6>1. ASSUME e # cat[i] PROVE FALSE
            <7>1. PICK f \in L + 1 .. Len(fs) : Undone(fs, f, i)
              BY <1>1, <2>8, <6>1, PresentEntry
            <7>2. /\ Len(fs) \in 1 .. Len(fs)
              BY <1>1, LenProperties
            <7>3. View(fs, Len(fs), p, cat, img, busy)
              BY <1>1, <7>2, TopLevel, ViewsAt
            <7>4. FitsShape(p, Len(fs), fs)
              BY <7>3 DEF View
            <7>5. Limit(p, Len(fs), L) = ZeroCount
              BY <1>1, <3>3, <7>1, <7>4, BelowUndo
            <7> QED BY <1>3, <4>3, <7>5
          <6> QED BY <6>1
        <5>2. img[i][e.file] = now
          BY <3>3, <5>1 DEF now
        <5> QED BY <1>3, <1>5, <5>2 DEF BaseFits
      <4> QED BY <4>1, <4>2, <4>3 DEF FitsEntry
    <3> QED BY <1>3, <3>2, <3>3
  <2> QED BY <2>7, <2>8, ViewFrom, Zenon
<1>8. ASSUME NEW L \in 1 .. Len(fs), NEW w, WriteAt(x, stash, fs, L, w)
      PROVE  View(fs, L, w, cat, img, busy)
  <2>1. CASE w = x /\ WriteAt(p, stash, fs, L, p)
    BY <1>7, <2>1
  <2>2. CASE WriteAt(p, stash, fs, L, w)
    BY <2>2, ViewsAt
  <2> QED BY <1>8, <2>1, <2>2, WriteAtOther
<1> QED BY <1>1, <1>8, ViewsFrom DEF x, now

\* flush_locked writes the staged rows to the present image of their index.
LEMMA FlushedSlot ==
  ASSUME NEW p, NEW stash, NEW fs, Holding(p, stash, fs), p # None,
         NEW cat \in [Indexes -> Entry], NEW img \in [Indexes -> [FileNos -> Image]],
         NEW img2, NEW busy,
         Views(p, stash, fs, cat, img, busy), p.rewind = None, cat[p.idx].exists, fs # <<>>,
         img2 = [img EXCEPT ![p.idx][cat[p.idx].file]
                   = Written(p, img[p.idx][cat[p.idx].file])],
         \A f \in DOMAIN fs : Undone(fs, f, p.idx) => fs[f].undo[p.idx].file # cat[p.idx].file,
         \A d \in stash : \A f \in DOMAIN fs :
           d.sub = fs[f].sub => Undone(fs, f, d.write.idx)
  PROVE  Views(None, stash, fs, cat, img2, busy)
<1> DEFINE now == img[p.idx][cat[p.idx].file]
           n == Len(fs)
<1>1. /\ WriteOK(p) /\ fs \in Seq(Frame) /\ p.idx \in Indexes
      /\ n \in Nat /\ DOMAIN fs = 1 .. n
  BY LenProperties DEF Holding, WriteOK, Write
<1>2. n \in 1 .. n
  BY <1>1, EmptySeq
<1>3. now \in Image /\ cat[p.idx].file \in FileNos
  BY <1>1 DEF Entry
<1>4. View(fs, n, p, cat, img, busy)
  BY <1>1, <1>2, TopLevel, ViewsAt
<1>5. /\ FitsShape(p, n, fs) /\ FitsEntry(p, n, fs, cat[p.idx], now)
      /\ Limit(p, n, n) = Surviving(p) /\ Surviving(p) = Staged(p)
  <2>1. EntryAt(cat[p.idx], fs, n, p.idx, cat[p.idx])
    BY <1>1, TopLevel
  <2>2. FitsEntry(p, n, fs, cat[p.idx], now)
    BY <1>1, <1>2, <1>4, <2>1, ViewAt
  <2> QED BY <1>1, <1>4, <2>2, LimitTop DEF View, Surviving
<1>6. StagedShape(p) /\ BaseFits(p, now)
  BY <1>5 DEF FitsShape, FitsEntry, StagedShape
<1>7. \A t : t \in LiveTids(Written(p, now)) <=>
               t \in LiveTids(now) \/ KeptRow(p, Surviving(p), t)
  BY <1>1, <1>3, <1>6, WrittenLive DEF BaseFits
<1>8. /\ img2[p.idx][cat[p.idx].file] = Written(p, now)
      /\ \A i \in Indexes : \A h \in FileNos :
           ~(i = p.idx /\ h = cat[p.idx].file) => img2[i][h] = img[i][h]
  BY <1>1, <1>3
<1>9. ASSUME NEW L \in 1 .. n, NEW i \in Indexes, NEW e, EntryAt(cat[i], fs, L, i, e)
      PROVE  /\ LiveTids(img[i][e.file]) \subseteq LiveTids(img2[i][e.file])
             /\ e # cat[i] => img2[i][e.file] = img[i][e.file]
  <2>1. e \in Entry /\ e.file \in FileNos
    <3>1. e \in Entry
      BY <1>1, <1>9, EntryAtType
    <3> QED BY <3>1 DEF Entry
  <2>2. CASE i = p.idx /\ e.file = cat[p.idx].file
    <3>1. e = cat[i]
      BY <1>1, <1>9, <2>2, PresentEntry
    <3> QED BY <1>7, <1>8, <2>2, <3>1 DEF now
  <2>3. CASE ~(i = p.idx /\ e.file = cat[p.idx].file)
    BY <1>8, <2>1, <2>3
  <2> QED BY <2>2, <2>3
<1> HIDE DEF now, n
<1>10. ASSUME NEW L \in 1 .. n, WriteAt(p, stash, fs, L, p)
       PROVE  View(fs, L, None, cat, img2, busy)
  <2>1. View(fs, L, p, cat, img, busy)
    BY <1>10, ViewsAt DEF n
  <2>2. L \in 0 .. n /\ n \in 0 .. n /\ L <= n /\ \A f \in 1 .. L : f \in 0 .. n /\ f <= n
    BY <1>1
  <2>3. Len(p.marks) < n
    BY <1>5 DEF FitsShape, n
  <2>4. ASSUME NEW i \in Indexes, NEW e, EntryAt(cat[i], fs, L, i, e), e.exists
        PROVE  /\ LiveTids(img[i][e.file]) \subseteq LiveTids(img2[i][e.file])
               /\ p # None /\ p.idx = i => \A f \in 1 .. L : \A t \in Tids :
                    KeptRow(p, Limit(p, Len(fs), f), t) => t \in LiveTids(img2[i][e.file])
    <3>1. CASE e = cat[i]
      <4>1. ASSUME p.idx = i, NEW f \in 1 .. L, NEW t \in Tids,
                   KeptRow(p, Limit(p, Len(fs), f), t)
            PROVE  t \in LiveTids(img2[i][e.file])
        <5>1. /\ CountLeq(Limit(p, n, f), Limit(p, n, n))
              /\ Limit(p, n, f) \in Count /\ Limit(p, n, n) \in Count
          BY <1>1, <2>2, <2>3, LimitMono, LimitType
        <5>2. KeptRow(p, Surviving(p), t)
          BY <1>5, <4>1, <5>1, KeptMono DEF n
        <5> QED BY <1>7, <1>8, <3>1, <4>1, <5>2 DEF now
      <4> QED BY <1>9, <2>4, <4>1
    <3>2. CASE e # cat[i]
      <4>1. ASSUME p.idx = i
            PROVE  \A f \in 1 .. L : \A t : ~KeptRow(p, Limit(p, Len(fs), f), t)
        <5>1. PICK f \in L + 1 .. Len(fs) : Undone(fs, f, i)
          BY <1>1, <2>4, <3>2, PresentEntry DEF n
        <5>2. Limit(p, Len(fs), L) = ZeroCount
          BY <1>1, <1>5, <4>1, <5>1, BelowUndo DEF n
        <5> QED BY <1>1, <2>3, <5>2, KeptNowhere DEF n
      <4> QED BY <1>9, <2>4, <4>1
    <3> QED BY <3>1, <3>2
  <2> QED BY <1>1, <2>1, <2>4, ForgetView, ZenonT(60) DEF n
<1>11. ASSUME NEW L \in 1 .. n, NEW w, WriteAt(p, stash, fs, L, w),
              NEW f \in L + 1 .. Len(fs), NEW d \in stash, d.sub = fs[f].sub, d.write = w
       PROVE  View(fs, L, w, cat, img2, busy)
  <2>1. View(fs, L, w, cat, img, busy)
    BY <1>11, ViewsAt DEF n
  <2>2. f \in 1 .. n /\ Undone(fs, f, w.idx)
    BY <1>1, <1>11 DEF n
  <2>3. ASSUME NEW i \in Indexes, NEW e, EntryAt(cat[i], fs, L, i, e)
        PROVE  /\ w # None /\ w.idx = i => img2[i][e.file] = img[i][e.file]
               /\ LiveTids(img[i][e.file]) \subseteq LiveTids(img2[i][e.file])
    <3>1. ASSUME w # None, w.idx = i
          PROVE  img2[i][e.file] = img[i][e.file]
      <4>1. PICK g \in L + 1 .. Len(fs) : Undone(fs, g, i) /\ e = fs[g].undo[i]
        BY <2>2, <2>3, <3>1 DEF EntryAt
      <4>2. g \in DOMAIN fs
        BY <1>1 DEF n
      <4>3. e \in Entry /\ e.file \in FileNos
        <5>1. e \in Entry
          BY <1>1, <2>3, EntryAtType DEF n
        <5> QED BY <5>1 DEF Entry
      <4> QED BY <1>8, <4>1, <4>2, <4>3
    <3> QED BY <1>9, <2>3, <3>1
  <2> QED BY <1>1, <2>1, <2>3, GrowView, Zenon DEF n
<1>12. ASSUME NEW L \in 1 .. n, NEW w, WriteAt(None, stash, fs, L, w)
       PROVE  View(fs, L, w, cat, img2, busy)
  <2>1. CASE w = None /\ WriteAt(p, stash, fs, L, p)
    BY <1>10, <2>1
  <2>2. CASE /\ WriteAt(p, stash, fs, L, w)
             /\ \E f \in L + 1 .. Len(fs) : \E d \in stash : d.sub = fs[f].sub /\ d.write = w
    BY <1>11, <2>2
  <2>3. \/ w = None /\ WriteAt(p, stash, fs, L, p)
        \/ /\ WriteAt(p, stash, fs, L, w)
           /\ \E f \in L + 1 .. Len(fs) : \E d \in stash : d.sub = fs[f].sub /\ d.write = w
    BY <1>12, WriteAtOther
  <2> QED BY <2>1, <2>2, <2>3
<1> QED BY <1>1, <1>12, ViewsFrom DEF n

\* The shape of the slot that an insert stages into: nothing need be staged yet.
SlotShape(w, L, fs) ==
  /\ Len(w.marks) < Len(fs)
  /\ \A v \in Kinds : \A k \in 1 .. Num(Staged(w), v) :
       LET r == StagedRow(w, v, k) IN ~r.deleted /\ KindOf(r.tid) = v
  /\ Distinct(w, Limit(w, Len(fs), L))
  /\ Limit(w, Len(fs), L) # ZeroCount => \E g \in 1 .. L : w.idx \in fs[g].locks
  /\ \A f \in 1 .. L : Undone(fs, f, w.idx) => Limit(w, Len(fs), f - 1) = ZeroCount

\* A slot just loaded keeps nothing at any level.
LEMMA LoadedLimits ==
  ASSUME NEW w, w.marks = <<>>, Surviving(w) = ZeroCount, NEW n \in Nat \ {0}, NEW f \in 0 .. n
  PROVE  Limit(w, n, f) = ZeroCount /\ Len(w.marks) < n
<1>1. Len(w.marks) = 0
  BY EmptySeq
<1>2. CASE f >= n
  BY <1>2 DEF Limit
<1>3. CASE f < n
  <2>1. ~(f >= n) /\ ~(f + 1 - n + 0 >= 1)
    BY <1>3
  <2> QED BY <1>1, <2>1 DEF Limit
<1> QED BY <1>1, <1>2, <1>3

\* A slot just loaded has nothing staged and is in order with every level.
LEMMA LoadedView ==
  ASSUME NEW fs \in Seq(Frame), NEW L \in 1 .. Len(fs), NEW cat, NEW img, NEW busy,
         View(fs, L, None, cat, img, busy), NEW i \in Indexes, NEW now \in Image,
         NEW q, q = Loaded(i, now)
  PROVE  /\ q.idx = i /\ q.rewind = None /\ WriteOK(q)
         /\ SlotShape(q, L, fs) /\ BaseFits(q, now)
         /\ \A t : ~KeptRow(q, Surviving(q), t)
         /\ \A e : EntryAt(cat[i], fs, L, i, e) => FitsEntry(q, L, fs, e, img[i][e.file])
         /\ \A j \in Indexes : \A e : EntryAt(cat[j], fs, L, j, e) /\ e.exists =>
              Kept(fs, L, q, j, e, img[j][e.file], busy)
<1>1. /\ q.idx = i /\ q.baseGen = now.gen /\ q.marks = <<>> /\ q.rewind = None
      /\ SameBase(q, now) /\ \A v \in Kinds : Num(Staged(q), v) = 0
      /\ WriteOK(q)
  BY LoadedParts, LoadedOK
<1>2. Surviving(q) = ZeroCount
  BY <1>1, WriteCounts, ZeroByKind DEF Surviving
<1>3. Len(fs) \in Nat \ {0} /\ \A f \in 0 .. L : f \in 0 .. Len(fs)
  BY LenProperties
<1>4. \A f \in 0 .. L : Limit(q, Len(fs), f) = ZeroCount /\ Len(q.marks) < Len(fs)
  BY <1>1, <1>2, <1>3, LoadedLimits
<1>5. /\ \A f \in 1 .. L : Limit(q, Len(fs), f) = ZeroCount
      /\ \A f \in 1 .. L : Limit(q, Len(fs), f - 1) = ZeroCount
      /\ Limit(q, Len(fs), L) = ZeroCount /\ Len(q.marks) < Len(fs)
  <2>1. \A f \in 1 .. L : f \in 0 .. L /\ f - 1 \in 0 .. L
    BY <1>3
  <2>2. L \in 0 .. L
    BY <1>3
  <2> QED BY <1>4, <2>1, <2>2
<1>6. \A t : ~KeptRow(q, ZeroCount, t)
  BY NoneKept
<1>7. \A v \in Kinds : 1 .. Num(Staged(q), v) = {} /\ 1 .. Num(ZeroCount, v) = {}
  BY <1>1 DEF Num, ZeroCount
<1>8. SlotShape(q, L, fs)
  BY <1>5, <1>7 DEF SlotShape, Distinct
<1>9. BaseFits(q, now)
  BY <1>1 DEF BaseFits, Image
<1>10. \A e : FitsEntry(q, L, fs, e, img[i][e.file])
  BY <1>5, <1>6 DEF FitsEntry, InsertedBy
<1>11. ASSUME NEW j \in Indexes, NEW e, EntryAt(cat[j], fs, L, j, e), e.exists
       PROVE  Kept(fs, L, q, j, e, img[j][e.file], busy)
  <2>1. Kept(fs, L, None, j, e, img[j][e.file], busy)
    BY <1>11, ViewAt
  <2> QED BY <2>1 DEF Kept
<1> QED BY <1>1, <1>2, <1>6, <1>8, <1>9, <1>10, <1>11

\* A staged row comes after those before it, which stay.
LEMMA PushedRows ==
  ASSUME NEW q, WriteOK(q), q.rewind = None, NEW t \in Tids, NEW x, x = PushRow(q, t)
  PROVE  /\ \A c \in Count : CountLeq(c, Staged(q)) =>
              \A r : KeptRow(x, c, r) <=> KeptRow(q, c, r)
         /\ \A r : KeptRow(x, Staged(x), r) <=> (KeptRow(q, Staged(q), r) \/ r = t)
<1>1. /\ \A v \in Kinds :
           /\ Num(Staged(x), v) = Num(Staged(q), v) + (IF v = KindOf(t) THEN 1 ELSE 0)
           /\ \A k \in 1 .. Num(Staged(q), v) : StagedRow(x, v, k) = StagedRow(q, v, k)
      /\ StagedRow(x, KindOf(t), Num(Staged(q), KindOf(t)) + 1) = LiveNode(t)
  BY PushParts
<1>2. Staged(q) \in Count /\ \A v \in Kinds : Num(Staged(q), v) \in Nat
  BY WriteCounts, NumType
<1>3. ASSUME NEW c \in Count, CountLeq(c, Staged(q)), NEW r
      PROVE  KeptRow(x, c, r) <=> KeptRow(q, c, r)
  <2>1. KindOf(r) \in Kinds
    BY KindOfType
  <2>2. /\ Num(c, KindOf(r)) <= Num(Staged(q), KindOf(r))
        /\ Num(c, KindOf(r)) \in Nat /\ Num(Staged(q), KindOf(r)) \in Nat
    BY <1>2, <1>3, <2>1, CountLeqByKind, NumType
  <2>3. \A k \in 1 .. Num(c, KindOf(r)) : k \in 1 .. Num(Staged(q), KindOf(r))
    BY <2>2
  <2> QED BY <1>1, <2>1, <2>3 DEF KeptRow
<1>4. ASSUME NEW r
      PROVE  KeptRow(x, Staged(x), r) <=> (KeptRow(q, Staged(q), r) \/ r = t)
  <2> DEFINE v == KindOf(r)
             m == Num(Staged(q), v)
  <2>1. v \in Kinds /\ m \in Nat
    BY <1>2, KindOfType
  <2>2. /\ Num(Staged(x), v) = m + (IF v = KindOf(t) THEN 1 ELSE 0)
        /\ \A k \in 1 .. m : StagedRow(x, v, k) = StagedRow(q, v, k)
    BY <1>1, <2>1
  <2>3. v = KindOf(t) => StagedRow(x, v, m + 1) = LiveNode(t)
    BY <1>1
  <2>4. LiveNode(t).tid = t
    BY DEF LiveNode
  <2> HIDE DEF m
  <2>5. CASE v = KindOf(t)
    <3>1. Num(Staged(x), v) = m + 1
      BY <2>2, <2>5
    <3>2. \A k : k \in 1 .. m + 1 <=> k \in 1 .. m \/ k = m + 1
      BY <2>1
    <3>3. (\E k \in 1 .. m + 1 : StagedRow(x, v, k).tid = r) <=>
            ((\E k \in 1 .. m : StagedRow(q, v, k).tid = r) \/ r = t)
      BY <2>2, <2>3, <2>4, <2>5, <3>2
    <3> QED BY <3>1, <3>3 DEF KeptRow, m
  <2>6. CASE v # KindOf(t)
    <3>1. Num(Staged(x), v) = m
      BY <2>1, <2>2, <2>6
    <3>2. r # t
      BY <2>6
    <3> QED BY <2>2, <3>1, <3>2 DEF KeptRow, m
  <2> QED BY <2>5, <2>6
<1> QED BY <1>3, <1>4

\* The limits of a slot below the top do not move when a row is staged.
LEMMA PushedLimits ==
  ASSUME NEW q, WriteOK(q), q.rewind = None, NEW x, x.marks = q.marks, x.rewind = None,
         NEW n \in Nat, Len(q.marks) < n
  PROVE  /\ \A f \in 0 .. n : f # n =>
              /\ Limit(x, n, f) = Limit(q, n, f)
              /\ Limit(q, n, f) \in Count /\ CountLeq(Limit(q, n, f), Staged(q))
         /\ Limit(x, n, n) = Staged(x) /\ Limit(q, n, n) = Staged(q)
<1>1. Limit(x, n, n) = Staged(x) /\ Limit(q, n, n) = Staged(q)
  BY LimitTop DEF Surviving
<1>2. ASSUME NEW f \in 0 .. n, f # n
      PROVE  /\ Limit(x, n, f) = Limit(q, n, f)
             /\ Limit(q, n, f) \in Count /\ CountLeq(Limit(q, n, f), Staged(q))
  <2>1. ~(f >= n)
    BY <1>2
  <2>2. Limit(x, n, f) = Limit(q, n, f)
    BY <2>1 DEF Limit
  <2> QED BY <2>2, LimitType
<1> QED BY <1>1, <1>2

\* One more staged row, distinct from the others and under the lock, keeps the shape.
LEMMA PushedShape ==
  ASSUME NEW fs \in Seq(Frame), NEW L \in 1 .. Len(fs), NEW q, WriteOK(q), q.rewind = None,
         SlotShape(q, L, fs), NEW t \in Tids, ~KeptRow(q, Staged(q), t),
         q.idx \in fs[Len(fs)].locks, NEW x, x = PushRow(q, t)
  PROVE  FitsShape(x, L, fs)
<1> DEFINE n == Len(fs)
           m(v) == Num(Staged(q), v)
<1>1. /\ x.idx = q.idx /\ x.marks = q.marks /\ x.rewind = None
      /\ \A v \in Kinds :
           /\ Num(Staged(x), v) = m(v) + (IF v = KindOf(t) THEN 1 ELSE 0)
           /\ \A k \in 1 .. m(v) : StagedRow(x, v, k) = StagedRow(q, v, k)
      /\ StagedRow(x, KindOf(t), m(KindOf(t)) + 1) = LiveNode(t)
  BY PushParts
<1>2. \A v \in Kinds : m(v) \in Nat
  BY WriteCounts, NumType
<1>3. /\ n \in Nat /\ L \in 0 .. n /\ n \in 1 .. n /\ \A f \in 1 .. L : f - 1 \in 0 .. n /\ f - 1 # n
  BY LenProperties
<1>4. Len(q.marks) < n
  BY DEF SlotShape
<1>5. /\ \A f \in 0 .. n : f # n =>
           /\ Limit(x, n, f) = Limit(q, n, f)
           /\ Limit(q, n, f) \in Count /\ CountLeq(Limit(q, n, f), Staged(q))
      /\ Limit(x, n, n) = Staged(x) /\ Limit(q, n, n) = Staged(q)
  BY <1>1, <1>3, <1>4, PushedLimits
<1>6. /\ LiveNode(t).tid = t /\ LiveNode(t).deleted = FALSE /\ KindOf(t) \in Kinds
  BY KindOfType DEF LiveNode
<1> HIDE DEF m
<1>7. ASSUME NEW v \in Kinds, NEW k \in 1 .. Num(Staged(x), v)
      PROVE  \/ k \in 1 .. m(v)
             \/ v = KindOf(t) /\ k = m(v) + 1
  <2>1. CASE v = KindOf(t)
    <3>1. Num(Staged(x), v) = m(v) + 1
      BY <1>1, <2>1
    <3> QED BY <1>2, <2>1, <3>1
  <2>2. CASE v # KindOf(t)
    <3>1. Num(Staged(x), v) = m(v)
      BY <1>1, <1>2, <2>2
    <3> QED BY <3>1
  <2> QED BY <2>1, <2>2
<1>8. StagedShape(x)
  <2>1. Num(Staged(x), KindOf(t)) # 0
    <3>1. Num(Staged(x), KindOf(t)) = m(KindOf(t)) + 1
      BY <1>1, <1>6
    <3> QED BY <1>2, <1>6, <3>1
  <2>2. Staged(x) # ZeroCount
    BY <2>1 DEF Num, ZeroCount
  <2>3. ASSUME NEW v \in Kinds, NEW k \in 1 .. Num(Staged(x), v)
        PROVE  ~StagedRow(x, v, k).deleted /\ KindOf(StagedRow(x, v, k).tid) = v
    <3>1. CASE k \in 1 .. m(v)
      <4>1. StagedRow(x, v, k) = StagedRow(q, v, k)
        BY <1>1, <3>1
      <4> QED BY <3>1, <4>1 DEF SlotShape, m
    <3>2. CASE v = KindOf(t) /\ k = m(v) + 1
      BY <1>1, <1>6, <3>2
    <3> QED BY <1>7, <3>1, <3>2
  <2> QED BY <2>2, <2>3 DEF StagedShape
<1>9. Distinct(x, Limit(x, n, L))
  <2>1. CASE L # n
    <3>1. /\ Limit(x, n, L) = Limit(q, n, L)
          /\ Limit(q, n, L) \in Count /\ CountLeq(Limit(q, n, L), Staged(q))
      BY <1>3, <1>5, <2>1
    <3>2. ASSUME NEW v \in Kinds, NEW k \in 1 .. Num(Limit(q, n, L), v)
          PROVE  StagedRow(x, v, k) = StagedRow(q, v, k)
      <4>1. Num(Limit(q, n, L), v) <= m(v) /\ Num(Limit(q, n, L), v) \in Nat
        BY <3>1, CountLeqByKind, NumType, WriteCounts DEF m
      <4>2. k \in 1 .. m(v)
        BY <1>2, <4>1
      <4> QED BY <1>1, <4>2
    <3>3. Distinct(q, Limit(q, n, L))
      BY DEF SlotShape
    <3> QED BY <3>1, <3>2, <3>3 DEF Distinct
  <2>2. CASE L = n
    <3>1. Distinct(q, Staged(q))
      BY <1>5, <2>2 DEF SlotShape
    <3>2. ASSUME NEW v \in Kinds, NEW k \in 1 .. m(v)
          PROVE  StagedRow(q, v, k).tid # t
      <4>1. ASSUME StagedRow(q, v, k).tid = t PROVE FALSE
        <5>1. KindOf(t) = v
          BY <4>1 DEF SlotShape, m
        <5> QED BY <4>1, <5>1 DEF KeptRow, m
      <4> QED BY <4>1
    <3>3. ASSUME NEW v \in Kinds, NEW j \in 1 .. Num(Staged(x), v), NEW k \in 1 .. Num(Staged(x), v),
                 StagedRow(x, v, j).tid = StagedRow(x, v, k).tid
          PROVE  j = k
      <4>1. /\ j \in 1 .. m(v) \/ (v = KindOf(t) /\ j = m(v) + 1)
            /\ k \in 1 .. m(v) \/ (v = KindOf(t) /\ k = m(v) + 1)
        BY <1>7
      <4>2. CASE j \in 1 .. m(v) /\ k \in 1 .. m(v)
        <5>1. StagedRow(q, v, j).tid = StagedRow(q, v, k).tid
          BY <1>1, <3>3, <4>2
        <5> QED BY <3>1, <4>2, <5>1 DEF Distinct, m
      <4>3. ASSUME j \in 1 .. m(v), v = KindOf(t), k = m(v) + 1
            PROVE  FALSE
        <5>1. StagedRow(x, v, j) = StagedRow(q, v, j)
          BY <1>1, <4>3
        <5>2. StagedRow(x, v, k).tid = t
          BY <1>1, <1>6, <4>3
        <5> QED BY <3>2, <3>3, <4>3, <5>1, <5>2
      <4>4. ASSUME k \in 1 .. m(v), v = KindOf(t), j = m(v) + 1
            PROVE  FALSE
        <5>1. StagedRow(x, v, k) = StagedRow(q, v, k)
          BY <1>1, <4>4
        <5>2. StagedRow(x, v, j).tid = t
          BY <1>1, <1>6, <4>4
        <5> QED BY <3>2, <3>3, <4>4, <5>1, <5>2
      <4> QED BY <4>1, <4>2, <4>3, <4>4
    <3> QED BY <1>5, <2>2, <3>3 DEF Distinct
  <2> QED BY <2>1, <2>2
<1>10. Limit(x, n, L) # ZeroCount => \E g \in 1 .. L : x.idx \in fs[g].locks
  <2>1. CASE L # n
    BY <1>1, <1>3, <1>5, <2>1 DEF SlotShape
  <2>2. CASE L = n
    BY <1>1, <1>3, <2>2
  <2> QED BY <2>1, <2>2
<1>11. ASSUME NEW f \in 1 .. L, Undone(fs, f, x.idx)
       PROVE  Limit(x, n, f - 1) = ZeroCount
  <2>1. Limit(q, n, f - 1) = ZeroCount
    BY <1>1, <1>11 DEF SlotShape
  <2> QED BY <1>3, <1>5, <2>1
<1> QED BY <1>1, <1>4, <1>8, <1>9, <1>10, <1>11 DEF FitsShape

\* The row staged last is the innermost frame's, on the present entry.
LEMMA PushedEntry ==
  ASSUME NEW fs \in Seq(Frame), NEW L \in 1 .. Len(fs), NEW q, WriteOK(q), q.rewind = None,
         Len(q.marks) < Len(fs), NEW t \in Tids, NEW x, x = PushRow(q, t),
         NEW e, NEW img, FitsEntry(q, L, fs, e, img),
         L = Len(fs) => /\ <<q.idx, e.heap, t>> \in fs[L].rows
                        /\ t \notin LiveTids(img) /\ BaseFits(q, img)
  PROVE  FitsEntry(x, L, fs, e, img)
<1> DEFINE n == Len(fs)
<1>1. /\ x.idx = q.idx /\ x.baseGen = q.baseGen /\ x.marks = q.marks /\ x.rewind = None
      /\ \A v \in Kinds :
           /\ BaseLen(x, v) = BaseLen(q, v)
           /\ \A k \in 1 .. Len(Part(q, v)) : Part(x, v)[k] = Part(q, v)[k]
  BY PushParts
<1>2. /\ n \in Nat /\ L \in 0 .. n /\ \A f \in 1 .. L : f \in 0 .. n /\ (f = n => L = n)
  BY LenProperties
<1>3. /\ \A f \in 0 .. n : f # n =>
           /\ Limit(x, n, f) = Limit(q, n, f)
           /\ Limit(q, n, f) \in Count /\ CountLeq(Limit(q, n, f), Staged(q))
      /\ Limit(x, n, n) = Staged(x) /\ Limit(q, n, n) = Staged(q)
  BY <1>1, <1>2, PushedLimits, ZenonT(60)
<1>4. /\ \A c \in Count : CountLeq(c, Staged(q)) => \A r : KeptRow(x, c, r) <=> KeptRow(q, c, r)
      /\ \A r : KeptRow(x, Staged(x), r) <=> (KeptRow(q, Staged(q), r) \/ r = t)
  BY PushedRows
<1>5. \A f \in 0 .. n : \A r :
        KeptRow(x, Limit(x, n, f), r) <=> (KeptRow(q, Limit(q, n, f), r) \/ (f = n /\ r = t))
  BY <1>3, <1>4
<1>6. InsertedBy(x, L, fs, e.heap)
  <2> SUFFICES ASSUME NEW f \in 1 .. L, NEW r \in Tids, KeptRow(x, Limit(x, Len(fs), f), r)
               PROVE  \E g \in 1 .. f : <<x.idx, e.heap, r>> \in fs[g].rows
    BY DEF InsertedBy
  <2>1. CASE KeptRow(q, Limit(q, n, f), r)
    BY <1>1, <2>1 DEF FitsEntry, InsertedBy
  <2>2. CASE f = n /\ r = t
    <3>1. L = n /\ f \in 1 .. f
      BY <1>2, <2>2
    <3> QED BY <1>1, <2>2, <3>1
  <2> QED BY <1>2, <1>5, <2>1, <2>2
<1>7. BaseFits(q, img) => BaseFits(x, img)
  <2>1. ASSUME SameBase(q, img) PROVE SameBase(x, img)
    <3>1. ASSUME NEW v \in Kinds, NEW k \in 1 .. BaseLen(q, v)
          PROVE  Part(x, v)[k] = Part(q, v)[k]
      <4>1. k \in 1 .. Len(Part(q, v))
        BY PartType
      <4> QED BY <1>1, <4>1
    <3> QED BY <1>1, <2>1, <3>1 DEF SameBase
  <2> QED BY <1>1, <2>1 DEF BaseFits
<1>8. Limit(x, n, L) # ZeroCount => BaseFits(x, img)
  <2>1. CASE L = n
    BY <1>7, <2>1
  <2>2. CASE L # n
    BY <1>2, <1>3, <1>7, <2>2 DEF FitsEntry
  <2> QED BY <2>1, <2>2
<1>9. \A r \in LiveTids(img) : ~KeptRow(x, Limit(x, n, L), r)
  BY <1>2, <1>5 DEF FitsEntry
<1> QED BY <1>6, <1>8, <1>9 DEF FitsEntry

\* The row that was about to be staged is staged.
LEMMA PushedKept ==
  ASSUME NEW fs \in Seq(Frame), NEW L \in 1 .. Len(fs), NEW q, WriteOK(q), q.rewind = None,
         Len(q.marks) < Len(fs), NEW t \in Tids, NEW x, x = PushRow(q, t), x # None,
         NEW i \in Indexes, NEW e, NEW img, NEW busy, busy = {<<q.idx, t>>},
         Kept(fs, L, q, i, e, img, busy),
         L = Len(fs) /\ i = q.idx => \A f \in 1 .. L :
           <<i, e.heap, t>> \in fs[f].rows => f = L
  PROVE  Kept(fs, L, x, i, e, img, {})
<1> DEFINE n == Len(fs)
<1>1. x.idx = q.idx /\ x.marks = q.marks /\ x.rewind = None
  BY PushParts
<1>2. /\ n \in Nat /\ L \in 0 .. n /\ \A f \in 1 .. L : f \in 0 .. n /\ (f = n => L = n)
  BY LenProperties
<1>3. /\ \A f \in 0 .. n : f # n =>
           /\ Limit(x, n, f) = Limit(q, n, f)
           /\ Limit(q, n, f) \in Count /\ CountLeq(Limit(q, n, f), Staged(q))
      /\ Limit(x, n, n) = Staged(x) /\ Limit(q, n, n) = Staged(q)
  BY <1>1, <1>2, PushedLimits
<1>4. /\ \A c \in Count : CountLeq(c, Staged(q)) => \A r : KeptRow(x, c, r) <=> KeptRow(q, c, r)
      /\ \A r : KeptRow(x, Staged(x), r) <=> (KeptRow(q, Staged(q), r) \/ r = t)
  BY PushedRows
<1>5. \A f \in 0 .. n : \A r :
        KeptRow(x, Limit(x, n, f), r) <=> (KeptRow(q, Limit(q, n, f), r) \/ (f = n /\ r = t))
  BY <1>3, <1>4
<1> SUFFICES ASSUME NEW f \in 1 .. L, NEW r \in Tids, <<i, e.heap, r>> \in fs[f].rows
             PROVE  r \in LiveTids(img) \/ (x.idx = i /\ KeptRow(x, Limit(x, Len(fs), f), r))
  BY DEF Kept
<1>6. \/ r \in LiveTids(img)
      \/ q.idx = i /\ KeptRow(q, Limit(q, Len(fs), f), r)
      \/ L = Len(fs) /\ <<i, r>> \in busy
  BY DEF Kept
<1>7. ASSUME L = Len(fs), <<i, r>> \in busy
      PROVE  x.idx = i /\ KeptRow(x, Limit(x, Len(fs), f), r)
  <2>1. i = q.idx /\ r = t
    BY <1>7
  <2>2. f = n
    BY <1>7, <2>1
  <2> QED BY <1>1, <1>2, <1>5, <2>1, <2>2
<1> QED BY <1>1, <1>2, <1>5, <1>6, <1>7

\* The row of an insert goes into the slot.
LEMMA StagedSlot ==
  ASSUME NEW p, NEW stash, NEW fs, Holding(p, stash, fs), fs # <<>>,
         NEW cat \in [Indexes -> Entry], NEW img \in [Indexes -> [FileNos -> Image]],
         NEW i \in Indexes, NEW t \in Tids, Views(p, stash, fs, cat, img, {<<i, t>>}),
         p # None => p.idx = i /\ p.rewind = None /\ ~KeptRow(p, Surviving(p), t),
         <<i, cat[i].heap, t>> \in fs[Len(fs)].rows, i \in fs[Len(fs)].locks,
         \A f \in DOMAIN fs : <<i, cat[i].heap, t>> \in fs[f].rows => f = Len(fs),
         t \notin LiveTids(img[i][cat[i].file]),
         NEW q, p = None => q = Loaded(i, img[i][cat[i].file]), p # None => q = p
  PROVE  Views(PushRow(q, t), stash, fs, cat, img, {})
<1> DEFINE n == Len(fs)
           now == img[i][cat[i].file]
           busy == {<<i, t>>}
           x == PushRow(q, t)
<1>1. /\ fs \in Seq(Frame) /\ n \in Nat /\ DOMAIN fs = 1 .. n /\ n \in 1 .. n
      /\ now \in Image
  BY LenProperties, EmptySeq DEF Holding, Entry
<1>2. ASSUME NEW L \in 1 .. n, WriteAt(p, stash, fs, L, p)
      PROVE  /\ q.idx = i /\ q.rewind = None /\ WriteOK(q)
             /\ SlotShape(q, L, fs) /\ (L = n => BaseFits(q, now))
             /\ ~KeptRow(q, Surviving(q), t)
             /\ \A e : EntryAt(cat[i], fs, L, i, e) => FitsEntry(q, L, fs, e, img[i][e.file])
             /\ \A j \in Indexes : \A e : EntryAt(cat[j], fs, L, j, e) /\ e.exists =>
                  Kept(fs, L, q, j, e, img[j][e.file], busy)
  <2>1. View(fs, L, p, cat, img, busy)
    BY <1>2, ViewsAt
  <2>2. CASE p = None
    <3>1. q = Loaded(i, now)
      BY <2>2
    <3>2. View(fs, L, None, cat, img, busy)
      BY <2>1, <2>2
    <3>3. L \in 1 .. Len(fs) /\ fs \in Seq(Frame) /\ now \in Image
      BY <1>1
    <3> HIDE DEF busy, now, n
    <3>4. q.idx = i /\ q.rewind = None /\ WriteOK(q)
      BY <3>1, <3>3, LoadedParts, LoadedOK
    <3>7. SlotShape(q, L, fs)
      BY <3>1, <3>2, <3>3, LoadedView, Zenon
    <3>8. BaseFits(q, now)
      BY <3>1, <3>2, <3>3, LoadedView, Zenon
    <3>9. \A r : ~KeptRow(q, Surviving(q), r)
      BY <3>1, <3>2, <3>3, LoadedView, Zenon
    <3>5. \A e : EntryAt(cat[i], fs, L, i, e) => FitsEntry(q, L, fs, e, img[i][e.file])
      BY <3>1, <3>2, <3>3, LoadedView, Zenon
    <3>6. \A j \in Indexes : \A e : EntryAt(cat[j], fs, L, j, e) /\ e.exists =>
               Kept(fs, L, q, j, e, img[j][e.file], busy)
      BY <3>1, <3>2, <3>3, LoadedView, Zenon
    <3> QED BY <3>4, <3>5, <3>6, <3>7, <3>8, <3>9
  <2>3. CASE p # None
    <3>1. /\ q = p /\ q.idx = i /\ q.rewind = None /\ WriteOK(q) /\ ~KeptRow(q, Surviving(q), t)
      BY <2>3 DEF Holding
    <3>2. FitsShape(q, L, fs)
      BY <2>1, <2>3, <3>1 DEF View
    <3>3. SlotShape(q, L, fs)
      BY <3>2 DEF FitsShape, SlotShape, StagedShape
    <3>4. \A e : EntryAt(cat[i], fs, L, i, e) => FitsEntry(q, L, fs, e, img[i][e.file])
      BY <1>1, <2>1, <2>3, <3>1, ViewAt
    <3>5. \A j \in Indexes : \A e : EntryAt(cat[j], fs, L, j, e) /\ e.exists =>
                  Kept(fs, L, q, j, e, img[j][e.file], busy)
      BY <1>1, <2>1, <2>3, <3>1, ViewAt
    <3>6. ASSUME L = n PROVE BaseFits(q, now)
      <4>1. EntryAt(cat[i], fs, L, i, cat[i])
        BY <1>1, <3>6, TopLevel
      <4>2. Limit(q, n, n) # ZeroCount
        BY <1>1, <3>1, <3>2, LimitTop DEF FitsShape, StagedShape, Surviving
      <4> QED BY <3>4, <3>6, <4>1, <4>2 DEF FitsEntry
    <3> QED BY <3>1, <3>3, <3>4, <3>5, <3>6
  <2> QED BY <2>2, <2>3
<1>3. ASSUME NEW L \in 1 .. n, WriteAt(p, stash, fs, L, p)
      PROVE  View(fs, L, x, cat, img, {})
  <2>1. /\ q.idx = i /\ q.rewind = None /\ WriteOK(q)
        /\ SlotShape(q, L, fs) /\ (L = n => BaseFits(q, now))
        /\ ~KeptRow(q, Surviving(q), t)
        /\ \A e : EntryAt(cat[i], fs, L, i, e) => FitsEntry(q, L, fs, e, img[i][e.file])
        /\ \A j \in Indexes : \A e : EntryAt(cat[j], fs, L, j, e) /\ e.exists =>
             Kept(fs, L, q, j, e, img[j][e.file], busy)
    BY <1>2, <1>3
  <2>2. x.idx = i /\ x # None
    <3>1. x.idx = q.idx
      BY <2>1, PushParts
    <3>2. WriteOK(x)
      BY <2>1, PushRowOK
    <3> QED BY <2>1, <3>1, <3>2, AbsentAssumption DEF WriteOK
  <2>3. FitsShape(x, L, fs)
    BY <1>1, <2>1, PushedShape DEF Surviving
  <2>4. Len(q.marks) < Len(fs)
    BY <2>1 DEF SlotShape
  <2>5. ASSUME NEW e, EntryAt(cat[i], fs, L, i, e)
        PROVE  FitsEntry(x, L, fs, e, img[i][e.file])
    <3>1. ASSUME L = Len(fs)
          PROVE  /\ <<q.idx, e.heap, t>> \in fs[L].rows
                 /\ t \notin LiveTids(img[i][e.file]) /\ BaseFits(q, img[i][e.file])
      <4>1. e = cat[i]
        BY <1>1, <2>5, <3>1, TopLevel
      <4> QED BY <2>1, <3>1, <4>1
    <3>2. FitsEntry(q, L, fs, e, img[i][e.file])
      BY <2>1, <2>5
    <3> QED BY <1>1, <2>1, <2>4, <3>1, <3>2, PushedEntry
  <2>6. ASSUME NEW j \in Indexes, NEW e, EntryAt(cat[j], fs, L, j, e), e.exists
        PROVE  Kept(fs, L, x, j, e, img[j][e.file], {})
    <3>1. ASSUME L = Len(fs), j = q.idx, NEW f \in 1 .. L, <<j, e.heap, t>> \in fs[f].rows
          PROVE  f = L
      <4>1. e = cat[j]
        BY <1>1, <2>6, <3>1, TopLevel
      <4>2. f \in DOMAIN fs
        BY <1>1
      <4> QED BY <2>1, <3>1, <4>1, <4>2
    <3>2. Kept(fs, L, q, j, e, img[j][e.file], busy)
      BY <2>1, <2>6
    <3>3. busy = {<<q.idx, t>>}
      BY <2>1
    <3> HIDE DEF busy, x
    <3> QED BY <1>1, <2>1, <2>2, <2>4, <3>1, <3>2, <3>3, PushedKept DEF x
  <2> HIDE DEF x
  <2>7. ASSUME NEW j \in Indexes, NEW e, EntryAt(cat[j], fs, L, j, e)
        PROVE  /\ x # None /\ x.idx = j => FitsEntry(x, L, fs, e, img[j][e.file])
               /\ e.exists => Kept(fs, L, x, j, e, img[j][e.file], {})
    BY <2>2, <2>5, <2>6, <2>7
  <2> QED BY <2>3, <2>7, ViewFrom, Zenon
<1>4. ASSUME NEW L \in 1 .. n, NEW w, WriteAt(p, stash, fs, L, w),
             NEW f \in L + 1 .. Len(fs)
      PROVE  View(fs, L, w, cat, img, {})
  <2>1. View(fs, L, w, cat, img, busy)
    BY <1>4, ViewsAt
  <2>2. L # Len(fs)
    BY <1>1
  <2>3. ASSUME NEW j \in Indexes, NEW e, EntryAt(cat[j], fs, L, j, e)
        PROVE  /\ w # None /\ w.idx = j => FitsEntry(w, L, fs, e, img[j][e.file])
               /\ e.exists => Kept(fs, L, w, j, e, img[j][e.file], {})
    <3>1. /\ w # None /\ w.idx = j => FitsEntry(w, L, fs, e, img[j][e.file])
          /\ e.exists => Kept(fs, L, w, j, e, img[j][e.file], busy)
      BY <1>1, <2>1, <2>3, ViewAt
    <3> QED BY <2>2, <3>1 DEF Kept
  <2>4. w # None => FitsShape(w, L, fs)
    BY <2>1 DEF View
  <2> QED BY <2>3, <2>4, ViewFrom, Zenon
<1>5. ASSUME NEW L \in 1 .. n, NEW w, WriteAt(x, stash, fs, L, w)
      PROVE  View(fs, L, w, cat, img, {})
  <2>1. CASE w = x /\ WriteAt(p, stash, fs, L, p)
    BY <1>3, <2>1
  <2>2. CASE /\ WriteAt(p, stash, fs, L, w)
             /\ \E f \in L + 1 .. Len(fs) : \E d \in stash : d.sub = fs[f].sub /\ d.write = w
    BY <1>4, <2>2
  <2>3. \/ w = x /\ WriteAt(p, stash, fs, L, p)
        \/ /\ WriteAt(p, stash, fs, L, w)
           /\ \E f \in L + 1 .. Len(fs) : \E d \in stash : d.sub = fs[f].sub /\ d.write = w
    BY <1>5, WriteAtOther, SMTT(30)
  <2> QED BY <2>1, <2>2, <2>3
<1> QED BY <1>1, <1>5, ViewsFrom

-----------------------------------------------------------------------------
(* What one backend's own steps do to its views.                           *)

\* The marks of every held write move together.
LEMMA MarkedWriteAt ==
  ASSUME NEW p, NEW stash, NEW fs, Holding(p, stash, fs), NEW event \in MarkEvents,
         NEW L, NEW x, WriteAt(MarkPending(p, event), MarkStash(stash, event), fs, L, x)
  PROVE  \E w : WriteAt(p, stash, fs, L, w) /\ x = MarkPending(w, event)
<1>1. ASSUME NEW f
      PROVE  Stashed(MarkStash(stash, event), fs, f) <=> Stashed(stash, fs, f)
  <2>1. ASSUME NEW d \in stash, d.sub = fs[f].sub
        PROVE  Stashed(MarkStash(stash, event), fs, f)
    <3>1. [sub |-> d.sub, write |-> ApplyMarkEvent(d.write, event)] \in MarkStash(stash, event)
      BY DEF MarkStash
    <3> QED BY <2>1, <3>1 DEF Stashed
  <2>2. ASSUME NEW d \in MarkStash(stash, event), d.sub = fs[f].sub
        PROVE  Stashed(stash, fs, f)
    <3>1. PICK c \in stash : d = [sub |-> c.sub, write |-> ApplyMarkEvent(c.write, event)]
      BY DEF MarkStash
    <3>2. d.sub = c.sub
      BY <3>1
    <3> QED BY <2>2, <3>2 DEF Stashed
  <2> QED BY <2>1, <2>2 DEF Stashed
<1>2. CASE x = MarkPending(p, event) /\ \A f \in L + 1 .. Len(fs) : ~Stashed(MarkStash(stash, event), fs, f)
  BY <1>1, <1>2 DEF WriteAt
<1>3. ASSUME NEW f \in L + 1 .. Len(fs), NEW d \in MarkStash(stash, event),
             d.sub = fs[f].sub, d.write = x,
             \A g \in L + 1 .. f - 1 : ~Stashed(MarkStash(stash, event), fs, g)
      PROVE  \E w : WriteAt(p, stash, fs, L, w) /\ x = MarkPending(w, event)
  <2>1. PICK c \in stash : d = [sub |-> c.sub, write |-> ApplyMarkEvent(c.write, event)]
    BY DEF MarkStash
  <2>2. c.sub = fs[f].sub /\ x = ApplyMarkEvent(c.write, event)
    BY <1>3, <2>1
  <2>3. c.write # None
    BY AbsentAssumption DEF Holding, StashOK, WriteOK
  <2>4. WriteAt(p, stash, fs, L, c.write)
    BY <1>1, <1>3, <2>2 DEF WriteAt
  <2> QED BY <2>2, <2>3, <2>4 DEF MarkPending
<1> QED BY <1>2, <1>3 DEF WriteAt

\* A marked write is a write.
LEMMA MarkedOK ==
  ASSUME NEW w, w # None => WriteOK(w), NEW event \in MarkEvents
  PROVE  /\ (w = None) <=> (MarkPending(w, event) = None)
         /\ w # None => MarkPending(w, event) = ApplyMarkEvent(w, event)
         /\ MarkPending(w, event) # None => WriteOK(MarkPending(w, event))
<1>1. ASSUME w # None PROVE ApplyMarkEvent(w, event) # None
  <2>1. WriteOK(ApplyMarkEvent(w, event))
    BY <1>1, ApplyMarkEventOK
  <2> QED BY <2>1, AbsentAssumption DEF WriteOK
<1> QED BY <1>1, MarkPendingOK DEF MarkPending

\* Frames that are the same ones up to L, between statements.
LEMMA SameFramesKept ==
  ASSUME NEW fs, NEW gs, NEW L, \A g \in 1 .. L : gs[g] = fs[g], NEW busy, busy = {}
  PROVE  FramesKept(fs, gs, L, busy, busy)
BY DEF FramesKept, Undone

\* SAVEPOINT: a new level with nothing of its own.
LEMMA StartedSub ==
  ASSUME NEW p, NEW stash, NEW fs, Holding(p, stash, fs), fs # <<>>,
         NEW s, NEW gs \in Seq(Frame), Len(gs) = Len(fs) + 1, gs[Len(fs) + 1] = NewFrame(s),
         \A k \in 1 .. Len(fs) : gs[k] = fs[k],
         \A d \in stash : d.sub # s,
         NEW cat, NEW img, NEW busy, busy = {}, Views(p, stash, fs, cat, img, busy)
  PROVE  Views(MarkPending(p, "start"), MarkStash(stash, "start"), gs, cat, img, busy)
<1> DEFINE n == Len(fs)
           x == MarkPending(p, "start")
<1>1. /\ fs \in Seq(Frame) /\ n \in Nat /\ n \in 1 .. n /\ StashOK(stash)
      /\ (p # None => WriteOK(p)) /\ n < Len(gs) /\ Len(gs) \in Nat /\ n + 1 \in 1 .. Len(gs)
      /\ "start" \in MarkEvents
  BY LenProperties, EmptySeq DEF Holding, MarkEvents
<1>2. gs[n + 1].sub = s /\ gs[n + 1].rows = {} /\ \A i \in Indexes : ~Undone(gs, n + 1, i)
  BY DEF NewFrame, Undone
<1>3. \A L \in 1 .. n : \A f \in L + 1 .. Len(gs) : f \in L + 1 .. n \/ f = n + 1
  BY <1>1
<1>4. ASSUME NEW L \in 1 .. n, NEW w, WriteAt(p, stash, gs, L, w)
      PROVE  WriteAt(p, stash, fs, L, w)
  <2>1. \A f \in L + 1 .. n : f \in 1 .. n /\ f \in L + 1 .. Len(gs)
    BY <1>1
  <2>2. \A f \in L + 1 .. n : Stashed(stash, fs, f) <=> Stashed(stash, gs, f)
    BY <2>1 DEF Stashed
  <2>3. CASE w = p /\ \A f \in L + 1 .. Len(gs) : ~Stashed(stash, gs, f)
    BY <2>1, <2>2, <2>3 DEF WriteAt
  <2>4. ASSUME NEW f \in L + 1 .. Len(gs), NEW d \in stash, d.sub = gs[f].sub, d.write = w,
               \A g \in L + 1 .. f - 1 : ~Stashed(stash, gs, g)
        PROVE  WriteAt(p, stash, fs, L, w)
    <3>1. f # n + 1
      BY <1>2, <2>4
    <3>2. f \in L + 1 .. n /\ \A g \in L + 1 .. f - 1 : g \in L + 1 .. n
      BY <1>1, <3>1
    <3> QED BY <2>1, <2>2, <2>4, <3>2 DEF WriteAt
  <2> QED BY <1>4, <2>3, <2>4 DEF WriteAt
<1>5. ASSUME NEW L \in 1 .. n, NEW i \in Indexes, NEW e, EntryAt(cat[i], gs, L, i, e)
      PROVE  EntryAt(cat[i], fs, L, i, e)
  <2>1. \A f \in L + 1 .. n : f \in 1 .. n /\ f \in L + 1 .. Len(gs)
    BY <1>1
  <2>2. \A f \in L + 1 .. n : gs[f] = fs[f] /\ (Undone(fs, f, i) <=> Undone(gs, f, i))
    BY <2>1 DEF Undone
  <2>3. CASE e = cat[i] /\ \A f \in L + 1 .. Len(gs) : ~Undone(gs, f, i)
    BY <2>1, <2>2, <2>3 DEF EntryAt
  <2>4. ASSUME NEW f \in L + 1 .. Len(gs), Undone(gs, f, i), e = gs[f].undo[i],
               \A g \in L + 1 .. f - 1 : ~Undone(gs, g, i)
        PROVE  EntryAt(cat[i], fs, L, i, e)
    <3>1. f # n + 1
      BY <1>2, <2>4
    <3>2. f \in L + 1 .. n /\ \A g \in L + 1 .. f - 1 : g \in L + 1 .. n
      BY <1>1, <3>1
    <3> QED BY <2>2, <2>4, <3>2 DEF EntryAt
  <2> QED BY <1>5, <2>3, <2>4 DEF EntryAt
<1>6. ASSUME NEW L \in 1 .. n, NEW y, WriteAt(x, MarkStash(stash, "start"), gs, L, y)
      PROVE  View(gs, L, y, cat, img, busy)
  <2>1. PICK w : WriteAt(p, stash, gs, L, w) /\ y = MarkPending(w, "start")
    <3>1. WriteAt(MarkPending(p, "start"), MarkStash(stash, "start"), gs, L, y)
      BY <1>6
    <3>2. Holding(p, stash, gs) /\ "start" \in MarkEvents
      BY <1>1 DEF Holding
    <3> HIDE DEF x, n
    <3> QED BY <3>1, <3>2, MarkedWriteAt
  <2>2. WriteAt(p, stash, fs, L, w)
    BY <1>4, <2>1
  <2>3. View(fs, L, w, cat, img, busy) /\ (w # None => WriteOK(w))
    BY <2>2, ViewsAt, WriteAtType
  <2>4. (w = None) <=> (y = None)
    BY <1>1, <2>1, <2>3, MarkedOK
  <2>5. ASSUME w # None
        PROVE  /\ SameWrite(w, y) /\ Len(y.marks) < Len(gs)
               /\ \A f \in 0 .. L : Limit(y, Len(gs), f) = Limit(w, Len(fs), f)
    <3>1. y = MarkStart(w)
      BY <1>1, <2>1, <2>3, <2>5, MarkedOK DEF ApplyMarkEvent
    <3>2. Len(w.marks) < n
      BY <2>3, <2>5 DEF View, FitsShape
    <3>3. \A f \in 0 .. L : f \in 0 .. n
      BY <1>1
    <3> QED BY <1>1, <2>3, <2>5, <3>1, <3>2, <3>3, LimitStart
  <2>6. \A g \in 1 .. L : gs[g] = fs[g]
    BY <1>1
  <2>7. L <= Len(gs)
    BY <1>1
  <2>8. EntriesKept(cat, fs, img, cat, gs, img, L)
    BY <1>5 DEF EntriesKept
  <2>9. fs \in Seq(Frame) /\ L \in 1 .. Len(fs)
    BY <1>1
  <2>11. FramesKept(fs, gs, L, busy, busy)
    BY <2>6, SameFramesKept
  <2>10. Aligned(w, y, fs, gs, L)
    BY <2>3, <2>4, <2>5 DEF Aligned
  <2> HIDE DEF n, x
  <2> QED BY <2>3, <2>7, <2>8, <2>9, <2>10, <2>11, Carry
<1>7. View(gs, n + 1, x, cat, img, busy)
  <2>1. View(fs, n, p, cat, img, busy)
    BY <1>1, TopLevel, ViewsAt
  <2>2. (p = None) <=> (x = None)
    BY <1>1, MarkedOK
  <2>3. ASSUME p # None
        PROVE  /\ SameWrite(p, x) /\ Len(x.marks) < n + 1
               /\ \A f \in 0 .. n : Limit(x, n + 1, f) = Limit(p, n, f)
               /\ Limit(x, n + 1, n + 1) = Limit(p, n, n)
               /\ FitsShape(p, n, fs) /\ p.idx \in Indexes
    <3>1. x = MarkStart(p)
      BY <1>1, <2>3, MarkedOK DEF ApplyMarkEvent
    <3>2. FitsShape(p, n, fs) /\ Len(p.marks) < n /\ p.idx \in Indexes
      BY <1>1, <2>1, <2>3 DEF View, FitsShape, WriteOK, Write
    <3> QED BY <1>1, <2>3, <3>1, <3>2, LimitStart, LimitTop
  <2>4. \A f \in 1 .. n + 1 : f \in 1 .. n \/ f = n + 1
    BY <1>1
  <2>5. ASSUME x # None PROVE FitsShape(x, n + 1, gs)
    <3>1. /\ StagedShape(x) /\ x.idx = p.idx
          /\ \A v, k : StagedRow(x, v, k) = StagedRow(p, v, k)
      BY <2>2, <2>3, <2>5, SameWriteRows DEF FitsShape, SameWrite
    <3>2. Limit(x, n + 1, n + 1) = Limit(p, n, n)
      BY <2>2, <2>3, <2>5
    <3>3. Distinct(x, Limit(x, n + 1, n + 1))
      BY <2>2, <2>3, <2>5, <3>1, <3>2 DEF FitsShape, Distinct
    <3>4. Limit(x, n + 1, n + 1) # ZeroCount => \E g \in 1 .. n + 1 : x.idx \in gs[g].locks
      <4>1. \A g \in 1 .. n : g \in 1 .. n + 1
        BY <1>1
      <4> QED BY <2>2, <2>3, <2>5, <3>1, <3>2, <4>1 DEF FitsShape
    <3>5. ASSUME NEW f \in 1 .. n + 1, Undone(gs, f, x.idx)
          PROVE  Limit(x, n + 1, f - 1) = ZeroCount
      <4>1. f \in 1 .. n /\ Undone(fs, f, p.idx)
        BY <1>2, <2>2, <2>3, <2>4, <2>5, <3>1, <3>5 DEF Undone
      <4>2. f - 1 \in 0 .. n
        BY <1>1, <4>1
      <4> QED BY <2>2, <2>3, <2>5, <4>1, <4>2 DEF FitsShape
    <3> QED BY <1>1, <2>2, <2>3, <2>5, <3>1, <3>3, <3>4, <3>5 DEF FitsShape
  <2>6. ASSUME NEW i \in Indexes, NEW e, EntryAt(cat[i], gs, n + 1, i, e)
        PROVE  /\ x # None /\ x.idx = i => FitsEntry(x, n + 1, gs, e, img[i][e.file])
               /\ e.exists => Kept(gs, n + 1, x, i, e, img[i][e.file], busy)
    <3>1. e = cat[i]
      BY <1>1, <2>6, TopLevel
    <3>2. EntryAt(cat[i], fs, n, i, e)
      BY <1>1, <3>1, TopLevel
    <3>3. /\ p # None /\ p.idx = i => FitsEntry(p, n, fs, e, img[i][e.file])
          /\ e.exists => Kept(fs, n, p, i, e, img[i][e.file], busy)
      BY <1>1, <2>1, <3>2, ViewAt
    <3>4. ASSUME p # None
          PROVE  /\ x.idx = p.idx /\ x.baseGen = p.baseGen
                 /\ \A c, t : KeptRow(x, c, t) <=> KeptRow(p, c, t)
                 /\ \A v : BaseLen(x, v) = BaseLen(p, v) /\ Part(x, v) = Part(p, v)
      BY <2>3, <3>4, SameWriteRows, KeptSame DEF SameWrite
    <3>5. ASSUME x # None, x.idx = i PROVE FitsEntry(x, n + 1, gs, e, img[i][e.file])
      <4>1. FitsEntry(p, n, fs, e, img[i][e.file]) /\ p.idx = i /\ p # None
        BY <2>2, <3>3, <3>4, <3>5
      <4>2. InsertedBy(x, n + 1, gs, e.heap)
        <5> SUFFICES ASSUME NEW f \in 1 .. n + 1, NEW t \in Tids,
                            KeptRow(x, Limit(x, Len(gs), f), t)
                     PROVE  \E g \in 1 .. f : <<x.idx, e.heap, t>> \in gs[g].rows
          BY DEF InsertedBy
        <5>1. PICK h \in 1 .. n : h <= f /\ KeptRow(p, Limit(p, n, h), t)
          <6>1. CASE f \in 1 .. n
            <7>1. KeptRow(p, Limit(p, n, f), t) /\ f <= f
              BY <1>1, <2>3, <3>4, <4>1, <6>1
            <7> QED BY <6>1, <7>1
          <6>2. CASE f = n + 1
            <7>1. KeptRow(p, Limit(p, n, n), t) /\ n <= f
              BY <1>1, <2>3, <3>4, <4>1, <6>2
            <7> QED BY <1>1, <7>1
          <6> QED BY <2>4, <6>1, <6>2
        <5>2. PICK g \in 1 .. h : <<p.idx, e.heap, t>> \in fs[g].rows
          BY <4>1, <5>1 DEF FitsEntry, InsertedBy
        <5>3. g \in 1 .. f /\ g \in 1 .. n
          BY <1>1, <5>1
        <5> QED BY <3>4, <4>1, <5>2, <5>3
      <4>3. Limit(x, Len(gs), n + 1) = Limit(p, n, n)
        BY <2>3, <4>1
      <4>4. BaseFits(p, img[i][e.file]) => BaseFits(x, img[i][e.file])
        BY <3>4, <4>1 DEF BaseFits, SameBase
      <4> QED BY <3>4, <4>1, <4>2, <4>3, <4>4 DEF FitsEntry
    <3>6. ASSUME e.exists PROVE Kept(gs, n + 1, x, i, e, img[i][e.file], busy)
      <4> SUFFICES ASSUME NEW f \in 1 .. n + 1, NEW t \in Tids, <<i, e.heap, t>> \in gs[f].rows
                   PROVE  \/ t \in LiveTids(img[i][e.file])
                          \/ x # None /\ x.idx = i /\ KeptRow(x, Limit(x, Len(gs), f), t)
        BY DEF Kept
      <4>1. f \in 1 .. n /\ gs[f] = fs[f]
        BY <1>2, <2>4
      <4>2. \/ t \in LiveTids(img[i][e.file])
            \/ p # None /\ p.idx = i /\ KeptRow(p, Limit(p, n, f), t)
        BY <3>3, <3>6, <4>1 DEF Kept
      <4>3. ASSUME p # None, p.idx = i, KeptRow(p, Limit(p, n, f), t)
            PROVE  x # None /\ x.idx = i /\ KeptRow(x, Limit(x, Len(gs), f), t)
        <5>1. f \in 0 .. n
          BY <1>1, <4>1
        <5> QED BY <2>2, <2>3, <3>4, <4>3, <5>1
      <4> QED BY <4>2, <4>3
    <3> QED BY <3>5, <3>6
  <2> HIDE DEF x
  <2> QED BY <2>5, <2>6, ViewFrom, Zenon
<1>8. ASSUME NEW L \in 1 .. Len(gs), NEW y, WriteAt(x, MarkStash(stash, "start"), gs, L, y)
      PROVE  View(gs, L, y, cat, img, busy)
  <2>1. CASE L = n + 1
    <3>1. y = x
      BY <1>8, <2>1, TopLevel
    <3> QED BY <1>7, <2>1, <3>1
  <2>2. CASE L # n + 1
    <3>1. L \in 1 .. n
      BY <1>1, <2>2
    <3> QED BY <1>6, <1>8, <3>1
  <2> QED BY <2>1, <2>2
<1> QED BY <1>8, ViewsFrom

\* RELEASE SAVEPOINT: the innermost level becomes part of its parent's.
LEMMA CommittedWriteAt ==
  ASSUME NEW p, NEW stash, StashOK(stash), NEW fs \in Seq(Frame), Len(fs) > 1,
         \A f, g \in 1 .. Len(fs) : f < g => fs[f].sub # fs[g].sub,
         NEW gs \in Seq(Frame), Len(gs) = Len(fs) - 1,
         \A k \in 1 .. Len(gs) : gs[k].sub = fs[k].sub,
         NEW L \in 1 .. Len(fs), L < Len(gs), NEW w,
         WriteAt(p, StashCommit(stash, fs[Len(fs)].sub, fs[Len(fs) - 1].sub), gs, L, w)
  PROVE  WriteAt(p, stash, fs, L, w)
<1> DEFINE n == Len(fs)
           s == fs[n].sub
           r == fs[n - 1].sub
           after == StashCommit(stash, s, r)
<1>1. /\ n \in Nat /\ n > 1 /\ n - 1 \in 1 .. n /\ n \in 1 .. n /\ n - 1 < n
      /\ Len(gs) = n - 1
      /\ n - 1 \in L + 1 .. n - 1 /\ n \in L + 1 .. n
      /\ \A f \in L + 1 .. n - 1 : f \in L + 1 .. n /\ f \in 1 .. n /\ f \in 1 .. Len(gs)
      /\ \A f \in L + 1 .. n : f \in L + 1 .. n - 1 \/ f = n
      /\ \A f \in L + 1 .. n - 1 : f < n /\ (f < n - 1 \/ f = n - 1)
  BY LenProperties
<1>2. s # r /\ \A f \in L + 1 .. n - 1 : fs[f].sub # s /\ (f # n - 1 => fs[f].sub # r)
  BY <1>1
<1> HIDE DEF n, s, r
<1>3. \A d : d \in after /\ d.sub # r => d \in stash /\ d.sub # s
  <2>1. ASSUME NEW d \in after, d.sub # r PROVE d \in stash /\ d.sub # s
    BY <2>1, StashCommitSubs
  <2> QED BY <2>1
<1>4. \A d \in stash : d.sub # s => d \in after
  BY DEF StashCommit, StashDrain
<1>5. (\E d \in stash : d.sub = s) => \E d \in after : d.sub = r
  <2> SUFFICES ASSUME NEW c \in stash, c.sub = s PROVE \E d \in after : d.sub = r
    OBVIOUS
  <2>1. CASE StashOf(stash, r) # {}
    <3>1. PICK d \in stash : d.sub = r
      BY <2>1 DEF StashOf
    <3> QED BY <1>2, <1>4, <3>1
  <2>2. CASE StashOf(stash, r) = {}
    <3>1. [sub |-> r, write |-> c.write] \in after
      BY <2>2 DEF StashCommit, StashOf
    <3> QED BY <3>1
  <2> QED BY <2>1, <2>2
<1>6. ASSUME NEW d \in after, d.sub = r
      PROVE  \/ d \in stash
             \/ /\ \A c \in stash : c.sub # r
                /\ \E c \in stash : c.sub = s /\ c.write = d.write
  <2>1. CASE StashOf(stash, r) # {}
    BY <2>1 DEF StashCommit, StashDrain
  <2>2. CASE StashOf(stash, r) = {}
    <3>1. \A c \in stash : c.sub # r
      BY <2>2 DEF StashOf
    <3>2. d \in StashDrain(stash, s) \cup {[sub |-> r, write |-> c.write] : c \in StashOf(stash, s)}
      BY <2>2 DEF StashCommit
    <3>3. CASE d \in StashDrain(stash, s)
      BY <3>3 DEF StashDrain
    <3>4. CASE d \in {[sub |-> r, write |-> c.write] : c \in StashOf(stash, s)}
      <4>1. PICK c \in StashOf(stash, s) : d = [sub |-> r, write |-> c.write]
        BY <3>4
      <4>2. c \in stash /\ c.sub = s /\ c.write = d.write
        BY <4>1 DEF StashOf
      <4> QED BY <3>1, <4>2
    <3> QED BY <3>2, <3>3, <3>4
  <2> QED BY <2>1, <2>2
<1> HIDE DEF after
<1>7. \A f \in L + 1 .. n - 1 : Stashed(stash, fs, f) => Stashed(after, gs, f)
  BY <1>1, <1>2, <1>4 DEF Stashed
<1>8. Stashed(stash, fs, n) => Stashed(after, gs, n - 1)
  BY <1>1, <1>5 DEF Stashed, s, r
<1>9. CASE w = p /\ \A f \in L + 1 .. Len(gs) : ~Stashed(after, gs, f)
  <2>1. \A f \in L + 1 .. n : ~Stashed(stash, fs, f)
    BY <1>1, <1>7, <1>8, <1>9
  <2> QED BY <1>9, <2>1 DEF WriteAt, n
<1>10. ASSUME NEW f \in L + 1 .. Len(gs), NEW d \in after, d.sub = gs[f].sub, d.write = w,
              \A g \in L + 1 .. f - 1 : ~Stashed(after, gs, g)
       PROVE  WriteAt(p, stash, fs, L, w)
  <2>1. /\ f \in L + 1 .. n - 1 /\ f \in L + 1 .. n /\ \A g \in L + 1 .. f - 1 : g \in L + 1 .. n - 1
        /\ f \in 1 .. Len(gs)
    BY <1>1
  <2>2. \A g \in L + 1 .. f - 1 : ~Stashed(stash, fs, g)
    BY <1>7, <1>10, <2>1
  <2>3. d.sub = fs[f].sub
    BY <1>10, <2>1
  <2>4. CASE d \in stash
    BY <1>10, <2>1, <2>2, <2>3, <2>4 DEF WriteAt, n
  <2>5. CASE d \notin stash
    <3>1. f = n - 1 /\ d.sub = r
      BY <1>2, <1>3, <2>1, <2>3, <2>5 DEF r
    <3>2. PICK c \in stash : c.sub = s /\ c.write = d.write
      BY <1>6, <2>5, <3>1
    <3>3. \A c1 \in stash : c1.sub # r
      BY <1>6, <2>5, <3>1
    <3>4. \A g \in L + 1 .. n - 1 : ~Stashed(stash, fs, g)
      <4>1. \A g \in L + 1 .. n - 1 : g \in L + 1 .. f - 1 \/ g = n - 1
        BY <1>1, <3>1
      <4> QED BY <2>2, <3>3, <4>1 DEF Stashed, r
    <3>5. c.sub = fs[n].sub /\ c.write = w
      BY <1>10, <3>2 DEF s
    <3> QED BY <1>1, <3>4, <3>5 DEF WriteAt, n
  <2> QED BY <2>4, <2>5
<1> QED BY <1>9, <1>10 DEF WriteAt, after, s, r, n

\* A released entry is the older of the two.
LEMMA ReleasedEntryAt ==
  ASSUME NEW fs \in Seq(Frame), Len(fs) > 1, NEW gs \in Seq(Frame), Len(gs) = Len(fs) - 1,
         \A k \in 1 .. Len(fs) - 2 : gs[k] = fs[k],
         gs[Len(fs) - 1] = Released(fs[Len(fs) - 1], fs[Len(fs)]),
         NEW L \in 1 .. Len(fs), L < Len(gs), NEW i \in Indexes, NEW now, NEW e,
         EntryAt(now, gs, L, i, e)
  PROVE  EntryAt(now, fs, L, i, e)
<1> DEFINE n == Len(fs)
<1>0. n \in Nat /\ Len(gs) = n - 1 /\ L \in Nat /\ L >= 1 /\ L < n - 1
  BY LenProperties
<1>7. gs[n - 1] = Released(fs[n - 1], fs[n]) /\ \A k \in 1 .. n - 2 : gs[k] = fs[k]
  OBVIOUS
<1> HIDE DEF n
<1>1. /\ n - 1 \in L + 1 .. n /\ n \in L + 1 .. n /\ n - 1 \in L + 1 .. n - 1
      /\ \A f \in L + 1 .. n : f \in L + 1 .. n - 2 \/ f = n - 1 \/ f = n
      /\ \A f \in L + 1 .. n - 1 : f \in L + 1 .. n - 2 \/ f = n - 1
      /\ \A f \in L + 1 .. n - 2 : f \in 1 .. n - 2 /\ f \in L + 1 .. n - 1 /\ f \in L + 1 .. n
  <2>1. n - 1 \in L + 1 .. n /\ n \in L + 1 .. n /\ n - 1 \in L + 1 .. n - 1
    BY <1>0
  <2>2. \A f \in L + 1 .. n : f \in L + 1 .. n - 2 \/ f = n - 1 \/ f = n
    BY <1>0
  <2>3. \A f \in L + 1 .. n - 1 : f \in L + 1 .. n - 2 \/ f = n - 1
    BY <1>0
  <2>4. \A f \in L + 1 .. n - 2 : f \in 1 .. n - 2 /\ f \in L + 1 .. n - 1 /\ f \in L + 1 .. n
    BY <1>0
  <2> QED BY <2>1, <2>2, <2>3, <2>4
<1>2. gs[n - 1].undo[i] = IF fs[n - 1].undo[i] = None THEN fs[n].undo[i] ELSE fs[n - 1].undo[i]
  BY <1>7 DEF Released
<1>3. Undone(gs, n - 1, i) <=> Undone(fs, n - 1, i) \/ Undone(fs, n, i)
  BY <1>2 DEF Undone
<1>4. \A f \in L + 1 .. n - 2 : gs[f] = fs[f] /\ (Undone(gs, f, i) <=> Undone(fs, f, i))
  BY <1>1, <1>7 DEF Undone
<1>5. CASE e = now /\ \A f \in L + 1 .. Len(gs) : ~Undone(gs, f, i)
  <2>1. \A f \in L + 1 .. n : ~Undone(fs, f, i)
    BY <1>0, <1>1, <1>3, <1>4, <1>5
  <2> QED BY <1>5, <2>1 DEF EntryAt, n
<1>6. ASSUME NEW f \in L + 1 .. Len(gs), Undone(gs, f, i), e = gs[f].undo[i],
             \A g \in L + 1 .. f - 1 : ~Undone(gs, g, i)
      PROVE  EntryAt(now, fs, L, i, e)
  <2>1. /\ f \in L + 1 .. n - 1
        /\ \A g \in L + 1 .. f - 1 : g \in L + 1 .. n - 2
    BY <1>0
  <2>2. \A g \in L + 1 .. f - 1 : ~Undone(fs, g, i)
    BY <1>4, <1>6, <2>1
  <2>3. CASE f # n - 1
    BY <1>1, <1>4, <1>6, <2>1, <2>2, <2>3 DEF EntryAt, n
  <2>4. CASE f = n - 1 /\ Undone(fs, n - 1, i)
    <3>1. e = fs[n - 1].undo[i]
      BY <1>2, <1>6, <2>4 DEF Undone
    <3> QED BY <1>1, <2>2, <2>4, <3>1 DEF EntryAt, n
  <2>5. CASE f = n - 1 /\ ~Undone(fs, n - 1, i)
    <3>1. e = fs[n].undo[i] /\ Undone(fs, n, i)
      BY <1>2, <1>3, <1>6, <2>5 DEF Undone
    <3>2. \A g \in L + 1 .. n - 1 : ~Undone(fs, g, i)
      <4>1. \A g \in L + 1 .. n - 1 : g \in L + 1 .. f - 1 \/ g = n - 1
        BY <1>1, <2>5
      <4> QED BY <2>2, <2>5, <4>1
    <3> QED BY <1>1, <3>1, <3>2 DEF EntryAt, n
  <2> QED BY <2>3, <2>4, <2>5
<1> QED BY <1>5, <1>6 DEF EntryAt

\* RELEASE SAVEPOINT moves the innermost level into its parent and disturbs no other.
LEMMA CommittedSub ==
  ASSUME NEW p, NEW stash, NEW fs, Holding(p, stash, fs), Len(fs) > 1,
         \A f, g \in 1 .. Len(fs) : f < g => fs[f].sub # fs[g].sub,
         NEW gs \in Seq(Frame), Len(gs) = Len(fs) - 1,
         \A k \in 1 .. Len(fs) - 2 : gs[k] = fs[k],
         gs[Len(fs) - 1] = Released(fs[Len(fs) - 1], fs[Len(fs)]),
         NEW kept, kept = StashCommit(stash, fs[Len(fs)].sub, fs[Len(fs) - 1].sub), StashOK(kept),
         NEW cat, NEW img, NEW busy, busy = {}, Views(p, stash, fs, cat, img, busy)
  PROVE  Views(MarkPending(p, "commit"), MarkStash(kept, "commit"), gs, cat, img, busy)
<1> DEFINE n == Len(fs)
           x == MarkPending(p, "commit")
<1>1. /\ fs \in Seq(Frame) /\ n \in Nat /\ n > 1 /\ n \in 1 .. n /\ StashOK(stash)
      /\ (p # None => WriteOK(p)) /\ Len(gs) = n - 1 /\ n - 1 \in 1 .. Len(gs)
      /\ "commit" \in MarkEvents
  BY LenProperties DEF Holding, MarkEvents
<1>2. /\ gs[n - 1].sub = fs[n - 1].sub
      /\ gs[n - 1].rows = fs[n - 1].rows \cup fs[n].rows
      /\ gs[n - 1].locks = fs[n - 1].locks \cup fs[n].locks
      /\ \A i \in Indexes : Undone(gs, n - 1, i) <=> Undone(fs, n - 1, i) \/ Undone(fs, n, i)
  BY DEF Released, Undone
<1>3. /\ \A k \in 1 .. n - 1 : k \in 1 .. n - 2 \/ k = n - 1
      /\ \A k \in 1 .. n : k \in 1 .. n - 2 \/ k = n - 1 \/ k = n
      /\ n - 1 \in 1 .. n - 1
  BY <1>1
<1>4. \A k \in 1 .. Len(gs) : gs[k].sub = fs[k].sub
  BY <1>1, <1>2, <1>3
<1>5. ASSUME NEW L \in 1 .. n, L < n - 1, NEW y,
             WriteAt(x, MarkStash(kept, "commit"), gs, L, y)
      PROVE  View(gs, L, y, cat, img, busy)
  <2>1. PICK w : WriteAt(p, kept, gs, L, w) /\ y = MarkPending(w, "commit")
    <3>1. WriteAt(MarkPending(p, "commit"), MarkStash(kept, "commit"), gs, L, y)
      BY <1>5
    <3>2. Holding(p, kept, gs) /\ "commit" \in MarkEvents
      BY <1>1 DEF Holding
    <3> HIDE DEF x, n
    <3> QED BY <3>1, <3>2, MarkedWriteAt
  <2>2. WriteAt(p, stash, fs, L, w)
    BY <1>1, <1>4, <1>5, <2>1, CommittedWriteAt, ZenonT(60)
  <2>3. View(fs, L, w, cat, img, busy) /\ (w # None => WriteOK(w))
    BY <2>2, ViewsAt, WriteAtType
  <2>4. (w = None) <=> (y = None)
    BY <1>1, <2>1, <2>3, MarkedOK
  <2>5. ASSUME w # None
        PROVE  /\ SameWrite(w, y) /\ Len(y.marks) < Len(gs)
               /\ \A f \in 0 .. L : Limit(y, Len(gs), f) = Limit(w, Len(fs), f)
    <3>1. y = MarkCommit(w)
      BY <1>1, <2>1, <2>3, <2>5, MarkedOK DEF ApplyMarkEvent
    <3>2. Len(w.marks) < n
      BY <2>3, <2>5 DEF View, FitsShape
    <3>3. \A f \in 0 .. L : f \in 0 .. n - 2
      BY <1>1, <1>5
    <3> QED BY <1>1, <2>3, <2>5, <3>1, <3>2, <3>3, LimitCommit
  <2>6. \A g \in 1 .. L : gs[g] = fs[g]
    <3>1. \A g \in 1 .. L : g \in 1 .. n - 2
      BY <1>1, <1>5
    <3> QED BY <3>1
  <2>7. L <= Len(gs)
    BY <1>1, <1>5
  <2>8. EntriesKept(cat, fs, img, cat, gs, img, L)
    BY <1>1, <1>5, ReleasedEntryAt DEF EntriesKept
  <2>9. fs \in Seq(Frame) /\ L \in 1 .. Len(fs)
    BY <1>1
  <2>10. Aligned(w, y, fs, gs, L)
    BY <2>3, <2>4, <2>5 DEF Aligned
  <2>11. FramesKept(fs, gs, L, busy, busy)
    BY <2>6, SameFramesKept
  <2> HIDE DEF n, x
  <2> QED BY <2>3, <2>7, <2>8, <2>9, <2>10, <2>11, Carry
<1>6. View(gs, n - 1, x, cat, img, busy)
  <2>1. View(fs, n, p, cat, img, busy)
    BY <1>1, TopLevel, ViewsAt
  <2>2. (p = None) <=> (x = None)
    BY <1>1, MarkedOK
  <2>3. ASSUME p # None
        PROVE  /\ SameWrite(p, x) /\ Len(x.marks) < n - 1
               /\ \A f \in 0 .. n - 2 : Limit(x, n - 1, f) = Limit(p, n, f)
               /\ Limit(x, n - 1, n - 1) = Limit(p, n, n)
               /\ FitsShape(p, n, fs) /\ p.idx \in Indexes /\ WriteOK(p) /\ Len(p.marks) < n
    <3>1. x = MarkCommit(p)
      BY <1>1, <2>3, MarkedOK DEF ApplyMarkEvent
    <3>2. FitsShape(p, n, fs) /\ Len(p.marks) < n /\ p.idx \in Indexes
      BY <1>1, <2>1, <2>3 DEF View, FitsShape, WriteOK, Write
    <3> QED BY <1>1, <2>3, <3>1, <3>2, LimitCommit, LimitTop
  <2>4. ASSUME x # None PROVE FitsShape(x, n - 1, gs)
    <3>1. /\ StagedShape(x) /\ x.idx = p.idx
          /\ \A v, k : StagedRow(x, v, k) = StagedRow(p, v, k)
      BY <2>2, <2>3, <2>4, SameWriteRows DEF FitsShape, SameWrite
    <3>2. Limit(x, n - 1, n - 1) = Limit(p, n, n)
      BY <2>2, <2>3, <2>4
    <3>3. Distinct(x, Limit(x, n - 1, n - 1))
      BY <2>2, <2>3, <2>4, <3>1, <3>2 DEF FitsShape, Distinct
    <3>4. Limit(x, n - 1, n - 1) # ZeroCount => \E g \in 1 .. n - 1 : x.idx \in gs[g].locks
      <4> SUFFICES ASSUME Limit(x, n - 1, n - 1) # ZeroCount
                   PROVE  \E g \in 1 .. n - 1 : x.idx \in gs[g].locks
        OBVIOUS
      <4>1. PICK g \in 1 .. n : p.idx \in fs[g].locks
        BY <2>2, <2>3, <2>4, <3>2 DEF FitsShape
      <4>2. CASE g \in 1 .. n - 2
        <5>1. g \in 1 .. n - 1 /\ gs[g] = fs[g]
          BY <1>1, <4>2
        <5> QED BY <3>1, <4>1, <5>1
      <4>3. CASE g = n - 1 \/ g = n
        BY <1>2, <1>3, <3>1, <4>1, <4>3
      <4> QED BY <1>3, <4>2, <4>3
    <3>5. ASSUME NEW f \in 1 .. n - 1, Undone(gs, f, x.idx)
          PROVE  Limit(x, n - 1, f - 1) = ZeroCount
      <4>0. f - 1 \in 0 .. n - 2
        BY <1>1
      <4>1. ASSUME Undone(fs, f, p.idx) PROVE Limit(p, n, f - 1) = ZeroCount
        <5>1. f \in 1 .. n
          BY <1>1
        <5> QED BY <2>2, <2>3, <2>4, <4>1, <5>1 DEF FitsShape
      <4>2. ASSUME f = n - 1, Undone(fs, n, p.idx) PROVE Limit(p, n, f - 1) = ZeroCount
        <5>1. Limit(p, n, n - 1) = ZeroCount
          BY <1>1, <2>2, <2>3, <2>4, <4>2 DEF FitsShape
        <5>2. f - 1 \in 0 .. n /\ n - 1 \in 0 .. n /\ f - 1 <= n - 1
          BY <1>1, <4>2
        <5> QED BY <1>1, <2>2, <2>3, <2>4, <5>1, <5>2, LimitZero
      <4>3. Undone(fs, f, p.idx) \/ (f = n - 1 /\ Undone(fs, n, p.idx))
        <5>1. CASE f \in 1 .. n - 2
          <6>1. gs[f] = fs[f]
            BY <5>1
          <6> QED BY <2>2, <2>3, <2>4, <3>1, <3>5, <6>1 DEF Undone
        <5>2. CASE f = n - 1
          BY <1>2, <2>2, <2>3, <2>4, <3>1, <3>5, <5>2
        <5> QED BY <1>3, <5>1, <5>2
      <4>4. Limit(p, n, f - 1) = ZeroCount
        BY <4>1, <4>2, <4>3
      <4> QED BY <2>2, <2>3, <2>4, <4>0, <4>4
    <3> QED BY <1>1, <2>2, <2>3, <2>4, <3>1, <3>3, <3>4, <3>5 DEF FitsShape
  <2>5. ASSUME NEW i \in Indexes, NEW e, EntryAt(cat[i], gs, n - 1, i, e)
        PROVE  /\ x # None /\ x.idx = i => FitsEntry(x, n - 1, gs, e, img[i][e.file])
               /\ e.exists => Kept(gs, n - 1, x, i, e, img[i][e.file], busy)
    <3>1. e = cat[i]
      BY <1>1, <2>5, TopLevel
    <3>2. EntryAt(cat[i], fs, n, i, e)
      BY <1>1, <3>1, TopLevel
    <3>3. /\ p # None /\ p.idx = i => FitsEntry(p, n, fs, e, img[i][e.file])
          /\ e.exists => Kept(fs, n, p, i, e, img[i][e.file], busy)
      BY <1>1, <2>1, <3>2, ViewAt
    <3>4. ASSUME p # None
          PROVE  /\ x.idx = p.idx /\ x.baseGen = p.baseGen
                 /\ \A c, t : KeptRow(x, c, t) <=> KeptRow(p, c, t)
                 /\ \A v : BaseLen(x, v) = BaseLen(p, v) /\ Part(x, v) = Part(p, v)
      BY <2>3, <3>4, SameWriteRows, KeptSame DEF SameWrite
    <3>5. ASSUME x # None, x.idx = i PROVE FitsEntry(x, n - 1, gs, e, img[i][e.file])
      <4>1. FitsEntry(p, n, fs, e, img[i][e.file]) /\ p.idx = i /\ p # None
        BY <2>2, <3>3, <3>4, <3>5
      <4>2. InsertedBy(x, n - 1, gs, e.heap)
        <5> SUFFICES ASSUME NEW f \in 1 .. n - 1, NEW t \in Tids,
                            KeptRow(x, Limit(x, Len(gs), f), t)
                     PROVE  \E g \in 1 .. f : <<x.idx, e.heap, t>> \in gs[g].rows
          BY DEF InsertedBy
        <5>1. CASE f \in 1 .. n - 2
          <6>1. f \in 0 .. n - 2 /\ f \in 1 .. n /\ \A g \in 1 .. f : g \in 1 .. n - 2
            BY <1>1, <5>1
          <6>2. KeptRow(p, Limit(p, n, f), t)
            BY <1>1, <2>3, <3>4, <4>1, <6>1
          <6>3. PICK g \in 1 .. f : <<p.idx, e.heap, t>> \in fs[g].rows
            BY <4>1, <6>1, <6>2 DEF FitsEntry, InsertedBy
          <6>4. gs[g] = fs[g]
            BY <6>1
          <6> QED BY <3>4, <4>1, <6>3, <6>4
        <5>2. CASE f = n - 1
          <6>1. KeptRow(p, Limit(p, n, n), t)
            BY <1>1, <2>3, <3>4, <4>1, <5>2
          <6>2. PICK g \in 1 .. n : <<p.idx, e.heap, t>> \in fs[g].rows
            BY <1>1, <4>1, <6>1 DEF FitsEntry, InsertedBy
          <6>3. CASE g \in 1 .. n - 2
            <7>1. gs[g] = fs[g] /\ g \in 1 .. f
              BY <1>1, <5>2, <6>3
            <7> QED BY <3>4, <4>1, <6>2, <7>1
          <6>4. CASE g = n - 1 \/ g = n
            <7>1. <<p.idx, e.heap, t>> \in gs[n - 1].rows
              BY <1>2, <6>2, <6>4
            <7>2. n - 1 \in 1 .. f
              BY <1>1, <5>2
            <7> QED BY <3>4, <4>1, <7>1, <7>2
          <6> QED BY <1>3, <6>3, <6>4
        <5> QED BY <1>3, <5>1, <5>2
      <4>3. Limit(x, Len(gs), n - 1) = Limit(p, n, n)
        BY <1>1, <2>3, <4>1
      <4>4. BaseFits(p, img[i][e.file]) => BaseFits(x, img[i][e.file])
        BY <3>4, <4>1 DEF BaseFits, SameBase
      <4> QED BY <3>4, <4>1, <4>2, <4>3, <4>4 DEF FitsEntry
    <3>6. ASSUME e.exists PROVE Kept(gs, n - 1, x, i, e, img[i][e.file], busy)
      <4> SUFFICES ASSUME NEW f \in 1 .. n - 1, NEW t \in Tids, <<i, e.heap, t>> \in gs[f].rows
                   PROVE  \/ t \in LiveTids(img[i][e.file])
                          \/ x # None /\ x.idx = i /\ KeptRow(x, Limit(x, Len(gs), f), t)
        BY DEF Kept
      <4>1. ASSUME NEW h \in 1 .. n, <<i, e.heap, t>> \in fs[h].rows
            PROVE  \/ t \in LiveTids(img[i][e.file])
                   \/ p # None /\ p.idx = i /\ KeptRow(p, Limit(p, n, h), t)
        BY <3>3, <3>6, <4>1 DEF Kept
      <4>2. CASE f \in 1 .. n - 2
        <5>1. gs[f] = fs[f] /\ f \in 1 .. n /\ f \in 0 .. n - 2
          BY <1>1, <4>2
        <5>2. \/ t \in LiveTids(img[i][e.file])
              \/ p # None /\ p.idx = i /\ KeptRow(p, Limit(p, n, f), t)
          BY <4>1, <5>1
        <5> QED BY <1>1, <2>2, <2>3, <3>4, <5>1, <5>2
      <4>3. CASE f = n - 1
        <5>1. PICK h \in 1 .. n : <<i, e.heap, t>> \in fs[h].rows
          <6>1. <<i, e.heap, t>> \in fs[n - 1].rows \/ <<i, e.heap, t>> \in fs[n].rows
            BY <1>2, <4>3
          <6>2. n - 1 \in 1 .. n
            BY <1>1
          <6> QED BY <1>1, <6>1, <6>2
        <5>2. ASSUME p # None, p.idx = i, KeptRow(p, Limit(p, n, h), t)
              PROVE  x # None /\ x.idx = i /\ KeptRow(x, Limit(x, Len(gs), f), t)
          <6>1. h \in 0 .. n /\ n \in 0 .. n /\ h <= n
            BY <1>1
          <6>2. /\ CountLeq(Limit(p, n, h), Limit(p, n, n))
                /\ Limit(p, n, h) \in Count /\ Limit(p, n, n) \in Count
            BY <1>1, <2>3, <5>2, <6>1, LimitMono, LimitType
          <6>3. KeptRow(p, Limit(p, n, n), t)
            BY <5>2, <6>2, KeptMono
          <6> QED BY <1>1, <2>2, <2>3, <3>4, <4>3, <5>2, <6>3
        <5> QED BY <4>1, <5>1, <5>2
      <4> QED BY <1>3, <4>2, <4>3
    <3> QED BY <3>5, <3>6
  <2> HIDE DEF x
  <2> QED BY <2>4, <2>5, ViewFrom, Zenon
<1>7. ASSUME NEW L \in 1 .. Len(gs), NEW y, WriteAt(x, MarkStash(kept, "commit"), gs, L, y)
      PROVE  View(gs, L, y, cat, img, busy)
  <2>1. CASE L = n - 1
    <3>1. y = x
      BY <1>1, <1>7, <2>1, TopLevel
    <3> QED BY <1>6, <2>1, <3>1
  <2>2. CASE L # n - 1
    <3>1. L \in 1 .. n /\ L < n - 1
      BY <1>1, <2>2
    <3> QED BY <1>5, <1>7, <3>1
  <2> QED BY <2>1, <2>2
<1> QED BY <1>7, ViewsFrom

\* A subtransaction aborts: the view of the level below is all that is left of it.
LEMMA AbortedWriteAt ==
  ASSUME NEW p, NEW stash, NEW fs, Holding(p, stash, fs), Len(fs) > 1,
         \A f, g \in 1 .. Len(fs) : f < g => fs[f].sub # fs[g].sub,
         NEW gs \in Seq(Frame), Len(gs) = Len(fs) - 1,
         \A k \in 1 .. Len(gs) : gs[k] = fs[k],
         NEW q, StashRestored(stash, fs[Len(fs)].sub) = None => q = p,
         StashRestored(stash, fs[Len(fs)].sub) # None =>
           q = StashRestored(stash, fs[Len(fs)].sub),
         NEW L \in 1 .. Len(gs), NEW w,
         WriteAt(q, StashDrain(stash, fs[Len(fs)].sub), gs, L, w)
  PROVE  WriteAt(p, stash, fs, L, w)
<1> DEFINE n == Len(fs)
           s == fs[n].sub
           after == StashDrain(stash, s)
<1>0. n \in Nat /\ n > 1 /\ Len(gs) = n - 1 /\ L \in 1 .. n - 1
  BY LenProperties DEF Holding
<1>1. /\ n \in L + 1 .. n
      /\ \A f \in L + 1 .. n - 1 : f \in L + 1 .. n /\ f \in 1 .. n /\ f \in 1 .. Len(gs) /\ f < n
      /\ \A f \in L + 1 .. n : f \in L + 1 .. n - 1 \/ f = n
  BY <1>0
<1>2. n \in 1 .. n /\ \A f \in L + 1 .. n - 1 : gs[f] = fs[f] /\ fs[f].sub # s
  BY <1>0, <1>1
<1>3. \A d : d \in after <=> d \in stash /\ d.sub # s
  BY DEF StashDrain
<1> HIDE DEF n, s, after
<1>4. \A f \in L + 1 .. n - 1 : Stashed(after, gs, f) <=> Stashed(stash, fs, f)
  BY <1>2, <1>3 DEF Stashed
<1>5. CASE w = q /\ \A f \in L + 1 .. Len(gs) : ~Stashed(after, gs, f)
  <2>1. \A f \in L + 1 .. n - 1 : ~Stashed(stash, fs, f)
    BY <1>0, <1>4, <1>5
  <2>2. CASE StashOf(stash, s) = {}
    <3>1. StashRestored(stash, s) = None /\ ~Stashed(stash, fs, n)
      BY <2>2 DEF StashRestored, StashOf, Stashed, s
    <3>2. q = p
      BY <3>1 DEF n, s
    <3> QED BY <1>1, <1>5, <2>1, <3>1, <3>2 DEF WriteAt, n
  <2>3. CASE StashOf(stash, s) # {}
    <3>1. PICK d \in StashOf(stash, s) : StashRestored(stash, s) = d.write
      BY <2>3 DEF StashRestored
    <3>2. d \in stash /\ d.sub = fs[n].sub
      BY <3>1 DEF StashOf, s
    <3>3. d.write # None
      BY <3>2, AbsentAssumption DEF Holding, StashOK, WriteOK
    <3>4. q = d.write
      BY <3>1, <3>3 DEF n, s
    <3> QED BY <1>1, <1>5, <2>1, <3>2, <3>4 DEF WriteAt, n
  <2> QED BY <2>2, <2>3
<1>6. ASSUME NEW f \in L + 1 .. Len(gs), NEW d \in after, d.sub = gs[f].sub, d.write = w,
             \A g \in L + 1 .. f - 1 : ~Stashed(after, gs, g)
      PROVE  WriteAt(p, stash, fs, L, w)
  <2>1. f \in L + 1 .. n - 1 /\ \A g \in L + 1 .. f - 1 : g \in L + 1 .. n - 1
    BY <1>0
  <2>2. f \in L + 1 .. n /\ d \in stash /\ d.sub = fs[f].sub
    BY <1>1, <1>2, <1>3, <1>6, <2>1
  <2>3. \A g \in L + 1 .. f - 1 : ~Stashed(stash, fs, g)
    BY <1>4, <1>6, <2>1
  <2> QED BY <1>6, <2>2, <2>3 DEF WriteAt, n
<1> QED BY <1>5, <1>6 DEF WriteAt, after, s, n

\* Once the innermost frame is undone, the entries of the other levels are what they were.
LEMMA AbortedEntryAt ==
  ASSUME NEW fs \in Seq(Frame), Len(fs) > 1, NEW gs \in Seq(Frame), Len(gs) = Len(fs) - 1,
         \A k \in 1 .. Len(gs) : gs[k] = fs[k], NEW L \in 1 .. Len(gs),
         NEW i \in Indexes, NEW now, NEW now2,
         ~Undone(fs, Len(fs), i) => now2 = now,
         Undone(fs, Len(fs), i) => now2 = fs[Len(fs)].undo[i],
         NEW e, EntryAt(now2, gs, L, i, e)
  PROVE  EntryAt(now, fs, L, i, e)
<1> DEFINE n == Len(fs)
<1>0. n \in Nat /\ n > 1 /\ Len(gs) = n - 1 /\ L \in 1 .. n - 1
  BY LenProperties
<1>1. /\ n \in L + 1 .. n
      /\ \A f \in L + 1 .. n - 1 : f \in L + 1 .. n /\ f \in 1 .. Len(gs)
      /\ \A f \in L + 1 .. n : f \in L + 1 .. n - 1 \/ f = n
  BY <1>0
<1>2. \A f \in L + 1 .. n - 1 : gs[f] = fs[f] /\ (Undone(gs, f, i) <=> Undone(fs, f, i))
  BY <1>1 DEF Undone
<1> HIDE DEF n
<1>3. CASE e = now2 /\ \A f \in L + 1 .. Len(gs) : ~Undone(gs, f, i)
  <2>1. \A f \in L + 1 .. n - 1 : ~Undone(fs, f, i)
    BY <1>0, <1>2, <1>3
  <2>2. CASE ~Undone(fs, n, i)
    BY <1>1, <1>3, <2>1, <2>2 DEF EntryAt, n
  <2>3. CASE Undone(fs, n, i)
    BY <1>1, <1>3, <2>1, <2>3 DEF EntryAt, n
  <2> QED BY <2>2, <2>3
<1>4. ASSUME NEW f \in L + 1 .. Len(gs), Undone(gs, f, i), e = gs[f].undo[i],
             \A g \in L + 1 .. f - 1 : ~Undone(gs, g, i)
      PROVE  EntryAt(now, fs, L, i, e)
  <2>1. f \in L + 1 .. n - 1 /\ \A g \in L + 1 .. f - 1 : g \in L + 1 .. n - 1
    BY <1>0
  <2> QED BY <1>1, <1>2, <1>4, <2>1 DEF EntryAt, n
<1> QED BY <1>3, <1>4 DEF EntryAt

\* The frames without the innermost one.
Unnested(fs, gs) ==
  /\ DOMAIN gs = 1 .. Len(fs) - 1
  /\ \A k \in 1 .. Len(fs) - 1 : gs[k] = fs[k]

\* What an abort of the innermost frame hands to the slot and to the catalog.
GivenBack(p, stash, fs, cat, q, kept, cat2) ==
  LET s == fs[Len(fs)].sub IN
  /\ StashRestored(stash, s) = None => q = p
  /\ StashRestored(stash, s) # None => q = StashRestored(stash, s)
  /\ kept = StashDrain(stash, s)
  /\ \A i \in Indexes : /\ ~Undone(fs, Len(fs), i) => cat2[i] = cat[i]
                        /\ Undone(fs, Len(fs), i) => cat2[i] = fs[Len(fs)].undo[i]

SubsApart(fs) == \A f, g \in 1 .. Len(fs) : f < g => fs[f].sub # fs[g].sub

\* An abort of the innermost frame leaves the levels below it in order.
LEMMA AbortedSub ==
  ASSUME NEW p, NEW stash, NEW fs \in Seq(Frame), Holding(p, stash, fs), Len(fs) > 1, SubsApart(fs),
         NEW gs \in Seq(Frame), Unnested(fs, gs), NEW cat, NEW q, NEW kept, NEW cat2,
         GivenBack(p, stash, fs, cat, q, kept, cat2), NEW img, NEW busy, busy = {},
         Views(p, stash, fs, cat, img, busy)
  PROVE  Views(MarkPending(q, "abort"), MarkStash(kept, "abort"), gs, cat2, img, busy)
<1> DEFINE n == Len(fs)
           x == MarkPending(q, "abort")
<1>4. Len(gs) = Len(fs) - 1 /\ \A k \in 1 .. Len(gs) : gs[k] = fs[k]
  <2>1. PICK m \in Nat : m = Len(fs) /\ m > 1
    BY LenProperties
  <2>2. PICK k \in Nat : k = Len(gs) /\ DOMAIN gs = 1 .. k
    BY LenProperties
  <2>3. 1 .. k = 1 .. m - 1
    BY <2>1, <2>2 DEF Unnested
  <2>4. k = m - 1
    <3>1. m - 1 \in 1 .. m - 1 /\ (k > 0 => k \in 1 .. k)
      BY <2>1, <2>2
    <3>2. m - 1 <= k /\ (k > 0 => k <= m - 1)
      BY <2>1, <2>2, <2>3, <3>1
    <3> QED BY <2>1, <2>2, <3>2
  <2> QED BY <2>1, <2>2, <2>4 DEF Unnested
<1>5. /\ StashRestored(stash, fs[Len(fs)].sub) = None => q = p
      /\ StashRestored(stash, fs[Len(fs)].sub) # None =>
           q = StashRestored(stash, fs[Len(fs)].sub)
      /\ kept = StashDrain(stash, fs[Len(fs)].sub)
      /\ \A i \in Indexes : /\ ~Undone(fs, Len(fs), i) => cat2[i] = cat[i]
                            /\ Undone(fs, Len(fs), i) => cat2[i] = fs[Len(fs)].undo[i]
  BY DEF GivenBack
<1>6. \A f, g \in 1 .. Len(fs) : f < g => fs[f].sub # fs[g].sub
  BY DEF SubsApart
<1>1. /\ fs \in Seq(Frame) /\ n \in Nat /\ n > 1 /\ StashOK(stash)
      /\ (p # None => WriteOK(p)) /\ Len(gs) = n - 1
      /\ "abort" \in MarkEvents
  BY <1>4, LenProperties DEF Holding, MarkEvents
<1>2. Holding(q, kept, gs)
  BY <1>1, <1>5, StashDrainOK, StashRestoredOK DEF Holding
<1>3. ASSUME NEW L \in 1 .. Len(gs), NEW y, WriteAt(x, MarkStash(kept, "abort"), gs, L, y)
      PROVE  View(gs, L, y, cat2, img, busy)
  <2>0. L \in 1 .. n /\ L <= Len(gs) /\ \A f \in 0 .. L : f \in 0 .. n - 1
    BY <1>1
  <2>1. PICK w : WriteAt(q, kept, gs, L, w) /\ y = MarkPending(w, "abort")
    <3>1. WriteAt(MarkPending(q, "abort"), MarkStash(kept, "abort"), gs, L, y)
      BY <1>3
    <3> HIDE DEF x, n
    <3> QED BY <1>1, <1>2, <3>1, MarkedWriteAt
  <2>2. WriteAt(p, stash, fs, L, w)
    BY <1>1, <1>4, <1>5, <1>6, <2>1, AbortedWriteAt
  <2>3. View(fs, L, w, cat, img, busy) /\ (w # None => WriteOK(w))
    BY <2>0, <2>2, ViewsAt, WriteAtType
  <2>4. (w = None) <=> (y = None)
    BY <1>1, <2>1, <2>3, MarkedOK
  <2>5. ASSUME w # None
        PROVE  /\ SameWrite(w, y) /\ Len(y.marks) < Len(gs)
               /\ \A f \in 0 .. L : Limit(y, Len(gs), f) = Limit(w, Len(fs), f)
    <3>1. y = MarkAbort(w)
      BY <1>1, <2>1, <2>3, <2>5, MarkedOK DEF ApplyMarkEvent
    <3>2. Len(w.marks) < n /\ Staged(w) # ZeroCount
      BY <2>3, <2>5 DEF View, FitsShape, StagedShape
    <3> QED BY <1>1, <2>0, <2>3, <2>5, <3>1, <3>2, LimitAbort
  <2>6. \A g \in 1 .. L : gs[g] = fs[g]
    BY <1>1, <1>4
  <2>7. EntriesKept(cat, fs, img, cat2, gs, img, L)
    <3> SUFFICES ASSUME NEW i \in Indexes, NEW e, EntryAt(cat2[i], gs, L, i, e)
                 PROVE  EntryAt(cat[i], fs, L, i, e)
      BY DEF EntriesKept
    <3>1. /\ ~Undone(fs, Len(fs), i) => cat2[i] = cat[i]
          /\ Undone(fs, Len(fs), i) => cat2[i] = fs[Len(fs)].undo[i]
      BY <1>5
    <3>2. PICK now : now = cat[i]
      OBVIOUS
    <3>3. PICK now2 : now2 = cat2[i]
      OBVIOUS
    <3>4. EntryAt(now, fs, L, i, e)
      BY <1>4, <3>1, <3>2, <3>3, AbortedEntryAt
    <3> QED BY <3>2, <3>4
  <2>8. Aligned(w, y, fs, gs, L)
    BY <2>3, <2>4, <2>5 DEF Aligned
  <2>9. FramesKept(fs, gs, L, busy, busy)
    BY <2>6, SameFramesKept
  <2>10. fs \in Seq(Frame) /\ L \in 1 .. Len(fs) /\ L <= Len(gs)
    BY <1>1, <2>0
  <2> HIDE DEF n, x
  <2> QED BY <2>3, <2>7, <2>8, <2>9, <2>10, Carry
<1> QED BY <1>3, ViewsFrom

\* What forget_pending leaves, as constants.
Forgotten(p, stash, s, i, p2, stash2) ==
  /\ p # None /\ p.idx = i => p2 = None /\ stash2 = StashPush(stash, s, p)
  /\ p = None \/ p.idx # i => p2 = p /\ stash2 = stash

\* A write set aside at the innermost level is the write of the levels below.
LEMMA ForgottenWriteAt ==
  ASSUME NEW p, NEW stash, NEW fs \in Seq(Frame),
         \A f, g \in 1 .. Len(fs) : f < g => fs[f].sub # fs[g].sub,
         NEW gs \in Seq(Frame), Len(gs) = Len(fs),
         \A k \in 1 .. Len(fs) : gs[k].sub = fs[k].sub,
         NEW i, NEW p2, NEW stash2, Forgotten(p, stash, fs[Len(fs)].sub, i, p2, stash2),
         NEW L \in 1 .. Len(fs), L < Len(fs), NEW w, WriteAt(p2, stash2, gs, L, w)
  PROVE  WriteAt(p, stash, fs, L, w)
<1> DEFINE n == Len(fs)
           s == fs[n].sub
<1>0. n \in Nat /\ Len(gs) = n /\ L \in Nat /\ L >= 1 /\ L < n
  BY LenProperties
<1>1. /\ n \in L + 1 .. n /\ n \in 1 .. n
      /\ \A f \in L + 1 .. n : f \in 1 .. n
      /\ \A f \in L + 1 .. n : \A g \in L + 1 .. f - 1 : g \in L + 1 .. n /\ g < n
  BY <1>0
<1>2. \A f \in L + 1 .. n : gs[f].sub = fs[f].sub /\ (f < n => fs[f].sub # s)
  BY <1>1
<1>3. Forgotten(p, stash, s, i, p2, stash2)
  OBVIOUS
<1> HIDE DEF n, s
<1>4. CASE p = None \/ p.idx # i
  <2>1. p2 = p /\ stash2 = stash
    BY <1>3, <1>4 DEF Forgotten
  <2>2. \A f \in L + 1 .. n : Stashed(stash, gs, f) <=> Stashed(stash, fs, f)
    BY <1>2 DEF Stashed
  <2>3. WriteAt(p, stash, gs, L, w)
    BY <2>1
  <2> QED BY <1>0, <1>1, <1>2, <2>2, <2>3 DEF WriteAt, n
<1>5. CASE p # None /\ p.idx = i
  <2>1. p2 = None /\ stash2 = StashPush(stash, s, p)
    BY <1>3, <1>5 DEF Forgotten
  <2>2. \A d \in stash : d \in stash2
    BY <2>1 DEF StashPush
  <2>3. \E d \in stash2 : d.sub = s
    <3>1. CASE StashOf(stash, s) # {}
      BY <2>1, <3>1 DEF StashPush, StashOf
    <3>2. CASE StashOf(stash, s) = {}
      <4>1. [sub |-> s, write |-> p] \in stash2
        BY <2>1, <3>2 DEF StashPush
      <4> QED BY <4>1
    <3> QED BY <3>1, <3>2
  <2>4. Stashed(stash2, gs, n)
    BY <1>1, <1>2, <2>3 DEF Stashed, s
  <2>5. PICK f \in L + 1 .. n : /\ \E d \in stash2 : d.sub = gs[f].sub /\ d.write = w
                                /\ \A g \in L + 1 .. f - 1 : ~Stashed(stash2, gs, g)
    BY <1>0, <1>1, <2>4 DEF WriteAt
  <2>6. PICK d \in stash2 : d.sub = fs[f].sub /\ d.write = w
    BY <1>2, <2>5
  <2>7. \A g \in L + 1 .. f - 1 : ~Stashed(stash, fs, g)
    BY <1>1, <1>2, <2>2, <2>5 DEF Stashed
  <2>8. CASE d \in stash
    BY <2>6, <2>7, <2>8 DEF WriteAt, n
  <2>9. CASE d \notin stash
    <3>1. StashOf(stash, s) = {} /\ d = [sub |-> s, write |-> p]
      BY <2>1, <2>9 DEF StashPush
    <3>2. f = n /\ w = p
      <4>1. d.sub = s /\ d.write = p
        BY <3>1
      <4>2. f < n \/ f = n
        BY <1>0
      <4> QED BY <1>2, <2>6, <4>1, <4>2
    <3>3. ~Stashed(stash, fs, n)
      BY <3>1 DEF Stashed, StashOf, s
    <3>4. \A g \in L + 1 .. n : g \in L + 1 .. n - 1 \/ g = n
      BY <1>0
    <3> QED BY <2>7, <3>2, <3>3, <3>4 DEF WriteAt, n
  <2> QED BY <2>8, <2>9
<1> QED BY <1>4, <1>5

\* cat2 replaces the entry of i, and the innermost frame saves the one of before.
Replaced(fs, gs, cat, cat2, i) ==
  /\ Len(gs) = Len(fs)
  /\ \A k \in 1 .. Len(fs) : /\ gs[k].sub = fs[k].sub /\ gs[k].rows = fs[k].rows
                             /\ gs[k].locks = fs[k].locks
  /\ \A k \in 1 .. Len(fs) - 1 : gs[k] = fs[k]
  /\ \A j \in Indexes : j # i => gs[Len(fs)].undo[j] = fs[Len(fs)].undo[j]
  /\ \A j \in Indexes : j # i => cat2[j] = cat[j]
  /\ gs[Len(fs)].undo[i] = IF Undone(fs, Len(fs), i) THEN fs[Len(fs)].undo[i] ELSE cat[i]

\* Below the innermost level, the entries are those of before.
LEMMA ReplacedEntryAt ==
  ASSUME NEW fs \in Seq(Frame), NEW gs \in Seq(Frame), NEW cat \in [Indexes -> Entry],
         NEW i \in Indexes, NEW cat2, Replaced(fs, gs, cat, cat2, i),
         NEW L \in 1 .. Len(fs), L < Len(fs), NEW j \in Indexes, NEW e, EntryAt(cat2[j], gs, L, j, e)
  PROVE  /\ EntryAt(cat[j], fs, L, j, e)
         /\ j = i => e = cat[i] \/ \E f \in DOMAIN fs : Undone(fs, f, i) /\ e = fs[f].undo[i]
<1> DEFINE n == Len(fs)
<1>0. n \in Nat /\ Len(gs) = n /\ L \in Nat /\ L >= 1 /\ L < n /\ DOMAIN fs = 1 .. n
  BY LenProperties DEF Replaced
<1>1. /\ n \in L + 1 .. n
      /\ \A f \in L + 1 .. n : f \in 1 .. n - 1 \/ f = n
      /\ \A f \in L + 1 .. n : f \in DOMAIN fs
      /\ \A f \in L + 1 .. n : \A g \in L + 1 .. f - 1 : g \in L + 1 .. n /\ g \in 1 .. n - 1
  BY <1>0
<1>2. cat[i] # None /\ \A k \in Indexes : k # i => cat2[k] = cat[k]
  BY AbsentAssumption DEF Replaced
<1>3. Undone(gs, n, i)
  BY <1>2 DEF Replaced, Undone
<1>4. \A f \in 1 .. n - 1 : gs[f] = fs[f] /\ (Undone(gs, f, j) <=> Undone(fs, f, j))
  BY DEF Replaced, Undone
<1>5. /\ j # i => gs[n].undo[j] = fs[n].undo[j]
      /\ gs[n].undo[i] = IF Undone(fs, n, i) THEN fs[n].undo[i] ELSE cat[i]
  BY DEF Replaced
<1> HIDE DEF n
<1>6. EntryAt(cat[j], fs, L, j, e)
  <2>1. CASE e = cat2[j] /\ \A f \in L + 1 .. Len(gs) : ~Undone(gs, f, j)
    <3>1. j # i
      BY <1>0, <1>1, <1>3, <2>1
    <3>2. \A f \in L + 1 .. n : ~Undone(fs, f, j)
      BY <1>0, <1>1, <1>4, <1>5, <2>1, <3>1 DEF Undone
    <3> QED BY <1>2, <2>1, <3>1, <3>2 DEF EntryAt, n
  <2>2. ASSUME NEW f \in L + 1 .. Len(gs), Undone(gs, f, j), e = gs[f].undo[j],
               \A g \in L + 1 .. f - 1 : ~Undone(gs, g, j)
        PROVE  EntryAt(cat[j], fs, L, j, e)
    <3>0. f \in L + 1 .. n
      BY <1>0
    <3>1. \A g \in L + 1 .. f - 1 : ~Undone(fs, g, j)
      BY <1>1, <1>4, <2>2, <3>0
    <3>2. CASE f \in 1 .. n - 1
      BY <1>4, <2>2, <3>0, <3>1, <3>2 DEF EntryAt, n
    <3>3. CASE f = n
      <4>1. CASE Undone(fs, n, j)
        BY <1>5, <2>2, <3>0, <3>1, <3>3, <4>1 DEF EntryAt, n
      <4>2. CASE ~Undone(fs, n, j)
        <5>1. j = i /\ e = cat[j]
          BY <1>5, <2>2, <3>3, <4>2 DEF Undone
        <5>2. \A g \in L + 1 .. n : g \in L + 1 .. n - 1 \/ g = n
          BY <1>0
        <5> QED BY <3>1, <3>3, <4>2, <5>1, <5>2 DEF EntryAt, n
      <4> QED BY <4>1, <4>2
    <3> QED BY <1>1, <3>0, <3>2, <3>3
  <2> QED BY <2>1, <2>2 DEF EntryAt
<1>7. ASSUME j = i
      PROVE  e = cat[i] \/ \E f \in DOMAIN fs : Undone(fs, f, i) /\ e = fs[f].undo[i]
  <2>1. e = cat[i] \/ \E f \in L + 1 .. Len(fs) :
                      f \in DOMAIN fs /\ Undone(fs, f, i) /\ e = fs[f].undo[i]
    BY <1>6, <1>7, PresentEntry
  <2> QED BY <2>1
<1> QED BY <1>6, <1>7

\* The image of a new file is none that a level below can find.
NewFile(fs, cat, i, file, img, img2) ==
  /\ cat[i].file # file
  /\ \A f \in DOMAIN fs : Undone(fs, f, i) => fs[f].undo[i].file # file
  /\ \A j \in Indexes : \A f \in FileNos : j # i \/ f # file => img2[j][f] = img[j][f]

\* Below the innermost level a command that replaces an index changes nothing.
LEMMA ReplacedKept ==
  ASSUME NEW fs \in Seq(Frame), NEW gs \in Seq(Frame), NEW cat \in [Indexes -> Entry],
         NEW i \in Indexes, NEW cat2, Replaced(fs, gs, cat, cat2, i),
         NEW file, NEW img, NEW img2, NewFile(fs, cat, i, file, img, img2),
         NEW L \in 1 .. Len(fs), L < Len(fs)
  PROVE  EntriesKept(cat, fs, img, cat2, gs, img2, L)
<1> SUFFICES ASSUME NEW j \in Indexes, NEW e, EntryAt(cat2[j], gs, L, j, e)
             PROVE  EntryAt(cat[j], fs, L, j, e) /\ img2[j][e.file] = img[j][e.file]
  BY DEF EntriesKept
<1>1. /\ EntryAt(cat[j], fs, L, j, e)
      /\ j = i => e = cat[i] \/ \E f \in DOMAIN fs : Undone(fs, f, i) /\ e = fs[f].undo[i]
  BY ReplacedEntryAt
<1>2. j = i => e.file # file
  BY <1>1 DEF NewFile
<1>3. e \in Entry
  BY <1>1, EntryAtType
<1>4. e.file \in FileNos
  BY <1>3 DEF Entry
<1> QED BY <1>1, <1>2, <1>4 DEF NewFile

\* Where entry e keeps its image, a rebuild has put a new one that has the open frames' rows.
Rebuilt(fs, i, e, img, img2, new) ==
  /\ img2 = [img EXCEPT ![i][e.file] = new]
  /\ \A f \in DOMAIN fs : \A t \in Tids : <<i, e.heap, t>> \in fs[f].rows => t \in LiveTids(new)

\* A rebuild sets the slot aside, and its new image has every row of the open frames.
LEMMA RebuiltSlot ==
  ASSUME NEW p, NEW stash, NEW fs, Holding(p, stash, fs), fs # <<>>, SubsApart(fs),
         NEW gs \in Seq(Frame), NEW cat \in [Indexes -> Entry], NEW i \in Indexes,
         NEW cat2, Replaced(fs, gs, cat, cat2, i), NEW e2, cat2[i] = e2,
         NEW p2, NEW stash2, Forgotten(p, stash, fs[Len(fs)].sub, i, p2, stash2),
         NEW img \in [Indexes -> [FileNos -> Image]], e2.file \in FileNos,
         NEW new, NEW img2, Rebuilt(fs, i, e2, img, img2, new),
         NewFile(fs, cat, i, e2.file, img, img2),
         NEW busy, busy = {}, Views(p, stash, fs, cat, img, busy)
  PROVE  Views(p2, stash2, gs, cat2, img2, busy)
<1>6. /\ img2 = [img EXCEPT ![i][e2.file] = new]
      /\ \A f \in DOMAIN fs : \A t \in Tids :
           <<i, e2.heap, t>> \in fs[f].rows => t \in LiveTids(new)
  BY DEF Rebuilt
<1>0. ASSUME NEW L \in 1 .. Len(fs), L < Len(fs)
      PROVE  EntriesKept(cat, fs, img, cat2, gs, img2, L)
  <2>1. fs \in Seq(Frame)
    BY DEF Holding
  <2> QED BY <1>0, <2>1, ReplacedKept
<1> DEFINE n == Len(fs)
<1>1. /\ fs \in Seq(Frame) /\ n \in Nat /\ n \in 1 .. n /\ Len(gs) = n /\ DOMAIN fs = 1 .. n
      /\ (p # None => WriteOK(p))
  BY LenProperties, EmptySeq DEF Holding, Replaced
<1>2. /\ cat2[i] = e2 /\ img2[i][e2.file] = new
      /\ \A f \in FileNos : f # e2.file => img2[i][f] = img[i][f]
      /\ \A j \in Indexes : j # i => cat2[j] = cat[j] /\ img2[j] = img[j]
  BY <1>6 DEF Replaced
<1>3. ASSUME NEW L \in 1 .. n, L < n, NEW w, WriteAt(p2, stash2, gs, L, w)
      PROVE  View(gs, L, w, cat2, img2, busy)
  <2>0. L \in 1 .. Len(fs) /\ L < Len(fs) /\ L <= Len(gs) /\ \A g \in 1 .. L : g \in 1 .. n - 1
    BY <1>1, <1>3
  <2>1. WriteAt(p, stash, fs, L, w)
    <3>1. \A k \in 1 .. Len(fs) : gs[k].sub = fs[k].sub
      BY DEF Replaced
    <3>2. \A f, g \in 1 .. Len(fs) : f < g => fs[f].sub # fs[g].sub
      BY DEF SubsApart
    <3> QED BY <1>1, <1>3, <2>0, <3>1, <3>2, ForgottenWriteAt
  <2>2. View(fs, L, w, cat, img, busy) /\ (w # None => WriteOK(w))
    BY <2>1, ViewsAt, WriteAtType
  <2>3. \A g \in 1 .. L : gs[g] = fs[g]
    BY <2>0 DEF Replaced
  <2>4. FramesKept(fs, gs, L, busy, busy)
    BY <2>3, SameFramesKept
  <2>5. Aligned(w, w, fs, gs, L)
    BY <1>1, <2>2 DEF Aligned, SameWrite, View, FitsShape
  <2>6. EntriesKept(cat, fs, img, cat2, gs, img2, L)
    BY <1>0, <2>0
  <2> HIDE DEF n
  <2> QED BY <1>1, <2>0, <2>2, <2>4, <2>5, <2>6, Carry
<1>4. View(gs, n, p2, cat2, img2, busy)
  <2>1. View(fs, n, p, cat, img, busy)
    BY <1>1, TopLevel, ViewsAt
  <2>2. /\ p2 = None \/ (p2 = p /\ p.idx # i)
        /\ p # None /\ p2 = None => p.idx = i
    BY DEF Forgotten
  <2>3. \A k \in 1 .. n : gs[k].rows = fs[k].rows /\ gs[k].locks = fs[k].locks
    BY DEF Replaced
  <2>4. \A k \in 1 .. n : \A j \in Indexes : j # i /\ Undone(gs, k, j) => Undone(fs, k, j)
    <3>1. \A k \in 1 .. n : k \in 1 .. n - 1 \/ k = n
      BY <1>1
    <3> QED BY <3>1 DEF Replaced, Undone
  <2>5. ASSUME p2 # None PROVE FitsShape(p2, n, gs)
    <3>1. p2 = p /\ p.idx # i /\ p # None /\ FitsShape(p, n, fs) /\ p.idx \in Indexes
      BY <1>1, <2>1, <2>2, <2>5 DEF View, WriteOK, Write
    <3> QED BY <1>1, <2>3, <2>4, <3>1 DEF FitsShape
  <2>6. ASSUME NEW j \in Indexes, NEW e, EntryAt(cat2[j], gs, n, j, e)
        PROVE  /\ p2 # None /\ p2.idx = j => FitsEntry(p2, n, gs, e, img2[j][e.file])
               /\ e.exists => Kept(gs, n, p2, j, e, img2[j][e.file], busy)
    <3>1. e = cat2[j]
      BY <1>1, <2>6, TopLevel
    <3>2. CASE j = i
      <4>1. Kept(gs, n, p2, j, e, img2[j][e.file], busy)
        <5> SUFFICES ASSUME NEW f \in 1 .. n, NEW t \in Tids, <<j, e.heap, t>> \in gs[f].rows
                     PROVE  t \in LiveTids(img2[j][e.file])
          BY DEF Kept
        <5> QED BY <1>1, <1>2, <1>6, <2>3, <3>1, <3>2
      <4> QED BY <2>2, <3>2, <4>1
    <3>3. CASE j # i
      <4>1. EntryAt(cat[j], fs, n, j, e) /\ img2[j] = img[j]
        BY <1>1, <1>2, <3>1, <3>3, TopLevel
      <4>2. /\ p # None /\ p.idx = j => FitsEntry(p, n, fs, e, img[j][e.file])
            /\ e.exists => Kept(fs, n, p, j, e, img[j][e.file], busy)
        BY <1>1, <2>1, <4>1, ViewAt
      <4>3. ASSUME e.exists PROVE Kept(gs, n, p2, j, e, img2[j][e.file], busy)
        <5> SUFFICES ASSUME NEW f \in 1 .. n, NEW t \in Tids, <<j, e.heap, t>> \in gs[f].rows
                     PROVE  \/ t \in LiveTids(img[j][e.file])
                            \/ p2 # None /\ p2.idx = j /\ KeptRow(p2, Limit(p2, Len(gs), f), t)
          BY <4>1 DEF Kept
        <5>1. \/ t \in LiveTids(img[j][e.file])
              \/ p # None /\ p.idx = j /\ KeptRow(p, Limit(p, n, f), t)
          BY <2>3, <4>2, <4>3 DEF Kept
        <5> QED BY <1>1, <2>2, <3>3, <5>1
      <4>4. ASSUME p2 # None, p2.idx = j PROVE FitsEntry(p2, n, gs, e, img2[j][e.file])
        <5>1. p2 = p /\ p # None /\ FitsEntry(p, n, fs, e, img[j][e.file])
          BY <2>2, <4>2, <4>4
        <5>2. InsertedBy(p2, n, gs, e.heap)
          <6> SUFFICES ASSUME NEW f \in 1 .. n, NEW t \in Tids,
                              KeptRow(p2, Limit(p2, Len(gs), f), t)
                       PROVE  \E g \in 1 .. f : <<p2.idx, e.heap, t>> \in gs[g].rows
            BY DEF InsertedBy
          <6>1. InsertedBy(p, n, fs, e.heap)
            BY <5>1 DEF FitsEntry
          <6>2. PICK g \in 1 .. f : <<p.idx, e.heap, t>> \in fs[g].rows
            BY <1>1, <5>1, <6>1 DEF InsertedBy
          <6>3. g \in 1 .. n
            BY <1>1
          <6> QED BY <2>3, <5>1, <6>2, <6>3
        <5> QED BY <1>1, <4>1, <5>1, <5>2 DEF FitsEntry
      <4> QED BY <4>3, <4>4
    <3> QED BY <3>2, <3>3
  <2> QED BY <2>5, <2>6, ViewFrom, Zenon
<1>5. ASSUME NEW L \in 1 .. Len(gs), NEW w, WriteAt(p2, stash2, gs, L, w)
      PROVE  View(gs, L, w, cat2, img2, busy)
  <2>1. CASE L = n
    <3>1. w = p2
      BY <1>1, <1>5, <2>1, TopLevel
    <3> QED BY <1>4, <2>1, <3>1
  <2>2. CASE L # n
    <3>1. L \in 1 .. n /\ L < n
      BY <1>1, <2>2
    <3> QED BY <1>3, <1>5, <3>1
  <2> QED BY <2>1, <2>2
<1> QED BY <1>5, ViewsFrom

\* DROP INDEX in a transaction without savepoints.
LEMMA DroppedSlot ==
  ASSUME NEW p, NEW stash, NEW fs, Holding(p, stash, fs), Len(fs) = 1,
         NEW gs \in Seq(Frame), NEW cat \in [Indexes -> Entry], NEW i \in Indexes,
         NEW cat2, Replaced(fs, gs, cat, cat2, i), cat2[i] = [cat[i] EXCEPT !.exists = FALSE],
         NEW img, NEW busy, busy = {}, Views(p, stash, fs, cat, img, busy)
  PROVE  Views(p, stash, gs, cat2, img, busy)
<1>1. fs \in Seq(Frame) /\ Len(gs) = 1 /\ 1 \in 1 .. Len(fs) /\ 1 .. 1 = {1}
  BY DEF Holding, Replaced
<1>2. /\ cat2[i].heap = cat[i].heap /\ cat2[i].file = cat[i].file /\ ~cat2[i].exists
      /\ \A j \in Indexes : j # i => cat2[j] = cat[j]
  BY DEF Entry, Replaced
<1>3. View(fs, 1, p, cat, img, busy)
  <2>1. WriteAt(p, stash, fs, Len(fs), p)
    BY <1>1, TopLevel
  <2> QED BY <1>1, <2>1, ViewsAt, ZenonT(60)
<1>0. /\ \A now, j, e : EntryAt(now, fs, 1, j, e) <=> e = now
      /\ \A now, j, e : EntryAt(now, gs, 1, j, e) <=> e = now
      /\ \A w : WriteAt(p, stash, gs, 1, w) <=> w = p
  <2>1. /\ \A now, j, e : EntryAt(now, fs, Len(fs), j, e) <=> e = now
        /\ \A now, j, e : EntryAt(now, gs, Len(gs), j, e) <=> e = now
        /\ \A w : WriteAt(p, stash, gs, Len(gs), w) <=> w = p
    BY <1>1, TopLevel
  <2> QED BY <1>1, <2>1
<1>4. gs[1].rows = fs[1].rows /\ gs[1].locks = fs[1].locks
  BY <1>1 DEF Replaced
<1>5. ASSUME p # None PROVE FitsShape(p, 1, gs)
  <2>1. FitsShape(p, 1, fs) /\ WriteOK(p)
    BY <1>3, <1>5 DEF View, Holding
  <2>2. Limit(p, 1, 0) = ZeroCount
    <3>1. Len(p.marks) = 0
      BY <1>1, <2>1, LenProperties DEF FitsShape, WriteOK, Write
    <3> QED BY <3>1 DEF Limit
  <2>3. \A f \in 1 .. 1 : f - 1 = 0
    OBVIOUS
  <2>4. \A f \in 1 .. 1 : Undone(gs, f, p.idx) => Limit(p, Len(gs), f - 1) = ZeroCount
    BY <1>1, <2>2, <2>3
  <2> QED BY <1>1, <1>4, <2>1, <2>4 DEF FitsShape
<1>6. ASSUME NEW j \in Indexes, NEW e, EntryAt(cat2[j], gs, 1, j, e)
      PROVE  /\ p # None /\ p.idx = j => FitsEntry(p, 1, gs, e, img[j][e.file])
             /\ e.exists => Kept(gs, 1, p, j, e, img[j][e.file], busy)
  <2>1. e = cat2[j]
    BY <1>0, <1>6
  <2>2. EntryAt(cat[j], fs, 1, j, cat[j])
    BY <1>0
  <2>3. /\ p # None /\ p.idx = j => FitsEntry(p, 1, fs, cat[j], img[j][cat[j].file])
        /\ cat[j].exists => Kept(fs, 1, p, j, cat[j], img[j][cat[j].file], busy)
    BY <1>1, <1>3, <2>2, ViewAt
  <2>4. /\ e.heap = cat[j].heap /\ e.file = cat[j].file /\ (e.exists => e = cat[j])
    BY <1>2, <2>1
  <2>5. ASSUME p # None, p.idx = j PROVE FitsEntry(p, 1, gs, e, img[j][e.file])
    <3>1. FitsEntry(p, 1, fs, cat[j], img[j][cat[j].file])
      BY <2>3, <2>5
    <3>2. InsertedBy(p, 1, gs, e.heap)
      <4>1. \A f \in 1 .. 1 : \A g \in 1 .. f : g = 1
        OBVIOUS
      <4> QED BY <1>1, <1>4, <2>4, <3>1, <4>1 DEF FitsEntry, InsertedBy
    <3> QED BY <1>1, <2>4, <3>1, <3>2 DEF FitsEntry
  <2>6. ASSUME e.exists PROVE Kept(gs, 1, p, j, e, img[j][e.file], busy)
    <3>1. Kept(fs, 1, p, j, e, img[j][e.file], busy)
      BY <2>3, <2>4, <2>6
    <3> QED BY <1>1, <1>4, <3>1 DEF Kept
  <2> QED BY <2>5, <2>6
<1>7. View(gs, 1, p, cat2, img, busy)
  BY <1>5, <1>6, ViewFrom, Zenon
<1>8. ASSUME NEW L \in 1 .. Len(gs), NEW w, WriteAt(p, stash, gs, L, w)
      PROVE  View(gs, L, w, cat2, img, busy)
  <2>1. L = Len(gs) /\ L = 1
    BY <1>1
  <2>2. w = p
    BY <1>0, <1>8, <2>1
  <2> QED BY <1>7, <2>1, <2>2
<1> QED BY <1>8, ViewsFrom

\* A statement takes a lock, and an INSERT puts its row in the heap.
LEMMA GrownSlot ==
  ASSUME NEW p, NEW stash, NEW fs, Holding(p, stash, fs),
         NEW gs \in Seq(Frame), Len(gs) = Len(fs),
         \A k \in 1 .. Len(fs) :
           /\ gs[k].sub = fs[k].sub /\ gs[k].undo = fs[k].undo
           /\ fs[k].rows \subseteq gs[k].rows /\ fs[k].locks \subseteq gs[k].locks,
         NEW cat, NEW img, NEW busy, NEW busy2, busy = {},
         \A k \in 1 .. Len(fs) : \A i \in Indexes : \A h : \A t \in Tids :
           <<i, h, t>> \in gs[k].rows =>
             <<i, h, t>> \in fs[k].rows \/ (k = Len(fs) /\ <<i, t>> \in busy2),
         Views(p, stash, fs, cat, img, busy)
  PROVE  Views(p, stash, gs, cat, img, busy2)
<1> DEFINE n == Len(fs)
<1>1. /\ fs \in Seq(Frame) /\ n \in Nat /\ Len(gs) = n
  BY LenProperties DEF Holding
<1>2. ASSUME NEW L \in 1 .. n, NEW w, WriteAt(p, stash, gs, L, w)
      PROVE  View(gs, L, w, cat, img, busy2)
  <2>0. /\ \A f \in L + 1 .. n : f \in 1 .. n
        /\ \A f \in L + 1 .. n : \A g \in L + 1 .. f - 1 : g \in 1 .. n
        /\ \A g \in 1 .. L : g \in 1 .. n /\ (g = n => L = n)
        /\ L <= Len(gs)
    BY <1>1
  <2>1. WriteAt(p, stash, fs, L, w)
    <3>1. \A f \in 1 .. n : Stashed(stash, gs, f) <=> Stashed(stash, fs, f)
      BY DEF Stashed
    <3> QED BY <1>1, <1>2, <2>0, <3>1 DEF WriteAt
  <2>2. View(fs, L, w, cat, img, busy) /\ (w # None => WriteOK(w))
    BY <2>1, ViewsAt, WriteAtType
  <2>3. \A f \in 1 .. n : \A i : gs[f].undo[i] = fs[f].undo[i] /\ (Undone(gs, f, i) <=> Undone(fs, f, i))
    BY DEF Undone
  <2>4. FramesKept(fs, gs, L, busy, busy2)
    BY <1>1, <2>0, <2>3 DEF FramesKept
  <2>5. Aligned(w, w, fs, gs, L)
    BY <1>1, <2>2 DEF Aligned, SameWrite, View, FitsShape
  <2>6. EntriesKept(cat, fs, img, cat, gs, img, L)
    BY <1>1, <2>0, <2>3 DEF EntriesKept, EntryAt
  <2>7. L \in 1 .. Len(fs) /\ L <= Len(gs)
    BY <2>0
  <2> HIDE DEF n
  <2> QED BY <1>1, <2>2, <2>4, <2>5, <2>6, <2>7, Carry
<1> QED BY <1>1, <1>2, ViewsFrom

\* A transaction begins with nothing.
LEMMA BegunSlot ==
  ASSUME NEW gs \in Seq(Frame), Len(gs) = 1, gs[1].rows = {},
         NEW stash, NEW cat, NEW img, NEW busy
  PROVE  Views(None, stash, gs, cat, img, busy) \/ stash # {}
<1> SUFFICES ASSUME stash = {} PROVE Views(None, stash, gs, cat, img, busy)
  OBVIOUS
<1>1. ASSUME NEW L \in 1 .. Len(gs), NEW w, WriteAt(None, stash, gs, L, w)
      PROVE  View(gs, L, w, cat, img, busy)
  <2>1. w = None /\ L = 1 /\ \A f \in 1 .. L : f = 1
    BY <1>1 DEF WriteAt
  <2>2. ASSUME NEW i \in Indexes, NEW e, EntryAt(cat[i], gs, L, i, e)
        PROVE  Kept(gs, L, w, i, e, img[i][e.file], busy)
    BY <2>1 DEF Kept
  <2> QED BY <2>1, <2>2 DEF View
<1> QED BY <1>1, ViewsFrom

=============================================================================
