--------------------------- MODULE StagingProofs ----------------------------
(***************************************************************************)
(* Proofs about Staging, for any number of backends, indexes, heap         *)
(* pointers, savepoints and rebuilds, and with every fault allowed.        *)
(***************************************************************************)
EXTENDS Staging, SequenceTheorems, FiniteSetTheorems, TLAPS

-----------------------------------------------------------------------------
(* What the operators of PendingWrite preserve: a staged write keeps its   *)
(* loaded part, and its savepoint marks keep drawing lines inside the rows *)
(* it has staged.                                                          *)

\* A write whose loaded part is still there, with its marks in bounds.
WriteOK(w) ==
  /\ w \in Write
  /\ w.baseN <= Len(w.graph)
  /\ w.baseUnrankable <= Len(w.unrankable)
  /\ MarksOrdered(w)

\* The counts of a write are counts: what is staged is never negative.
LEMMA StagedType ==
  ASSUME NEW w \in Write,
         w.baseN <= Len(w.graph), w.baseUnrankable <= Len(w.unrankable)
  PROVE  Staged(w) \in Count /\ Surviving(w) \in Count
<1>1. Len(w.graph) \in Nat /\ Len(w.unrankable) \in Nat
  BY LenProperties DEF Write
<1>2. Staged(w) \in Count
  BY <1>1 DEF Staged, Count, Write
<1>3. QED
  BY <1>2 DEF Surviving, Write

\* A freshly loaded write is in order (pending_insert's first use of the slot).
LEMMA LoadedOK ==
  ASSUME NEW i \in Indexes, NEW img \in Image
  PROVE  WriteOK(Loaded(i, img))
<1> DEFINE w == Loaded(i, img)
<1>1. Len(img.graph) \in Nat /\ Len(img.unrankable) \in Nat
  BY LenProperties DEF Image
<1>2. /\ w \in Write
      /\ w.baseN = Len(w.graph) /\ w.baseUnrankable = Len(w.unrankable)
      /\ w.marks = <<>> /\ w.rewind = None
  BY <1>1 DEF Loaded, Write, Image
<1>3. Staged(w) = ZeroCount
  BY <1>1, <1>2 DEF Staged, ZeroCount, Loaded
<1>4. MarksOrdered(w)
  BY <1>2, <1>3 DEF MarksOrdered, Surviving, CountLeq, ZeroCount
<1>5. QED
  BY <1>1, <1>2, <1>4 DEF WriteOK, Loaded

-----------------------------------------------------------------------------
(* Counts.                                                                 *)

LEMMA CountLeqTransitive ==
  ASSUME NEW c \in Count, NEW d \in Count, NEW e \in Count,
         CountLeq(c, d), CountLeq(d, e)
  PROVE  CountLeq(c, e)
BY DEF CountLeq, Count

\* The componentwise minimum of comparable counts is the smaller one.
LEMMA CountMinOfLeq ==
  ASSUME NEW c \in Count, NEW d \in Count, CountLeq(c, d)
  PROVE  CountMin(c, d) = c /\ CountMin(d, c) = c
<1>1. /\ AtMost(c.nodes, d.nodes) = c.nodes
      /\ AtMost(c.unrankable, d.unrankable) = c.unrankable
      /\ AtMost(d.nodes, c.nodes) = c.nodes
      /\ AtMost(d.unrankable, c.unrankable) = c.unrankable
  BY DEF CountLeq, AtMost, Count
<1>2. c = [nodes |-> c.nodes, unrankable |-> c.unrankable]
  BY DEF Count
<1>3. QED
  BY <1>1, <1>2 DEF CountMin

-----------------------------------------------------------------------------
(* The staged rows.                                                        *)

\* Node sequences one after the other.
LEMMA NodesConcat ==
  ASSUME NEW s \in Seq(Node), NEW t \in Seq(Node)
  PROVE  s \o t \in Seq(Node) /\ Len(s \o t) = Len(s) + Len(t)
BY ConcatProperties, Zenon

\* A slice of a sequence of nodes.
LEMMA NodesSlice ==
  ASSUME NEW s \in Seq(Node), NEW m \in Nat, NEW n \in Nat, m + n <= Len(s)
  PROVE  /\ SubSeq(s, m + 1, m + n) \in Seq(Node)
         /\ Len(SubSeq(s, m + 1, m + n)) = n
<1>1. Len(s) \in Nat
  BY LenProperties
<1>2. ASSUME NEW k \in m + 1 .. m + n
      PROVE  s[k] \in Node
  <2>1. k \in 1 .. Len(s)
    BY <1>1
  <2>2. QED
    BY <2>1, ElementOfSeq
<1>3. QED
  BY <1>2, SubSeqProperties

\* The first n staged nodes, and rows without a vector, are that many.
LEMMA StagedPrefix ==
  ASSUME NEW w \in Write, NEW c \in Count,
         w.baseN <= Len(w.graph), w.baseUnrankable <= Len(w.unrankable),
         CountLeq(c, Staged(w))
  PROVE  /\ StagedNodes(w, c.nodes) \in Seq(Node)
         /\ Len(StagedNodes(w, c.nodes)) = c.nodes
         /\ StagedUnrankable(w, c.unrankable) \in Seq(Node)
         /\ Len(StagedUnrankable(w, c.unrankable)) = c.unrankable
<1>1. /\ w.graph \in Seq(Node) /\ w.unrankable \in Seq(Node)
      /\ w.baseN \in Nat /\ w.baseUnrankable \in Nat
      /\ c.nodes \in Nat /\ c.unrankable \in Nat
  BY DEF Write, Count
<1>2. /\ Len(w.graph) \in Nat /\ Len(w.unrankable) \in Nat
      /\ w.baseN + c.nodes <= Len(w.graph)
      /\ w.baseUnrankable + c.unrankable <= Len(w.unrankable)
  BY <1>1, LenProperties DEF CountLeq, Staged
<1>3. /\ StagedNodes(w, c.nodes) \in Seq(Node)
      /\ Len(StagedNodes(w, c.nodes)) = c.nodes
  BY <1>1, <1>2, NodesSlice DEF StagedNodes
<1>4. /\ StagedUnrankable(w, c.unrankable) \in Seq(Node)
      /\ Len(StagedUnrankable(w, c.unrankable)) = c.unrankable
  BY <1>1, <1>2, NodesSlice DEF StagedUnrankable
<1>5. QED
  BY <1>3, <1>4

\* pending_insert keeps a write in order: a new row is staged past every mark.
LEMMA PushRowOK ==
  ASSUME NEW w, WriteOK(w), NEW t \in Tids
  PROVE  WriteOK(PushRow(w, t))
<1> DEFINE v == PushRow(w, t)
<1>1. /\ w \in Write /\ w.graph \in Seq(Node) /\ w.unrankable \in Seq(Node)
      /\ LiveNode(t) \in Node
  BY DEF WriteOK, Write, LiveNode, Node
<1>2. /\ Append(w.graph, LiveNode(t)) \in Seq(Node)
      /\ Len(Append(w.graph, LiveNode(t))) = Len(w.graph) + 1
      /\ Append(w.unrankable, LiveNode(t)) \in Seq(Node)
      /\ Len(Append(w.unrankable, LiveNode(t))) = Len(w.unrankable) + 1
      /\ Len(w.graph) \in Nat /\ Len(w.unrankable) \in Nat
  BY <1>1, AppendProperties, LenProperties
<1>3. /\ v \in Write /\ v.baseN = w.baseN /\ v.baseUnrankable = w.baseUnrankable
      /\ v.marks = w.marks /\ v.rewind = w.rewind
      /\ Len(v.graph) >= Len(w.graph) /\ Len(v.unrankable) >= Len(w.unrankable)
      /\ Len(v.graph) \in Nat /\ Len(v.unrankable) \in Nat
  <2>1. /\ v.baseN = w.baseN /\ v.baseUnrankable = w.baseUnrankable
        /\ v.marks = w.marks /\ v.rewind = w.rewind
        /\ v.graph \in {w.graph, Append(w.graph, LiveNode(t))}
        /\ v.unrankable \in {w.unrankable, Append(w.unrankable, LiveNode(t))}
    BY <1>1 DEF PushRow, Write
  <2>2. v \in Write
    BY <1>1, <1>2 DEF PushRow, Write
  <2>3. QED
    BY <1>2, <2>1, <2>2
<1> HIDE DEF v
<1>4. /\ v.baseN <= Len(v.graph) /\ v.baseUnrankable <= Len(v.unrankable)
      /\ CountLeq(Staged(w), Staged(v))
  BY <1>2, <1>3 DEF WriteOK, Write, CountLeq, Staged
<1>5. /\ Staged(w) \in Count /\ Surviving(w) \in Count
      /\ Staged(v) \in Count /\ Surviving(v) \in Count
  BY <1>3, <1>4, StagedType DEF WriteOK
<1>6. CountLeq(Surviving(w), Surviving(v)) /\ CountLeq(Surviving(v), Staged(v))
  <2>1. CASE w.rewind = None
    BY <1>3, <1>4, <1>5, <2>1 DEF Surviving, CountLeq, Count
  <2>2. CASE w.rewind # None
    BY <1>3, <1>4, <1>5, <2>2 DEF Surviving, CountLeq, Count, WriteOK, MarksOrdered
  <2>3. QED
    BY <2>1, <2>2
<1>7. \A k \in DOMAIN v.marks : CountLeq(v.marks[k], Surviving(v))
  <2>1. SUFFICES ASSUME NEW k \in DOMAIN w.marks
                 PROVE  CountLeq(w.marks[k], Surviving(v))
    BY <1>3
  <2>2. w.marks[k] \in Count /\ CountLeq(w.marks[k], Surviving(w))
    BY <1>1, LenProperties, ElementOfSeq DEF WriteOK, MarksOrdered, Write
  <2>3. QED
    BY <1>5, <1>6, <2>2, CountLeqTransitive
<1>8. MarksOrdered(v)
  BY <1>3, <1>6, <1>7 DEF MarksOrdered, WriteOK
<1>9. WriteOK(v)
  BY <1>3, <1>4, <1>8 DEF WriteOK
<1>10. QED
  BY <1>9 DEF v

\* settle_pending puts a write in order on whatever image it reads: the marks still fit.
LEMMA SettledOK ==
  ASSUME NEW w, WriteOK(w), w.rewind # None, NEW img \in Image
  PROVE  WriteOK(Settled(w, img))
<1> DEFINE v == Settled(w, img)
           c == w.rewind
<1>1. /\ w \in Write /\ c \in Count /\ Surviving(w) = c
      /\ CountLeq(c, Staged(w))
  BY DEF WriteOK, Write, Surviving, MarksOrdered
<1>2. /\ StagedNodes(w, c.nodes) \in Seq(Node)
      /\ Len(StagedNodes(w, c.nodes)) = c.nodes
      /\ StagedUnrankable(w, c.unrankable) \in Seq(Node)
      /\ Len(StagedUnrankable(w, c.unrankable)) = c.unrankable
  BY <1>1, StagedPrefix DEF WriteOK
<1>3. /\ img.graph \in Seq(Node) /\ img.unrankable \in Seq(Node)
      /\ Len(img.graph) \in Nat /\ Len(img.unrankable) \in Nat /\ img.gen \in Nat
      /\ c.nodes \in Nat /\ c.unrankable \in Nat
  BY <1>1, LenProperties DEF Image, Count
<1>4. /\ v.idx = w.idx /\ v.baseGen = img.gen
      /\ v.graph = img.graph \o StagedNodes(w, c.nodes)
      /\ v.baseN = Len(img.graph)
      /\ v.unrankable = img.unrankable \o StagedUnrankable(w, c.unrankable)
      /\ v.baseUnrankable = Len(img.unrankable)
      /\ v.marks = w.marks /\ v.rewind = None
  BY DEF Settled
<1>5. /\ img.graph \o StagedNodes(w, c.nodes) \in Seq(Node)
      /\ Len(img.graph \o StagedNodes(w, c.nodes)) = Len(img.graph) + c.nodes
      /\ img.unrankable \o StagedUnrankable(w, c.unrankable) \in Seq(Node)
      /\ Len(img.unrankable \o StagedUnrankable(w, c.unrankable))
           = Len(img.unrankable) + c.unrankable
  <2> DEFINE g == StagedNodes(w, c.nodes)
             u == StagedUnrankable(w, c.unrankable)
  <2> HIDE DEF g, u
  <2>1. /\ img.graph \o g \in Seq(Node)
        /\ Len(img.graph \o g) = Len(img.graph) + Len(g)
    BY <1>2, <1>3, NodesConcat DEF g
  <2>2. /\ img.unrankable \o u \in Seq(Node)
        /\ Len(img.unrankable \o u) = Len(img.unrankable) + Len(u)
    BY <1>2, <1>3, NodesConcat DEF u
  <2>3. QED
    BY <1>2, <2>1, <2>2 DEF g, u
<1>6. v \in Write
  BY <1>1, <1>3, <1>5 DEF Write, Settled
<1> HIDE DEF v
<1>7. Surviving(v) = Staged(v) /\ Staged(v) = c
  BY <1>1, <1>3, <1>4, <1>5 DEF Staged, Surviving, Count
<1>8. CountLeq(c, c)
  BY <1>3 DEF CountLeq
<1>9. MarksOrdered(v)
  BY <1>1, <1>4, <1>7, <1>8 DEF MarksOrdered, WriteOK
<1>10. v.baseN <= Len(v.graph) /\ v.baseUnrankable <= Len(v.unrankable)
  BY <1>3, <1>4, <1>5
<1>11. WriteOK(v)
  BY <1>6, <1>9, <1>10 DEF WriteOK
<1>12. QED
  BY <1>11 DEF v

\* A sequence of nodes after another: the first is its beginning, the second its end.
LEMMA ConcatSlices ==
  ASSUME NEW s \in Seq(Node), NEW t \in Seq(Node)
  PROVE  /\ SubSeq(s \o t, 1, Len(s)) = s
         /\ SubSeq(s \o t, Len(s) + 1, Len(s) + Len(t)) = t
<1> DEFINE c == s \o t
           m == Len(s)
           n == Len(t)
<1>1. m \in Nat /\ n \in Nat
  BY LenProperties
<1>2. /\ c \in Seq(Node) /\ Len(c) = m + n
      /\ \A k \in 1 .. m + n : c[k] = IF k <= m THEN s[k] ELSE t[k - m]
  BY ConcatProperties
<1>3. \A k \in 1 .. m + n : c[k] \in Node
  BY <1>1, <1>2, ElementOfSeq
<1> HIDE DEF c, m, n
<1>4. SubSeq(c, 1, m) = s
  <2> DEFINE d == SubSeq(c, 1, m)
  <2>1. \A k \in 1 .. m : c[k] \in Node
    BY <1>1, <1>3
  <2>2. /\ d \in Seq(Node) /\ Len(d) = m
        /\ \A k \in 1 .. m : d[k] = c[k]
    <3>1. /\ d \in Seq(Node) /\ Len(d) = IF 1 <= m THEN m - 1 + 1 ELSE 0
          /\ \A k \in 1 .. m - 1 + 1 : d[k] = c[1 + k - 1]
      BY <1>1, <2>1, SubSeqProperties
    <3> HIDE DEF d
    <3> QED BY <1>1, <3>1
  <2> HIDE DEF d
  <2>3. \A k \in 1 .. m : d[k] = s[k]
    BY <1>1, <1>2, <2>2
  <2> QED BY <2>2, <2>3, SeqEqual DEF d, m
<1>5. SubSeq(c, m + 1, m + n) = t
  <2> DEFINE d == SubSeq(c, m + 1, m + n)
  <2>1. \A k \in m + 1 .. m + n : c[k] \in Node
    BY <1>1, <1>3
  <2>2. /\ d \in Seq(Node) /\ Len(d) = n
        /\ \A k \in 1 .. n : d[k] = c[m + k]
    <3>1. /\ d \in Seq(Node)
          /\ Len(d) = IF m + 1 <= m + n THEN (m + n) - (m + 1) + 1 ELSE 0
          /\ \A k \in 1 .. (m + n) - (m + 1) + 1 : d[k] = c[(m + 1) + k - 1]
      BY <1>1, <2>1, SubSeqProperties
    <3> HIDE DEF d
    <3>2. (m + n) - (m + 1) + 1 = n /\ \A k \in 1 .. n : (m + 1) + k - 1 = m + k
      BY <1>1
    <3> QED BY <1>1, <3>1, <3>2
  <2> HIDE DEF d
  <2>3. \A k \in 1 .. n : d[k] = t[k]
    <3> SUFFICES ASSUME NEW k \in 1 .. n PROVE d[k] = t[k]
      OBVIOUS
    <3>1. m + k \in 1 .. m + n /\ ~(m + k <= m) /\ (m + k) - m = k
      BY <1>1
    <3> QED BY <1>2, <2>2, <3>1
  <2> QED BY <2>2, <2>3, SeqEqual DEF d, n
<1> QED BY <1>4, <1>5 DEF c, m, n

\* What settle_pending stages, whatever image it reads: that image's rows untouched, on
\* them exactly the rows that no rollback has claimed, in their order, and nothing left
\* to undo; the write is in order, so the marks still say what they said.
THEOREM SettledStagesSurvivors ==
  ASSUME NEW w, WriteOK(w), w.rewind # None, NEW img \in Image
  PROVE  LET v == Settled(w, img) IN
         /\ WriteOK(v) /\ v.rewind = None /\ v.marks = w.marks /\ v.idx = w.idx
         /\ v.baseGen = img.gen
         /\ SubSeq(v.graph, 1, v.baseN) = img.graph
         /\ SubSeq(v.unrankable, 1, v.baseUnrankable) = img.unrankable
         /\ Staged(v) = Surviving(w) /\ Surviving(v) = Surviving(w)
         /\ StagedNodes(v, Staged(v).nodes) = StagedNodes(w, Surviving(w).nodes)
         /\ StagedUnrankable(v, Staged(v).unrankable)
              = StagedUnrankable(w, Surviving(w).unrankable)
         /\ SurvivingTids(v) = SurvivingTids(w)
<1> DEFINE v == Settled(w, img)
           c == w.rewind
           g == StagedNodes(w, c.nodes)
           u == StagedUnrankable(w, c.unrankable)
<1>1. /\ w \in Write /\ c \in Count /\ Surviving(w) = c
      /\ CountLeq(c, Staged(w)) /\ c.nodes \in Nat /\ c.unrankable \in Nat
      /\ c = [nodes |-> c.nodes, unrankable |-> c.unrankable]
  BY DEF WriteOK, Write, Surviving, MarksOrdered, Count
<1>2. /\ g \in Seq(Node) /\ Len(g) = c.nodes
      /\ u \in Seq(Node) /\ Len(u) = c.unrankable
  BY <1>1, StagedPrefix DEF WriteOK
<1>3. /\ img.graph \in Seq(Node) /\ img.unrankable \in Seq(Node)
      /\ Len(img.graph) \in Nat /\ Len(img.unrankable) \in Nat
  BY LenProperties DEF Image
<1>4. WriteOK(v)
  BY SettledOK
<1>5. /\ v.idx = w.idx /\ v.baseGen = img.gen /\ v.marks = w.marks /\ v.rewind = None
      /\ v.graph = img.graph \o g /\ v.baseN = Len(img.graph)
      /\ v.unrankable = img.unrankable \o u /\ v.baseUnrankable = Len(img.unrankable)
  BY DEF Settled
<1> HIDE DEF v, g, u, c
<1>6. /\ Len(v.graph) = Len(img.graph) + c.nodes
      /\ Len(v.unrankable) = Len(img.unrankable) + c.unrankable
  BY <1>2, <1>3, <1>5, NodesConcat
<1>7. Staged(v) = c /\ Surviving(v) = c
  <2>1. Staged(v) = [nodes |-> c.nodes, unrankable |-> c.unrankable]
    <3>1. /\ Len(v.graph) - v.baseN = c.nodes
          /\ Len(v.unrankable) - v.baseUnrankable = c.unrankable
      <4>1. /\ (Len(img.graph) + c.nodes) - Len(img.graph) = c.nodes
            /\ (Len(img.unrankable) + c.unrankable) - Len(img.unrankable) = c.unrankable
        BY <1>1, <1>3
      <4> QED BY <1>5, <1>6, <4>1, Zenon
    <3> QED BY <3>1 DEF Staged
  <2>2. Staged(v) = c
    BY <1>1, <2>1
  <2> QED BY <1>5, <2>2 DEF Surviving
<1>8. SubSeq(v.graph, 1, v.baseN) = img.graph /\ StagedNodes(v, c.nodes) = g
  <2>1. /\ SubSeq(img.graph \o g, 1, Len(img.graph)) = img.graph
        /\ SubSeq(img.graph \o g, Len(img.graph) + 1, Len(img.graph) + Len(g)) = g
    BY <1>2, <1>3, ConcatSlices
  <2> QED BY <1>2, <1>5, <2>1 DEF StagedNodes
<1>9. SubSeq(v.unrankable, 1, v.baseUnrankable) = img.unrankable
      /\ StagedUnrankable(v, c.unrankable) = u
  <2>1. /\ SubSeq(img.unrankable \o u, 1, Len(img.unrankable)) = img.unrankable
        /\ SubSeq(img.unrankable \o u, Len(img.unrankable) + 1, Len(img.unrankable) + Len(u)) = u
    BY <1>2, <1>3, ConcatSlices
  <2> QED BY <1>2, <1>5, <2>1 DEF StagedUnrankable
<1>10. SurvivingTids(v) = SurvivingTids(w)
  BY <1>1, <1>7, <1>8, <1>9 DEF SurvivingTids, g, u
<1> QED BY <1>1, <1>4, <1>5, <1>7, <1>8, <1>9, <1>10 DEF v, g, u

\* What flush_locked writes back is an image.
LEMMA WrittenType ==
  ASSUME NEW w, WriteOK(w), NEW img \in Image
  PROVE  Written(w, img) \in Image
<1>1. /\ w \in Write /\ w.graph \in Seq(Node) /\ w.unrankable \in Seq(Node)
      /\ img.gen \in Nat /\ img.graph \in Seq(Node) /\ img.unrankable \in Seq(Node)
  BY DEF WriteOK, Write, Image
<1>2. Staged(w) \in Count
  BY <1>1, StagedType DEF WriteOK
<1>3. CountLeq(Staged(w), Staged(w))
  BY <1>2 DEF CountLeq, Count
<1>4. /\ StagedNodes(w, Staged(w).nodes) \in Seq(Node)
      /\ StagedUnrankable(w, Staged(w).unrankable) \in Seq(Node)
  BY <1>1, <1>2, <1>3, StagedPrefix DEF WriteOK
<1>5. /\ img.graph \o StagedNodes(w, Staged(w).nodes) \in Seq(Node)
      /\ img.unrankable \o StagedUnrankable(w, Staged(w).unrankable) \in Seq(Node)
  BY <1>1, <1>4, NodesConcat
<1>6. QED
  BY <1>1, <1>5 DEF Written, Image

-----------------------------------------------------------------------------
(* Savepoint events.                                                       *)

\* What staging, and what a savepoint event leaves alone, does to a write's rows.
LEMMA SameRows ==
  ASSUME NEW w, WriteOK(w), NEW v \in Write,
         v.graph = w.graph, v.baseN = w.baseN,
         v.unrankable = w.unrankable, v.baseUnrankable = w.baseUnrankable,
         MarksOrdered(v)
  PROVE  WriteOK(v)
BY DEF WriteOK

\* The counts of a write in order.
LEMMA WriteCounts ==
  ASSUME NEW w, WriteOK(w)
  PROVE  /\ w \in Write
         /\ Staged(w) \in Count /\ Surviving(w) \in Count
         /\ CountLeq(Surviving(w), Staged(w))
         /\ w.marks \in Seq(Count)
         /\ \A k \in DOMAIN w.marks : w.marks[k] \in Count
BY StagedType, LenProperties, ElementOfSeq DEF WriteOK, MarksOrdered, Write

\* SUBXACT_EVENT_START_SUB.
LEMMA MarkStartOK ==
  ASSUME NEW w, WriteOK(w)
  PROVE  WriteOK(MarkStart(w))
<1> DEFINE c == Surviving(w)
           v == [w EXCEPT !.marks = Append(@, c)]
<1>1. /\ w \in Write /\ c \in Count /\ CountLeq(c, Staged(w))
      /\ w.marks \in Seq(Count) /\ Staged(w) \in Count
      /\ \A k \in DOMAIN w.marks : w.marks[k] \in Count
  BY WriteCounts
<1>2. MarkStart(w) = v
  BY <1>1, CountMinOfLeq DEF MarkStart
<1>3. /\ Append(w.marks, c) \in Seq(Count)
      /\ Len(Append(w.marks, c)) = Len(w.marks) + 1
      /\ \A k \in 1 .. Len(w.marks) : Append(w.marks, c)[k] = w.marks[k]
      /\ Append(w.marks, c)[Len(w.marks) + 1] = c
  BY <1>1, AppendProperties
<1>4. v \in Write /\ v.marks = Append(w.marks, c)
  BY <1>1, <1>3 DEF Write
<1>5. /\ v.graph = w.graph /\ v.baseN = w.baseN
      /\ v.unrankable = w.unrankable /\ v.baseUnrankable = w.baseUnrankable
      /\ v.rewind = w.rewind
  BY <1>1 DEF Write
<1>6. Staged(v) = Staged(w) /\ Surviving(v) = c
  BY <1>5 DEF Staged, Surviving
<1>7. CountLeq(c, c)
  BY <1>1 DEF CountLeq, Count
<1>8. /\ DOMAIN v.marks = 1 .. Len(w.marks) + 1
      /\ DOMAIN w.marks = 1 .. Len(w.marks)
      /\ Len(w.marks) \in Nat
  BY <1>1, <1>3, <1>4, LenProperties
<1> HIDE DEF v, c
<1>9. ASSUME NEW k \in DOMAIN v.marks
      PROVE  CountLeq(v.marks[k], c)
  <2>1. CASE k \in 1 .. Len(w.marks)
    BY <1>3, <1>4, <1>8, <2>1 DEF WriteOK, MarksOrdered, c
  <2>2. CASE k = Len(w.marks) + 1
    BY <1>3, <1>4, <1>7, <2>2
  <2>3. QED
    BY <1>8, <2>1, <2>2
<1>10. ASSUME NEW j \in DOMAIN v.marks, NEW k \in DOMAIN v.marks, j <= k
       PROVE  CountLeq(v.marks[j], v.marks[k])
  <2>1. CASE k = Len(w.marks) + 1
    BY <1>3, <1>4, <1>9, <2>1
  <2>2. CASE k \in 1 .. Len(w.marks)
    <3>1. j \in 1 .. Len(w.marks)
      BY <1>8, <1>10, <2>2
    <3>2. QED
      BY <1>3, <1>4, <1>8, <1>10, <2>2, <3>1 DEF WriteOK, MarksOrdered
  <2>3. QED
    BY <1>8, <2>1, <2>2
<1>11. MarksOrdered(v)
  BY <1>1, <1>6, <1>9, <1>10 DEF MarksOrdered
<1>12. QED
  BY <1>2, <1>4, <1>5, <1>11, SameRows

\* Dropping the innermost line leaves the others.
LEMMA PopMarkProperties ==
  ASSUME NEW w, WriteOK(w)
  PROVE  LET v == PopMark(w) IN
         /\ v \in Write
         /\ v.graph = w.graph /\ v.baseN = w.baseN
         /\ v.unrankable = w.unrankable /\ v.baseUnrankable = w.baseUnrankable
         /\ v.rewind = w.rewind
         /\ DOMAIN v.marks \subseteq DOMAIN w.marks
         /\ \A k \in DOMAIN v.marks :
              v.marks[k] = w.marks[k] /\ w.marks # <<>> /\ k < Len(w.marks)
<1> DEFINE n == Len(w.marks)
<1>1. /\ w \in Write /\ w.marks \in Seq(Count) /\ n \in Nat
      /\ DOMAIN w.marks = 1 .. n
      /\ \A k \in 1 .. n : w.marks[k] \in Count
  BY WriteCounts, LenProperties
<1>2. CASE w.marks = <<>>
  <2>1. PopMark(w) = w
    BY <1>1, <1>2 DEF PopMark, Write
  <2>2. DOMAIN w.marks = {}
    BY <1>1, <1>2, EmptySeq
  <2>3. QED
    BY <1>1, <2>1, <2>2
<1>3. CASE w.marks # <<>>
  <2> DEFINE m == SubSeq(w.marks, 1, n - 1)
  <2>1. n \in Nat \ {0}
    BY <1>1, <1>3, EmptySeq
  <2>2. /\ m \in Seq(Count)
        /\ Len(m) = n - 1
        /\ \A k \in 1 .. n - 1 : m[k] = w.marks[k]
    <3>1. \A k \in 1 .. n - 1 : w.marks[k] \in Count
      BY <1>1, <2>1
    <3> DEFINE s == w.marks
               e == n - 1
    <3>2. /\ 1 \in Int /\ e \in Int /\ \A k \in 1 .. e : s[k] \in Count
      BY <2>1, <3>1
    <3> HIDE DEF s, e
    <3>3. /\ SubSeq(s, 1, e) \in Seq(Count)
          /\ Len(SubSeq(s, 1, e)) = IF 1 <= e THEN e - 1 + 1 ELSE 0
          /\ \A k \in 1 .. e - 1 + 1 : SubSeq(s, 1, e)[k] = s[1 + k - 1]
      BY <3>2, SubSeqProperties
    <3>4. \A k \in 1 .. e : 1 + k - 1 = k /\ e - 1 + 1 = e
      BY <3>2
    <3>5. Len(SubSeq(s, 1, e)) = e /\ \A k \in 1 .. e : SubSeq(s, 1, e)[k] = s[k]
      BY <2>1, <3>2, <3>3, <3>4 DEF e
    <3>6. QED
      BY <3>3, <3>5 DEF s, e
  <2>3. DOMAIN m = 1 .. n - 1
    BY <2>2, LenProperties
  <2>4. PopMark(w) = [w EXCEPT !.marks = m]
    BY <1>3 DEF PopMark
  <2> HIDE DEF m
  <2>5. /\ PopMark(w) \in Write /\ PopMark(w).marks = m
        /\ PopMark(w).graph = w.graph /\ PopMark(w).baseN = w.baseN
        /\ PopMark(w).unrankable = w.unrankable
        /\ PopMark(w).baseUnrankable = w.baseUnrankable
        /\ PopMark(w).rewind = w.rewind
    BY <1>1, <2>2, <2>4 DEF Write
  <2>6. \A k \in 1 .. n - 1 : k < n /\ k \in 1 .. n
    BY <2>1
  <2>7. QED
    BY <1>1, <1>3, <2>2, <2>3, <2>5, <2>6
<1>4. QED
  BY <1>2, <1>3

\* SUBXACT_EVENT_COMMIT_SUB.
LEMMA MarkCommitOK ==
  ASSUME NEW w, WriteOK(w)
  PROVE  WriteOK(MarkCommit(w))
<1> DEFINE v == PopMark(w)
<1>1. /\ v \in Write
      /\ v.graph = w.graph /\ v.baseN = w.baseN
      /\ v.unrankable = w.unrankable /\ v.baseUnrankable = w.baseUnrankable
      /\ v.rewind = w.rewind
      /\ DOMAIN v.marks \subseteq DOMAIN w.marks
      /\ \A k \in DOMAIN v.marks : v.marks[k] = w.marks[k]
  BY PopMarkProperties
<1> HIDE DEF v
<1>2. Staged(v) = Staged(w) /\ Surviving(v) = Surviving(w)
  BY <1>1 DEF Staged, Surviving
<1>3. MarksOrdered(v)
  BY <1>1, <1>2 DEF MarksOrdered, WriteOK
<1>4. WriteOK(v)
  BY <1>1, <1>3, SameRows
<1>5. QED
  BY <1>4 DEF MarkCommit, v

\* SUBXACT_EVENT_ABORT_SUB: the rewind is the innermost line, which lies inside
\* whatever an earlier rewind kept.
LEMMA MarkAbortOK ==
  ASSUME NEW w, WriteOK(w)
  PROVE  WriteOK(MarkAbort(w))
<1> DEFINE p == PopMark(w)
           mark == TopMark(w)
           prior == IF w.rewind = None THEN mark ELSE w.rewind
           r == IF CountLeq(Staged(w), mark) THEN w.rewind ELSE CountMin(prior, mark)
           v == MarkAbort(w)
<1>1. /\ w \in Write /\ Staged(w) \in Count /\ Surviving(w) \in Count
      /\ CountLeq(Surviving(w), Staged(w))
      /\ w.marks \in Seq(Count)
      /\ \A k \in DOMAIN w.marks : w.marks[k] \in Count
  BY WriteCounts
<1>2. /\ p \in Write
      /\ p.graph = w.graph /\ p.baseN = w.baseN
      /\ p.unrankable = w.unrankable /\ p.baseUnrankable = w.baseUnrankable
      /\ p.rewind = w.rewind
      /\ DOMAIN p.marks \subseteq DOMAIN w.marks
      /\ \A k \in DOMAIN p.marks :
           p.marks[k] = w.marks[k] /\ w.marks # <<>> /\ k < Len(w.marks)
  BY PopMarkProperties
<1>3. /\ mark \in Count /\ CountLeq(mark, Surviving(w))
      /\ w.marks # <<>> =>
           Len(w.marks) \in DOMAIN w.marks /\ mark = w.marks[Len(w.marks)]
  <2>1. CASE w.marks = <<>>
    BY <1>1, <2>1 DEF TopMark, ZeroCount, Count, CountLeq
  <2>2. CASE w.marks # <<>>
    <3>1. Len(w.marks) \in Nat \ {0} /\ DOMAIN w.marks = 1 .. Len(w.marks)
      BY <1>1, <2>2, EmptySeq, LenProperties
    <3>2. Len(w.marks) \in DOMAIN w.marks
      BY <3>1
    <3>3. QED
      BY <1>1, <2>2, <3>2 DEF TopMark, WriteOK, MarksOrdered
  <2>3. QED
    BY <2>1, <2>2
<1> HIDE DEF p, mark
<1>4. CountMin(prior, mark) = mark
  <2>1. CountLeq(mark, mark)
    BY <1>3 DEF CountLeq, Count
  <2>2. prior \in Count /\ CountLeq(mark, prior)
    BY <1>1, <1>3, <2>1 DEF Surviving
  <2>3. QED
    BY <1>3, <2>2, CountMinOfLeq
<1>5. /\ v = [p EXCEPT !.rewind = r]
      /\ r \in Count \cup {None}
  <2>1. w.rewind \in Count \cup {None}
    BY <1>1 DEF Write
  <2>2. v = [p EXCEPT !.rewind = r]
    BY <1>2 DEF MarkAbort, p, mark
  <2>3. QED
    BY <1>3, <1>4, <2>1, <2>2
<1>6. /\ v \in Write
      /\ v.graph = w.graph /\ v.baseN = w.baseN
      /\ v.unrankable = w.unrankable /\ v.baseUnrankable = w.baseUnrankable
      /\ v.marks = p.marks /\ v.rewind = r
  BY <1>2, <1>5 DEF Write
<1> HIDE DEF v, r, prior
<1>7. Staged(v) = Staged(w)
  BY <1>6 DEF Staged
\* Lines outside the innermost one are inside it.
<1>8. \A k \in DOMAIN v.marks :
        v.marks[k] \in Count /\ CountLeq(v.marks[k], mark)
  <2>1. SUFFICES ASSUME NEW k \in DOMAIN p.marks
                 PROVE  w.marks[k] \in Count /\ CountLeq(w.marks[k], mark)
    BY <1>2, <1>6
  <2>2. /\ k \in DOMAIN w.marks /\ w.marks # <<>> /\ k < Len(w.marks)
        /\ Len(w.marks) \in DOMAIN w.marks /\ mark = w.marks[Len(w.marks)]
    BY <1>2, <1>3
  <2>3. k <= Len(w.marks)
    BY <1>1, <2>2, LenProperties
  <2>4. QED
    BY <1>1, <2>2, <2>3 DEF WriteOK, MarksOrdered
<1>9. /\ Surviving(v) \in Count
      /\ CountLeq(Surviving(v), Staged(v))
      /\ CountLeq(mark, Surviving(v))
  <2>1. CASE CountLeq(Staged(w), mark)
    <3>1. Surviving(v) = Surviving(w)
      BY <1>6, <1>7, <2>1 DEF Surviving, r
    <3>2. QED
      BY <1>1, <1>3, <1>7, <3>1
  <2>2. CASE ~CountLeq(Staged(w), mark)
    <3>1. v.rewind = mark /\ mark # None
      BY <1>3, <1>4, <1>6, <2>2, NoneAssumption DEF r
    <3>2. Surviving(v) = mark
      BY <3>1 DEF Surviving
    <3>3. CountLeq(mark, mark)
      BY <1>3 DEF CountLeq, Count
    <3>4. QED
      BY <1>1, <1>3, <1>7, <3>2, <3>3, CountLeqTransitive
  <2>3. QED
    BY <2>1, <2>2
<1>10. \A k \in DOMAIN v.marks : CountLeq(v.marks[k], Surviving(v))
  BY <1>3, <1>8, <1>9, CountLeqTransitive
<1>11. \A j, k \in DOMAIN v.marks : j <= k => CountLeq(v.marks[j], v.marks[k])
  BY <1>2, <1>6 DEF WriteOK, MarksOrdered
<1>12. MarksOrdered(v)
  BY <1>9, <1>10, <1>11 DEF MarksOrdered
<1>13. WriteOK(v)
  BY <1>6, <1>12, SameRows
<1>14. QED
  BY <1>13 DEF v

\* apply_mark_event keeps a staged write, or a set-aside one, in order.
LEMMA ApplyMarkEventOK ==
  ASSUME NEW w, WriteOK(w), NEW event \in MarkEvents
  PROVE  WriteOK(ApplyMarkEvent(w, event))
BY MarkStartOK, MarkCommitOK, MarkAbortOK DEF ApplyMarkEvent, MarkEvents

-----------------------------------------------------------------------------
(* The stash.                                                              *)

\* Every write set aside is in order.
StashOK(stash) == \A e \in stash : e \in Discard /\ WriteOK(e.write)

\* A subtransaction has at most one entry.
StashUnique(stash) == \A e, f \in stash : e.sub = f.sub => e = f

\* subxact_callback's loop over the stash keeps it in order.
LEMMA MarkStashOK ==
  ASSUME NEW stash, StashOK(stash), NEW event \in MarkEvents
  PROVE  StashOK(MarkStash(stash, event))
<1>1. SUFFICES ASSUME NEW e \in stash
               PROVE  LET m == [sub |-> e.sub, write |-> ApplyMarkEvent(e.write, event)]
                      IN  m \in Discard /\ WriteOK(m.write)
  BY DEF MarkStash, StashOK
<1>2. e.sub \in Nat /\ WriteOK(e.write)
  BY DEF StashOK, Discard
<1>3. WriteOK(ApplyMarkEvent(e.write, event))
  BY <1>2, ApplyMarkEventOK
<1>4. ApplyMarkEvent(e.write, event) \in Write
  BY <1>3 DEF WriteOK
<1>5. QED
  BY <1>2, <1>3, <1>4 DEF Discard

\* And it keeps one entry per subtransaction.
LEMMA MarkStashUnique ==
  ASSUME NEW stash, StashUnique(stash), NEW event
  PROVE  StashUnique(MarkStash(stash, event))
BY DEF MarkStash, StashUnique

LEMMA StashPushOK ==
  ASSUME NEW stash, StashOK(stash), NEW s \in Nat, NEW w, WriteOK(w)
  PROVE  StashOK(StashPush(stash, s, w))
BY DEF StashPush, StashOK, Discard, WriteOK

\* forget_pending sets aside only where nothing is set aside yet.
LEMMA StashPushUnique ==
  ASSUME NEW stash, StashUnique(stash), NEW s, NEW w
  PROVE  StashUnique(StashPush(stash, s, w))
<1> DEFINE n == [sub |-> s, write |-> w]
<1>1. CASE StashOf(stash, s) # {}
  BY <1>1 DEF StashPush
<1>2. CASE StashOf(stash, s) = {}
  <2>1. \A e \in stash : e.sub # s
    BY <1>2 DEF StashOf
  <2>2. StashPush(stash, s, w) = stash \cup {n} /\ n.sub = s
    BY <1>2 DEF StashPush
  <2>3. QED
    BY <2>1, <2>2 DEF StashUnique
<1>3. QED
  BY <1>1, <1>2

LEMMA StashDrainOK ==
  ASSUME NEW stash, StashOK(stash), NEW s
  PROVE  StashOK(StashDrain(stash, s))
BY DEF StashDrain, StashOK

\* What an aborting subtransaction gets back is a write in order, or nothing.
LEMMA StashRestoredOK ==
  ASSUME NEW stash, StashOK(stash), NEW s, StashRestored(stash, s) # None
  PROVE  WriteOK(StashRestored(stash, s))
<1>1. StashOf(stash, s) # {}
  BY DEF StashRestored
<1>2. (CHOOSE e \in StashOf(stash, s) : TRUE) \in stash
  BY <1>1 DEF StashOf
<1>3. QED
  BY <1>1, <1>2 DEF StashRestored, StashOK

LEMMA StashCommitOK ==
  ASSUME NEW stash, StashOK(stash), NEW s \in Nat, NEW parent \in Nat
  PROVE  StashOK(StashCommit(stash, s, parent))
<1>1. \A e \in StashOf(stash, s) :
        LET m == [sub |-> parent, write |-> e.write]
        IN  m \in Discard /\ WriteOK(m.write)
  BY DEF StashOf, StashOK, Discard
<1>2. StashOK(StashDrain(stash, s))
  BY StashDrainOK
<1>3. QED
  BY <1>1, <1>2 DEF StashCommit, StashOK

\* An entry passes to the parent only if the parent has none.
LEMMA StashCommitUnique ==
  ASSUME NEW stash, StashUnique(stash), NEW s, NEW parent
  PROVE  StashUnique(StashCommit(stash, s, parent))
<1> DEFINE kept == StashDrain(stash, s)
           moved == {[sub |-> parent, write |-> e.write] : e \in StashOf(stash, s)}
<1>1. \A e, f \in kept : e.sub = f.sub => e = f
  BY DEF StashDrain, StashUnique
<1>2. CASE StashOf(stash, parent) # {}
  BY <1>1, <1>2 DEF StashCommit, StashUnique
<1>3. CASE StashOf(stash, parent) = {}
  <2>1. \A e \in kept, f \in moved : e.sub # f.sub
    BY <1>3 DEF StashDrain, StashOf
  <2>2. \A e, f \in moved : e = f
    BY DEF StashOf, StashUnique
  <2>3. StashCommit(stash, s, parent) = kept \cup moved
    BY <1>3 DEF StashCommit
  <2>4. QED
    BY <1>1, <2>1, <2>2, <2>3 DEF StashUnique
<1>4. QED
  BY <1>2, <1>3

\* Entries stay at the subtransactions they were at, bar the released one's.
LEMMA StashCommitSubs ==
  ASSUME NEW stash, NEW s, NEW parent,
         NEW e \in StashCommit(stash, s, parent)
  PROVE  e.sub = parent \/ (e \in stash /\ e.sub # s)
BY DEF StashCommit, StashDrain, StashOf

LEMMA MarkStashSubs ==
  ASSUME NEW stash, NEW event, NEW e \in MarkStash(stash, event)
  PROVE  \E f \in stash : f.sub = e.sub
BY DEF MarkStash

LEMMA StashPushSubs ==
  ASSUME NEW stash, NEW s, NEW w, NEW e \in StashPush(stash, s, w)
  PROVE  e.sub = s \/ e \in stash
BY DEF StashPush

-----------------------------------------------------------------------------
(* The two halves of a write, with and without a vector, alike.            *)

Kinds == {"graph", "unrankable"}

KindOf(t) == IF t \in Vectorless THEN "unrankable" ELSE "graph"

Part(x, v) == IF v = "graph" THEN x.graph ELSE x.unrankable

BaseLen(w, v) == IF v = "graph" THEN w.baseN ELSE w.baseUnrankable

Num(c, v) == IF v = "graph" THEN c.nodes ELSE c.unrankable

\* The k-th row of kind v that the transaction itself staged.
StagedRow(w, v, k) == Part(w, v)[BaseLen(w, v) + k]

\* Something is staged, and nothing staged is a tombstone or of the wrong kind.
StagedShape(w) ==
  /\ Staged(w) # ZeroCount
  /\ \A v \in Kinds : \A k \in 1 .. Num(Staged(w), v) :
       LET r == StagedRow(w, v, k) IN ~r.deleted /\ KindOf(r.tid) = v

\* Row t is among the first c staged rows.
KeptRow(w, c, t) ==
  \E k \in 1 .. Num(c, KindOf(t)) : StagedRow(w, KindOf(t), k).tid = t

\* The loaded part of a write is the image.
SameBase(w, img) ==
  \A v \in Kinds :
    /\ Len(Part(img, v)) = BaseLen(w, v)
    /\ \A k \in 1 .. BaseLen(w, v) : Part(w, v)[k] = Part(img, v)[k]

\* How much of a write survives if, of n open (sub)transactions, all above the
\* f-th abort: what survives now at the top, the mark of the f+1-th below, and
\* nothing where staging had not begun.
Limit(w, n, f) ==
  LET q == f + 1 - n + Len(w.marks) IN
  IF f >= n THEN Surviving(w) ELSE IF q >= 1 THEN w.marks[q] ELSE ZeroCount

\* Equal but for marks and rewind.
SameWrite(w, x) ==
  /\ x.idx = w.idx /\ x.baseGen = w.baseGen
  /\ x.graph = w.graph /\ x.baseN = w.baseN
  /\ x.unrankable = w.unrankable /\ x.baseUnrankable = w.baseUnrankable

\* The types of a write's halves.
LEMMA PartType ==
  ASSUME NEW w, WriteOK(w), NEW v \in Kinds
  PROVE  /\ Part(w, v) \in Seq(Node) /\ Len(Part(w, v)) \in Nat
         /\ DOMAIN Part(w, v) = 1 .. Len(Part(w, v))
         /\ BaseLen(w, v) \in Nat /\ BaseLen(w, v) <= Len(Part(w, v))
         /\ Num(Staged(w), v) = Len(Part(w, v)) - BaseLen(w, v)
         /\ Num(Staged(w), v) \in Nat
<1>1. /\ w.graph \in Seq(Node) /\ w.unrankable \in Seq(Node)
      /\ w.baseN \in Nat /\ w.baseUnrankable \in Nat
      /\ w.baseN <= Len(w.graph) /\ w.baseUnrankable <= Len(w.unrankable)
  BY DEF WriteOK, Write
<1>2. Part(w, v) \in Seq(Node) /\ BaseLen(w, v) \in Nat /\ BaseLen(w, v) <= Len(Part(w, v))
  BY <1>1 DEF Part, BaseLen
<1>3. Len(Part(w, v)) \in Nat /\ DOMAIN Part(w, v) = 1 .. Len(Part(w, v))
  BY <1>2, LenProperties
<1>4. Num(Staged(w), v) = Len(Part(w, v)) - BaseLen(w, v)
  BY DEF Num, Staged, Part, BaseLen
<1>5. QED
  BY <1>2, <1>3, <1>4

\* The types of an image's halves.
LEMMA ImagePartType ==
  ASSUME NEW img \in Image, NEW v \in Kinds
  PROVE  /\ Part(img, v) \in Seq(Node) /\ Len(Part(img, v)) \in Nat
         /\ DOMAIN Part(img, v) = 1 .. Len(Part(img, v))
<1>1. Part(img, v) \in Seq(Node)
  BY DEF Image, Part
<1>2. QED
  BY <1>1, LenProperties

\* A row is of one of the two kinds.
LEMMA KindOfType == \A t : KindOf(t) \in Kinds
BY DEF KindOf, Kinds

\* A count is a number of each kind.
LEMMA NumType ==
  ASSUME NEW c \in Count, NEW v \in Kinds
  PROVE  Num(c, v) \in Nat
BY DEF Count, Num

\* Counts compare kind by kind.
LEMMA CountLeqByKind ==
  ASSUME NEW c \in Count, NEW d \in Count
  PROVE  CountLeq(c, d) <=> \A v \in Kinds : Num(c, v) <= Num(d, v)
<1>1. (\A v \in Kinds : Num(c, v) <= Num(d, v))
        <=> Num(c, "graph") <= Num(d, "graph") /\ Num(c, "unrankable") <= Num(d, "unrankable")
  BY DEF Kinds
<1>2. QED
  BY <1>1 DEF CountLeq, Num

\* No row at all is none of either kind.
LEMMA ZeroByKind ==
  ASSUME NEW c \in Count
  PROVE  /\ c = ZeroCount <=> \A v \in Kinds : Num(c, v) = 0
         /\ ZeroCount \in Count
<1>1. (\A v \in Kinds : Num(c, v) = 0)
        <=> Num(c, "graph") = 0 /\ Num(c, "unrankable") = 0
  BY DEF Kinds
<1>2. c = [nodes |-> c.nodes, unrankable |-> c.unrankable]
  BY DEF Count
<1>3. c = ZeroCount <=> c.nodes = 0 /\ c.unrankable = 0
  BY <1>2 DEF ZeroCount
<1>4. QED
  BY <1>1, <1>3 DEF Num, ZeroCount, Count

\* The live rows of an image, kind by kind.
LEMMA LiveByKind ==
  ASSUME NEW img \in Image, NEW t
  PROVE  t \in LiveTids(img) <=>
           \E v \in Kinds : \E k \in 1 .. Len(Part(img, v)) :
             ~Part(img, v)[k].deleted /\ Part(img, v)[k].tid = t
<1>1. /\ DOMAIN img.graph = 1 .. Len(img.graph)
      /\ DOMAIN img.unrankable = 1 .. Len(img.unrankable)
  BY LenProperties DEF Image
<1>2. t \in LiveIn(img.graph) <=>
        \E k \in 1 .. Len(Part(img, "graph")) :
          ~Part(img, "graph")[k].deleted /\ Part(img, "graph")[k].tid = t
  BY <1>1 DEF LiveIn, Part
<1>3. t \in LiveIn(img.unrankable) <=>
        \E k \in 1 .. Len(Part(img, "unrankable")) :
          ~Part(img, "unrankable")[k].deleted /\ Part(img, "unrankable")[k].tid = t
  BY <1>1 DEF LiveIn, Part
<1>4. QED
  BY <1>2, <1>3 DEF LiveTids, Kinds

\* What a write's rows depend on.
LEMMA SameWriteRows ==
  ASSUME NEW w, NEW x, SameWrite(w, x)
  PROVE  /\ Staged(x) = Staged(w)
         /\ \A v, k : StagedRow(x, v, k) = StagedRow(w, v, k)
         /\ \A v : BaseLen(x, v) = BaseLen(w, v) /\ Part(x, v) = Part(w, v)
         /\ StagedShape(w) => StagedShape(x)
<1>1. Staged(x) = Staged(w)
  BY DEF Staged, SameWrite
<1>2. \A v : BaseLen(x, v) = BaseLen(w, v) /\ Part(x, v) = Part(w, v)
  BY DEF SameWrite, BaseLen, Part
<1>3. \A v, k : StagedRow(x, v, k) = StagedRow(w, v, k)
  BY <1>2 DEF StagedRow
<1>4. StagedShape(w) => StagedShape(x)
  BY <1>1, <1>3 DEF StagedShape
<1>5. QED
  BY <1>1, <1>2, <1>3, <1>4

-----------------------------------------------------------------------------
(* How much of a write survives at a level.                                *)

\* At the top of the stack a write's limit is what survives now.
LEMMA LimitTop ==
  ASSUME NEW w, NEW n \in Nat
  PROVE  Limit(w, n, n) = Surviving(w)
BY DEF Limit

\* Limits are counts inside what survives, and no smaller further in.
LEMMA LimitType ==
  ASSUME NEW w, WriteOK(w), NEW n \in Nat, Len(w.marks) < n, NEW f \in 0 .. n
  PROVE  /\ Limit(w, n, f) \in Count
         /\ CountLeq(Limit(w, n, f), Surviving(w))
         /\ CountLeq(Limit(w, n, f), Staged(w))
<1> DEFINE p == Len(w.marks)
           q == f + 1 - n + p
<1>1. /\ Staged(w) \in Count /\ Surviving(w) \in Count
      /\ CountLeq(Surviving(w), Staged(w))
      /\ \A k \in DOMAIN w.marks : w.marks[k] \in Count
  BY WriteCounts
<1>0. p \in Nat /\ DOMAIN w.marks = 1 .. p
  BY WriteCounts, LenProperties
<1>2. CASE f >= n
  <2>1. CountLeq(Surviving(w), Surviving(w))
    BY <1>1 DEF CountLeq, Count
  <2>2. QED
    BY <1>1, <1>2, <2>1 DEF Limit
<1>3. CASE ~(f >= n) /\ q >= 1
  <2>1. q \in DOMAIN w.marks
    BY <1>0, <1>3
  <2>2. w.marks[q] \in Count /\ CountLeq(w.marks[q], Surviving(w))
    BY <1>1, <2>1 DEF WriteOK, MarksOrdered
  <2>3. Limit(w, n, f) = w.marks[q]
    BY <1>3 DEF Limit
  <2>4. QED
    BY <1>1, <2>2, <2>3, CountLeqTransitive
<1>4. CASE ~(f >= n) /\ ~(q >= 1)
  <2>1. Limit(w, n, f) = ZeroCount
    BY <1>4 DEF Limit
  <2>2. QED
    BY <1>1, <2>1 DEF ZeroCount, Count, CountLeq
<1>5. QED
  BY <1>2, <1>3, <1>4

\* The outer the level, the fewer rows survive.
LEMMA LimitMono ==
  ASSUME NEW w, WriteOK(w), NEW n \in Nat, Len(w.marks) < n,
         NEW f \in 0 .. n, NEW g \in 0 .. n, f <= g
  PROVE  CountLeq(Limit(w, n, f), Limit(w, n, g))
<1> DEFINE p == Len(w.marks)
           q == f + 1 - n + p
           r == g + 1 - n + p
<1>1. p \in Nat /\ DOMAIN w.marks = 1 .. p
  BY WriteCounts, LenProperties
<1>2. CASE g >= n
  BY <1>2, LimitType DEF Limit
<1>3. CASE ~(g >= n) /\ q >= 1
  <2>1. q \in DOMAIN w.marks /\ r \in DOMAIN w.marks /\ q <= r
    BY <1>1, <1>3
  <2>2. Limit(w, n, f) = w.marks[q] /\ Limit(w, n, g) = w.marks[r]
    BY <1>1, <1>3, <2>1 DEF Limit
  <2>3. QED
    BY <2>1, <2>2 DEF WriteOK, MarksOrdered
<1>4. CASE ~(g >= n) /\ ~(q >= 1)
  <2>1. Limit(w, n, f) = ZeroCount
    BY <1>4 DEF Limit
  <2>2. Limit(w, n, g) \in Count
    BY LimitType
  <2>3. QED
    BY <2>1, <2>2 DEF ZeroCount, Count, CountLeq
<1>5. QED
  BY <1>2, <1>3, <1>4

\* Nothing survives below a level at which nothing does.
LEMMA LimitZero ==
  ASSUME NEW w, WriteOK(w), NEW n \in Nat, Len(w.marks) < n,
         NEW f \in 0 .. n, NEW g \in 0 .. n, f <= g, Limit(w, n, g) = ZeroCount
  PROVE  Limit(w, n, f) = ZeroCount
<1>1. CountLeq(Limit(w, n, f), ZeroCount) /\ Limit(w, n, f) \in Count
  BY LimitMono, LimitType
<1>2. \A v \in Kinds : Num(Limit(w, n, f), v) \in Nat /\ Num(ZeroCount, v) = 0
  BY <1>1, NumType DEF Num, ZeroCount
<1>3. \A v \in Kinds : Num(Limit(w, n, f), v) <= Num(ZeroCount, v)
  BY <1>1, CountLeqByKind, ZeroByKind
<1>4. \A v \in Kinds : Num(Limit(w, n, f), v) = 0
  BY <1>2, <1>3
<1>5. QED
  BY <1>1, <1>4, ZeroByKind

\* A write that stages something survives at the top exactly unless it is rewound
\* to nothing.
LEMMA LimitTopZero ==
  ASSUME NEW w, WriteOK(w), Staged(w) # ZeroCount, NEW n \in Nat
  PROVE  Limit(w, n, n) = ZeroCount <=> w.rewind = ZeroCount
<1>1. ZeroCount # None
  BY NoneAssumption, ZeroByKind DEF Count, ZeroCount
<1>2. QED
  BY <1>1, LimitTop DEF Surviving

\* A SAVEPOINT draws its line where the write is.
LEMMA LimitStart ==
  ASSUME NEW w, WriteOK(w), NEW n \in Nat, Len(w.marks) < n
  PROVE  /\ SameWrite(w, MarkStart(w))
         /\ Len(MarkStart(w).marks) < n + 1
         /\ \A f \in 0 .. n : Limit(MarkStart(w), n + 1, f) = Limit(w, n, f)
         /\ Limit(MarkStart(w), n + 1, n + 1) = Surviving(w)
<1> DEFINE c == CountMin(Surviving(w), Staged(w))
           x == [w EXCEPT !.marks = Append(@, c)]
<1>0. PICK p \in Nat : p = Len(w.marks) /\ DOMAIN w.marks = 1 .. p /\ p < n
  BY WriteCounts, LenProperties
<1>1. /\ w \in Write /\ Staged(w) \in Count /\ Surviving(w) \in Count
      /\ CountLeq(Surviving(w), Staged(w))
      /\ w.marks \in Seq(Count)
  BY WriteCounts
<1>2. c = Surviving(w) /\ x = MarkStart(w)
  BY <1>1, CountMinOfLeq DEF MarkStart
<1> HIDE DEF c
<1>3. /\ Len(Append(w.marks, c)) = p + 1
      /\ \A k \in 1 .. p : Append(w.marks, c)[k] = w.marks[k]
      /\ Append(w.marks, c)[p + 1] = c
  BY <1>0, <1>1, <1>2, AppendProperties
<1>4. SameWrite(w, x) /\ x.marks = Append(w.marks, c) /\ x.rewind = w.rewind
  BY <1>1 DEF SameWrite, Write
<1> HIDE DEF x
<1>5. Surviving(x) = Surviving(w)
  BY <1>4, SameWriteRows DEF Surviving
<1>10. Len(x.marks) = p + 1
  BY <1>3, <1>4
<1>6. ASSUME NEW f \in 0 .. n
      PROVE  Limit(x, n + 1, f) = Limit(w, n, f)
  <2> DEFINE q == f + 1 - n + p
  <2>1. /\ f + 1 - (n + 1) + Len(x.marks) = q /\ ~(f >= n + 1)
    BY <1>10
  <2>2. CASE f = n
    <3>1. q = p + 1 /\ p + 1 >= 1
      BY <1>10, <2>2
    <3>2. f + 1 - (n + 1) + Len(x.marks) = p + 1 /\ ~(f >= n + 1) /\ p + 1 >= 1
      BY <2>1, <3>1
    <3>4. Limit(x, n + 1, f) = x.marks[p + 1]
      BY <3>2, Zenon DEF Limit
    <3>3. QED
      BY <1>2, <1>3, <1>4, <2>2, <3>4, LimitTop
  <2>3. CASE f # n /\ q >= 1
    <3>1. q \in 1 .. p /\ ~(f >= n)
      BY <1>10, <2>3
    <3>2. QED
      BY <1>0, <1>3, <1>4, <2>1, <2>3, <3>1 DEF Limit
  <2>4. CASE f # n /\ ~(q >= 1)
    <3>1. ~(f >= n)
      BY <2>4
    <3>2. QED
      BY <1>0, <2>1, <2>4, <3>1 DEF Limit
  <2>5. QED
    BY <2>2, <2>3, <2>4
<1>7. Limit(x, n + 1, n + 1) = Surviving(w)
  BY <1>5, LimitTop
<1>8. Len(x.marks) < n + 1
  BY <1>0, <1>10
<1>9. QED
  BY <1>2, <1>4, <1>6, <1>7, <1>8

\* What a write has below the innermost line once that line is gone.
LEMMA LimitPop ==
  ASSUME NEW w, WriteOK(w), NEW n \in Nat, Len(w.marks) < n, n > 1,
         NEW x, x.marks = PopMark(w).marks
  PROVE  /\ Len(x.marks) < n - 1
         /\ \A f \in 0 .. n - 2 : Limit(x, n - 1, f) = Limit(w, n, f)
         /\ Limit(w, n, n - 1) = TopMark(w)
<1>0. PICK p \in Nat : p = Len(w.marks) /\ DOMAIN w.marks = 1 .. p /\ p < n
  BY WriteCounts, LenProperties
<1>1. /\ w \in Write /\ w.marks \in Seq(Count)
      /\ \A k \in 1 .. p : w.marks[k] \in Count
  BY <1>0, WriteCounts
<1>2. CASE w.marks = <<>>
  <2>1. p = 0 /\ x.marks = w.marks
    <3>1. PopMark(w).marks = <<>>
      BY <1>1, <1>2 DEF PopMark, Write
    <3>2. QED
      BY <1>0, <1>1, <1>2, <3>1, EmptySeq
  <2>2. ASSUME NEW f \in 0 .. n - 2
        PROVE  Limit(x, n - 1, f) = ZeroCount /\ Limit(w, n, f) = ZeroCount
    <3>1. /\ ~(f >= n - 1) /\ ~(f >= n)
          /\ ~(f + 1 - n + 0 >= 1)
          /\ ~(f + 1 - (n - 1) + 0 >= 1)
      OBVIOUS
    <3>2. Len(w.marks) = 0 /\ Len(x.marks) = 0
      BY <1>0, <2>1
    <3>3. QED
      BY <3>1, <3>2 DEF Limit
  <2>3. Limit(w, n, n - 1) = ZeroCount
    <3>1. ~(n - 1 >= n) /\ ~(n - 1 + 1 - n + 0 >= 1)
      OBVIOUS
    <3>2. Len(w.marks) = 0
      BY <1>0, <2>1
    <3>3. QED
      BY <3>1, <3>2 DEF Limit
  <2>4. QED
    BY <1>0, <1>2, <2>1, <2>2, <2>3 DEF TopMark
<1>3. CASE w.marks # <<>>
  <2>1. p \in Nat \ {0}
    BY <1>0, <1>1, <1>3, EmptySeq
  <2>2. x.marks = SubSeq(w.marks, 1, p - 1)
    BY <1>0, <1>1, <1>3 DEF PopMark, Write
  <2>3. Len(x.marks) = p - 1 /\ \A k \in 1 .. p - 1 : x.marks[k] = w.marks[k]
    <3> DEFINE s == w.marks
               e == p - 1
    <3>1. /\ 1 \in Int /\ e \in Int /\ \A k \in 1 .. e : s[k] \in Count
      BY <1>1, <2>1
    <3> HIDE DEF s, e
    <3>2. /\ Len(SubSeq(s, 1, e)) = IF 1 <= e THEN e - 1 + 1 ELSE 0
          /\ \A k \in 1 .. e - 1 + 1 : SubSeq(s, 1, e)[k] = s[1 + k - 1]
      BY <3>1, SubSeqProperties
    <3>3. \A k \in 1 .. e : 1 + k - 1 = k /\ e - 1 + 1 = e
      BY <3>1
    <3>4. Len(SubSeq(s, 1, e)) = e /\ \A k \in 1 .. e : SubSeq(s, 1, e)[k] = s[k]
      BY <2>1, <3>1, <3>2, <3>3 DEF e
    <3>5. QED
      BY <2>2, <3>4 DEF s, e
  <2>7. Len(x.marks) = p - 1
    BY <2>3
  <2>4. ASSUME NEW f \in 0 .. n - 2
        PROVE  Limit(x, n - 1, f) = Limit(w, n, f)
    <3> DEFINE q == f + 1 - n + p
    <3>1. f + 1 - (n - 1) + Len(x.marks) = q /\ ~(f >= n) /\ ~(f >= n - 1)
      BY <2>1, <2>7
    <3>2. CASE q >= 1
      <4>1. q \in 1 .. p - 1
        BY <2>1, <3>2
      <4>2. QED
        BY <1>0, <2>3, <3>1, <3>2, <4>1 DEF Limit
    <3>3. CASE ~(q >= 1)
      BY <1>0, <3>1, <3>3 DEF Limit
    <3>4. QED
      BY <3>2, <3>3
  <2>5. Limit(w, n, n - 1) = TopMark(w)
    <3>1. n - 1 + 1 - n + p = p /\ p >= 1 /\ ~(n - 1 >= n)
      BY <2>1
    <3>2. QED
      BY <1>0, <1>3, <3>1 DEF Limit, TopMark
  <2>6. QED
    BY <1>0, <2>1, <2>3, <2>4, <2>5
<1>4. QED
  BY <1>2, <1>3

\* A RELEASE gives the parent what the subtransaction had.
LEMMA LimitCommit ==
  ASSUME NEW w, WriteOK(w), NEW n \in Nat, Len(w.marks) < n, n > 1
  PROVE  /\ SameWrite(w, MarkCommit(w))
         /\ Len(MarkCommit(w).marks) < n - 1
         /\ \A f \in 0 .. n - 2 : Limit(MarkCommit(w), n - 1, f) = Limit(w, n, f)
         /\ Limit(MarkCommit(w), n - 1, n - 1) = Surviving(w)
<1> DEFINE x == MarkCommit(w)
<1>1. SameWrite(w, x) /\ x.rewind = w.rewind /\ x.marks = PopMark(w).marks
  BY PopMarkProperties, WriteCounts DEF SameWrite, MarkCommit, PopMark, Write
<1> HIDE DEF x
<1>2. Surviving(x) = Surviving(w)
  BY <1>1, SameWriteRows DEF Surviving
<1>3. Limit(x, n - 1, n - 1) = Surviving(w)
  BY <1>2, LimitTop
<1>4. /\ Len(x.marks) < n - 1
      /\ \A f \in 0 .. n - 2 : Limit(x, n - 1, f) = Limit(w, n, f)
  BY <1>1, LimitPop
<1>5. QED
  BY <1>1, <1>3, <1>4 DEF x

\* A ROLLBACK TO leaves what the line keeps.
LEMMA LimitAbort ==
  ASSUME NEW w, WriteOK(w), Staged(w) # ZeroCount,
         NEW n \in Nat, Len(w.marks) < n, n > 1
  PROVE  /\ SameWrite(w, MarkAbort(w))
         /\ Len(MarkAbort(w).marks) < n - 1
         /\ \A f \in 0 .. n - 1 : Limit(MarkAbort(w), n - 1, f) = Limit(w, n, f)
<1> DEFINE x == MarkAbort(w)
           mark == TopMark(w)
           prior == IF w.rewind = None THEN mark ELSE w.rewind
           r == IF CountLeq(Staged(w), mark) THEN w.rewind ELSE CountMin(prior, mark)
<1>1. /\ PopMark(w) \in Write /\ PopMark(w).rewind = w.rewind /\ w \in Write
      /\ SameWrite(w, PopMark(w))
  BY PopMarkProperties, WriteCounts DEF SameWrite, PopMark, Write
<1>2. x = [PopMark(w) EXCEPT !.rewind = r]
  BY <1>1 DEF MarkAbort
<1>3. SameWrite(w, x) /\ x.rewind = r /\ x.marks = PopMark(w).marks
  BY <1>1, <1>2 DEF SameWrite, Write
<1>4. /\ Len(x.marks) < n - 1
      /\ \A f \in 0 .. n - 2 : Limit(x, n - 1, f) = Limit(w, n, f)
      /\ Limit(w, n, n - 1) = mark
  BY <1>3, LimitPop
<1>5. /\ mark \in Count /\ CountLeq(mark, Surviving(w)) /\ Surviving(w) \in Count
      /\ CountLeq(Surviving(w), Staged(w)) /\ Staged(w) \in Count
  <2>1. n - 1 \in 0 .. n
    OBVIOUS
  <2>2. QED
    BY <1>4, <2>1, LimitType, WriteCounts
<1> HIDE DEF x, mark
<1>6. Surviving(x) = mark
  <2>1. CASE CountLeq(Staged(w), mark)
    <3>1. CountLeq(Surviving(w), mark)
      BY <1>5, <2>1, CountLeqTransitive
    <3>2. /\ Surviving(w) = [nodes |-> Surviving(w).nodes,
                             unrankable |-> Surviving(w).unrankable]
          /\ mark = [nodes |-> mark.nodes, unrankable |-> mark.unrankable]
      BY <1>5 DEF Count
    <3>3. Surviving(w).nodes = mark.nodes /\ Surviving(w).unrankable = mark.unrankable
      BY <1>5, <3>1 DEF Count, CountLeq
    <3>4. Surviving(w) = mark
      BY <3>2, <3>3
    <3>5. Surviving(x) = Surviving(w)
      BY <1>3, <2>1, SameWriteRows DEF Surviving
    <3>6. QED
      BY <3>4, <3>5
  <2>2. CASE ~CountLeq(Staged(w), mark)
    <3>1. CountLeq(mark, mark)
      BY <1>5 DEF CountLeq, Count
    <3>2. prior \in Count /\ CountLeq(mark, prior)
      BY <1>1, <1>5, <3>1 DEF Surviving, Write
    <3>3. CountMin(prior, mark) = mark
      BY <1>5, <3>2, CountMinOfLeq
    <3>4. x.rewind = mark /\ mark # None
      BY <1>3, <1>5, <2>2, <3>3, NoneAssumption
    <3>5. QED
      BY <3>4 DEF Surviving
  <2>3. QED
    BY <2>1, <2>2
<1>7. Limit(x, n - 1, n - 1) = Limit(w, n, n - 1)
  BY <1>4, <1>6, LimitTop
<1>8. \A f \in 0 .. n - 1 : f \in 0 .. n - 2 \/ f = n - 1
  OBVIOUS
<1>9. QED
  BY <1>3, <1>4, <1>7, <1>8 DEF x

-----------------------------------------------------------------------------
(* What the operations do to the staged rows.                              *)

\* The rows of a slice.
LEMMA NodesSliceAt ==
  ASSUME NEW s \in Seq(Node), NEW m \in Nat, NEW n \in Nat, m + n <= Len(s),
         NEW k \in 1 .. n
  PROVE  SubSeq(s, m + 1, m + n)[k] = s[m + k]
<1>1. Len(s) \in Nat
  BY LenProperties
<1>2. ASSUME NEW j \in m + 1 .. m + n
      PROVE  s[j] \in Node
  <2>1. j \in 1 .. Len(s)
    BY <1>1
  <2>2. QED
    BY <2>1, ElementOfSeq
<1>3. \A j \in 1 .. m + n - (m + 1) + 1 :
        SubSeq(s, m + 1, m + n)[j] = s[m + 1 + j - 1]
  BY <1>2, SubSeqProperties
<1>4. k \in 1 .. m + n - (m + 1) + 1 /\ m + 1 + k - 1 = m + k
  OBVIOUS
<1>5. QED
  BY <1>3, <1>4

\* The slice of either kind that a settle or a flush takes.
StagedPart(w, v, n) == SubSeq(Part(w, v), BaseLen(w, v) + 1, BaseLen(w, v) + n)

\* It holds the staged rows, in the order they were staged.
LEMMA StagedPartAt ==
  ASSUME NEW w, WriteOK(w), NEW v \in Kinds, NEW n \in Nat, n <= Num(Staged(w), v)
  PROVE  /\ StagedPart(w, v, n) \in Seq(Node) /\ Len(StagedPart(w, v, n)) = n
         /\ \A k \in 1 .. n : StagedPart(w, v, n)[k] = StagedRow(w, v, k)
<1>1. /\ Part(w, v) \in Seq(Node) /\ BaseLen(w, v) \in Nat
      /\ Len(Part(w, v)) \in Nat
      /\ Num(Staged(w), v) = Len(Part(w, v)) - BaseLen(w, v)
  BY PartType
<1>2. BaseLen(w, v) + n <= Len(Part(w, v))
  BY <1>1
<1>3. QED
  BY <1>1, <1>2, NodesSlice, NodesSliceAt DEF StagedPart, StagedRow

\* An image's rows with the staged ones behind them.
LEMMA ConcatAt ==
  ASSUME NEW s \in Seq(Node), NEW u \in Seq(Node)
  PROVE  /\ s \o u \in Seq(Node) /\ Len(s \o u) = Len(s) + Len(u)
         /\ \A k \in 1 .. Len(s) : (s \o u)[k] = s[k]
         /\ \A k \in 1 .. Len(u) : (s \o u)[Len(s) + k] = u[k]
<1>1. Len(s) \in Nat /\ Len(u) \in Nat
  BY LenProperties
<1>2. /\ s \o u \in Seq(Node) /\ Len(s \o u) = Len(s) + Len(u)
      /\ \A k \in 1 .. Len(s) + Len(u) :
           (s \o u)[k] = IF k <= Len(s) THEN s[k] ELSE u[k - Len(s)]
  BY ConcatProperties
<1>3. ASSUME NEW k \in 1 .. Len(u)
      PROVE  (s \o u)[Len(s) + k] = u[k]
  <2> DEFINE j == Len(s) + k
  <2>1. j \in 1 .. Len(s) + Len(u) /\ ~(j <= Len(s)) /\ j - Len(s) = k
    BY <1>1
  <2> HIDE DEF j
  <2>2. (s \o u)[j] = u[k]
    BY <1>2, <2>1
  <2>3. QED
    BY <2>2 DEF j
<1>4. ASSUME NEW k \in 1 .. Len(s)
      PROVE  (s \o u)[k] = s[k]
  <2>1. k \in 1 .. Len(s) + Len(u) /\ k <= Len(s)
    BY <1>1
  <2>2. QED
    BY <1>2, <2>1
<1>5. QED
  BY <1>2, <1>3, <1>4

\* A row that survives among fewer survives among more.
LEMMA KeptMono ==
  ASSUME NEW w, NEW t, NEW c \in Count, NEW d \in Count, CountLeq(c, d), KeptRow(w, c, t)
  PROVE  KeptRow(w, d, t)
<1>1. KindOf(t) \in Kinds
  BY KindOfType
<1>2. Num(c, KindOf(t)) \in Nat /\ Num(d, KindOf(t)) \in Nat
      /\ Num(c, KindOf(t)) <= Num(d, KindOf(t))
  BY <1>1, CountLeqByKind, NumType
<1>3. QED
  BY <1>2 DEF KeptRow

\* Marks and rewind aside, what is kept is the same.
LEMMA KeptSame ==
  ASSUME NEW w, NEW x, SameWrite(w, x)
  PROVE  \A c, t : KeptRow(x, c, t) <=> KeptRow(w, c, t)
BY SameWriteRows DEF KeptRow

\* Of no rows none is kept.
LEMMA NoneKept ==
  ASSUME NEW w, NEW t
  PROVE  ~KeptRow(w, ZeroCount, t)
<1>1. Num(ZeroCount, KindOf(t)) = 0
  BY DEF Num, ZeroCount
<1>2. QED
  BY <1>1 DEF KeptRow

\* The surviving rows, kind by kind.
LEMMA SurvivingKept ==
  ASSUME NEW w, WriteOK(w), StagedShape(w), NEW t
  PROVE  t \in SurvivingTids(w) <=> KeptRow(w, Surviving(w), t)
<1> DEFINE c == Surviving(w)
           Has(v) == \E k \in 1 .. Num(c, v) : StagedRow(w, v, k).tid = t
<1>1. c \in Count /\ CountLeq(c, Staged(w)) /\ Staged(w) \in Count
  BY WriteCounts
<1>2. \A v \in Kinds : Num(c, v) \in Nat /\ Num(Staged(w), v) \in Nat
                       /\ Num(c, v) <= Num(Staged(w), v)
  BY <1>1, CountLeqByKind, NumType
<1>3. ASSUME NEW v \in Kinds
      PROVE  t \in LiveIn(StagedPart(w, v, Num(c, v))) <=> Has(v)
  <2> DEFINE s == StagedPart(w, v, Num(c, v))
  <2>1. /\ DOMAIN s = 1 .. Num(c, v)
        /\ \A k \in 1 .. Num(c, v) : s[k] = StagedRow(w, v, k)
    BY <1>2, StagedPartAt, LenProperties
  <2>2. \A k \in 1 .. Num(c, v) : ~StagedRow(w, v, k).deleted
    BY <1>2 DEF StagedShape
  <2> HIDE DEF s
  <2>3. t \in LiveIn(s) <=> Has(v)
    BY <2>1, <2>2 DEF LiveIn
  <2>4. QED
    BY <2>3 DEF s
<1>4. /\ StagedNodes(w, c.nodes) = StagedPart(w, "graph", Num(c, "graph"))
      /\ StagedUnrankable(w, c.unrankable)
           = StagedPart(w, "unrankable", Num(c, "unrankable"))
  BY DEF StagedNodes, StagedUnrankable, StagedPart, Part, BaseLen, Num
<1>5. t \in SurvivingTids(w) <=> Has("graph") \/ Has("unrankable")
  <2>1. "graph" \in Kinds /\ "unrankable" \in Kinds
    BY DEF Kinds
  <2>2. QED
    BY <1>3, <1>4, <2>1 DEF SurvivingTids
<1>6. ASSUME NEW v \in Kinds, Has(v)
      PROVE  KindOf(t) = v
  <2>1. PICK k \in 1 .. Num(c, v) : StagedRow(w, v, k).tid = t
    BY <1>6
  <2>2. k \in 1 .. Num(Staged(w), v)
    BY <1>2
  <2>3. QED
    BY <2>1, <2>2 DEF StagedShape
<1>7. KeptRow(w, c, t) <=> Has(KindOf(t))
  BY DEF KeptRow
<1> HIDE DEF Has, c
<1>8. "graph" \in Kinds /\ "unrankable" \in Kinds /\ KindOf(t) \in {"graph", "unrankable"}
  BY KindOfType DEF Kinds
<1>9. KeptRow(w, c, t) <=> Has("graph") \/ Has("unrankable")
  BY <1>6, <1>7, <1>8
<1>10. QED
  BY <1>5, <1>9 DEF c

\* A freshly loaded write.
LEMMA LoadedParts ==
  ASSUME NEW i \in Indexes, NEW img \in Image
  PROVE  LET x == Loaded(i, img) IN
         /\ x.idx = i /\ x.baseGen = img.gen /\ x.marks = <<>> /\ x.rewind = None
         /\ SameBase(x, img)
         /\ \A v \in Kinds : Num(Staged(x), v) = 0
<1> DEFINE x == Loaded(i, img)
<1>1. /\ x.idx = i /\ x.baseGen = img.gen /\ x.marks = <<>> /\ x.rewind = None
      /\ x.graph = img.graph /\ x.unrankable = img.unrankable
      /\ x.baseN = Len(img.graph) /\ x.baseUnrankable = Len(img.unrankable)
  BY DEF Loaded
<1> HIDE DEF x
<1>2. Len(img.graph) \in Nat /\ Len(img.unrankable) \in Nat
  BY LenProperties DEF Image
<1>3. SameBase(x, img)
  BY <1>1 DEF SameBase, Part, BaseLen, Kinds
<1>4. \A v \in Kinds : Num(Staged(x), v) = 0
  BY <1>1, <1>2 DEF Staged, Num, Kinds
<1>5. QED
  BY <1>1, <1>3, <1>4 DEF x

\* A pushed row lands behind the staged ones of its kind.
LEMMA PushParts ==
  ASSUME NEW w, WriteOK(w), w.rewind = None, NEW t \in Tids
  PROVE  LET x == PushRow(w, t) IN
         /\ x.idx = w.idx /\ x.baseGen = w.baseGen /\ x.marks = w.marks
         /\ x.rewind = None /\ Surviving(x) = Staged(x) /\ Surviving(w) = Staged(w)
         /\ \A v \in Kinds :
              /\ BaseLen(x, v) = BaseLen(w, v)
              /\ Num(Staged(x), v) = Num(Staged(w), v) + (IF v = KindOf(t) THEN 1 ELSE 0)
              /\ \A k \in 1 .. Len(Part(w, v)) : Part(x, v)[k] = Part(w, v)[k]
              /\ \A k \in 1 .. Num(Staged(w), v) : StagedRow(x, v, k) = StagedRow(w, v, k)
         /\ StagedRow(x, KindOf(t), Num(Staged(w), KindOf(t)) + 1) = LiveNode(t)
<1> DEFINE x == PushRow(w, t)
<1>1. /\ w \in Write /\ LiveNode(t) \in Node
  BY DEF WriteOK, LiveNode, Node
<1>2. /\ x.idx = w.idx /\ x.baseGen = w.baseGen /\ x.marks = w.marks /\ x.rewind = w.rewind
      /\ x.baseN = w.baseN /\ x.baseUnrankable = w.baseUnrankable
  BY <1>1 DEF PushRow, Write
<1>3. \A v \in Kinds : Part(x, v) = IF v = KindOf(t) THEN Append(Part(w, v), LiveNode(t))
                                    ELSE Part(w, v)
  BY <1>1 DEF PushRow, Write, Part, KindOf, Kinds
<1>4. WriteOK(x)
  BY PushRowOK
<1> HIDE DEF x
<1>5. \A v : BaseLen(x, v) = BaseLen(w, v)
  BY <1>2 DEF BaseLen
<1>6. ASSUME NEW v \in Kinds
      PROVE  /\ Num(Staged(x), v) = Num(Staged(w), v) + (IF v = KindOf(t) THEN 1 ELSE 0)
             /\ \A k \in 1 .. Len(Part(w, v)) : Part(x, v)[k] = Part(w, v)[k]
             /\ \A k \in 1 .. Num(Staged(w), v) : StagedRow(x, v, k) = StagedRow(w, v, k)
             /\ v = KindOf(t) => StagedRow(x, v, Num(Staged(w), v) + 1) = LiveNode(t)
  <2> DEFINE p == Part(w, v)
             n == BaseLen(w, v)
  <2>1. /\ p \in Seq(Node) /\ Len(p) \in Nat /\ n \in Nat /\ n <= Len(p)
        /\ Num(Staged(w), v) = Len(p) - n
        /\ Num(Staged(x), v) = Len(Part(x, v)) - n
    BY <1>4, <1>5, PartType
  <2> HIDE DEF p, n
  <2>2. CASE v = KindOf(t)
    <3>1. Part(x, v) = Append(p, LiveNode(t))
      BY <1>3, <2>2 DEF p
    <3>2. /\ Len(Part(x, v)) = Len(p) + 1
          /\ \A k \in 1 .. Len(p) : Part(x, v)[k] = p[k]
          /\ Part(x, v)[Len(p) + 1] = LiveNode(t)
      BY <1>1, <2>1, <3>1, AppendProperties
    <3>3. PICK l \in Nat : l = Len(p)
      BY <2>1
    <3>4. Num(Staged(w), v) = l - n /\ Num(Staged(x), v) = l + 1 - n /\ n <= l
      BY <2>1, <3>2, <3>3
    <3>5. \A k \in 1 .. Num(Staged(w), v) : n + k \in 1 .. l
      BY <2>1, <3>4
    <3>6. n + (Num(Staged(w), v) + 1) = l + 1
      BY <2>1, <3>4
    <3>7. \A k \in 1 .. Num(Staged(w), v) : StagedRow(x, v, k) = StagedRow(w, v, k)
      BY <1>5, <3>2, <3>3, <3>5 DEF StagedRow, n, p
    <3>8. StagedRow(x, v, Num(Staged(w), v) + 1) = Part(x, v)[l + 1]
      BY <1>5, <3>6 DEF StagedRow, n
    <3>9. l + 1 - n = l - n + 1
      BY <2>1
    <3>10. QED
      BY <2>2, <3>2, <3>3, <3>4, <3>7, <3>8, <3>9 DEF p
  <2>3. CASE v # KindOf(t)
    <3>1. Part(x, v) = p
      BY <1>3, <2>3 DEF p
    <3>2. \A k \in 1 .. Num(Staged(w), v) : StagedRow(x, v, k) = StagedRow(w, v, k)
      BY <1>5, <3>1 DEF StagedRow, p
    <3>3. Num(Staged(x), v) = Num(Staged(w), v) /\ Num(Staged(w), v) \in Nat
      BY <2>1, <3>1
    <3>4. QED
      BY <2>3, <3>1, <3>2, <3>3 DEF p
  <2>4. QED
    BY <2>2, <2>3
<1>7. Surviving(x) = Staged(x) /\ Surviving(w) = Staged(w)
  BY <1>2 DEF Surviving
<1>8. KindOf(t) \in Kinds
  BY KindOfType
<1>9. QED
  BY <1>2, <1>5, <1>6, <1>7, <1>8 DEF x

\* A settled write stages what survived, on the image as it is.
LEMMA SettledParts ==
  ASSUME NEW w, WriteOK(w), w.rewind # None, NEW img \in Image
  PROVE  LET x == Settled(w, img) IN
         /\ x.idx = w.idx /\ x.baseGen = img.gen /\ x.marks = w.marks /\ x.rewind = None
         /\ Staged(x) = w.rewind /\ Surviving(x) = Surviving(w)
         /\ SameBase(x, img)
         /\ \A v \in Kinds : \A k \in 1 .. Num(w.rewind, v) :
              StagedRow(x, v, k) = StagedRow(w, v, k)
         /\ \A n, f : Limit(x, n, f) = Limit(w, n, f)
<1> DEFINE x == Settled(w, img)
           c == w.rewind
<1>1. /\ w \in Write /\ c \in Count /\ Surviving(w) = c /\ CountLeq(c, Staged(w))
      /\ Staged(w) \in Count
  BY WriteCounts DEF WriteOK, Write, Surviving, MarksOrdered
<1>2. /\ x.idx = w.idx /\ x.baseGen = img.gen /\ x.marks = w.marks /\ x.rewind = None
  BY DEF Settled
<1>3. \A v \in Kinds : /\ Part(x, v) = Part(img, v) \o StagedPart(w, v, Num(c, v))
                       /\ BaseLen(x, v) = Len(Part(img, v))
  BY DEF Settled, Part, StagedPart, StagedNodes, StagedUnrankable, BaseLen, Num, Kinds
<1>4. WriteOK(x)
  BY SettledOK
<1> HIDE DEF x, c
<1>5. ASSUME NEW v \in Kinds
      PROVE  /\ Num(Staged(x), v) = Num(c, v)
             /\ \A k \in 1 .. BaseLen(x, v) : Part(x, v)[k] = Part(img, v)[k]
             /\ \A k \in 1 .. Num(c, v) : StagedRow(x, v, k) = StagedRow(w, v, k)
  <2> DEFINE u == StagedPart(w, v, Num(c, v))
             s == Part(img, v)
  <2>1. Num(c, v) \in Nat /\ Num(c, v) <= Num(Staged(w), v)
    BY <1>1, CountLeqByKind, NumType
  <2>2. /\ u \in Seq(Node) /\ Len(u) = Num(c, v)
        /\ \A k \in 1 .. Num(c, v) : u[k] = StagedRow(w, v, k)
    BY <2>1, StagedPartAt
  <2>3. s \in Seq(Node) /\ Len(s) \in Nat
    BY ImagePartType
  <2> HIDE DEF s, u
  <2>4. /\ Part(x, v) = s \o u /\ BaseLen(x, v) = Len(s)
        /\ Len(s \o u) = Len(s) + Len(u)
        /\ \A k \in 1 .. Len(s) : (s \o u)[k] = s[k]
        /\ \A k \in 1 .. Len(u) : (s \o u)[Len(s) + k] = u[k]
    BY <1>3, <2>2, <2>3, ConcatAt DEF s, u
  <2>5. Num(Staged(x), v) = Len(s) + Num(c, v) - Len(s)
    BY <1>4, <2>2, <2>4, PartType, SMTT(30)
  <2>6. Num(Staged(x), v) = Num(c, v)
    BY <2>1, <2>3, <2>5
  <2>7. QED
    BY <2>2, <2>4, <2>6 DEF StagedRow, s
<1>6. Staged(x) = c
  <2>1. Staged(x) \in Count
    BY <1>4, WriteCounts
  <2>2. Num(Staged(x), "graph") = Num(c, "graph")
        /\ Num(Staged(x), "unrankable") = Num(c, "unrankable")
    BY <1>5 DEF Kinds
  <2>3. /\ Staged(x) = [nodes |-> Staged(x).nodes, unrankable |-> Staged(x).unrankable]
        /\ c = [nodes |-> c.nodes, unrankable |-> c.unrankable]
    BY <1>1, <2>1 DEF Count
  <2>4. QED
    BY <2>2, <2>3 DEF Num
<1>7. Surviving(x) = Surviving(w)
  BY <1>1, <1>2, <1>6 DEF Surviving
<1>8. \A n, f : Limit(x, n, f) = Limit(w, n, f)
  BY <1>2, <1>7 DEF Limit
<1>9. SameBase(x, img)
  BY <1>3, <1>5 DEF SameBase
<1>10. QED
  BY <1>2, <1>5, <1>6, <1>7, <1>8, <1>9 DEF x, c

\* What a flush writes: the image's rows with the staged ones behind them, also
\* where it writes the staged graph as it is.
LEMMA WrittenParts ==
  ASSUME NEW w, WriteOK(w), NEW img \in Image,
         w.baseGen = img.gen => SameBase(w, img), NEW v \in Kinds
  PROVE  LET y == Written(w, img) IN
         /\ y \in Image /\ y.gen = img.gen + 1
         /\ Len(Part(y, v)) = Len(Part(img, v)) + Num(Staged(w), v)
         /\ \A k \in 1 .. Len(Part(img, v)) : Part(y, v)[k] = Part(img, v)[k]
         /\ \A k \in 1 .. Num(Staged(w), v) :
              Part(y, v)[Len(Part(img, v)) + k] = StagedRow(w, v, k)
<1> DEFINE y == Written(w, img)
           n == Num(Staged(w), v)
           s == Part(img, v)
<1>1. y \in Image /\ y.gen = img.gen + 1
  BY WrittenType DEF Written
<1>2. Part(y, v) = IF img.gen = w.baseGen THEN Part(w, v)
                   ELSE s \o StagedPart(w, v, n)
  BY DEF Written, Part, StagedPart, StagedNodes, StagedUnrankable, BaseLen, Num, Kinds
<1> HIDE DEF y
<1>3. /\ n \in Nat /\ n = Len(Part(w, v)) - BaseLen(w, v)
      /\ Len(Part(w, v)) \in Nat /\ BaseLen(w, v) \in Nat
  BY PartType
<1>4. s \in Seq(Node) /\ Len(s) \in Nat
  BY ImagePartType
<1>5. CASE img.gen = w.baseGen
  <2>1. /\ Len(s) = BaseLen(w, v)
        /\ \A k \in 1 .. BaseLen(w, v) : Part(w, v)[k] = s[k]
    BY <1>5 DEF SameBase
  <2>2. Part(y, v) = Part(w, v) /\ Len(Part(w, v)) = Len(s) + n
    BY <1>2, <1>3, <1>5, <2>1
  <2>3. QED
    BY <1>1, <2>1, <2>2 DEF StagedRow, y
<1>6. CASE img.gen # w.baseGen
  <2> DEFINE u == StagedPart(w, v, n)
  <2>1. /\ u \in Seq(Node) /\ Len(u) = n
        /\ \A k \in 1 .. n : u[k] = StagedRow(w, v, k)
    BY <1>3, StagedPartAt
  <2> HIDE DEF u, n, s
  <2>2. /\ Len(s \o u) = Len(s) + Len(u)
        /\ \A k \in 1 .. Len(s) : (s \o u)[k] = s[k]
        /\ \A k \in 1 .. Len(u) : (s \o u)[Len(s) + k] = u[k]
    BY <1>4, <2>1, ConcatAt
  <2>3. Part(y, v) = s \o u
    BY <1>2, <1>6 DEF u
  <2>4. /\ Len(Part(y, v)) = Len(s) + n
        /\ \A k \in 1 .. Len(s) : Part(y, v)[k] = s[k]
        /\ \A k \in 1 .. n : Part(y, v)[Len(s) + k] = StagedRow(w, v, k)
    BY <2>1, <2>2, <2>3
  <2>5. QED
    BY <1>1, <2>4 DEF s, n, y
<1>7. QED
  BY <1>5, <1>6

\* The rows a flush leaves: those that were there, and all that is staged.
LEMMA WrittenLive ==
  ASSUME NEW w, WriteOK(w), StagedShape(w), w.rewind = None, NEW img \in Image,
         w.baseGen = img.gen => SameBase(w, img), NEW t
  PROVE  t \in LiveTids(Written(w, img)) <=>
           t \in LiveTids(img) \/ KeptRow(w, Surviving(w), t)
<1> DEFINE y == Written(w, img)
           Has(v) == \E k \in 1 .. Num(Staged(w), v) : StagedRow(w, v, k).tid = t
           In(x, v) == \E k \in 1 .. Len(Part(x, v)) :
                         ~Part(x, v)[k].deleted /\ Part(x, v)[k].tid = t
<1>1. Surviving(w) = Staged(w) /\ y \in Image
  BY WrittenType DEF Surviving
<1>2. ASSUME NEW v \in Kinds
      PROVE  In(y, v) <=> In(img, v) \/ Has(v)
  <2>1. /\ Len(Part(y, v)) = Len(Part(img, v)) + Num(Staged(w), v)
        /\ \A k \in 1 .. Len(Part(img, v)) : Part(y, v)[k] = Part(img, v)[k]
        /\ \A k \in 1 .. Num(Staged(w), v) :
              Part(y, v)[Len(Part(img, v)) + k] = StagedRow(w, v, k)
    BY WrittenParts
  <2>2. \A k \in 1 .. Num(Staged(w), v) : ~StagedRow(w, v, k).deleted
    BY DEF StagedShape
  <2>3. PICK m \in Nat : m = Len(Part(img, v))
    BY ImagePartType
  <2>4. PICK n \in Nat : n = Num(Staged(w), v)
    BY PartType
  <2> HIDE DEF y
  <2>5. /\ \A k \in 1 .. m + n : k \in 1 .. m \/ (k - m \in 1 .. n /\ m + (k - m) = k)
        /\ \A k \in 1 .. m : k \in 1 .. m + n
        /\ \A k \in 1 .. n : m + k \in 1 .. m + n
    OBVIOUS
  <2>6. /\ Len(Part(y, v)) = m + n
        /\ \A k \in 1 .. m : Part(y, v)[k] = Part(img, v)[k]
        /\ \A k \in 1 .. n : Part(y, v)[m + k] = StagedRow(w, v, k)
        /\ \A k \in 1 .. n : ~StagedRow(w, v, k).deleted
    BY <2>1, <2>2, <2>3, <2>4
  <2>7. ASSUME In(img, v) PROVE In(y, v)
    BY <2>3, <2>5, <2>6, <2>7
  <2>8. ASSUME Has(v) PROVE In(y, v)
    BY <2>4, <2>5, <2>6, <2>8
  <2>9. ASSUME In(y, v) PROVE In(img, v) \/ Has(v)
    <3>1. PICK k \in 1 .. m + n : ~Part(y, v)[k].deleted /\ Part(y, v)[k].tid = t
      BY <2>6, <2>9
    <3>2. CASE k \in 1 .. m
      BY <2>3, <2>6, <3>1, <3>2
    <3>3. CASE k - m \in 1 .. n /\ m + (k - m) = k
      <4>1. PICK j \in 1 .. n : m + j = k
        BY <3>3
      <4>2. StagedRow(w, v, j).tid = t
        BY <2>6, <3>1, <4>1
      <4>3. QED
        BY <2>4, <4>2
    <3>4. QED
      BY <2>5, <3>2, <3>3
  <2>10. QED
    BY <2>7, <2>8, <2>9
<1>3. /\ t \in LiveTids(y) <=> \E v \in Kinds : In(y, v)
      /\ t \in LiveTids(img) <=> \E v \in Kinds : In(img, v)
  BY <1>1, LiveByKind
<1>4. ASSUME NEW v \in Kinds, Has(v)
      PROVE  KindOf(t) = v
  BY <1>4 DEF StagedShape
<1>5. KeptRow(w, Surviving(w), t) <=> Has(KindOf(t))
  BY <1>1 DEF KeptRow
<1>6. KindOf(t) \in Kinds
  BY KindOfType
<1> HIDE DEF y, Has, In
<1>7. t \in LiveTids(y) <=> t \in LiveTids(img) \/ KeptRow(w, Surviving(w), t)
  BY <1>2, <1>3, <1>4, <1>5, <1>6
<1>8. QED
  BY <1>7 DEF y

-----------------------------------------------------------------------------
(* The inductive invariant, one part per group of variables.               *)

StoreInv ==
  /\ catalog \in [Indexes -> Entry]
  /\ heap \in [Indexes -> [FileNos -> [Tids -> {"free", "live", "dead"}]]]
  /\ image \in [Indexes -> [FileNos -> Image]]
  /\ nextFile \in [Indexes -> Nat]
  /\ inserts \in Nat

XactInv ==
  /\ frames \in [Backends -> Seq(Frame)]
  /\ nextSub \in [Backends -> Nat]

\* A statement runs inside a transaction, and an insert knows its row.
StmtInv ==
  /\ stmt \in [Backends -> Statement \cup {None}]
  /\ \A b \in Backends : stmt[b] # None =>
       /\ frames[b] # <<>>
       /\ stmt[b].kind = "insert" => stmt[b].idx \in Indexes /\ stmt[b].tid \in Tids

PendingInv ==
  /\ pending \in [Backends -> Write \cup {None}]
  /\ \A b \in Backends : pending[b] # None => WriteOK(pending[b])

DiscardedInv ==
  /\ discarded \in [Backends -> SUBSET Discard]
  /\ \A b \in Backends : StashOK(discarded[b])

VacuumInv == vacuum \in Vacuum \cup {None}

IInv == StoreInv /\ XactInv /\ StmtInv /\ PendingInv /\ DiscardedInv /\ VacuumInv

\* What the inductive invariant is for.
LEMMA IInvImplies == IInv => TypeOK /\ MarksInBounds
<1> SUFFICES ASSUME IInv PROVE TypeOK /\ MarksInBounds
  OBVIOUS
<1>1. TypeOK
  BY DEF IInv, StoreInv, XactInv, StmtInv, PendingInv, DiscardedInv, VacuumInv, TypeOK
<1>2. ASSUME NEW b \in Backends, NEW w \in Held(b)
      PROVE  MarksOrdered(w)
  <2>1. CASE w \in {e.write : e \in discarded[b]}
    BY <2>1 DEF IInv, DiscardedInv, StashOK, WriteOK
  <2>2. CASE pending[b] # None /\ w = pending[b]
    BY <2>2 DEF IInv, PendingInv, WriteOK
  <2>3. QED
    BY <1>2, <2>1, <2>2 DEF Held
<1>3. QED
  BY <1>1, <1>2 DEF MarksInBounds

-----------------------------------------------------------------------------
(* Images.                                                                 *)

LEMMA CurrentImageType ==
  ASSUME StoreInv, NEW i \in Indexes
  PROVE  CurrentImage(i) \in Image /\ catalog[i].file \in FileNos
BY DEF StoreInv, CurrentImage, Entry

LEMMA SetImageType ==
  ASSUME StoreInv, NEW i \in Indexes, NEW img \in Image, SetImage(i, img)
  PROVE  image' \in [Indexes -> [FileNos -> Image]]
BY CurrentImageType DEF StoreInv, SetImage

LEMMA LiveNodesType ==
  ASSUME NEW rows \in SUBSET Tids, NEW s \in ScanOrders(rows)
  PROVE  LiveNodes(s) \in Seq(Node)
<1>1. IsFiniteSet(rows)
  BY FiniteAssumption, FS_Subset
<1>2. Cardinality(rows) \in Nat
  BY <1>1, FS_CardinalityType
<1>3. s \in [1 .. Cardinality(rows) -> Tids]
  BY DEF ScanOrders
<1>4. LiveNodes(s) \in [1 .. Cardinality(rows) -> Node]
  BY <1>3 DEF LiveNodes, LiveNode, Node
<1>5. QED
  BY <1>2, <1>4

\* ambuild writes an image.
LEMMA BuiltImagesType ==
  ASSUME NEW rows \in SUBSET Tids
  PROVE  BuiltImages(rows) \subseteq Image
<1>1. /\ rows \ Vectorless \in SUBSET Tids
      /\ rows \cap Vectorless \in SUBSET Tids
  OBVIOUS
<1>2. FIRST_GENERATION \in Nat
  BY DEF FIRST_GENERATION
<1>3. QED
  BY <1>1, <1>2, LiveNodesType DEF BuiltImages, Image

\* ambulkdelete keeps the ids of the nodes it leaves.
LEMMA BulkDeleteType ==
  ASSUME NEW nodes \in Seq(Node), NEW dead
  PROVE  BulkDelete(nodes, dead) \in Seq(Node)
<1>1. Len(nodes) \in Nat /\ nodes \in [1 .. Len(nodes) -> Node]
      /\ DOMAIN nodes = 1 .. Len(nodes)
  BY LenProperties
<1>2. BulkDelete(nodes, dead) \in [1 .. Len(nodes) -> Node]
  BY <1>1 DEF BulkDelete, Node
<1>3. QED
  BY <1>1, <1>2

-----------------------------------------------------------------------------
(* Transactions.                                                           *)

LEMMA TopFrameType ==
  ASSUME XactInv, NEW b \in Backends, frames[b] # <<>>
  PROVE  /\ Len(frames[b]) \in Nat \ {0}
         /\ Len(frames[b]) \in DOMAIN frames[b]
         /\ TopFrame(b) \in Frame
         /\ CurrentSub(b) \in Nat
<1>1. frames[b] \in Seq(Frame)
  BY DEF XactInv
<1>2. Len(frames[b]) \in Nat \ {0} /\ DOMAIN frames[b] = 1 .. Len(frames[b])
  BY <1>1, EmptySeq, LenProperties
<1>3. Len(frames[b]) \in 1 .. Len(frames[b])
  BY <1>2
<1>4. TopFrame(b) \in Frame
  BY <1>1, <1>3, ElementOfSeq DEF TopFrame
<1>5. QED
  BY <1>2, <1>3, <1>4 DEF CurrentSub, TopFrame, Frame

LEMMA OnTopFrameType ==
  ASSUME XactInv, NEW b \in Backends, frames[b] # <<>>, NEW f \in Frame
  PROVE  /\ OnTopFrame(b, f) \in [Backends -> Seq(Frame)]
         /\ OnTopFrame(b, f)[b] # <<>>
         /\ \A c \in Backends \ {b} : OnTopFrame(b, f)[c] = frames[c]
<1> DEFINE n == Len(frames[b])
           s == [frames[b] EXCEPT ![n] = f]
<1>1. /\ frames \in [Backends -> Seq(Frame)] /\ frames[b] \in Seq(Frame)
      /\ n \in 1 .. n /\ n \in Nat \ {0}
  BY TopFrameType DEF XactInv
<1>2. s \in Seq(Frame) /\ Len(s) = n
  BY <1>1, ExceptSeq
<1>3. s # <<>>
  BY <1>1, <1>2, EmptySeq
<1>4. OnTopFrame(b, f) = [frames EXCEPT ![b] = s]
  BY DEF OnTopFrame
<1> HIDE DEF s
<1>5. QED
  BY <1>1, <1>2, <1>3, <1>4

\* The frames outside the innermost one.
LEMMA FramesBut ==
  ASSUME NEW fs \in Seq(Frame), NEW m \in Nat, m <= Len(fs)
  PROVE  /\ SubSeq(fs, 1, m) \in Seq(Frame)
         /\ Len(SubSeq(fs, 1, m)) = m
         /\ \A k \in 1 .. m : SubSeq(fs, 1, m)[k] = fs[k]
<1>1. Len(fs) \in Nat
  BY LenProperties
<1>2. ASSUME NEW k \in 1 .. m PROVE fs[k] \in Frame
  <2>1. k \in 1 .. Len(fs)
    BY <1>1
  <2>2. QED
    BY <2>1, ElementOfSeq
<1>3. /\ SubSeq(fs, 1, m) \in Seq(Frame)
      /\ Len(SubSeq(fs, 1, m)) = IF 1 <= m THEN m - 1 + 1 ELSE 0
      /\ \A k \in 1 .. m - 1 + 1 : SubSeq(fs, 1, m)[k] = fs[1 + k - 1]
  BY <1>2, SubSeqProperties
<1>4. m - 1 + 1 = m /\ \A k \in 1 .. m : 1 + k - 1 = k
  OBVIOUS
<1>5. QED
  BY <1>3, <1>4

LEMMA UndoFrameType ==
  ASSUME StoreInv, NEW f \in Frame, UndoFrame(f)
  PROVE  /\ catalog' \in [Indexes -> Entry]
         /\ heap' \in [Indexes -> [FileNos -> [Tids -> {"free", "live", "dead"}]]]
<1>1. catalog' \in [Indexes -> Entry]
  BY DEF StoreInv, UndoFrame, Frame
<1>2. heap' \in [Indexes -> [FileNos -> [Tids -> {"free", "live", "dead"}]]]
  BY DEF StoreInv, UndoFrame
<1>3. QED
  BY <1>1, <1>2

\* The slot an insert stages into is in order, and so is what it becomes.
LEMMA SlotOK ==
  ASSUME StoreInv, PendingInv, NEW b \in Backends, NEW i \in Indexes
  PROVE  WriteOK(Slot(b, i))
BY CurrentImageType, LoadedOK DEF Slot, PendingInv

-----------------------------------------------------------------------------
(* Every step keeps the invariant.                                         *)

LEMMA InitInv == Init => IInv
<1> SUFFICES ASSUME Init PROVE IInv
  OBVIOUS
<1>1. 0 \in FileNos
  BY BoundsAssumption DEF FileNos
<1>2. catalog \in [Indexes -> Entry]
  BY <1>1 DEF Init, Entry
<1>3. heap \in [Indexes -> [FileNos -> [Tids -> {"free", "live", "dead"}]]]
  BY DEF Init
<1>4. image \in [Indexes -> [FileNos -> Image]]
  <2>1. BuiltImages({}) \cup BuiltImages(InitialRows) \subseteq Image
    BY BuiltImagesType, BoundsAssumption
  <2>2. QED
    BY <2>1 DEF Init
<1>5. XactInv
  <2>1. <<>> \in Seq(Frame)
    BY EmptySeq
  <2>2. QED
    BY <2>1 DEF Init, XactInv, TopSubTransactionId
<1>6. StmtInv /\ PendingInv /\ DiscardedInv /\ VacuumInv
  BY DEF Init, StmtInv, PendingInv, DiscardedInv, VacuumInv, StashOK
<1>7. QED
  BY <1>2, <1>3, <1>4, <1>5, <1>6 DEF Init, IInv, StoreInv

\* A variable's part holds on if the step leaves the variable alone.
LEMMA Unchanged ==
  /\ StoreInv /\ UNCHANGED storeVars => StoreInv'
  /\ XactInv /\ UNCHANGED xactVars => XactInv'
  /\ StmtInv /\ UNCHANGED <<frames, stmt>> => StmtInv'
  /\ PendingInv /\ UNCHANGED pending => PendingInv'
  /\ DiscardedInv /\ UNCHANGED discarded => DiscardedInv'
  /\ VacuumInv /\ UNCHANGED vacuum => VacuumInv'
BY DEF storeVars, xactVars, StoreInv, XactInv, StmtInv, PendingInv, DiscardedInv,
       VacuumInv

\* Statements.

LEMMA BeginInv ==
  ASSUME IInv, NEW b \in Backends, Begin(b)
  PROVE  IInv'
<1>1. StoreInv' /\ PendingInv' /\ DiscardedInv' /\ VacuumInv'
  BY Unchanged DEF IInv, Begin, stageVars
<1>2. <<NewFrame(TopSubTransactionId)>> \in Seq(Frame)
  BY DEF NewFrame, Frame, TopSubTransactionId
<1>3. XactInv'
  BY <1>2 DEF IInv, XactInv, Begin
<1>4. StmtInv'
  BY DEF IInv, StmtInv, XactInv, Begin
<1>5. QED
  BY <1>1, <1>3, <1>4 DEF IInv

\* A statement that starts in an open transaction.
LEMMA StartStmtInv ==
  ASSUME IInv, NEW b \in Backends, Idle(b),
         frames' = frames \/ \E f \in Frame : frames' = OnTopFrame(b, f),
         NEW kind \in {"insert", "scan", "parallel", "commit"},
         NEW i \in Indexes \cup {None}, NEW t \in Tids \cup {None},
         kind = "insert" => i \in Indexes /\ t \in Tids,
         StartStmt(b, kind, i, t)
  PROVE  StmtInv'
<1>1. frames[b] # <<>> /\ frames'[b] # <<>>
      /\ \A c \in Backends \ {b} : frames'[c] = frames[c]
  BY OnTopFrameType DEF IInv, Idle
<1>2. stmt' = [stmt EXCEPT ![b] = [kind |-> kind, step |-> "settle",
                                   idx |-> i, tid |-> t]]
  BY DEF StartStmt
<1>3. [kind |-> kind, step |-> "settle", idx |-> i, tid |-> t] \in Statement
  BY DEF Statement
<1>4. stmt' \in [Backends -> Statement \cup {None}]
  BY <1>2, <1>3 DEF IInv, StmtInv
<1>5. ASSUME NEW c \in Backends, stmt'[c] # None
      PROVE  /\ frames'[c] # <<>>
             /\ stmt'[c].kind = "insert" =>
                  stmt'[c].idx \in Indexes /\ stmt'[c].tid \in Tids
  BY <1>1, <1>2, <1>5 DEF IInv, StmtInv
<1>6. QED
  BY <1>4, <1>5 DEF StmtInv

LEMMA StartInsertInv ==
  ASSUME IInv, NEW b \in Backends, NEW i \in Indexes, NEW t \in Tids,
         StartInsert(b, i, t)
  PROVE  IInv'
<1> DEFINE f == [TopFrame(b) EXCEPT
                   !.rows = @ \cup {<<i, catalog[i].heap, t>>},
                   !.locks = @ \cup {i}]
<1>1. /\ TopFrame(b) \in Frame
      /\ catalog \in [Indexes -> Entry] /\ catalog[i].heap \in FileNos
  BY TopFrameType DEF IInv, StoreInv, Entry, StartInsert, Idle
<1>2. StoreInv'
  <2>1. heap' \in [Indexes -> [FileNos -> [Tids -> {"free", "live", "dead"}]]]
    BY <1>1 DEF IInv, StoreInv, StartInsert
  <2>2. inserts' \in Nat
    BY DEF IInv, StoreInv, StartInsert
  <2>3. QED
    BY <2>1, <2>2 DEF IInv, StoreInv, StartInsert
<1>3. f \in Frame
  <2> DEFINE g == [TopFrame(b) EXCEPT !.rows = @ \cup {<<i, catalog[i].heap, t>>}]
  <2>1. g \in Frame /\ g.locks = TopFrame(b).locks
    BY <1>1 DEF Frame
  <2>2. f = [g EXCEPT !.locks = @ \cup {i}]
    BY <1>1 DEF Frame
  <2> HIDE DEF f, g
  <2>3. QED
    BY <2>1, <2>2 DEF Frame
<1>4. frames' = OnTopFrame(b, f) /\ Idle(b) /\ frames[b] # <<>>
  BY DEF StartInsert, Idle
<1> HIDE DEF f
<1>5. XactInv'
  BY <1>3, <1>4, OnTopFrameType DEF IInv, XactInv, StartInsert
<1>6. StmtInv'
  BY <1>3, <1>4, StartStmtInv DEF StartInsert
<1>7. PendingInv' /\ DiscardedInv' /\ VacuumInv'
  BY Unchanged DEF IInv, StartInsert, stageVars
<1>8. QED
  BY <1>2, <1>5, <1>6, <1>7 DEF IInv

LEMMA StartScanInv ==
  ASSUME IInv, NEW b \in Backends, NEW i \in Indexes, StartScan(b, i)
  PROVE  IInv'
<1> DEFINE f == [TopFrame(b) EXCEPT !.locks = @ \cup {i}]
<1>1. TopFrame(b) \in Frame
  BY TopFrameType DEF IInv, StartScan, Idle
<1>2. f \in Frame
  BY <1>1 DEF Frame
<1>3. frames' = OnTopFrame(b, f) /\ Idle(b) /\ frames[b] # <<>>
  BY DEF StartScan, Idle
<1> HIDE DEF f
<1>4. XactInv'
  BY <1>2, <1>3, OnTopFrameType DEF IInv, XactInv, StartScan
<1>5. StmtInv'
  BY <1>2, <1>3, StartStmtInv DEF StartScan
<1>6. StoreInv' /\ PendingInv' /\ DiscardedInv' /\ VacuumInv'
  BY Unchanged DEF IInv, StartScan, stageVars
<1>7. QED
  BY <1>4, <1>5, <1>6 DEF IInv

LEMMA StartOtherInv ==
  ASSUME IInv, NEW b \in Backends, StartParallelPlan(b) \/ StartCommit(b)
  PROVE  IInv'
<1>1. StmtInv'
  BY StartStmtInv DEF StartParallelPlan, StartCommit, xactVars
<1>2. StoreInv' /\ XactInv' /\ PendingInv' /\ DiscardedInv' /\ VacuumInv'
  BY Unchanged DEF IInv, StartParallelPlan, StartCommit, stageVars
<1>3. QED
  BY <1>1, <1>2 DEF IInv

\* The statement moves on to its next step.
LEMMA AdvanceInv ==
  ASSUME IInv, NEW b \in Backends, stmt[b] # None,
         NEW step \in {"settle", "flush", "work"},
         Advance(b, step), UNCHANGED frames
  PROVE  StmtInv'
<1>1. stmt[b] \in Statement
  BY DEF IInv, StmtInv
<1>2. [stmt[b] EXCEPT !.step = step] \in Statement
  BY <1>1 DEF Statement
<1>3. stmt' = [stmt EXCEPT ![b] = [stmt[b] EXCEPT !.step = step]]
  BY DEF Advance
<1>4. /\ [stmt[b] EXCEPT !.step = step].kind = stmt[b].kind
      /\ [stmt[b] EXCEPT !.step = step].idx = stmt[b].idx
      /\ [stmt[b] EXCEPT !.step = step].tid = stmt[b].tid
  BY <1>1 DEF Statement
<1>5. QED
  BY <1>2, <1>3, <1>4 DEF IInv, StmtInv

\* The statement is over.
LEMMA EndStmtInv ==
  ASSUME IInv, NEW b \in Backends, stmt' = [stmt EXCEPT ![b] = None],
         \A c \in Backends \ {b} : frames'[c] = frames[c]
  PROVE  StmtInv'
BY DEF IInv, StmtInv

LEMMA SettleInv ==
  ASSUME IInv, NEW b \in Backends, Settle(b)
  PROVE  IInv'
<1> DEFINE w == pending[b]
           v == IF w = None \/ w.rewind = None THEN w
                ELSE IF w.rewind = ZeroCount \/ ~catalog[w.idx].exists THEN None
                ELSE Settled(w, CurrentImage(w.idx))
<1>1. pending' = [pending EXCEPT ![b] = v]
  BY DEF Settle
<1>2. v # None => WriteOK(v)
  <2>1. CASE w = None \/ w.rewind = None
    BY <2>1 DEF IInv, PendingInv
  <2>2. CASE w # None /\ w.rewind # None
    <3>1. WriteOK(w) /\ w.idx \in Indexes
      BY <2>2 DEF IInv, PendingInv, Write
    <3>2. WriteOK(Settled(w, CurrentImage(w.idx)))
      BY <2>2, <3>1, CurrentImageType, SettledOK DEF IInv
    <3>3. QED
      BY <2>2, <3>2
  <2>3. QED
    BY <2>1, <2>2
<1> HIDE DEF v
<1>3. PendingInv'
  BY <1>1, <1>2 DEF IInv, PendingInv, WriteOK
<1>4. StmtInv'
  BY AdvanceInv DEF Settle, AtStep, xactVars
<1>5. StoreInv' /\ XactInv' /\ DiscardedInv' /\ VacuumInv'
  BY Unchanged DEF IInv, Settle
<1>6. QED
  BY <1>3, <1>4, <1>5 DEF IInv

LEMMA FlushInv ==
  ASSUME IInv, NEW b \in Backends, Flush(b)
  PROVE  IInv'
<1> DEFINE w == pending[b]
<1>1. StmtInv'
  BY AdvanceInv DEF Flush, AtStep, xactVars
<1>2. XactInv' /\ DiscardedInv' /\ VacuumInv'
  BY Unchanged DEF IInv, Flush
<1>3. CASE ~Takes(stmt[b], w)
  BY <1>1, <1>2, <1>3, Unchanged DEF IInv, Flush, storeVars
<1>4. CASE Takes(stmt[b], w)
  <2>1. WriteOK(w) /\ w.idx \in Indexes
    BY <1>4 DEF Takes, IInv, PendingInv, Write
  <2>2. Written(w, CurrentImage(w.idx)) \in Image
    BY <2>1, CurrentImageType, WrittenType DEF IInv
  <2>3. image' \in [Indexes -> [FileNos -> Image]]
    BY <1>4, <2>1, <2>2, SetImageType DEF Flush, IInv, StoreInv
  <2>4. StoreInv'
    BY <2>3 DEF Flush, IInv, StoreInv
  <2>5. PendingInv'
    BY <1>4 DEF Flush, IInv, PendingInv
  <2>6. QED
    BY <1>1, <1>2, <2>4, <2>5 DEF IInv
<1>5. QED
  BY <1>3, <1>4

LEMMA StageRowInv ==
  ASSUME IInv, NEW b \in Backends, StageRow(b)
  PROVE  IInv'
<1>1. stmt[b].idx \in Indexes /\ stmt[b].tid \in Tids
  BY DEF StageRow, AtStep, IInv, StmtInv
<1>2. WriteOK(PushRow(Slot(b, stmt[b].idx), stmt[b].tid))
  BY <1>1, SlotOK, PushRowOK DEF IInv
<1>3. PendingInv'
  BY <1>2 DEF StageRow, IInv, PendingInv, WriteOK
<1>4. StmtInv'
  BY EndStmtInv DEF StageRow, xactVars
<1>5. StoreInv' /\ XactInv' /\ DiscardedInv' /\ VacuumInv'
  BY Unchanged DEF IInv, StageRow
<1>6. QED
  BY <1>3, <1>4, <1>5 DEF IInv

LEMMA FinishReadInv ==
  ASSUME IInv, NEW b \in Backends, FinishRead(b)
  PROVE  IInv'
<1>1. StmtInv'
  BY EndStmtInv DEF FinishRead, xactVars
<1>2. StoreInv' /\ XactInv' /\ PendingInv' /\ DiscardedInv' /\ VacuumInv'
  BY Unchanged DEF IInv, FinishRead, stageVars
<1>3. QED
  BY <1>1, <1>2 DEF IInv

\* The end of a transaction, whichever way it ends.
LEMMA EndXactInv ==
  ASSUME IInv, NEW b \in Backends, EndXact(b)
  PROVE  /\ XactInv'
         /\ \A c \in Backends \ {b} : frames'[c] = frames[c]
<1>1. <<>> \in Seq(Frame)
  BY EmptySeq
<1>2. QED
  BY <1>1 DEF IInv, XactInv, EndXact, TopSubTransactionId

LEMMA CommitInv ==
  ASSUME IInv, NEW b \in Backends, Commit(b)
  PROVE  IInv'
<1>1. XactInv' /\ \A c \in Backends \ {b} : frames'[c] = frames[c]
  BY EndXactInv DEF Commit
<1>2. StmtInv'
  BY <1>1, EndStmtInv DEF Commit
<1>3. DiscardedInv'
  BY DEF Commit, IInv, DiscardedInv, StashOK
<1>4. StoreInv' /\ PendingInv' /\ VacuumInv'
  BY Unchanged DEF IInv, Commit
<1>5. QED
  BY <1>1, <1>2, <1>3, <1>4 DEF IInv

\* Transaction boundaries.

LEMMA MarkPendingOK ==
  ASSUME NEW p, p # None => WriteOK(p), NEW event \in MarkEvents
  PROVE  MarkPending(p, event) # None => WriteOK(MarkPending(p, event))
BY ApplyMarkEventOK DEF MarkPending

\* What the staged write and the stash become, put together.
LEMMA StagedInv ==
  ASSUME IInv, NEW b \in Backends,
         NEW p, p # None => WriteOK(p), NEW stash, StashOK(stash),
         pending' = [pending EXCEPT ![b] = p],
         discarded' = [discarded EXCEPT ![b] = stash]
  PROVE  PendingInv' /\ DiscardedInv'
<1>1. p \in Write \cup {None}
  BY DEF WriteOK
<1>2. stash \in SUBSET Discard
  BY DEF StashOK
<1>3. PendingInv'
  BY <1>1 DEF IInv, PendingInv
<1>4. DiscardedInv'
  BY <1>2 DEF IInv, DiscardedInv
<1>5. QED
  BY <1>3, <1>4

LEMMA SubStartInv ==
  ASSUME IInv, NEW b \in Backends, SubStart(b)
  PROVE  IInv'
<1>1. pending[b] # None => WriteOK(pending[b])
  BY DEF IInv, PendingInv
<1>2. StashOK(discarded[b])
  BY DEF IInv, DiscardedInv
<1>3. PendingInv' /\ DiscardedInv'
  <2>1. "start" \in MarkEvents
    BY DEF MarkEvents
  <2>2. StashOK(MarkStash(discarded[b], "start"))
    BY <1>2, <2>1, MarkStashOK
  <2>3. MarkPending(pending[b], "start") # None =>
          WriteOK(MarkPending(pending[b], "start"))
    BY <1>1, <2>1, MarkPendingOK
  <2>4. QED
    BY <2>2, <2>3, StagedInv DEF SubStart
<1>4. XactInv' /\ frames'[b] # <<>>
        /\ \A c \in Backends \ {b} : frames'[c] = frames[c]
  <2>1. frames[b] \in Seq(Frame) /\ NewFrame(nextSub[b]) \in Frame
    BY DEF IInv, XactInv, NewFrame, Frame
  <2>2. /\ Append(frames[b], NewFrame(nextSub[b])) \in Seq(Frame)
        /\ Append(frames[b], NewFrame(nextSub[b])) # <<>>
    BY <2>1, AppendProperties
  <2>3. QED
    BY <2>2 DEF IInv, XactInv, SubStart
<1>5. StmtInv'
  BY <1>4 DEF IInv, StmtInv, SubStart
<1>6. StoreInv' /\ VacuumInv'
  BY Unchanged DEF IInv, SubStart
<1>7. QED
  BY <1>3, <1>4, <1>5, <1>6 DEF IInv

LEMMA ReleasedType ==
  ASSUME NEW parent \in Frame, NEW f \in Frame
  PROVE  Released(parent, f) \in Frame /\ Released(parent, f).sub = parent.sub
<1> DEFINE rows == parent.rows \cup f.rows
           locks == parent.locks \cup f.locks
           excl == parent.excl \cup f.excl
           undo == [i \in Indexes |-> IF parent.undo[i] = None THEN f.undo[i]
                                       ELSE parent.undo[i]]
<1>1. /\ rows \in SUBSET (Indexes \X FileNos \X Tids)
      /\ locks \in SUBSET Indexes /\ excl \in SUBSET Indexes
  BY DEF Frame
<1>2. undo \in [Indexes -> Entry \cup {None}]
  BY DEF Frame
<1>3. Released(parent, f) = [sub |-> parent.sub, rows |-> rows, locks |-> locks,
                             excl |-> excl, undo |-> undo]
  BY DEF Released
<1> HIDE DEF rows, locks, excl, undo
<1>4. QED
  BY <1>1, <1>2, <1>3 DEF Frame

\* The frames RELEASE SAVEPOINT leaves.
LEMMA SubCommitFrames ==
  ASSUME XactInv, NEW b \in Backends, SubCommit(b)
  PROVE  LET n == Len(frames[b]) IN
         /\ n \in Nat /\ n - 1 \in 1 .. n /\ n - 1 >= 1
         /\ frames[b] \in Seq(Frame)
         /\ frames[b][n - 1].sub \in Nat /\ CurrentSub(b) \in Nat
         /\ frames' \in [Backends -> Seq(Frame)]
         /\ \A c \in Backends \ {b} : frames'[c] = frames[c]
         /\ Len(frames'[b]) = n - 1
         /\ \A k \in 1 .. n - 1 : frames'[b][k].sub = frames[b][k].sub
<1> DEFINE n == Len(frames[b])
           fs == SubSeq(frames[b], 1, n - 2)
           r == Released(frames[b][n - 1], TopFrame(b))
<1>1. /\ frames[b] \in Seq(Frame) /\ frames[b] # <<>>
      /\ n \in Nat /\ n > 1 /\ TopFrame(b) \in Frame /\ CurrentSub(b) \in Nat
  BY TopFrameType DEF XactInv, SubCommit, Idle
<1>2. n - 1 \in 1 .. n /\ n - 2 \in Nat /\ n - 2 <= n
  BY <1>1
<1>3. frames[b][n - 1] \in Frame
  BY <1>1, <1>2, ElementOfSeq
<1>4. r \in Frame /\ r.sub = frames[b][n - 1].sub
  BY <1>1, <1>3, ReleasedType
<1>5. /\ fs \in Seq(Frame) /\ Len(fs) = n - 2
      /\ \A k \in 1 .. n - 2 : fs[k] = frames[b][k]
  BY <1>1, <1>2, FramesBut
<1>6. frames' = [frames EXCEPT ![b] = Append(fs, r)]
  BY DEF SubCommit
<1> HIDE DEF fs, r
<1>7. /\ Append(fs, r) \in Seq(Frame) /\ Len(Append(fs, r)) = n - 2 + 1
      /\ \A k \in 1 .. n - 2 : Append(fs, r)[k] = fs[k]
      /\ Append(fs, r)[n - 2 + 1] = r
  BY <1>4, <1>5, AppendProperties
<1>8. n - 2 + 1 = n - 1 /\ \A k \in 1 .. n - 1 : k \in 1 .. n - 2 \/ k = n - 1
  BY <1>1
<1>9. \A k \in 1 .. n - 1 : Append(fs, r)[k].sub = frames[b][k].sub
  BY <1>4, <1>5, <1>7, <1>8
<1>10. frames' \in [Backends -> Seq(Frame)] /\ frames'[b] = Append(fs, r)
       /\ \A c \in Backends \ {b} : frames'[c] = frames[c]
  BY <1>6, <1>7 DEF XactInv
<1>11. Len(frames'[b]) = n - 1 /\ n - 1 >= 1
  BY <1>1, <1>7, <1>8, <1>10
<1>12. \A k \in 1 .. n - 1 : frames'[b][k].sub = frames[b][k].sub
  BY <1>9, <1>10
<1>13. frames[b][n - 1].sub \in Nat
  BY <1>3 DEF Frame
<1> HIDE DEF n
<1>14. QED
  BY <1>1, <1>2, <1>10, <1>11, <1>12, <1>13 DEF n

LEMMA SubCommitInv ==
  ASSUME IInv, NEW b \in Backends, SubCommit(b)
  PROVE  IInv'
<1> DEFINE s == CurrentSub(b)
           parent == frames[b][Len(frames[b]) - 1].sub
<1>1. /\ s \in Nat /\ parent \in Nat
      /\ frames' \in [Backends -> Seq(Frame)]
      /\ \A c \in Backends \ {b} : frames'[c] = frames[c]
      /\ Len(frames'[b]) = Len(frames[b]) - 1 /\ Len(frames[b]) - 1 >= 1
      /\ Len(frames[b]) \in Nat
  BY SubCommitFrames DEF IInv
<1>2. frames'[b] # <<>>
  BY <1>1, EmptySeq
<1>3. XactInv'
  BY <1>1 DEF IInv, XactInv, SubCommit
<1>4. StmtInv'
  BY <1>1, <1>2 DEF IInv, StmtInv, SubCommit
<1>5. PendingInv' /\ DiscardedInv'
  <2>1. "commit" \in MarkEvents
    BY DEF MarkEvents
  <2>2. StashOK(StashCommit(discarded[b], s, parent))
    BY <1>1, StashCommitOK DEF IInv, DiscardedInv
  <2>3. StashOK(MarkStash(StashCommit(discarded[b], s, parent), "commit"))
    BY <2>1, <2>2, MarkStashOK
  <2>4. pending[b] # None => WriteOK(pending[b])
    BY DEF IInv, PendingInv
  <2>5. MarkPending(pending[b], "commit") # None =>
          WriteOK(MarkPending(pending[b], "commit"))
    BY <2>1, <2>4, MarkPendingOK
  <2>6. QED
    BY <2>3, <2>5, StagedInv DEF SubCommit
<1>6. StoreInv' /\ VacuumInv'
  BY Unchanged DEF IInv, SubCommit
<1>7. QED
  BY <1>3, <1>4, <1>5, <1>6 DEF IInv

\* The frames a subtransaction's abort leaves.
LEMMA AbortSubFrames ==
  ASSUME XactInv, NEW b \in Backends, Len(frames[b]) > 1, NEW p, AbortSub(b, p)
  PROVE  LET n == Len(frames[b]) IN
         /\ n \in Nat /\ frames[b] \in Seq(Frame)
         /\ frames' \in [Backends -> Seq(Frame)]
         /\ \A c \in Backends \ {b} : frames'[c] = frames[c]
         /\ Len(frames'[b]) = n - 1
         /\ \A k \in 1 .. n - 1 : frames'[b][k] = frames[b][k]
<1> DEFINE n == Len(frames[b])
           fs == SubSeq(frames[b], 1, n - 1)
<1>1. frames[b] \in Seq(Frame) /\ n \in Nat /\ n - 1 \in Nat /\ n - 1 <= n
  <2>1. frames[b] \in Seq(Frame)
    BY DEF XactInv
  <2>2. n \in Nat
    BY <2>1, LenProperties
  <2>3. QED
    BY <2>1, <2>2
<1>2. /\ fs \in Seq(Frame) /\ Len(fs) = n - 1
      /\ \A k \in 1 .. n - 1 : fs[k] = frames[b][k]
  BY <1>1, FramesBut
<1>3. frames' = [frames EXCEPT ![b] = fs]
  BY DEF AbortSub
<1> HIDE DEF fs
<1>4. QED
  BY <1>1, <1>2, <1>3 DEF XactInv

\* An abort of the innermost (sub)transaction, with what PENDING holds by then.
LEMMA AbortInnermostInv ==
  ASSUME IInv, NEW b \in Backends, frames[b] # <<>>,
         NEW p, p # None => WriteOK(p), AbortInnermost(b, p)
  PROVE  IInv'
<1>1. StoreInv'
  <2>1. TopFrame(b) \in Frame
    BY TopFrameType DEF IInv
  <2>2. QED
    BY <2>1, UndoFrameType DEF IInv, StoreInv, AbortInnermost
<1>2. VacuumInv'
  BY Unchanged DEF IInv, AbortInnermost
<1>3. CASE Len(frames[b]) > 1
  <2> DEFINE s == CurrentSub(b)
             restored == StashRestored(discarded[b], s)
             q == IF restored = None THEN p ELSE restored
  <2>1. AbortSub(b, p)
    BY <1>3 DEF AbortInnermost
  <2>2. /\ frames' \in [Backends -> Seq(Frame)]
        /\ \A c \in Backends \ {b} : frames'[c] = frames[c]
    BY <1>3, <2>1, AbortSubFrames DEF IInv
  <2>3. XactInv'
    BY <2>1, <2>2 DEF IInv, XactInv, AbortSub
  <2>4. StmtInv'
    BY <2>2, EndStmtInv DEF AbortInnermost
  <2>5. PendingInv' /\ DiscardedInv'
    <3>1. "abort" \in MarkEvents
      BY DEF MarkEvents
    <3>2. StashOK(discarded[b])
      BY DEF IInv, DiscardedInv
    <3>3. StashOK(MarkStash(StashDrain(discarded[b], s), "abort"))
      BY <3>1, <3>2, StashDrainOK, MarkStashOK
    <3>4. q # None => WriteOK(q)
      BY <3>2, StashRestoredOK
    <3>5. MarkPending(q, "abort") # None => WriteOK(MarkPending(q, "abort"))
      BY <3>1, <3>4, MarkPendingOK
    <3>6. QED
      BY <2>1, <3>3, <3>5, StagedInv DEF AbortSub
  <2>6. QED
    BY <1>1, <1>2, <2>3, <2>4, <2>5 DEF IInv
<1>4. CASE ~(Len(frames[b]) > 1)
  <2>1. AbortTop(b)
    BY <1>4 DEF AbortInnermost
  <2>2. XactInv' /\ \A c \in Backends \ {b} : frames'[c] = frames[c]
    BY <2>1, EndXactInv DEF AbortTop
  <2>3. StmtInv'
    BY <2>2, EndStmtInv DEF AbortInnermost
  <2>4. PendingInv' /\ DiscardedInv'
    BY <2>1 DEF AbortTop, IInv, PendingInv, DiscardedInv, StashOK
  <2>5. QED
    BY <1>1, <1>2, <2>2, <2>3, <2>4 DEF IInv
<1>5. QED
  BY <1>3, <1>4

LEMMA AbortInv ==
  ASSUME IInv, NEW b \in Backends,
         Abort(b) \/ SettleFails(b) \/ FlushFails(b) \/ StageFails(b)
  PROVE  IInv'
<1>1. pending[b] # None => WriteOK(pending[b])
  BY DEF IInv, PendingInv
<1>2. AtStep(b, "settle") \/ AtStep(b, "flush") \/ AtStep(b, "work") => frames[b] # <<>>
  BY DEF AtStep, IInv, StmtInv
<1>3. CASE Abort(b)
  BY <1>1, <1>3, AbortInnermostInv DEF Abort, Idle
<1>4. CASE SettleFails(b)
  BY <1>2, <1>4, AbortInnermostInv DEF SettleFails
<1>5. CASE FlushFails(b)
  BY <1>2, <1>5, AbortInnermostInv DEF FlushFails
<1>6. CASE StageFails(b)
  <2>1. frames[b] # <<>> /\ stmt[b].idx \in Indexes
    BY <1>6 DEF StageFails, AtStep, IInv, StmtInv
  <2>2. WriteOK(Slot(b, stmt[b].idx))
    BY <2>1, SlotOK DEF IInv
  <2>3. QED
    BY <1>1, <1>6, <2>1, <2>2, AbortInnermostInv DEF StageFails
<1>7. QED
  BY <1>3, <1>4, <1>5, <1>6

\* Commands that replace or remove an index.

\* A catalog change goes onto the innermost frame.
LEMMA ChangeCatalogFrame ==
  ASSUME IInv, NEW b \in Backends, Idle(b), NEW i \in Indexes, NEW entry,
         ChangeCatalog(b, i, entry)
  PROVE  \E f \in Frame : f.sub = TopFrame(b).sub /\ frames' = OnTopFrame(b, f)
<1> DEFINE u == IF TopFrame(b).undo[i] = None THEN catalog[i] ELSE TopFrame(b).undo[i]
           undo == [TopFrame(b).undo EXCEPT ![i] = u]
           g == [TopFrame(b) EXCEPT !.excl = @ \cup {i}]
           f == [TopFrame(b) EXCEPT !.excl = @ \cup {i},
                   !.undo[i] = IF @ = None THEN catalog[i] ELSE @]
<1>1. TopFrame(b) \in Frame /\ catalog \in [Indexes -> Entry]
  BY TopFrameType DEF IInv, StoreInv, Idle
<1>2. undo \in [Indexes -> Entry \cup {None}]
  BY <1>1 DEF Frame
<1>3. g \in Frame /\ g.undo = TopFrame(b).undo /\ g.sub = TopFrame(b).sub
  BY <1>1 DEF Frame
<1>4. f = [g EXCEPT !.undo = undo]
  BY <1>1 DEF Frame
<1>5. frames' = OnTopFrame(b, f)
  BY DEF ChangeCatalog
<1> HIDE DEF f, g, undo
<1>6. f \in Frame /\ f.sub = TopFrame(b).sub
  BY <1>2, <1>3, <1>4 DEF Frame
<1>7. QED
  BY <1>5, <1>6

LEMMA ChangeCatalogInv ==
  ASSUME IInv, NEW b \in Backends, Idle(b), NEW i \in Indexes, NEW entry \in Entry,
         ChangeCatalog(b, i, entry), UNCHANGED <<nextSub, stmt>>
  PROVE  catalog' \in [Indexes -> Entry] /\ XactInv' /\ StmtInv'
<1>1. PICK f \in Frame : frames' = OnTopFrame(b, f)
  BY ChangeCatalogFrame
<1>2. /\ frames' \in [Backends -> Seq(Frame)] /\ frames'[b] # <<>>
      /\ \A c \in Backends \ {b} : frames'[c] = frames[c]
  BY <1>1, OnTopFrameType DEF IInv, Idle
<1>3. XactInv' /\ StmtInv'
  BY <1>2 DEF IInv, XactInv, StmtInv
<1>4. catalog' \in [Indexes -> Entry]
  BY DEF ChangeCatalog, IInv, StoreInv
<1>5. QED
  BY <1>3, <1>4

LEMMA ForgetInv ==
  ASSUME IInv, NEW b \in Backends, Idle(b), NEW i \in Indexes, Forget(b, i)
  PROVE  PendingInv' /\ DiscardedInv'
<1> DEFINE w == pending[b]
<1>1. CASE w # None /\ w.idx = i
  <2>1. CurrentSub(b) \in Nat
    BY TopFrameType DEF IInv, Idle
  <2>2. StashOK(StashPush(discarded[b], CurrentSub(b), w))
    BY <1>1, <2>1, StashPushOK DEF IInv, PendingInv, DiscardedInv
  <2>3. QED
    BY <1>1, <2>2, StagedInv DEF Forget
<1>2. CASE ~(w # None /\ w.idx = i)
  BY <1>2, Unchanged DEF Forget, stageVars, IInv
<1>3. QED
  BY <1>1, <1>2

LEMMA RebuildInv ==
  ASSUME IInv, NEW b \in Backends, NEW i \in Indexes, NEW h \in FileNos,
         NEW rows \in SUBSET Tids, Rebuild(b, i, h, rows)
  PROVE  IInv'
<1>1. nextFile[i] \in FileNos
  BY BoundsAssumption DEF Rebuild, IInv, StoreInv, FileNos
<1>2. [exists |-> TRUE, heap |-> h, file |-> nextFile[i]] \in Entry
  BY <1>1 DEF Entry
<1>3. catalog' \in [Indexes -> Entry] /\ XactInv' /\ StmtInv'
  BY <1>2, ChangeCatalogInv DEF Rebuild
<1>4. PendingInv' /\ DiscardedInv'
  BY ForgetInv DEF Rebuild
<1>5. StoreInv'
  <2>1. PICK img \in BuiltImages(rows) :
          image' = [image EXCEPT ![i][nextFile[i]] = img]
    BY DEF Rebuild
  <2>2. img \in Image
    BY <2>1, BuiltImagesType
  <2>3. image' \in [Indexes -> [FileNos -> Image]]
    BY <1>1, <2>1, <2>2 DEF IInv, StoreInv
  <2>4. nextFile' \in [Indexes -> Nat]
    BY DEF Rebuild, IInv, StoreInv
  <2>5. QED
    BY <1>3, <2>3, <2>4 DEF Rebuild, IInv, StoreInv
<1>6. VacuumInv'
  BY Unchanged DEF IInv, Rebuild
<1>7. QED
  BY <1>3, <1>4, <1>5, <1>6 DEF IInv

LEMMA ReplaceInv ==
  ASSUME IInv, NEW b \in Backends, NEW i \in Indexes,
         Reindex(b, i) \/ Truncate(b, i) \/ DropIndex(b, i)
  PROVE  IInv'
<1>1. CASE Reindex(b, i)
  BY <1>1, RebuildInv DEF Reindex, IInv, StoreInv, Entry
<1>2. CASE Truncate(b, i)
  <2>1. nextFile[i] \in FileNos
    BY <1>2, BoundsAssumption DEF Truncate, Rebuild, IInv, StoreInv, FileNos
  <2>2. QED
    BY <1>2, <2>1, RebuildInv DEF Truncate
<1>3. CASE DropIndex(b, i)
  <2> DEFINE entry == [catalog[i] EXCEPT !.exists = FALSE]
  <2>1. entry \in Entry
    BY DEF IInv, StoreInv, Entry
  <2>2. catalog' \in [Indexes -> Entry] /\ XactInv' /\ StmtInv'
    BY <1>3, <2>1, ChangeCatalogInv DEF DropIndex
  <2>3. StoreInv' /\ PendingInv' /\ DiscardedInv' /\ VacuumInv'
    BY <1>3, <2>2, Unchanged DEF IInv, StoreInv, DropIndex, stageVars
  <2>4. QED
    BY <2>2, <2>3 DEF IInv
<1>4. QED
  BY <1>1, <1>2, <1>3

\* DELETE and VACUUM.
LEMMA MaintenanceInv ==
  ASSUME IInv, MaintenanceStep
  PROVE  IInv'
<1>1. XactInv' /\ StmtInv' /\ PendingInv' /\ DiscardedInv'
  BY Unchanged DEF IInv, MaintenanceStep, Delete, VacuumScan, BulkDeleteStep,
                   VacuumHeap, xactVars, stageVars
<1>2. ASSUME NEW i \in Indexes, NEW t \in Tids, Delete(i, t)
      PROVE  IInv'
  <2>1. catalog[i].heap \in FileNos
    BY DEF IInv, StoreInv, Entry
  <2>2. heap' \in [Indexes -> [FileNos -> [Tids -> {"free", "live", "dead"}]]]
    BY <1>2, <2>1 DEF Delete, IInv, StoreInv
  <2>3. StoreInv' /\ VacuumInv'
    BY <1>2, <2>2, Unchanged DEF Delete, IInv, StoreInv
  <2>4. QED
    BY <1>1, <2>3 DEF IInv
<1>3. ASSUME NEW i \in Indexes, VacuumScan(i)
      PROVE  IInv'
  <2>1. StoreInv'
    BY <1>3, Unchanged DEF VacuumScan, IInv
  <2>2. VacuumInv'
    BY <1>3 DEF VacuumScan, VacuumInv, Vacuum
  <2>3. QED
    BY <1>1, <2>1, <2>2 DEF IInv
<1>4. CASE BulkDeleteStep
  <2> DEFINE i == vacuum.idx
             img == CurrentImage(i)
             new == [gen |-> img.gen + 1,
                     graph |-> BulkDelete(img.graph, vacuum.dead),
                     unrankable |-> BulkDelete(img.unrankable, vacuum.dead)]
  <2>1. vacuum \in Vacuum /\ i \in Indexes
    BY <1>4 DEF BulkDeleteStep, IInv, VacuumInv, Vacuum
  <2>2. new \in Image
    BY <2>1, CurrentImageType, BulkDeleteType DEF IInv, Image
  <2>3. image' \in [Indexes -> [FileNos -> Image]]
    <3>1. CASE UNCHANGED image
      BY <3>1 DEF IInv, StoreInv
    <3>2. CASE SetImage(i, new)
      BY <2>1, <2>2, <3>2, SetImageType DEF IInv
    <3>3. QED
      BY <1>4, <3>1, <3>2 DEF BulkDeleteStep
  <2>4. VacuumInv'
    BY <1>4, <2>1 DEF BulkDeleteStep, VacuumInv, Vacuum
  <2>5. StoreInv'
    BY <1>4, <2>3 DEF BulkDeleteStep, IInv, StoreInv
  <2>6. QED
    BY <1>1, <2>4, <2>5 DEF IInv
<1>5. CASE VacuumHeap
  <2>1. vacuum.idx \in Indexes /\ catalog[vacuum.idx].heap \in FileNos
    BY <1>5 DEF VacuumHeap, IInv, VacuumInv, Vacuum, StoreInv, Entry
  <2>2. heap' \in [Indexes -> [FileNos -> [Tids -> {"free", "live", "dead"}]]]
    BY <1>5, <2>1 DEF VacuumHeap, IInv, StoreInv
  <2>3. StoreInv' /\ VacuumInv'
    BY <1>5, <2>2 DEF VacuumHeap, IInv, StoreInv, VacuumInv
  <2>4. QED
    BY <1>1, <2>3 DEF IInv
<1>6. QED
  BY <1>2, <1>3, <1>4, <1>5 DEF MaintenanceStep

LEMMA NextInv == IInv /\ [Next]_vars => IInv'
<1> SUFFICES ASSUME IInv, [Next]_vars PROVE IInv'
  OBVIOUS
<1>1. ASSUME NEW b \in Backends, BackendStep(b)
      PROVE  IInv'
  <2>1. CASE Begin(b) \/ StartParallelPlan(b) \/ StartCommit(b)
    BY <2>1, BeginInv, StartOtherInv
  <2>2. ASSUME NEW i \in Indexes, NEW t \in Tids, StartInsert(b, i, t)
        PROVE  IInv'
    BY <2>2, StartInsertInv
  <2>3. ASSUME NEW i \in Indexes, StartScan(b, i)
        PROVE  IInv'
    BY <2>3, StartScanInv
  <2>4. CASE Settle(b) \/ Flush(b) \/ StageRow(b) \/ FinishRead(b) \/ Commit(b)
    BY <2>4, SettleInv, FlushInv, StageRowInv, FinishReadInv, CommitInv
  <2>5. CASE SubStart(b) \/ SubCommit(b)
    BY <2>5, SubStartInv, SubCommitInv
  <2>6. CASE Abort(b) \/ SettleFails(b) \/ FlushFails(b) \/ StageFails(b)
    BY <2>6, AbortInv
  <2>7. ASSUME NEW i \in Indexes, Reindex(b, i) \/ Truncate(b, i) \/ DropIndex(b, i)
        PROVE  IInv'
    BY <2>7, ReplaceInv
  <2>8. QED
    BY <1>1, <2>1, <2>2, <2>3, <2>4, <2>5, <2>6, <2>7, Zenon DEF BackendStep
<1>2. CASE UNCHANGED vars
  BY <1>2, Unchanged DEF vars, stageVars, IInv, xactVars
<1>3. QED
  BY <1>1, <1>2, MaintenanceInv DEF Next

\* The inductive invariant holds.
THEOREM Inductive == Spec => []IInv
<1>1. QED
  BY InitInv, NextInv, PTL DEF Spec

\* Type correctness.
THEOREM TypeCorrect == Spec => []TypeOK
<1>1. QED
  BY Inductive, IInvImplies, PTL

\* The savepoint marks of every staged write, and of every write a rebuild set
\* aside, stay inside the rows that survive, however savepoints, rebuilds, errors
\* and rollbacks interleave: what settle_pending slices by them is there.
THEOREM MarksStayInBounds == Spec => []MarksInBounds
<1>1. QED
  BY Inductive, IInvImplies, PTL

-----------------------------------------------------------------------------
(* The stash: OneDiscardPerSub and DiscardsAreOpen.                        *)

StashInv == OneDiscardPerSub /\ DiscardsAreOpen

OpenSub(b, s) == \E k \in DOMAIN frames[b] : frames[b][k].sub = s

\* A step of one backend keeps the invariant if that backend's stash is in order.
LEMMA StashStep ==
  ASSUME StashInv, NEW b \in Backends,
         \A c \in Backends \ {b} : frames'[c] = frames[c] /\ discarded'[c] = discarded[c],
         StashUnique(discarded'[b]),
         \A e \in discarded'[b] : OpenSub(b, e.sub)'
  PROVE  StashInv'
<1>1. OneDiscardPerSub'
  BY DEF StashInv, OneDiscardPerSub, StashUnique
<1>2. DiscardsAreOpen'
  BY DEF StashInv, DiscardsAreOpen, OpenSub
<1>3. QED
  BY <1>1, <1>2 DEF StashInv

\* What the invariant says of one backend.
LEMMA StashOfBackend ==
  ASSUME StashInv, NEW b \in Backends
  PROVE  StashUnique(discarded[b]) /\ \A e \in discarded[b] : OpenSub(b, e.sub)
BY DEF StashInv, OneDiscardPerSub, DiscardsAreOpen, StashUnique, OpenSub

\* Locks and rows go onto the innermost frame without touching its id.
LEMMA SameSubs ==
  ASSUME IInv, NEW b \in Backends, frames[b] # <<>>,
         NEW f \in Frame, f.sub = TopFrame(b).sub, frames' = OnTopFrame(b, f)
  PROVE  /\ \A s : OpenSub(b, s) => OpenSub(b, s)'
         /\ \A c \in Backends \ {b} : frames'[c] = frames[c]
<1> DEFINE n == Len(frames[b])
<1>1. /\ frames \in [Backends -> Seq(Frame)] /\ n \in DOMAIN frames[b]
  BY TopFrameType DEF IInv, XactInv
<1>2. frames'[b] = [frames[b] EXCEPT ![n] = f]
      /\ \A c \in Backends \ {b} : frames'[c] = frames[c]
  BY <1>1 DEF OnTopFrame
<1>3. /\ DOMAIN frames'[b] = DOMAIN frames[b]
      /\ \A k \in DOMAIN frames[b] : frames'[b][k].sub = frames[b][k].sub
  BY <1>1, <1>2, LenProperties DEF TopFrame
<1>4. QED
  BY <1>2, <1>3 DEF OpenSub

LEMMA QuietStep ==
  ASSUME StashInv, UNCHANGED <<frames, discarded>>
  PROVE  StashInv'
BY DEF StashInv, OneDiscardPerSub, DiscardsAreOpen

LEMMA TopFrameStep ==
  ASSUME IInv, StashInv, NEW b \in Backends, frames[b] # <<>>,
         NEW f \in Frame, f.sub = TopFrame(b).sub, frames' = OnTopFrame(b, f),
         UNCHANGED discarded
  PROVE  StashInv'
BY StashOfBackend, SameSubs, StashStep

LEMMA BeginStash ==
  ASSUME IInv, StashInv, NEW b \in Backends, Begin(b)
  PROVE  StashInv'
<1>1. DOMAIN frames[b] = {}
  BY EmptySeq DEF Begin
<1>2. discarded[b] = {}
  BY <1>1, StashOfBackend DEF OpenSub
<1>3. \A c \in Backends \ {b} : frames'[c] = frames[c] /\ discarded'[c] = discarded[c]
  BY DEF Begin, stageVars, IInv, XactInv
<1>4. discarded'[b] = {}
  BY <1>2 DEF Begin, stageVars
<1>5. QED
  BY <1>3, <1>4, StashStep DEF StashUnique

LEMMA LockStash ==
  ASSUME IInv, StashInv, NEW b \in Backends, NEW i \in Indexes,
         StartScan(b, i) \/ (\E t \in Tids : StartInsert(b, i, t)) \/ DropIndex(b, i)
  PROVE  StashInv'
<1>1. TopFrame(b) \in Frame /\ frames[b] # <<>>
  BY TopFrameType DEF IInv, StartScan, StartInsert, DropIndex, Idle
<1>2. CASE StartScan(b, i)
  <2> DEFINE f == [TopFrame(b) EXCEPT !.locks = @ \cup {i}]
  <2>1. f \in Frame /\ f.sub = TopFrame(b).sub
    BY <1>1 DEF Frame
  <2>2. frames' = OnTopFrame(b, f) /\ UNCHANGED discarded
    BY <1>2 DEF StartScan, stageVars
  <2> HIDE DEF f
  <2>3. QED
    BY <1>1, <2>1, <2>2, TopFrameStep
<1>3. ASSUME NEW t \in Tids, StartInsert(b, i, t)
      PROVE  StashInv'
  <2> DEFINE g == [TopFrame(b) EXCEPT !.rows = @ \cup {<<i, catalog[i].heap, t>>}]
             f == [TopFrame(b) EXCEPT !.rows = @ \cup {<<i, catalog[i].heap, t>>},
                                      !.locks = @ \cup {i}]
  <2>1. g \in Frame /\ g.sub = TopFrame(b).sub /\ g.locks = TopFrame(b).locks
    <3>1. catalog[i].heap \in FileNos
      BY DEF IInv, StoreInv, Entry
    <3>2. QED
      BY <1>1, <3>1 DEF Frame
  <2>2. f = [g EXCEPT !.locks = @ \cup {i}]
    BY <1>1 DEF Frame
  <2>3. frames' = OnTopFrame(b, f) /\ UNCHANGED discarded
    BY <1>3 DEF StartInsert, stageVars
  <2> HIDE DEF f, g
  <2>4. f \in Frame /\ f.sub = TopFrame(b).sub
    BY <2>1, <2>2 DEF Frame
  <2>5. QED
    BY <1>1, <2>3, <2>4, TopFrameStep
<1>4. CASE DropIndex(b, i)
  <2>1. Idle(b) /\ \E entry : ChangeCatalog(b, i, entry)
    BY <1>4 DEF DropIndex
  <2>2. PICK f \in Frame : f.sub = TopFrame(b).sub /\ frames' = OnTopFrame(b, f)
    BY <2>1, ChangeCatalogFrame
  <2>3. QED
    BY <1>1, <1>4, <2>2, TopFrameStep DEF DropIndex, stageVars
<1>5. QED
  BY <1>2, <1>3, <1>4

\* SAVEPOINT: the frames that were open still are.
LEMMA SubStartStash ==
  ASSUME IInv, StashInv, NEW b \in Backends, SubStart(b)
  PROVE  StashInv'
<1> DEFINE f == NewFrame(nextSub[b])
<1>1. /\ frames[b] \in Seq(Frame) /\ f \in Frame
      /\ frames' = [frames EXCEPT ![b] = Append(frames[b], f)]
      /\ discarded' = [discarded EXCEPT ![b] = MarkStash(discarded[b], "start")]
  BY DEF IInv, XactInv, NewFrame, Frame, SubStart
<1> HIDE DEF f
<1>2. /\ DOMAIN frames[b] \subseteq DOMAIN Append(frames[b], f)
      /\ \A k \in DOMAIN frames[b] : Append(frames[b], f)[k] = frames[b][k]
  <2>1. /\ DOMAIN frames[b] = 1 .. Len(frames[b]) /\ Len(frames[b]) \in Nat
        /\ Append(frames[b], f) \in Seq(Frame)
        /\ Len(Append(frames[b], f)) = Len(frames[b]) + 1
        /\ \A k \in 1 .. Len(frames[b]) : Append(frames[b], f)[k] = frames[b][k]
    BY <1>1, LenProperties, AppendProperties
  <2>2. DOMAIN Append(frames[b], f) = 1 .. Len(frames[b]) + 1
    BY <2>1, LenProperties
  <2>3. QED
    BY <2>1, <2>2
<1>3. frames'[b] = Append(frames[b], f) /\ discarded'[b] = MarkStash(discarded[b], "start")
      /\ \A c \in Backends \ {b} : frames'[c] = frames[c] /\ discarded'[c] = discarded[c]
  BY <1>1 DEF IInv, XactInv, DiscardedInv
<1>4. ASSUME NEW e \in discarded'[b] PROVE OpenSub(b, e.sub)'
  <2>1. PICK d \in discarded[b] : d.sub = e.sub
    BY <1>3, MarkStashSubs
  <2>2. OpenSub(b, d.sub)
    BY StashOfBackend
  <2>3. QED
    BY <1>2, <1>3, <2>1, <2>2 DEF OpenSub
<1>5. StashUnique(discarded'[b])
  BY <1>3, StashOfBackend, MarkStashUnique
<1>6. QED
  BY <1>3, <1>4, <1>5, StashStep

\* RELEASE SAVEPOINT: the released subtransaction's entry goes to its parent.
LEMMA SubCommitStash ==
  ASSUME IInv, StashInv, NEW b \in Backends, SubCommit(b)
  PROVE  StashInv'
<1> DEFINE n == Len(frames[b])
           s == CurrentSub(b)
           parent == frames[b][n - 1].sub
           moved == StashCommit(discarded[b], s, parent)
<1>1. /\ n \in Nat /\ n - 1 \in 1 .. n /\ n - 1 >= 1
      /\ frames[b] \in Seq(Frame)
      /\ frames' \in [Backends -> Seq(Frame)]
      /\ \A c \in Backends \ {b} : frames'[c] = frames[c]
      /\ Len(frames'[b]) = n - 1
      /\ \A k \in 1 .. n - 1 : frames'[b][k].sub = frames[b][k].sub
  BY SubCommitFrames DEF IInv
<1>2. DOMAIN frames[b] = 1 .. n /\ DOMAIN frames'[b] = 1 .. n - 1 /\ n - 1 \in 1 .. n - 1
  BY <1>1, LenProperties
<1>3. /\ discarded'[b] = MarkStash(moved, "commit")
      /\ \A c \in Backends \ {b} : discarded'[c] = discarded[c]
  BY DEF SubCommit, IInv, DiscardedInv
<1>4. StashUnique(discarded'[b])
  BY <1>3, StashOfBackend, StashCommitUnique, MarkStashUnique
<1>5. ASSUME NEW e \in discarded'[b] PROVE OpenSub(b, e.sub)'
  <2>1. PICK d \in moved : d.sub = e.sub
    BY <1>3, <1>5, MarkStashSubs
  <2>2. CASE d.sub = parent
    BY <1>1, <1>2, <2>1, <2>2 DEF OpenSub
  <2>3. CASE d \in discarded[b] /\ d.sub # s
    <3>1. PICK k \in 1 .. n : frames[b][k].sub = d.sub
      BY <1>2, <2>3, StashOfBackend DEF OpenSub
    <3>2. k # n
      BY <2>3, <3>1 DEF CurrentSub
    <3>3. k \in 1 .. n - 1
      BY <1>1, <3>2
    <3>4. QED
      BY <1>1, <1>2, <2>1, <3>1, <3>3 DEF OpenSub
  <2>4. QED
    BY <2>2, <2>3, StashCommitSubs
<1>6. QED
  BY <1>1, <1>3, <1>4, <1>5, StashStep

\* An abort leaves nothing at the subtransaction that goes down.
LEMMA AbortStash ==
  ASSUME IInv, StashInv, NEW b \in Backends, NEW p, AbortInnermost(b, p)
  PROVE  StashInv'
<1>1. CASE Len(frames[b]) > 1
  <2> DEFINE n == Len(frames[b])
             s == CurrentSub(b)
             drained == StashDrain(discarded[b], s)
  <2>1. AbortSub(b, p)
    BY <1>1 DEF AbortInnermost
  <2>2. /\ n \in Nat /\ frames[b] \in Seq(Frame)
        /\ frames' \in [Backends -> Seq(Frame)]
        /\ \A c \in Backends \ {b} : frames'[c] = frames[c]
        /\ Len(frames'[b]) = n - 1
        /\ \A k \in 1 .. n - 1 : frames'[b][k] = frames[b][k]
    BY <1>1, <2>1, AbortSubFrames DEF IInv
  <2>3. DOMAIN frames[b] = 1 .. n /\ DOMAIN frames'[b] = 1 .. n - 1
    BY <2>2, LenProperties
  <2>4. /\ discarded'[b] = MarkStash(drained, "abort")
        /\ \A c \in Backends \ {b} : discarded'[c] = discarded[c]
    BY <2>1 DEF AbortSub, IInv, DiscardedInv
  <2>5. StashUnique(drained)
    BY StashOfBackend DEF StashDrain, StashUnique
  <2>6. StashUnique(discarded'[b])
    BY <2>4, <2>5, MarkStashUnique
  <2>7. ASSUME NEW e \in discarded'[b] PROVE OpenSub(b, e.sub)'
    <3>1. PICK d \in drained : d.sub = e.sub
      BY <2>4, <2>7, MarkStashSubs
    <3>2. d \in discarded[b] /\ d.sub # s
      BY DEF StashDrain
    <3>3. PICK k \in 1 .. n : frames[b][k].sub = d.sub
      BY <2>3, <3>2, StashOfBackend DEF OpenSub
    <3>4. k # n
      BY <3>2, <3>3 DEF CurrentSub
    <3>5. k \in 1 .. n - 1
      BY <2>2, <3>4
    <3>6. QED
      BY <2>2, <2>3, <3>1, <3>3, <3>5 DEF OpenSub
  <2>8. QED
    BY <2>2, <2>4, <2>6, <2>7, StashStep
<1>2. CASE ~(Len(frames[b]) > 1)
  <2>1. /\ \A c \in Backends \ {b} : frames'[c] = frames[c] /\ discarded'[c] = discarded[c]
        /\ discarded'[b] = {}
    BY <1>2 DEF AbortInnermost, AbortTop, EndXact, IInv, XactInv, DiscardedInv
  <2>2. QED
    BY <2>1, StashStep DEF StashUnique
<1>3. QED
  BY <1>1, <1>2

LEMMA CommitStash ==
  ASSUME IInv, StashInv, NEW b \in Backends, Commit(b)
  PROVE  StashInv'
<1>1. /\ \A c \in Backends \ {b} : frames'[c] = frames[c] /\ discarded'[c] = discarded[c]
      /\ discarded'[b] = {}
  BY DEF Commit, EndXact, IInv, XactInv, DiscardedInv
<1>2. QED
  BY <1>1, StashStep DEF StashUnique

\* A rebuild sets the staged write aside at the innermost subtransaction.
LEMMA RebuildStash ==
  ASSUME IInv, StashInv, NEW b \in Backends, NEW i \in Indexes, NEW h, NEW rows,
         Rebuild(b, i, h, rows)
  PROVE  StashInv'
<1>1. /\ frames[b] # <<>> /\ Idle(b) /\ Forget(b, i)
      /\ \E entry : ChangeCatalog(b, i, entry)
  BY DEF Rebuild, Idle
<1>2. PICK f \in Frame : f.sub = TopFrame(b).sub /\ frames' = OnTopFrame(b, f)
  BY <1>1, ChangeCatalogFrame
<1>3. /\ \A s : OpenSub(b, s) => OpenSub(b, s)'
      /\ \A c \in Backends \ {b} : frames'[c] = frames[c]
  BY <1>1, <1>2, SameSubs
<1>4. OpenSub(b, CurrentSub(b))
  BY <1>1, TopFrameType DEF OpenSub, CurrentSub, IInv
<1>5. /\ \A c \in Backends \ {b} : discarded'[c] = discarded[c]
      /\ discarded'[b] = discarded[b]
         \/ discarded'[b] = StashPush(discarded[b], CurrentSub(b), pending[b])
  BY <1>1 DEF Forget, stageVars, IInv, DiscardedInv
<1>6. StashUnique(discarded'[b])
  BY <1>5, StashOfBackend, StashPushUnique
<1>7. \A e \in discarded'[b] : OpenSub(b, e.sub)
  BY <1>4, <1>5, StashOfBackend, StashPushSubs
<1>8. QED
  BY <1>3, <1>5, <1>6, <1>7, StashStep

LEMMA NextStash == IInv /\ StashInv /\ [Next]_vars => StashInv'
<1> SUFFICES ASSUME IInv, StashInv, [Next]_vars PROVE StashInv'
  OBVIOUS
<1>1. ASSUME NEW b \in Backends, BackendStep(b)
      PROVE  StashInv'
  <2>1. CASE Begin(b)
    BY <2>1, BeginStash
  <2>2. CASE \/ StartParallelPlan(b) \/ StartCommit(b)
             \/ Settle(b) \/ Flush(b) \/ StageRow(b) \/ FinishRead(b)
    BY <2>2, QuietStep DEF StartParallelPlan, StartCommit, Settle, Flush, StageRow,
                           FinishRead, xactVars, stageVars
  <2>3. ASSUME NEW i \in Indexes, NEW t \in Tids, StartInsert(b, i, t)
        PROVE  StashInv'
    BY <2>3, LockStash
  <2>4. ASSUME NEW i \in Indexes, StartScan(b, i)
        PROVE  StashInv'
    BY <2>4, LockStash
  <2>5. CASE Commit(b)
    BY <2>5, CommitStash
  <2>6. CASE SubStart(b)
    BY <2>6, SubStartStash
  <2>7. CASE SubCommit(b)
    BY <2>7, SubCommitStash
  <2>8. CASE Abort(b) \/ SettleFails(b) \/ FlushFails(b) \/ StageFails(b)
    BY <2>8, AbortStash DEF Abort, SettleFails, FlushFails, StageFails
  <2>9. ASSUME NEW i \in Indexes, Reindex(b, i) \/ Truncate(b, i) \/ DropIndex(b, i)
        PROVE  StashInv'
    BY <2>9, RebuildStash, LockStash DEF Reindex, Truncate
  <2>10. QED
    BY <1>1, <2>1, <2>2, <2>3, <2>4, <2>5, <2>6, <2>7, <2>8, <2>9, Zenon DEF BackendStep
<1>2. CASE MaintenanceStep
  BY <1>2, QuietStep DEF MaintenanceStep, Delete, VacuumScan, BulkDeleteStep,
                         VacuumHeap, xactVars, stageVars
<1>3. CASE UNCHANGED vars
  BY <1>3, QuietStep DEF vars, xactVars, stageVars
<1>4. QED
  BY <1>1, <1>2, <1>3 DEF Next

\* A subtransaction never has two writes set aside, and no write is set aside at a
\* subtransaction that has ended: whatever a ROLLBACK TO hands back is the write as
\* it was before that subtransaction's first rebuild.
THEOREM StashInOrder == Spec => [](OneDiscardPerSub /\ DiscardsAreOpen)
<1>1. Init => StashInv
  BY DEF Init, StashInv, OneDiscardPerSub, DiscardsAreOpen
<1>2. QED
  BY <1>1, Inductive, NextStash, PTL DEF Spec, StashInv

\* Every entry of the stash belongs to a subtransaction that is open: ids start over
\* with each transaction, so an entry left behind would reach a stranger's rollback.
THEOREM DiscardsStayOpen == Spec => []DiscardsAreOpen
BY StashInOrder, PTL

=============================================================================
