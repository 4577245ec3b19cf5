----------------------------- MODULE GraphCodec -----------------------------
(***************************************************************************)
(* The bytes of an index image: a graph written out and read back, and the *)
(* framing around it (src/hnsw.rs, src/index_am/storage.rs).               *)
(*                                                                         *)
(* A byte string is a sequence of fields, each with its width and what it  *)
(* holds.  Reading another width than was written there finds nothing.     *)
(***************************************************************************)
EXTENDS HnswGraph

CONSTANTS
  Dim,        \* components of a vector
  Arity,      \* attribute columns
  RowOf,      \* attribute row of the node at a point
  SideRows,   \* rows without a vector, each with its heap pointer
  MIN_SLOTS   \* the least that max_slots may be

CODEC_MAGIC == 1112037975   \* "BHNW"
CODEC_VERSION == 2
ATTR_TAG_NULL == 0
ATTR_TAG_INT == 1
ATTR_TAG_FLOAT == 2

\* An attribute value is its tag and the eight bytes that follow one that is not NULL.
Values == {v \in [tag : ATTR_TAG_NULL .. ATTR_TAG_FLOAT, bits : Nat] :
             v.tag = ATTR_TAG_NULL => v.bits = 0}

ASSUME CodecAssumption ==
  /\ Dim \in 1 .. MAX_DIM /\ Arity \in Nat /\ MIN_SLOTS \in Nat
  /\ RowOf \in [Points -> [1 .. Arity -> Values]]
  /\ \A k \in DOMAIN SideRows : SideRows[k].row \in [1 .. Arity -> Values]

\* u64::MAX, which is past TLC's integers.
NO_ENTRY == -1

\* The PRNG moves on once per node drawn and is never zero; seed counts as its start.
SEED == 1
Rng(n) == SEED + n

DimOf(g) == IF Size(g) = 0 THEN 0 ELSE Dim

-----------------------------------------------------------------------------
(* Writing.  Ids count from 0 on the wire.                                 *)

Field(width, value) == [width |-> width, value |-> value]
Len8(n) == <<Field(8, n)>>

ByteLen(bytes) ==
  LET upTo[k \in 0 .. Len(bytes)] == IF k = 0 THEN 0 ELSE upTo[k - 1] + bytes[k].width
  IN upTo[Len(bytes)]

WriteValue(v) == <<Field(1, v.tag)>> \o IF v.tag = ATTR_TAG_NULL THEN <<>> ELSE Len8(v.bits)

WriteAttrRow(row) ==
  Len8(Len(row)) \o FlattenSeq([k \in DOMAIN row |-> WriteValue(row[k])])

WriteLayer(ids) == Len8(Len(ids)) \o [k \in DOMAIN ids |-> Field(8, ids[k] - 1)]

WriteHeader(g) ==
  <<Field(4, CODEC_MAGIC), Field(2, CODEC_VERSION), Field(1, MetricCode[Header.metric]),
    Field(1, 0), Field(8, Header.m), Field(4, Header.gamma), Field(8, Header.ef),
    Field(8, DimOf(g)), Field(8, g.top), Field(8, SEED), Field(8, Rng(Size(g))),
    Field(8, IF g.entry = 0 THEN NO_ENTRY ELSE g.entry - 1), Field(8, Size(g))>>

WriteNode(g, id) ==
  <<Field(1, IF id \in g.dead THEN 1 ELSE 0), Field(8, Len(g.links[id])),
    Field(4 * DimOf(g), g.at[id])>>
  \o FlattenSeq([k \in DOMAIN g.links[id] |-> WriteLayer(g.links[id][k])])
  \o WriteAttrRow(RowOf[g.at[id]])

ToBytes(g) == WriteHeader(g) \o FlattenSeq([id \in Ids(g) |-> WriteNode(g, id)])

\* The heap pointers of the nodes, any numbers.
Tids(g) == [id \in Ids(g) |-> id]

EncodeIndex(g) ==
  LET graphBytes == ToBytes(g) IN
  Len8(ByteLen(graphBytes)) \o graphBytes
  \o Len8(Size(g)) \o [id \in Ids(g) |-> Field(6, Tids(g)[id])]
  \o Len8(Len(SideRows))
  \o FlattenSeq([k \in DOMAIN SideRows |->
                   <<Field(6, SideRows[k].tid)>> \o WriteAttrRow(SideRows[k].row)])

-----------------------------------------------------------------------------
(* Reading.  A source is the fields, a place in them, the bytes that may    *)
(* still be read, and whether every check so far has passed.               *)

Nothing == -2

Peek(r, k, width) ==
  IF r.at + k <= Len(r.bytes) /\ r.bytes[r.at + k].width = width /\ width <= r.left
  THEN r.bytes[r.at + k].value ELSE Nothing

Next8(r) == Peek(r, 0, 8)

\* Past n fields of so many bytes, which the caller checks to be there.
Skip(r, n, width) ==
  [r EXCEPT !.at = @ + n, !.left = @ - width, !.ok = @ /\ width <= r.left]

Check(r, condition) == [r EXCEPT !.ok = @ /\ condition]

\* A reader that has failed reads no further.
Then(Op(_), r) == IF r.ok THEN Op(r) ELSE r

Reading(Op(_, _), r, steps) == InTurn(LAMBDA s, x : Then(LAMBDA t : Op(t, x), s), r, steps)

Counted(n) == [k \in 1 .. n |-> k]

\* read_attr_row: the row is left in r.row.
ReadAttrRow(r) ==
  LET ReadValue(s, k) ==
        LET tag == Peek(s, 0, 1)
            bits == IF tag = ATTR_TAG_NULL THEN 0 ELSE Peek(s, 1, 8) IN
        [Check(IF tag = ATTR_TAG_NULL THEN Skip(s, 1, 1) ELSE Skip(s, 2, 9),
               tag \in ATTR_TAG_NULL .. ATTR_TAG_FLOAT /\ bits # Nothing)
           EXCEPT !.row = Append(@, [tag |-> tag, bits |-> bits])]
      opened == [Skip(r, 1, 8) EXCEPT !.row = <<>>]
  IN Reading(ReadValue, Check(opened, Next8(r) \in 0 .. opened.left), Counted(Next8(r)))

\* One layer of a node of a graph of n.
ReadLayer(r, n, layer) ==
  LET count == Next8(r)
      opened == Skip(r, 1, 8)
      ids == [k \in 1 .. count |-> Peek(opened, k - 1, 8)] IN
  [Check(IF count \in 0 .. MaxDegree(layer) /\ count <= opened.left \div 8
         THEN Skip(opened, count, 8 * count) ELSE [opened EXCEPT !.ok = FALSE],
         \A k \in DOMAIN ids : ids[k] \in 0 .. n - 1)
     EXCEPT !.layers = Append(@, [k \in DOMAIN ids |-> ids[k] + 1])]

SlotsOf(levels) == MaxDegree(0) + 1 + (levels - 1) * (MaxDegree(1) + 1)

\* The fixed part of a node of a graph with header h; maxSlots is what links may take.
OpenNode(r, h, maxSlots) ==
  LET opened == Skip(r, 3, 9 + 4 * h.dim)
      levels == Peek(r, 1, 8) IN
  [Check(opened, /\ Peek(r, 0, 1) \in {0, 1} /\ Peek(r, 2, 4 * h.dim) # Nothing
                 /\ levels \in 1 .. h.top + 1
                 /\ levels <= opened.left \div 8
                 /\ r.slots + SlotsOf(levels) <= maxSlots)
     EXCEPT !.slots = @ + SlotsOf(levels), !.layers = <<>>]

KeepNode(r, flag, point) ==
  [r EXCEPT !.nodes = Append(@, [dead |-> flag = 1, at |-> point,
                                 links |-> r.layers, row |-> r.row])]

ReadNode(r, h, maxSlots) ==
  KeepNode(Then(ReadAttrRow, Reading(LAMBDA s, k : ReadLayer(s, h.n, k - 1),
                                     OpenNode(r, h, maxSlots), Counted(Peek(r, 1, 8)))),
           Peek(r, 0, 1), Peek(r, 2, 4 * h.dim))

\* The fixed part of a graph, in the order it is read.
HeaderOf(r) ==
  [magic |-> Peek(r, 0, 4), version |-> Peek(r, 1, 2), metric |-> Peek(r, 2, 1),
   m |-> Peek(r, 4, 8), gamma |-> Peek(r, 5, 4), ef |-> Peek(r, 6, 8),
   dim |-> Peek(r, 7, 8), top |-> Peek(r, 8, 8), seed |-> Peek(r, 9, 8),
   rng |-> Peek(r, 10, 8), entry |-> Peek(r, 11, 8), n |-> Peek(r, 12, 8)]

HeaderIsSane(h) ==
  /\ h.magic = CODEC_MAGIC /\ h.version = CODEC_VERSION
  /\ HeaderAccepted([h EXCEPT !.metric = IF \E x \in Metrics : MetricCode[x] = @
                                         THEN CHOOSE x \in Metrics : MetricCode[x] = @ ELSE @])
  /\ h.dim \in 0 .. MAX_DIM /\ h.top \in 0 .. MAX_LAYER
  /\ {h.seed, h.rng} \cap {0, Nothing} = {}
  /\ h.n # Nothing
  /\ h.entry = NO_ENTRY \/ h.entry \in 0 .. h.n - 1
  /\ h.n > 0 => h.entry # NO_ENTRY /\ h.dim > 0

\* What the decoder asks of all nodes at the end.
WholeGraph(r, h) ==
  [Check(r, /\ r.left = 0
            /\ IF h.entry = NO_ENTRY THEN h.top = 0
               ELSE h.entry < Len(r.nodes) /\ Len(r.nodes[h.entry + 1].links) - 1 = h.top)
     EXCEPT !.header = h]

ReadNodes(r, h) ==
  WholeGraph(Reading(LAMBDA s, k : ReadNode(s, h, r.left + MIN_SLOTS), r, Counted(h.n)), h)

\* from_graph_bytes, over the bytes that r may read.
FromGraphBytes(r) == ReadNodes(Check(Skip(r, 13, 76), HeaderIsSane(HeaderOf(r))), HeaderOf(r))

\* One heap pointer, and the table of them.  A count is checked against what is left.
ReadTid(r, k) ==
  [Check(Skip(r, 1, 6), Peek(r, 0, 6) # Nothing) EXCEPT !.tids = Append(@, Peek(r, 0, 6))]

ReadTidTable(r) ==
  LET opened == Skip(r, 1, 8) IN
  Reading(ReadTid, Check(opened, Next8(r) \in 0 .. opened.left \div 6), Counted(Next8(r)))

\* The rows without a vector: an entry is at least a heap pointer and a length.
ReadSideRow(r, k) ==
  LET read == ReadAttrRow(Skip(r, 1, 6)) IN
  [Check(read, Peek(r, 0, 6) # Nothing)
     EXCEPT !.side = Append(@, [tid |-> Peek(r, 0, 6), row |-> read.row])]

ReadUnrankable(r) ==
  LET opened == Skip(r, 1, 8) IN
  Reading(ReadSideRow, Check(opened, Next8(r) \in 0 .. opened.left \div 14), Counted(Next8(r)))

Source(bytes) ==
  [bytes |-> bytes, at |-> 1, left |-> ByteLen(bytes), ok |-> TRUE, header |-> <<>>,
   row |-> <<>>, layers |-> <<>>, nodes |-> <<>>, slots |-> 0, tids |-> <<>>, side |-> <<>>]

\* The graph gets its own bytes and no others.
ReadGraph(r, length) ==
  LET framed == Check(Skip(r, 1, 8), length \in 0 .. r.left - 8) IN
  [FromGraphBytes([framed EXCEPT !.left = length]) EXCEPT !.left = framed.left - length]

WholeImage(r) ==
  Check(r, /\ r.left = 0
           /\ \A k \in DOMAIN r.side : Len(r.side[k].row) = Arity
           /\ Len(r.nodes) = Len(r.tids))

\* load_index: the graph, then the tables that follow.
LoadIndex(bytes) ==
  WholeImage(Then(ReadUnrankable, Then(ReadTidTable,
    ReadGraph(Source(bytes), Next8(Source(bytes))))))

-----------------------------------------------------------------------------
IsReadBack(image) ==
  LET ids == Ids(graph) IN
  /\ image.ok
  /\ image.header.rng = Rng(Size(graph)) /\ image.header.dim = DimOf(graph)
  /\ graph = [at |-> [id \in ids |-> image.nodes[id].at],
              links |-> [id \in ids |-> image.nodes[id].links],
              dead |-> {id \in ids : image.nodes[id].dead},
              entry |-> image.header.entry + 1, top |-> image.header.top]
  /\ \A id \in ids : image.nodes[id].row = RowOf[graph.at[id]]
  /\ image.tids = Tids(graph) /\ image.side = SideRows

\* Every image that is written is read back as it was: the decoder refuses no graph that
\* inserts, tombstones and compactions can build, and loses none of it, the generator's
\* state and the rows without a vector included (encode_index against load_index).
ImageRoundTrips == IsReadBack(LoadIndex(EncodeIndex(graph)))
=============================================================================
