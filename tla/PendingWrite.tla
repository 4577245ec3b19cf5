---------------------------- MODULE PendingWrite ----------------------------
(***************************************************************************)
(* The data that the deferred-write path of Brindle works on, and what it  *)
(* does to that data (src/index_am/storage.rs): the stored image of an     *)
(* index, a transaction's staged copy of it, the savepoint marks that say  *)
(* which staged rows a ROLLBACK TO keeps, and the stash a rebuild sets     *)
(* staged rows aside in.  Everything here is a pure operator; the module   *)
(* Staging gives them their callers.                                       *)
(*                                                                         *)
(* A row is its heap pointer.  Rows in Vectorless have a NULL in the       *)
(* indexed column: they live beside the graph, in the unrankable table.    *)
(***************************************************************************)
EXTENDS Integers, Sequences

CONSTANTS
  Indexes,     \* the brindle indexes, each on a table of its own
  Tids,        \* heap pointers a table can hand out
  Vectorless,  \* the ones whose row has a NULL vector
  None         \* an absent Option

ASSUME VectorlessAssumption == Vectorless \subseteq Tids

FIRST_GENERATION == 1

\* A graph node as its heap pointer and tombstone; ids are positions.
Node == [tid : Tids, deleted : BOOLEAN]

\* What the pages of an index relation hold: the metapage's generation, the
\* graph with its heap-pointer table, and the vectorless rows.
\* A vectorless row that VACUUM has dropped stays in its sequence as a hole
\* (deleted), where the code closes the gap: nothing refers to these rows by
\* position, and a transaction's own are told apart by a count from the end of
\* the loaded ones.
Image == [gen : Nat, graph : Seq(Node), unrankable : Seq(Node)]

\* How many rows of each kind: a savepoint mark, or a rewind target.
Count == [nodes : Nat, unrankable : Nat]

\* An absent rewind is no count.
ASSUME NoneAssumption == None \notin Count

ZeroCount == [nodes |-> 0, unrankable |-> 0]

Write == [idx : Indexes, baseGen : Nat,
          graph : Seq(Node), baseN : Nat,
          unrankable : Seq(Node), baseUnrankable : Nat,
          marks : Seq(Count), rewind : Count \cup {None}]

\* One entry of the stash: a write, against the subtransaction that rebuilt.
Discard == [sub : Nat, write : Write]

AtMost(a, b) == IF a < b THEN a ELSE b

CountMin(c, d) == [nodes |-> AtMost(c.nodes, d.nodes),
                   unrankable |-> AtMost(c.unrankable, d.unrankable)]

CountLeq(c, d) == c.nodes <= d.nodes /\ c.unrankable <= d.unrankable

-----------------------------------------------------------------------------
(* Images.                                                                 *)

LiveNode(t) == [tid |-> t, deleted |-> FALSE]

\* The rows of a sequence of nodes that a scan can return.
LiveIn(nodes) == {nodes[k].tid : k \in {j \in DOMAIN nodes : ~nodes[j].deleted}}

LiveTids(img) == LiveIn(img.graph) \cup LiveIn(img.unrankable)

\* ambulkdelete asks VACUUM of every entry whether its row is dead.
BulkDelete(nodes, dead) ==
  [k \in DOMAIN nodes |->
     [tid |-> nodes[k].tid,
      deleted |-> nodes[k].deleted \/ nodes[k].tid \in dead]]

-----------------------------------------------------------------------------
(* A staged write.                                                         *)

\* A PendingWrite as first loaded, with nothing staged on it.
Loaded(i, img) ==
  [idx |-> i, baseGen |-> img.gen,
   graph |-> img.graph, baseN |-> Len(img.graph),
   unrankable |-> img.unrankable, baseUnrankable |-> Len(img.unrankable),
   marks |-> <<>>, rewind |-> None]

\* Stage a row: into the graph, or into the side table without a vector.
PushRow(w, t) ==
  IF t \in Vectorless
  THEN [w EXCEPT !.unrankable = Append(@, LiveNode(t))]
  ELSE [w EXCEPT !.graph = Append(@, LiveNode(t))]

\* Variant of Staged: the vectorless rows counted from the wrong base.
StagedFromGraphBase(w) ==
  [nodes |-> Len(w.graph) - w.baseN, unrankable |-> Len(w.unrankable) - w.baseN]

\* How much of a write is this transaction's own, as opposed to loaded.
Staged(w) == [nodes |-> Len(w.graph) - w.baseN,
              unrankable |-> Len(w.unrankable) - w.baseUnrankable]

StagedNodes(w, n) == SubSeq(w.graph, w.baseN + 1, w.baseN + n)

StagedUnrankable(w, n) ==
  SubSeq(w.unrankable, w.baseUnrankable + 1, w.baseUnrankable + n)

\* The staged rows that no rollback has claimed yet.
Surviving(w) == IF w.rewind = None THEN Staged(w) ELSE w.rewind

\* The rows those are.
SurvivingTids(w) ==
  LiveIn(StagedNodes(w, Surviving(w).nodes))
    \cup LiveIn(StagedUnrankable(w, Surviving(w).unrankable))

\* settle_pending: the survivors of a rewind, re-applied to the image as it is
\* now.  The marks carry over because they count staged rows.
Settled(w, img) ==
  [idx |-> w.idx, baseGen |-> img.gen,
   graph |-> img.graph \o StagedNodes(w, w.rewind.nodes),
   baseN |-> Len(img.graph),
   unrankable |-> img.unrankable \o StagedUnrankable(w, w.rewind.unrankable),
   baseUnrankable |-> Len(img.unrankable),
   marks |-> w.marks, rewind |-> None]

\* Variants of Written: another backend's rows overwritten; the loaded rows replayed
\* with the staged ones; the generation left as it was.
WrittenOver(w, img) ==
  [gen |-> img.gen + 1, graph |-> w.graph, unrankable |-> w.unrankable]

WrittenAgain(w, img) ==
  [gen |-> img.gen + 1, graph |-> img.graph \o w.graph,
   unrankable |-> img.unrankable \o w.unrankable]

WrittenSilently(w, img) ==
  [gen |-> img.gen,
   graph |-> img.graph \o StagedNodes(w, Staged(w).nodes),
   unrankable |-> img.unrankable \o StagedUnrankable(w, Staged(w).unrankable)]

\* flush_locked and rewrite_index_blob: the staged graph itself while nobody
\* has written since it was loaded, else a replay onto the image that is there.
Written(w, img) ==
  [gen |-> img.gen + 1,
   graph |-> IF img.gen = w.baseGen THEN w.graph
             ELSE img.graph \o StagedNodes(w, Staged(w).nodes),
   unrankable |-> IF img.gen = w.baseGen THEN w.unrankable
                  ELSE img.unrankable
                         \o StagedUnrankable(w, Staged(w).unrankable)]

-----------------------------------------------------------------------------
(* Savepoint bookkeeping: apply_mark_event, one operator per event.        *)

\* Variants of MarkStart: one number for two sequences; no clamp to a rewind.
MarkStartNodesOnly(w) ==
  [w EXCEPT !.marks = Append(@, [nodes |-> Surviving(w).nodes, unrankable |-> 0])]

MarkStartUnclamped(w) == [w EXCEPT !.marks = Append(@, Staged(w))]

\* SUBXACT_EVENT_START_SUB: remember how much was staged, less whatever an
\* earlier abort has already rolled back.
MarkStart(w) == [w EXCEPT !.marks = Append(@, CountMin(Surviving(w), Staged(w)))]

PopMark(w) ==
  [w EXCEPT !.marks = IF @ = <<>> THEN <<>> ELSE SubSeq(@, 1, Len(@) - 1)]

\* SUBXACT_EVENT_COMMIT_SUB: the rows belong to the parent now.
MarkCommit(w) == PopMark(w)

\* The line the innermost savepoint drew; without one, staging began inside it.
TopMark(w) == IF w.marks = <<>> THEN ZeroCount ELSE w.marks[Len(w.marks)]

\* SUBXACT_EVENT_ABORT_SUB: record a rewind if it rolls anything back.
MarkAbort(w) ==
  LET mark  == TopMark(w)
      prior == IF w.rewind = None THEN mark ELSE w.rewind
  IN  [PopMark(w) EXCEPT
        !.rewind = IF CountLeq(Staged(w), mark) THEN @ ELSE CountMin(prior, mark)]

\* apply_mark_event: move one write's bookkeeping across a boundary.
MarkEvents == {"start", "commit", "abort"}

ApplyMarkEvent(w, event) == CASE event = "start"  -> MarkStart(w)
                              [] event = "commit" -> MarkCommit(w)
                              [] event = "abort"  -> MarkAbort(w)

\* The tail of subxact_callback: the staged write, and every write set aside.
MarkPending(p, event) == IF p = None THEN None ELSE ApplyMarkEvent(p, event)

MarkStash(stash, event) ==
  {[sub |-> e.sub, write |-> ApplyMarkEvent(e.write, event)] : e \in stash}

\* The lines the savepoints draw lie inside what survives, outer ones no later than
\* inner ones.
MarksOrdered(w) ==
  /\ CountLeq(Surviving(w), Staged(w))
  /\ \A k \in DOMAIN w.marks : CountLeq(w.marks[k], Surviving(w))
  /\ \A j, k \in DOMAIN w.marks : j <= k => CountLeq(w.marks[j], w.marks[k])

-----------------------------------------------------------------------------
(* The stash.  A set stands for the vector: its order would matter only if *)
(* a subtransaction had two entries.                                       *)

StashOf(stash, s) == {e \in stash : e.sub = s}

\* Variant of StashPush: a second rebuild in a subtransaction sets aside as well.
StashPushAlways(stash, s, w) == stash \cup {[sub |-> s, write |-> w]}

\* forget_pending: set the write aside, unless this subtransaction has an entry.
StashPush(stash, s, w) ==
  IF StashOf(stash, s) # {} THEN stash ELSE stash \cup {[sub |-> s, write |-> w]}

\* What subtransaction s gets back when it aborts.
StashRestored(stash, s) ==
  IF StashOf(stash, s) = {} THEN None
  ELSE (CHOOSE e \in StashOf(stash, s) : TRUE).write

\* Nothing may be left behind for an aborted subtransaction.
StashDrain(stash, s) == {e \in stash : e.sub # s}

\* Variant of StashCommit: the entry stays at the released subtransaction's id.
StashCommitStays(stash, s, parent) == stash

\* A released subtransaction's entry passes to the parent, unless the parent has
\* one: that is the older.
StashCommit(stash, s, parent) ==
  IF StashOf(stash, parent) # {} THEN StashDrain(stash, s)
  ELSE StashDrain(stash, s)
         \cup {[sub |-> parent, write |-> e.write] : e \in StashOf(stash, s)}
=============================================================================
