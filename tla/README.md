# Brindle: a TLA+ verification project

Brindle is a PostgreSQL extension (Rust, pgrx) that adds an index access method
for vector similarity search with attribute filters. This directory holds TLA+
modules that model the parts of it that are hard to test, TLC configurations
that check them on small instances, and TLAPS proofs of what matters for every
instance. Paths below are relative to the repository root.

## 1. The system

| Component | Source | State it keeps | Operations |
|---|---|---|---|
| Stored image | `src/index_am/storage.rs` 1-735 | the pages of an index relation: a metapage (length, *generation*) and data pages holding one blob (graph, heap-pointer table, vectorless rows); a heavyweight *image lock* | `write_index_blob`, `rewrite_index_blob`, `load_index`, `read_generation` |
| Decoded-index cache | `storage.rs` 738-1031 | per backend: decoded copies, each tagged with relfilenode and generation, under a byte ceiling | `cached_index` |
| Deferred writes | `storage.rs` 1033-1395, 1640-1721 | per backend, one slot `PENDING`: a private copy of an index's image with the transaction's rows on top | `pending_insert`, `flush_pending_for`, `flush_before_parallel_plan`, `flush_locked`, `settle_pending` |
| Savepoints and rebuilds | `storage.rs` 1397-1638 | marks and a rewind target in every staged write; per backend `DISCARDED`, the writes that rebuilds set aside | `xact_callback`, `subxact_callback`, `apply_mark_event`, `forget_pending` |
| Access method callbacks | `src/index_am/mod.rs` | none of their own | `ambuild`, `aminsert`, `ambulkdelete`, `amvacuumcleanup`, cost estimation |
| Scan | `src/index_am/scan.rs` | per scan: the query, the results of its one search, a cursor, in a search state on Rust's heap | `ambeginscan`, `amrescan` (ranked, unordered, NULL query), `amgettuple`, `amendscan`, the reset callback |
| HNSW graph | `src/hnsw.rs` | layers of links, entry point, tombstones | `insert`, neighbour selection, `delete`, `compact` |
| Codec | `src/hnsw.rs` 1248-1860, `storage.rs` 90-220, 684-732 | none | `to_bytes_into`, `encode_index`; `from_graph_bytes`, `load_index` |
| Filter-aware search | `src/hnsw.rs` 206-960, 1168-1245 | a beam of results, a frontier, budgets | `search_layer`, bridging over regions that do not match |
| Predicates | `src/filter.rs`, `src/index_am/attrs.rs` | none | evaluation, pushdown of scan keys |
| Hybrid search | `src/hybrid.rs`, `src/fusion.rs` | the call under way | resolving the columns and the operator, two SQL queries, fusion of the two ranked lists |
| Distances, vector types | `src/distance.rs`, `src/vector.rs`, `src/pg_vector.rs` | none | arithmetic, operators, text and binary I/O |
| Operator classes, options | `src/index_am/opclass.rs`, `src/index_am/options.rs` | the catalog's: an operator class and a WITH list per index | the metric of an operator class; which options a build may use |
| Declarations | `guc.rs`, `lib.rs` | settings | entry points |

**How they interact.** `aminsert` does not write the index. It stages the row in
the backend's `PENDING` slot, and the row reaches the image when something needs
it there: a scan of that index, a parallel plan (whose workers are other
processes and cannot see the slot), an insert into *another* index (there is one
slot), or the commit callback. A flush compares the generation it loaded with
the image's: if they agree it writes its own copy of the graph, otherwise it
replays its rows onto the image that is there. `ambulkdelete` rewrites the image
directly and so makes staged copies stale. Every reader and writer of the image
takes the image lock. A build of a new relfilenode (REINDEX, TRUNCATE) takes the
index's staged rows out of the slot, since the build reads the heap, and puts
them in the stash, since a rollback may bring the old relfilenode back.

`brindle_hybrid` never opens an index. It reads the catalog for the operator the
indexes of a column offer, writes that operator into a query, and fuses the ids
the query returns with those of a full-text query, each as a list of ranks. Between
the catalog lookup and the queries the indexes may change; that the answer is in
the right order rests on the operator class, whose metric a build puts into the
header of the graph.

**What is hard.** Several backends stage against one image; vacuum and heap
pointer reuse run between staging and flush; savepoints nest, release and roll
back, and a rollback may not touch the image from the callback, so it records a
*rewind* that a later statement settles; rebuilds roll back too; an error may
arrive after the slot was emptied and before the image was written. A row lost
here is a row an index scan never returns, and nothing repairs it.

**What makes each component correct.**

- Stored image: a reader sees one image, not halves of two; a generation names
  one image of a relfilenode.
- Cache: a hit is the image as of the moment the lock was held; the ceiling
  binds when the call returns.
- Deferred writes: no live row is missing from image and slots together; no row
  twice; no entry for a heap pointer that may be handed out again; nobody's
  update is overwritten; a transaction's reads find its own rows.
- Savepoints and rebuilds: exactly the rows rolled back leave; marks stay inside
  the staged rows; the stash hands back the right write, once.
- Graph: degree bounds, entry point on the top layer, links only to nodes that
  have the layer, new nodes reachable.
- Search: only admissible rows, in order, within budget, terminating.
- Scan state: dropped exactly once, whichever of `amendscan`, an error and the end
  of a memory context comes first.
- Predicates: index and executor together answer the WHERE clause.
- Codec: it reads back what it wrote, and refuses nothing that can be built.
- Options: what CREATE INDEX accepts, the decoder accepts; a metric only comes
  from an operator class.
- Hybrid search: the vector list is in the order of the operator resolved; the
  scores and ranks reported agree with each other; ties are settled by id.

## 2. Modules

| Module | What it is |
|---|---|
| `PendingWrite` | The data and the pure operators: images, staged writes, marks, the stash. No state. |
| `Staging` | The state machine: backends, their statements and (sub)transactions, PENDING, DISCARDED, VACUUM. Extends `PendingWrite`. |
| `MCStaging` | Symmetry sets for TLC. |
| `StagingProofs` | Lemmas about the operators (types, what settling and each savepoint event preserve, what the stash holds), then the inductive invariant, one lemma per action: type correctness, mark bounds, and the stash. |
| `RowViews` | What a backend holds, seen from every level a rollback can return to, and that savepoint events, rebuilds, flushes and inserts keep every such view in order. Extends `StagingProofs`. |
| `RowProofs` | The rows: none lost, none twice, no dangling entry, no update overwritten. Extends `RowViews`. |
| `HnswParams` | Parameters of a graph, the caps they imply, and the bounds a decoder holds a header to. Operators only. |
| `LayerSearch` | The HNSW graph as a value and the beam search of one layer, as pure operators: what building and searching share. |
| `HnswGraph` | The graph being built: `Insert`, `Delete`, `Compact`. Extends `LayerSearch` and `HnswParams`. |
| `GraphCodec` | The bytes of an index image, written and read back field by field. Extends `HnswGraph`. |
| `Predicate` | Attribute values, atoms, and how scan keys become them, with what a WHERE clause means in SQL beside it. Operators only. |
| `GraphScan` | An index scan over a graph: `search_inner` one expansion at a time, and the rows it hands out. Extends `HnswGraph` and `Predicate`. |
| `Loops` | Induction over the turns of a loop, shared by `GraphProofs` and `HybridProofs`. |
| `GraphProofs` | Lemmas about walks, selection and back-links, and that a graph keeps what its lists promise. |
| `ScanProofs` | Pushdown is exact, the search state of a scan is dropped exactly once, and every safety property of `GraphScan`. Extends `GraphProofs`. |
| `MCHnswGraph`, `MCGraphScan` | Vectors on an arc and the zero vector, graphs, attributes and WHERE clauses for TLC. `MCHnswGraph` extends `GraphCodec`. |
| `Metric` | Distances, the SQL operators and the operator classes that tie the two. Operators only. |
| `IndexCatalog` | The indexes of a table, their options, and the header a build makes of them. Extends `Metric` and `HnswParams`. |
| `Fusion` | Reciprocal rank fusion and the keys it works on. Operators only. |
| `Hybrid` | One call of `brindle_hybrid` among other transactions' changes of table and indexes. Extends `IndexCatalog` and `Fusion`. |
| `MCHybrid` | Documents, calls and WITH lists for TLC. |
| `HybridProofs` | Fusion keys keep ids and their order; every index can be read; the vector side of a call is in the operator's order; its scores are explained by its ranks, and better rows come first. Extends `Hybrid`. |
| `AtomicImage` | The contract of a stored image: replaced at one moment, read as of some moment. An abstract specification, of no code in particular. |
| `ImageStore` | The state machine under it: pages, the image lock, loads and rewrites page by page, the cache, the log, crashes. Implements `AtomicImage`. |
| `ImageProofs` | No read is torn or stale, the log covers every page, and the refinement of `AtomicImage`. |

### How state and actions correspond to the code

- `pending[b]` and `discarded[b]` are the thread-locals `PENDING` and
  `DISCARDED`. A `Write` is `PendingWrite` (storage.rs 1035-1092): the graph as a
  sequence of nodes with the length of its loaded part (`base_len`), the same
  for vectorless rows, marks, and `rewind_to` with `None` for an absent one.
- `image[i][f]` is the image stored in relfilenode `f` of index `i`; a node is
  its heap pointer and its tombstone, its id its position. Links and vectors are
  left out: which rows an image holds does not depend on them.
- A statement goes through three steps, `settle`, `flush`, `work`, because each
  takes the image lock on its own and other backends may run in between. That is
  the order of `pending_insert`, `flush_pending_for`,
  `flush_before_parallel_plan` and the pre-commit arm of `xact_callback`.
- `Settle` is `settle_pending`; `Flush` is `flush_locked` with the choice each
  caller makes of what to take (`Takes`); `StageRow` is the rest of
  `pending_insert`.
- `SubStart`, `SubCommit`, `AbortSub` are the arms of `subxact_callback`; they
  apply `apply_mark_event` to the slot and to every stashed write.
- `Rebuild` is `ambuild` with `forget_pending`; `Reindex` and `Truncate` are its
  two callers. `BulkDeleteStep` is `ambulkdelete`.
- `SettleFails`, `FlushFails`, `StageFails` are errors raised where the code can
  raise, followed by what PostgreSQL does then: the innermost (sub)transaction
  aborts.

The stored image, one step further down:

- `pages[r]` is a physical relation: a metapage (`gen`, `len`) and data pages. A
  data page says which image it is of and its place in it; an image is known by
  the set of writes it includes. The bytes of the blob are left out.
- `holder` and `sharers` are the heavyweight lock on `IMAGE_LOCK_BLOCK`. A call
  takes one at a time and waits in `Peek`, `LoadStart` or `WriteLock`.
- `call[b]` is the operation a backend runs, with its program counter. A scan is
  `cached_index`: `Peek` (the generation, under a lock taken and given back),
  `Consult` (the look in the cache), then on a miss `LoadStart`, `LoadPage`,
  `LoadEnd`, which are `load_index_with_generation`. An insert is the load of
  `pending_insert`. A flush and a vacuum are `WriteLock` (with the comparison of
  generations), a load if the image has moved, `Apply`, then
  `rewrite_index_blob`: one `WritePage` for each page and one `LogBatch` for each
  record of `log_fork_pages`, then `WriteUnlock`.
- `cache[b]` is the thread-local `CACHE`. An entry is tagged with the generation
  *peeked*, which may be older than the image that was loaded. `Evictions` is
  the set of outcomes of dropping entries in the arbitrary order of a hash map.
- `wal` and `durable` are PostgreSQL's: records not yet on disk, and what
  recovery would restore. `FlushWal` and `Checkpoint` move the one into the
  other; a checkpoint may write a dirty page before its record exists.
- `Raise` is an error or a cancelled wait, `Crash` the end of every backend.
  `MidWrite` says which of error, checkpoint and crash may strike a rewrite
  between its first page and its last record.
- The initial state is what `write_index_blob` leaves.

**The refinement.** `ContractImage` maps the pages to the contract's one value: a
write takes effect when its metapage is written, the pages that follow being
invisible behind the lock. `ContractRead` maps a call to the contract's read,
which takes effect at the last metapage it looked at. `history`, an auxiliary
variable no action reads, holds what each generation included, so that the
mapping can name an image that a writer has replaced since the look.
`ActsAtomically` is `AtomicImage!Spec` under that mapping.

The graph and its search:

- A graph is a record: `at` (vectors), `links` (per node and layer, a sequence of
  ids), `dead` (tombstones), `entry` and `top` (`entry_point`, `max_layer`). Ids
  count from 1, and `entry` is 0 where the code has `None`. A vector is a
  *point*, and all that is known of points is `Distance`, per pair any integer, since
  the code's inner product is no metric either, or `Undefined`: the NaN that
  `cosine_distance` returns for a zero vector, which a table may well hold.
- The flat arrays of the code (`link_counts`, `layer_base`, `links`) are nested
  sequences. What their arithmetic relies on is stated as properties: no list is
  longer than its cap (`ImageRoundTrips`, since the decoder refuses one that is) and
  no node is linked on a layer it lacks (`NeighborsShareTheLayer`), since
  `push_neighbor` checks neither.
- `Insert(p, level)` is `insert_with_attrs`; the level is what `random_level`
  draws. `Descend` and `Connect` are the bodies of its two loops, `BackLink` an
  append and its prune, `SelectNeighbors` the heuristic with its backfill.
- A layer search is a *task* (graph, query, filter, ef, layer) and a *beam*
  (visited, frontier, results, deferred, and the two allowances of `Traversal`).
  `Start`, `Turn`, `Rescues`, `Rescue` are the seeds, one round of the inner
  loop, and the end of the outer loop of `search_layer`; `Visit`, `BridgeOut`
  and `Expand` are the functions of those names. `WithinTwoHops` is the sequence
  of matching nodes one expansion looks at. Heaps are sets: the order that their
  `Cand` gives is `Nearer`.
- The code compares distances in two ways, which part at a NaN. `Precedes` is
  `total_cmp`, by which the heaps and sorts go and which puts a NaN last. `Less` is the
  `<` of `f32`, false on a NaN, by which `visit` admits (`Improves`), `search_layer`
  cuts off (`CutOff`) and the heuristic rejects (`Diverse`).
- `SearchLayer` runs a search from start to end, for `Insert`; `GraphScan` takes
  the same `Turn` as an action, `WalkOn`, and the rescue as `WalkAgain`.
  `EndNavigate`, `EndProbe` and `EndBottom` are what `search_inner` does between
  its layer searches: the entry point for navigation, the foothold of the
  probes, the detours that layer 0 gets anew.
- `Rescan`, `RescanUnordered` and `RescanNull` are the three ways through
  `amrescan`, from any state between two calls of an open scan (`MayRescan`), with rows
  left or not; `GetTuple` is `ScanSearch::next`.
- `held` is what outlives an error: the `opaque` pointer of the descriptor and the
  number of search states on the heap. `BeginScan` and `EndScan` are `ambeginscan`
  and `amendscan`, `Fails` an error that unwinds past `amendscan`, `ResetContext` the
  callback that PostgreSQL runs when it resets the scan's memory context.
- A scan key is a record (column, strategy, argument type, argument, flags).
  `Expressible` is what `atom_from_key` does not refuse, `AtomFromKey` the atom it
  makes; `PushedAtoms` and `Recheck` are the two halves of `predicate_from_keys`.
  `Before` and `Same` are `num_cmp` and `eq_matches`. `SqlHolds` and `Wanted` are
  *not* the code's: they say what SQL makes of the same comparison.
- Inside a search the predicate is the set of ids it matches (`Filter`), since a
  row's attributes do not change. `Returned` is what the executor makes of the
  scan's rows: all of them, or those that pass when `xs_recheck` is set.
  `scan.cost` counts what the code
  counts in `SearchCost`: detours, and expansions under a filter.

The codec:

- A byte string is a sequence of *fields*, each with the width and the value that one
  `extend_from_slice` wrote. A reader (`Source`) has a place, the bytes that it may
  still read, and a flag that a failed check clears. `Peek` finds nothing where the
  width differs, so a reader that is out of step with the writer fails.
- `ToBytes` and `FromGraphBytes` are the two directions of a graph, with every check
  of the latter in its order; `EncodeIndex` and `LoadIndex` add the framing: the
  graph's length, the table of heap pointers, the rows without a vector. `LoadIndex`
  gives the graph's decoder its own bytes and no others, as the code limits its source.

Hybrid search, and the catalog it resolves against:

- `call` is a call of `brindle_hybrid`, step by step: `resolve`, `vector`, `text`,
  `fuse`, then `done` or `failed`; other transactions commit in between. `Depth` is the
  candidate count of `run`.
- `Visible` is what the next query sees. The function is STABLE. `pgrx` takes a new
  snapshot for a query once the transaction has an id, and keeps the calling
  statement's before that: `xid` says which.
- `Resolve` is `resolve`. `VectorSide` is `vector_ids` under either plan: `Sorted`, in
  the order of the operator, or `Scanned`, some of the nearest rows in the order of the
  metric in an index's *header*; nothing sorts these again. `TextSide` is `text_ids`,
  `Fuse` is `rrf` with the ranks and the truncation of `fuse`.
- `Rrf`, `Scores`, `Accumulate` and `Ahead` are `fusion.rs`; `KeyOf` and `IdOf` are the
  two conversions between an `i64` id and a `u64` key, on words of `2 * HALF` values.
- `IndexCatalog` has an index as its operator class, its WITH list and its header.
  `AlterIndex` changes the list; only a build (`CreateIndex`, `Reindex`) makes a
  header of it. `OptionsAccepted` is `amoptions` with `validate`, `BuildParams` is
  `build_params`, `NewHeader` is what `Hnsw::new` clamps it to.

`Staging` uses the contract, not the pages: its locked sections are single steps
because of what `ImageStore` shows.

PostgreSQL itself is modelled as the code relies on it: subtransaction ids that
restart with every transaction, row visibility at abort, relfilenodes and
catalog entries that an abort restores, relation locks that an aborted
subtransaction releases, and a VACUUM that scans the heap, calls
`ambulkdelete`, then frees heap pointers. Those definitions are marked external
in `PROJECT.json`.

### Abstractions

- The stash is a set where the code has a vector; `OneDiscardPerSub` is what
  makes that sound, and it is both checked and proved.
- A vectorless row that VACUUM drops stays in the side table as a hole.
- A rebuild indexes the rows alive in the heap; rows that are only recently dead
  are left out.
- A transaction deletes no rows of its own: deletes come from other, already
  committed transactions.
- In `Staging` the locked section of a flush, a settle or a bulk delete is one
  step. `ImageStore` shows that this is sound: `ActsAtomically`.
- In `ImageStore` an image of a given content may need any number of pages up to
  `MaxPages`; sizes do not follow from contents.
- A relation is never dropped or truncated in `ImageStore`; relfilenodes come and
  go in `Staging`.
- PREPARE TRANSACTION takes the commit arm.
- A graph does not change under a scan: the code searches a shared, immutable
  handle. Each insert is one step for the same reason: a backend works on its
  own copy.
- Attribute rows do not influence the graph: they are a constant of `GraphScan`, by
  id, and the rows of the side table have ids of their own.
- An attribute is NULL, an integer or NaN, in one of the two families of
  `AttrValue`. Fractions, infinities, -0.0 and the widths of the types are left
  out: numbers are compared only.
- Errors of a scan (a query of another dimension, a node without a heap pointer) are
  one action, `Fails`, and strike between calls: a search keeps nothing that an error
  in its middle would leave behind.
- A level is one of the constant `Levels`. `random_level` has no bound of its own and
  the decoder has one (`MAX_LAYER`, 64): a draw past it (hnsw.rs:652) has a probability
  of at most 2^-65 and is outside the instance.
- In `GraphCodec` a vector is one field of `4 * Dim` bytes; heap pointers and
  components are any values. The generator's state is a number per node drawn: it
  is only carried.
- `gamma` is counted in quarters, so that `m0` and the ef floor round as the code
  rounds them.
- Distances in `Metric` are exact: over integer vectors, without the root, and cosines
  compared as fractions. Rounding and overflow of `f32` are left out.
- Scores are counted in units of a common multiple, so equal sums are equal.
  `Absorbing` stands for a `k` so large that the ranks do not change a score.
- In `Hybrid` a table has one vector column, a query of one document text, and
  PostgreSQL's `ts_rank` is a number given per row. The `real[]` operator classes
  are left out: `resolve` takes columns of `brindle_vector` only.
- Distances in a graph are integers or one NaN: no infinities, no rounding, no NaN with
  a sign (hazards). The code sorts by `total_cmp`, for which every NaN it makes itself is
  the same.
- The recheck flag has one place, the scan: `amgettuple` copies it to the descriptor
  with every row, and the executor reads it there before the next call.

## 3. Runs

Twelve runs: eight that pass, four whose violation is a finding. Deadlock is checked
in every run. `inserts`, subtransactions per transaction, their depth, rebuilds,
writes, pages and the size of graphs are capped by constants that appear in guards
(`MaxInserts`, `MaxSubs`, `MaxDepth`, `MaxRebuilds`, `MaxWrites`, `MaxPages`,
`MaxNodes`, `MaxDead`, `MaxCompacted`, `MaxChanges`); everything else is finite by itself.

| Run | Instance | What it shows |
|---|---|---|
| `StagingSavepoints` | 1 backend, 1 index, 3 rows (one vectorless), depth 2, 2 subtransactions, 2 inserts, 2 rebuilds, DROP INDEX; errors at all three steps outside savepoints | all the savepoint and stash bookkeeping, with rebuilds nested in it; a transaction abort leaves nothing behind |
| `StagingReplay` | 2 backends, 1 index, 2 rows of either kind present at the start, delete + vacuum + pointer reuse, a savepoint; the same errors | concurrent staging, replay, settle on a changed image |
| `StagingTwoIndexes` | 2 backends, 2 indexes, 1 row, 2 inserts, a rebuild; the same errors | the single slot shared by indexes; reads after flush; a rebuild under the other backend's slot |
| `StagingErrorInSavepoint` | 1 backend, 2 rows, a flush that fails inside a savepoint | *violation*: see findings |
| `StagingRefusedRow` | 2 backends, 2 rows, a refused row inside a savepoint, a rebuild | *violation* |
| `ImageStore` | 2 backends, 1 logged index, images of 1 or 2 pages, 2 writes, checkpoints at any time, crashes between writes | no torn read, honest cache tags, a complete log, and the refinement of `AtomicImage` |
| `ImageCache` | 2 backends, 2 unlogged indexes, 1 write, ceilings from 0 to 3 pages that change at will | the cache's ceiling; every call returns |
| `ImageCrash` | as `ImageStore`, 1 write, with crashes in mid-write | *violation*: see findings |
| `HnswGraph` | graphs of up to 5 nodes, 3 vectors of dimension 3 under cosine, the zero vector among them, 2 levels, m = 2, a tombstone, compaction of up to 3 nodes; 2 attribute columns with NULL among their values, 2 rows without a vector | every image is read back as it was written, edges stay on their layers, one-sided edges come from pruning only |
| `GraphScan` | an empty graph and three of 8 nodes with 2 and 3 layers, one with two zero vectors, the entry point among them, 3 sets of tombstones, 2 rows without a vector, an integer and a float attribute with NULL and NaN among them, WHERE clauses that hold for no row, for one, for a stretch, for two ends or for all, with a NULL argument, cross-type arguments and `= NaN`, 3 queries, one without a direction, budgets 1 and 3; errors and rescans between any two calls, descriptors reused | results, allowances, foothold and termination of the filtered search; the rows of a scan against those the clause asks for; the life of the search state |
| `Hybrid` | up to 4 rows, 5 tables to begin with, 2 indexes, 4 WITH lists, 14 calls, ids of 8 values, 1 change by another transaction at any moment | ranks, scores and ties of fusion; the order of the vector list under either plan; readable indexes |
| `HnswAllDead` | graphs of up to 3 nodes, 3 vectors | *violation*: see findings |

**Why these bounds.** Each hazard needs a small configuration: a lost update
needs two backends and one row each; a stale replay needs one vacuum between
load and flush; marks go wrong with two nested savepoints and two rows of
*different* kinds (a mark counts two sequences); the stash goes wrong with two
rebuilds and two levels. The mutants listed in `PROJECT.json` are the evidence:
every property of every passing run is violated, within the run's own bounds,
by a plausible bug in the definition it is about. The error runs set `RiskDepth`
to 0, the depth at which the code's own argument applies (an error aborts the
transaction); the two violation runs raise it to 1.

For the stored image: a torn read needs an image of two pages and one writer; a
shrinking or growing rewrite needs both sizes; a stale cache tag needs a write
between the peek and the load, so two backends; a lost update needs two writes; a
log that misses a page needs a record of two pages and an image that shrinks. A
cache needs two entries and a ceiling that admits one of them.

For the graph: at m = 2 a list on layer 1 is full with two neighbours and on
layer 0 with four, so five nodes fill both and prune on layer 1; layer 0 is pruned in
the builds of eight nodes that `GraphScan` starts from. Equal vectors, different ones and
the zero vector bring ties, backfill, diversity and undefined distances into play. For the search: the budgets 2 and 2 per
`ef` stand for the code's 4 and 16 (`DETOURS_PER_EF`, `EXPANSIONS_PER_EF`), since a
graph of eight nodes would never spend the latter. Eight nodes on an arc are far
enough apart that a predicate matching one end strands a walk at the other, that
two matches lie in different fragments, and that a probe spends the descent's
allowance before it comes down. With the zero vector at the entry point a descent starts
at a node that nothing is less far than, and a beam of three can fill up with such nodes.

For hybrid search: on the three vectors of the first table the three operators give
three different orders, so a metric of another operator shows. The tables have
negative ids beside others, NULL ids, an id on two rows, a NULL and a zero vector,
rows in one list only, ties of score and of rank. Among the calls are a depth that
overflows `4 * k`, a `k` past the point where ranks count, a NULL query, one of another
dimension and blank text. The WITH lists are empty, on the ceiling of layer 0's degree
in two ways, and past it. One change between two queries is what a call may meet
without noticing; more changes only repeat it.

For the codec: six nodes with attribute rows of both kinds give lists of all lengths
on both layers, empty ones included, and the empty graph a header without an entry.

**Fairness.** `SearchEnds` assumes `WF_vars(SearchStep)`: a backend that searches
keeps running; nothing is assumed of rescans, `GetTuple` or `EndScan`. For
`CallsReturn` the assumptions are these. `WF_vars(Proceed(b))`: a backend that
waits for nothing keeps running. `SF_vars(Acquire(b))`: a request for the image
lock that could be granted again and again is granted. Weak fairness would not
do, since other backends take the lock in between; PostgreSQL's lock manager
queues requests and lets no later one overtake a conflicting earlier one, which
is what strong fairness stands for. Nothing is assumed of `StartCall`, `Raise`,
`FlushWal`, `Checkpoint` or `Crash`. In `ImageCache` an unlogged relation keeps
the log out of the state, and liveness within TLC's reach.

### Properties

- `NoRowLost`: every row alive in the heap is in the image, or staged in the
  backend that will write it, or is the row being inserted.
- `NoRowTwice`: a live heap pointer has at most one entry, image and slots taken
  together.
- `NoDanglingEntry`: no image entry points at a free heap slot.
- `BaseIsCurrent`: a staged write carrying the image's generation was loaded
  from exactly that image.
- `ReadsItsOwnRows`: at the moment a scan or a parallel plan reads, the image has
  every live row of its own transaction.
- `WritesOnlyLiveRows` (action): no step adds to an image a row that is not
  alive, so rolled-back rows never reach one.
- `MarksInBounds`, `OneDiscardPerSub`, `DiscardsAreOpen`: the bookkeeping.
- `NoTornRead`: the pages a load has read so far are those of the image whose
  metapage it read, in their places.
- `TagsAreHonest`: a cached copy tagged with the metapage's generation is the
  image that is there. The code tags a copy with a generation read *before* the
  load, and a tag that is too old is only a later miss.
- `CacheWithinCeiling`: when a scan has its index, its cache is within the ceiling
  the scan read, also when the ceiling was lowered after entries came in.
- `LoggedImageIsWhole`: once a write's records are on disk, recovery restores the
  pages readers see, those appended and those cleared included.
- `ImageIsReadable`: with no write under way, the pages form one image.
- `CallsReturn` (liveness): every call returns.
- `ImageRoundTrips`: what `encode_index` writes, `load_index` reads back as it was, the
  generator's state and the rows without a vector included, and refuses nothing that can
  be built: the entry point is on the top layer, no node above it, lists within their
  caps, links to nodes there are. A refusal makes the index unreadable.
- `NeighborsShareTheLayer`: a neighbour has the layer it is a neighbour on.
- `OneSidedOnlyWhenFull`: if an edge lacks its other side, the node that lacks it
  has a full list, so a prune took it.
- `LiveNodesReachable`: every live node can be walked to from the entry point
  (checked in `HnswAllDead` only; pruning can disconnect larger graphs as well,
  which the code accepts as recall).
- `ResultsAreNearestSeen`: the beam holds admissible nodes it has seen, as many as
  fit, and the nearest of these, in every state of every layer search. The last part is
  claimed while no result is a NaN away. With a zero vector as the farthest of a full
  beam the code refuses every node it meets from then on: `d < beam.farthest()`
  (hnsw.rs:713) is false, while `total_cmp` puts each of them before it, and the cut-off
  (880) never fires, so a filtered search goes on until its allowance is spent, an
  unfiltered one until its frontier is empty. A descent, whose ef is 1, that starts at a live
  zero vector ends there; a ranked scan with ef_search at 1 that starts at one it may
  return returns it alone. Without the condition TLC
  finds this in the build `Zeros`.
- `EndsShortOnlyWhenSpent`: a filtered search that ends with fewer results than
  it may return has spent an allowance or has every admissible node that can be
  walked to on layer 0. This is what the rescue is for.
- `WithinAllowances`: expansions and detours over all layers of a search are
  bounded by fixed multiples of `ef`.
- `RowsInOrder`: what a ranked scan hands out is live, matches, is without
  repetition and in the order of distance, and no more than the budget.
- `ScanAnswersTheQuery`: no row is returned that the WHERE clause does not hold for,
  and a scan without a distance clause returns every row it holds for, those
  without a vector included and tombstones not.
- `DroppedOnce`: a scan's search state is there while the scan may be called, and dropped
  once, by `amendscan` or by the reset callback, whichever comes first.
- `ScoresAreExplained`: the ranks that hybrid search reports add up to the score it
  reports, and are those of the two lists, also for an id that a list has twice.
- `BetterRowsFirst`: a row that neither list puts after another, and one puts before it,
  is returned before it; equal scores are in the order of ids, negative ones included; no
  row is missing below `k`.
- `VectorSideFollowsOperator`: the vector list is in the order of the operator resolved
  for the call, under either plan, whatever becomes of the indexes between the queries.
  A list longer than `EfSearch` comes from no index scan, and then has the nearest rows,
  as many as the limit lets through. A shorter one may come from a scan, which may miss rows.
- `IndexesCanBeRead`: the header of every index is one that the decoder accepts, whatever
  CREATE INDEX and ALTER INDEX accepted.
- `FootholdKept` (action): once a probe has found a matching node, every later
  layer starts from one, and the search returns something.
- `SearchEnds` (liveness): every search ends.
- `ActsAtomically` (refinement): pages, locks and caches behave as one value.

## 4. Findings

The first two need an error or a DROP inside a savepoint. TLC's counterexamples
are under 20 steps.

1. `StagingErrorInSavepoint`. `flush_pending_for` (storage.rs:1329),
   `pending_insert` (1165) and `settle_pending` (1658) take the write out of the
   slot before the work that can raise. After ROLLBACK TO and COMMIT, rows staged
   *before* the savepoint are in the heap and in no image. The comment at
   storage.rs:1067 says they must be kept. The same
   loss comes without an error: a flush while the index is dropped discards its
   rows, and a ROLLBACK TO that brings the index back does not bring them (unlike
   a rebuild, a drop sets nothing aside). The configuration shows it with
   `Faults = {}` and `CanDrop = TRUE`.
2. `StagingRefusedRow`. A row refused after the slot was loaded leaves an empty
   write, which the subtransaction abort keeps, while the locks of the aborted
   statement go. Another session can TRUNCATE; the new relfilenode starts again
   at `FIRST_GENERATION`, the leftover write may carry the same generation, and
   commit writes the old graph over the truncated index.
3. `ImageCrash`. `rewrite_index_blob` overwrites pages in place, one at a time, and
   logs them afterwards. A checkpoint in between puts the new metapage on disk
   with old data pages; a crash then leaves a metapage of one image over pages
   of another, and no record restores either. README.md:203 says "Writes are
   WAL-logged, so the index survives a crash". An error between two pages
   (`MidWrite` with "error") has the same effect without a crash: the abort
   does not undo page writes.
4. `HnswAllDead`. `insert_with_attrs` links a new node to what its layer searches
   return, which is live nodes only. Where they meet only tombstones, as after
   DELETE of all rows and VACUUM, the new node is linked from nowhere and the
   entry point stays the tombstone (unless the new node is taller). Neither it
   nor, for the same reason, the nodes after it are ever found, until REINDEX. The
   test at mod.rs:1254 expects a row inserted after a vacuum to be "indexed as
   usual, alongside the tombstones", and hnsw.rs:224 takes it that a search with
   nothing admissible is "unreachable while any live row exists".
   A consequence that no run shows, since it takes about 1700 nodes: a node without
   neighbours reserves its full stride of link slots and writes a few dozen bytes, while
   `from_graph_bytes` refuses a graph that reserves more slots than it has payload bytes
   plus 1 << 22 (hnsw.rs:1727). `compact` is never called on an index, so at m = 2 and
   gamma = 512 enough rounds of DELETE, VACUUM and INSERT make it unreadable. With
   `MIN_SLOTS = 130`, gamma 16 and one point, `ImageRoundTrips` fails at the third node,
   and holds with `MaxDead = 0`.

## 5. Proofs

`tlapm` checks every proof to its leaves. Assumptions on the constants of `Staging`:
`VectorlessAssumption` (the vectorless rows are rows), `NoneAssumption` (an
absent option is no count), `FiniteAssumption` (finitely many heap pointers),
`BoundsAssumption` (the bounds are naturals, the switches Booleans),
`AbsentAssumption` (an absent catalog entry, statement or write is none of those). Nothing is
assumed about the number of backends, indexes, rows, savepoints or rebuilds.

| Theorem | Statement |
|---|---|
| `StagingProofs!TypeCorrect` | `Spec => []TypeOK` |
| `StagingProofs!MarksStayInBounds` | `Spec => []MarksInBounds` |
| `StagingProofs!StashInOrder` | `Spec => [](OneDiscardPerSub /\ DiscardsAreOpen)` |
| `StagingProofs!DiscardsStayOpen` | `Spec => []DiscardsAreOpen` |
| `RowProofs!NoRowIsLost` | `ErrorsEndTransactions` gives `Spec => []NoRowLost`, as in the next six |
| `RowProofs!NoRowIsTwice` | `Spec => []NoRowTwice` |
| `RowProofs!NoEntryDangles` | `Spec => []NoDanglingEntry` |
| `RowProofs!BaseStaysCurrent` | `Spec => []BaseIsCurrent` |
| `RowProofs!OwnRowsAreRead` | `Spec => []ReadsItsOwnRows` |
| `RowProofs!OnlyLiveRowsWritten` | `Spec => WritesOnlyLiveRows` |
| `RowProofs!RowsInOrder` | `Spec => []RowInv`, the invariant behind the six |
| `ImageProofs!TypesHold` | `WritesRunThrough` gives `Spec => []TypeOK`, of `ImageStore`, as in the next six |
| `ImageProofs!LoadsAreWhole` | `Spec => []NoTornRead` |
| `ImageProofs!CachedCopiesAreHonest` | `Spec => []TagsAreHonest` |
| `ImageProofs!LoggedPagesAreAll` | `Spec => []LoggedImageIsWhole` |
| `ImageProofs!ImageStaysReadable` | `Spec => []ImageIsReadable` |
| `ImageProofs!CachesAreBounded` | `Spec => []CacheWithinCeiling` |
| `ImageProofs!ImplementsAtomicImage` | `Spec => ActsAtomically`: the refinement of `AtomicImage` |
| `StagingProofs!SettledStagesSurvivors` | `Settled(w, img)` has the rows of `img` as they are and behind them exactly the surviving staged rows of `w`, in order; its marks are those of `w` and in bounds, its rewind is `None` |
| `StagingProofs!ApplyMarkEventOK` | each savepoint event keeps a write well formed |
| `GraphProofs!GraphSound` | `Spec => []SoundGraph`, of `HnswGraph`: the invariant behind the next three |
| `GraphProofs!GraphTyped` | `Spec => []TypeOK` |
| `GraphProofs!SharedLayers` | `Spec => []NeighborsShareTheLayer` |
| `GraphProofs!OneSidedFull` | `Spec => []OneSidedOnlyWhenFull` |
| `ScanProofs!AtomIsItsKey` | an atom matches a row exactly when its scan key holds for it in SQL |
| `ScanProofs!PushdownIsExact` | `Kept(keys, row) <=> Wanted(keys, row)`, for any scan keys and row |
| `HybridProofs!ReadableIndexes` | `Spec => []IndexesCanBeRead`, of `Hybrid` |
| `HybridProofs!VectorSideIsOrdered` | `Spec => []VectorSideFollowsOperator`, of `Hybrid` |
| `HybridProofs!HybridTyped` | `Spec => []HybridTypeOK` |
| `HybridProofs!ScoresExplained` | `Spec => []ScoresAreExplained` |
| `HybridProofs!BetterFirst` | `Spec => []BetterRowsFirst` |
| `ScanProofs!SearchStateDroppedOnce` | `ScanSpec => []DroppedOnce` |
| `ScanProofs!ScanSound` | `ScanSpec => []ScanInv`: the invariant behind the next seven |
| `ScanProofs!ScanTyped` | `ScanSpec => []ScanTypeOK` |
| `ScanProofs!NearestOfTheSeen` | `ScanSpec => []ResultsAreNearestSeen` |
| `ScanProofs!ShortOnlyWhenSpent` | `ScanSpec => []EndsShortOnlyWhenSpent` |
| `ScanProofs!AllowancesHold` | `ScanSpec => []WithinAllowances` |
| `ScanProofs!RankedInOrder` | `ScanSpec => []RowsInOrder` |
| `ScanProofs!ScanIsExact` | `ScanSpec => []ScanAnswersTheQuery` |
| `ScanProofs!FootholdsHold` | `ScanSpec => FootholdKept` |
| `HybridProofs!KeysKeepOrder`, `IdsComeBack` | keys are in the order of their ids, and turn back into them, for words of any width |

**The argument.** `TypeOK` is not inductive: a commit pops marks, a settle
slices the staged rows by the rewind target, and these are well typed only if
the marks and the target lie within the rows. `IInv` therefore says, of every
write held, that it is *well formed*: the base lengths do not exceed the lengths
of the sequences, and `MarksOrdered` holds (the rewind target is within what is
staged, every mark within what survives, outer marks no later than inner ones).
`MarksOrdered` alone is not inductive either: what counts as staged is a
difference of two lengths, and without the bound on the base it can be negative.
The invariant also says that a statement under way has the operands its kind
needs and an open transaction. `StagingProofs` has a lemma for each action, and
a QED that collects them.

`StashInOrder` is inductive relative to `IInv`, which supplies that a statement
or command runs inside an open frame. An entry is pushed only at the current
subtransaction and only where it has none; a release moves the entry to the
parent, which is still open, unless the parent has one; an abort drains what is
at the id that goes. So no two entries share an id and none outlives its frame.

**The rows.** The theorems of `RowProofs` are for any number of backends, indexes, rows,
savepoints of any depth, and rebuilds nested in them, with deletes, VACUUM and reuse of
heap pointers. They assume `ErrorsEndTransactions`, `RiskDepth = 0`: errors in a settle, a
flush or an insert, and DROP INDEX, come outside savepoints, as many as there may be. It
cannot be dropped: with one inside a savepoint the code loses rows or overwrites an image,
which is what `StagingErrorInSavepoint` and `StagingRefusedRow` show.

None of the six properties is inductive, because of what a rollback brings back: an older
write from the stash, fewer of its rows, an older catalog entry and with it an older
relfilenode, all of which must fit together though no property sees them yet. So the
invariant speaks of *levels*: with `n` (sub)transactions open, level `L` is what is left
once those above the `L`-th have aborted. `WriteAt` is the write that the slot then holds,
`EntryAt` the catalog entry, `Limit` how many staged rows survive. `RowInv` has eight
parts:

- `ViewInv`: at every level of every backend, the surviving rows are distinct, belong to
  the heap of that level's entry, and are missing from its image; the base fits that
  image (`BaseFits`); and every row inserted up to that level is in the image, or survives in
  the write, or is about to be staged (`Kept`).
- `EntryInv`: an entry that is current, or that a rollback can bring back, has an image in
  order: rows filed by kind, none live twice, none at a free heap slot, and every live
  row of the heap in it unless an open transaction inserted the row.
- `SubsInv`, `FileInv`: subtransaction ids and relfilenodes grow and are never reused, so
  an entry brought back is nobody's later file.
- `LocksInv`: a backend that has changed an index's entry excludes all others from it, and
  remembers the entry it replaced. So another backend can disturb a level only by a flush or
  a VACUUM, which move the generation on and leave this backend's rows alone (`Moved`).
- `OwnInv`: a row of an open transaction is alive, locked, and no other frame's.
- `StmtRowInv`: each step of a statement finds the slot as the steps before left it; the
  row that an insert has put in the heap is in neither image nor slot.
- `DeadInv`: what VACUUM is about to free is dead, and out of the image after the first pass.

`RowViews` shows that a savepoint event or a rebuild moves levels and changes nothing at
any of them (`RELEASE` makes level `n - 1` what level `n` was, `ROLLBACK TO` makes the top
what level `n - 1` was, a rebuild sets aside what the levels below it need), and what settle,
flush and staging a row do to the top level. `RowProofs` adds, for each action, the backends that
only look on (`Bystander`). TLC checked `RowInv` on the instances of the three passing
runs of `Staging` before it was proved. Neither
`Staging` nor a run had to change for the proofs, except that `AbsentAssumption` is now stated.

**The stored image.** The theorems of `ImageProofs` are for any number of backends,
relations, pages and writes, any cache ceiling, and crashes and errors at any time but
one: they assume `WritesRunThrough`, `MidWrite \subseteq {"checkpoint"}`, that no error
and no crash falls between the first page of a rewrite and its last record. It cannot be
dropped: without it the code leaves half an image behind, which is the finding of
`ImageCrash`. `NoneAssumption` (an absent copy, call or holder is none of those) and `SizesAssumption`
(bounds and sizes are naturals) are the assumptions on constants. The invariant is `TypeInv` with five parts:

- `PagesInv`: the pages are the last write's, whole, or a backend is past the metapage
  of a new image. Readers rely on it, writers restore it page by page.
- `LockInv`: whoever is at a step of the locked sections holds the lock, and nobody
  else shares it. So at most one rewrite is under way and no load while it is.
- `CallsInv`: what each call in progress has seen. A load in progress has read pages of
  the last image; a flush's staged rows are those of the generation it compares; a
  rewrite past its metapage has written the pages before `next`; a tag that a scan has
  peeked is at most the present generation, and the image of it if it is that.
- `CopiesInv`: a cached copy is of the generation it goes by or of a later one, and a
  tag that is the present generation means the pages are whole. That is what makes the
  tag honest though it was read before the lock was taken again.
- `DiskInv`: every page that a rewrite has logged, or that no rewrite has touched, is
  restored by the last log record that covers it, or else by the disk. A checkpoint, a
  log flush or a crash moves pages between the two and keeps this; each record of
  `log_fork_pages` extends it by its pages.

`history` names each generation's contents, so all of this is stated without it being
read by an action. For the refinement, each action maps to a step of `AtomicImage` or a
stutter: a rewrite's first page is the contract's write, the last look at a metapage the
contract's read, a crash ends the calls of every backend. `LoadOK` and `TagOK` give that
what a load or a hit returns is what the contract's read returned at that look.

`CachesAreBounded` has an invariant of its own, `CeilingInv`: from the look in the cache on, a
scan's backend is within the ceiling that the look has read. The look must make it so although
it may not drop the entry it is about to use (that one fits by itself, or goes), and a load
that does not fit must leave the cache as the look left it. `Weight` counts the pages' worth
that the copies hold, so what an entry adds is a union's cardinality. It also
uses that there are finitely many relations (`SizesAssumption`).

`PushdownIsExact` is what lets a scan trust its predicate. A key that is not
expressible sets `Recheck`, so the executor tests the whole clause; if all are,
each becomes an atom, and `AtomIsItsKey` says the atom and the key agree on every
row. That needs the two values to be of one family (the same-family check) and,
in a float column, the order in which NaN is above all numbers
(`BeforeIsSqlLess`). It assumes `ValueAssumption` (NULL is no value, NaN no
integer), `ColumnAssumption` (columns of the six types), that a row holds values of
its columns' types (`AttrRows`) and that a NULL argument is flagged (`ScanKeys`).

**The graph.** The theorems of `GraphProofs` are for any number of nodes, any vectors,
levels and distances between them, integers and NaN as they come, any `M` from 2 on, any gamma and ef. They use
`DistanceAssumption`, `DegreeAssumption` and `GraphAssumption`, which give the constants
their types. `SoundGraph` has three parts:

- `Framed`: every array is as long as the graph, and the dead are nodes.
- `Entered`: the entry point reaches the top layer. A descent starts there, and every node
  it comes to has the layer it is on.
- `Woven`: on every layer each list is kept (`ListKept`: nodes of the layer, not the
  node itself, none twice, within the cap), and each edge comes back (`ComesBack`) or leads
  to a node whose list is full.

Inside an insert this fails for a while: the new node's own list points to nodes that do
not know of it yet. `Weaving` is what holds between two back-links and `Joining` what holds
between two layers. A prune drops edges of the node whose list it shortens, which stay
one-sided, and leaves that list full: `SelectNeighbors` fills up to the cap what the
heuristic rejects (`SelectedOK`), which is what the second half of `ComesBack` needs.

The loops are folds (`InTurn`), so all of this is an induction over data, and the library's
induction theorems cannot be used with an operator as their parameter. `Loops` has what
takes their place. `WFMin` has a *set*
as its parameter: a set of numbers has a least one (`NatMin`), so a property stated as
membership in a set passes up to `n` (`Inductively`), a loop has a run (`RunExists`), and a
family of sets that each turn moves along by one holds the loop's end. There is one such
lemma for every loop of the code, named after it with `In` at the end.

**Scans.** `ScanInv` has a sound graph (`Grounded`, which needs that `Attributes` covers the
nodes a build makes: `ScanAssumption`) and a `Good` scan:

- `Scans` and `Asked`: the types, and that filter and flag are those of the WHERE clause.
- `Answers`: the rows are live, or without a vector, and match the filter; ranked they
  are in order and at most `ef`, unordered they are all there are.
- `UnderWay`: the beam is a walk of its layer (`Walks`: results are admissible nodes that
  were seen, as many as fit, and the nearest of these, unless one of them is a NaN
  away (`HoldsNearest`); frontier and deferred were seen), the seeds have the layer and match
  (`Footed`), and the allowances are what the scan has not yet spent (`Affordable`).
- `Settled`, on layer 0 under a filter: while there is room and both allowances last, a node
  that the walk has dealt with has no neighbour it has not seen. It is the reason why a
  search that ends short without having spent an allowance has seen everything within
  reach (`EndsShortOnlyWhenSpent`), and it has to survive bridging, which defers nodes, and
  the rescue, which takes them back.

`GoesOnOK` says what a step of a walk must keep, `BeginsOK` what a layer must begin with, and a
lemma per property (`SaysShort` and the others) reads it off the invariant.

`ReadableIndexes` needs more than the headers there are: an ALTER INDEX may leave
options that only a later REINDEX builds from. `CatalogInv` therefore says that every
index has an operator class, acceptable options and a header the decoder accepts.
`BuiltAccepted` is its core: options within the ranges of `init`, with
`2 * m * gamma` within the ceiling, give a header whose caps and ef the decoder
accepts, after the rounding of `m0` and the clamp of `ef_construction`. It assumes
`OptionAssumption` (WITH lists name the three options). The two theorems on keys
assume `HalfAssumption` (a word is not empty).

`NearestOfTheSeen` takes the two orders of distances side by side: `PrecedesOrders` (`total_cmp`
orders them all), `LessPrecedes` (what is less far comes before), and that among
distances none of which is a NaN the two agree. A node that `visit` refuses is then no
nearer than the farthest result, and stays so as results are only replaced by nearer
ones; a full beam that holds a NaN cannot lose it through `visit`, which admits
nothing, so the condition of the property is never regained with nearer nodes left out.

`VectorSideIsOrdered` rests on `MetricIsOperator`: an operator class builds with the
metric of the operator it serves, and since the header keeps the metric of its build
(`CatalogInv`), an index scan in the metric's order is in the operator's. A scan returns
no more than `EfSearch` rows, so a longer list is the sorted one, cut off at the limit
(`LongListIsNearest`); for the others the theorem has the order only. `VectorInv` adds
that a call has seen no rows before its vector query and that its depth is at least 1
by then, which `run` checks first and the truncation of the list needs.

**The scores of a call.** `ResultInv` says what the other three properties of `Hybrid` need to
know of a call before it is done: the two lists hold ids and no more than `MaxRank` of
them, the snapshot is a table, and what a call that is done returns is `Fused` of its own
lists. `ResultNext` keeps it through the call's steps, and through other transactions', which
change neither. The three properties are then facts about `Fused`, for any two lists:

- A score is an exact fraction over `Scale`, and `ScaleOK` shows that `Scale` is a multiple of
  every denominator, so a contribution is positive (`ContributionPositive`), and falls with
  the rank while `k` is below `Absorbing` (`ContributionFalls`).
- `AfterOK` and `ScoresOK` follow the two loops of `rrf`: a key has the contributions of its
  first place in each list, a repeat adds nothing (`GainOK`), and the keys are those listed.
- `RrfOK`: sorted by score and then by key, a sequence has each key once, in a strict order.
  The order of ids is that of keys (`KeysKeepOrder`), and `RankOfKey` takes ranks of keys to
  ranks of ids, where `fuse` looks them up.

A row that beats another in the lists therefore has the greater score and is ahead of it,
and the truncation to `k` cuts off a tail (`FusedOK`). Assumed are `RankAssumption`,
`HalfAssumption` and `CallsAssumption`: no more rows than `MaxRank`, NULL is no integer, rows
have an id, a vector and a rank of their types, `k`, `n` and the fusion's k are integers, or
`n` is NULL.

`SearchStateDroppedOnce` is `DroppedOnce` with the record shapes that a step needs
(`LifeInv`), and lemmas that every way on from one layer of a search to the next leaves
the descriptor open. It uses no assumption.

**Model-checked only.** `ImageRoundTrips` is the one safety property without a theorem. It is
not true of every value of the constants: enough nodes without neighbours at a large gamma
reserve more slots than the decoder allows an image of their size (§4), so a theorem would need a
bound on such nodes that the code does not keep. What holds without one is proved elsewhere: the
header is accepted (`ReadableIndexes`), and lists and entry point are sound
(`GraphSound`). Out of the prover's reach altogether are liveness and ENABLED.

## 6. Not modelled

The text and binary I/O of vectors, with their float formatting; rounding and overflow
of distances (an overflowing inner product can be a NaN with a sign, which a graph and
SQL order differently); settings and entry points (declarations); cost estimation and
statistics (numbers that choose a plan, never a row; either plan is a choice of the
model); benchmarks, scripts and docs;
TRUNCATE of a table created in the same transaction, which keeps the relfilenode
(documented at storage.rs 850-862).

## 7. Plan

In order of importance; all is done but what item 6 leaves.

1. `PendingWrite`, `Staging`: deferred writes, savepoints, rebuilds, with proofs.
2. `ImageStore`: the pages, the image lock, the page-by-page rewrite and load,
   the generation, the cache with its ceiling and eviction. Properties: no torn
   read; a hit is the image current while the lock was held; a handle is at least
   as fresh as its scan; the ceiling binds on return. With crashes: what survives
   one between two page writes. `AtomicImage`, one value replaced atomically,
   which `ImageStore` implements and whose step `Staging` uses.
3. `LayerSearch`, `HnswGraph`: insert, neighbour selection with back-links and pruning, delete,
   compact. Properties: degree caps, entry point on the top layer, links only
   between nodes that have the layer, reachability.
4. `GraphScan`: frontier, beam, bridging, allowances, and the scan that hands out
   the results. Properties: admissible rows only, in order, within budget; no
   short answer without a reason; termination under weak fairness of the search
   step.
5. `Predicate`: pushdown, in the scan and proved. `GraphCodec`: the image's bytes, read
   back in every state of a graph. `Metric`, `IndexCatalog`, `Fusion`, `Hybrid`: a call
   among other transactions, with proofs about options and keys.
6. Proofs. Done: all of `Staging`, all of `ImageStore` but `CallsReturn`, its refinement,
   the predicate, the graph, the safety of its scans, the catalog, and all of a call. Left:
   the codec.
