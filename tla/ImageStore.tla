----------------------------- MODULE ImageStore -----------------------------
(***************************************************************************)
(* The stored image of an index and the readers' caches of it              *)
(* (src/index_am/storage.rs).                                              *)
(*                                                                         *)
(* An image spans a metapage and data pages that are read and written one  *)
(* at a time, under a heavyweight lock that a reader shares and a writer   *)
(* holds alone.  A scan asks its backend's cache first, comparing the      *)
(* generation on the metapage; a write is logged, batch by batch, after    *)
(* its last page.                                                          *)
(*                                                                         *)
(* A data page carries which image it is of and its place in it, an image  *)
(* being known by the writes it includes: rows staged and flushed, or      *)
(* tombstones.                                                             *)
(***************************************************************************)
EXTENDS Integers, Sequences, FiniteSets

CONSTANTS
  Backends,
  Scanners,     \* the backends that scan
  Writers,      \* the backends that insert and vacuum
  Relations,    \* physical relations: the cache's keys
  Permanent,    \* the relations that are WAL-logged; the others are UNLOGGED
  None,         \* an absent Option
  MaxPages,     \* data pages an image needs at most
  BatchPages,   \* pages that one WAL record covers
  MaxWrites,    \* writes in a behaviour
  Ceilings,     \* settings of brindle.cache_max_mb, in pages' worth
  MidWrite      \* what may strike a write between its first page and its last record:
                \* "error", "checkpoint", "crash"

ASSUME SizesAssumption ==
  /\ IsFiniteSet(Relations)
  /\ {MaxPages, BatchPages} \subseteq Nat \ {0}
  /\ MaxWrites \in Nat /\ Ceilings \subseteq Nat
  /\ Permanent \subseteq Relations /\ Scanners \cup Writers \subseteq Backends
  /\ MidWrite \subseteq {"error", "checkpoint", "crash"}

VARIABLES
  pages,    \* per relation: its pages as the buffer pool has them
  holder,   \* per relation: who holds the image lock exclusively
  sharers,  \* per relation: who shares it
  call,     \* per backend: the operation under way
  staged,   \* per backend: the image it has staged rows on
  cache,    \* per backend: CACHE
  wal,      \* per relation: the WAL records not yet on disk
  durable,  \* per relation: the pages that recovery would restore, of an unlogged
            \* relation its init fork
  writes,   \* how many writes there have been
  history   \* per relation, by generation: what each image included (auxiliary)

lockVars == <<holder, sharers>>
diskVars == <<wal, durable>>
vars == <<pages, lockVars, call, staged, cache, diskVars, writes, history>>

Writes == 1 .. MaxWrites
Effects == SUBSET Writes

FIRST_GENERATION == 1

\* A metapage, a data page, and a page the rewrite has cleared.
MetaPage == [gen : Nat, len : 1 .. MaxPages]
DataPage == [of : Effects, place : 0 .. MaxPages]
Cleared == [of |-> {}, place |-> 0]
Pages == {p \in Seq(MetaPage \cup DataPage) : p # <<>> /\ p[1] \in MetaPage}

\* The pages of an image: effects, over n data pages.
ImagePages(g, e, n) ==
  <<[gen |-> g, len |-> n]>> \o [k \in 1 .. n |-> [of |-> e, place |-> k]]

\* A decoded image as a backend holds it, under the generation it goes by.
Copy == [gen : Nat, effects : Effects, bytes : 1 .. MaxPages]

Operations == {"scan", "stage", "flush", "vacuum"}
Steps == {"start", "consult", "fetch", "load", "apply", "write", "log", "unlock", "done"}

\* tag: the generation a scan looked for.  gen and len: the metapage a load or a
\* write found.  chunks: the data pages loaded so far.  effects: the image in hand.
\* token: what a write adds to them.  next: the next page to write or to log.
\* ceiling: the setting a scan read.
Call == [op : Operations, rel : Relations, step : Steps,
         tag : Nat, gen : Nat, len : 0 .. MaxPages, chunks : Seq(DataPage),
         effects : Effects, token : 0 .. MaxWrites, next : Nat, ceiling : Nat]

Staged == [rel : Relations, gen : Nat, effects : Effects]

\* None is none of the values that it stands beside, here and in the contract.
ASSUME NoneAssumption ==
  LET Image == [gen : Nat, effects : Effects]
      Read == [rel : Relations, got : Image \cup {None}, done : BOOLEAN]
  IN  None \notin Backends \cup Call \cup Staged \cup Copy \cup Image \cup Read

TypeOK ==
  /\ pages \in [Relations -> Pages]
  /\ holder \in [Relations -> Backends \cup {None}]
  /\ sharers \in [Relations -> SUBSET Backends]
  /\ call \in [Backends -> Call \cup {None}]
  /\ staged \in [Backends -> Staged \cup {None}]
  /\ cache \in [Backends -> [Relations -> Copy \cup {None}]]
  /\ durable \in [Relations -> Pages]
  /\ writes \in 0 .. MaxWrites
  /\ history \in [Relations -> Seq(Effects)]

\* Each relation as write_index_blob left it, logged and committed.
Init ==
  /\ pages = [r \in Relations |-> ImagePages(FIRST_GENERATION, {}, 1)]
  /\ holder = [r \in Relations |-> None]
  /\ sharers = [r \in Relations |-> {}]
  /\ call = [b \in Backends |-> None]
  /\ staged = [b \in Backends |-> None]
  /\ cache = [b \in Backends |-> [r \in Relations |-> None]]
  /\ wal = [r \in Relations |-> <<>>]
  /\ durable = pages
  /\ writes = 0
  /\ history = [r \in Relations |-> <<{}>>]

-----------------------------------------------------------------------------
(* Calls.                                                                  *)

At(b, step) == call[b] # None /\ call[b].step = step

Doing(b, ops) == call[b].op \in ops

Continue(b, c) == call' = [call EXCEPT ![b] = c]

Goto(b, step) == call' = [call EXCEPT ![b].step = step]

Meta(r) == pages[r][1]

\* The image lock: nobody's request conflicts with a lock it holds itself.
Shareable(b, r) == holder[r] \in {b, None}

Ownable(b, r) == Shareable(b, r) /\ sharers[r] \subseteq {b}

\* A scan, the first insert of a transaction, a write-back, or a vacuum.  The
\* write-back has taken what was staged out of its slot.
StartCall(b, op, r) ==
  /\ call[b] = None
  /\ b \in (IF op = "scan" THEN Scanners ELSE Writers)
  /\ op = "stage" => staged[b] = None
  /\ op = "flush" => staged[b] # None /\ staged[b].rel = r
  /\ op \in {"flush", "vacuum"} => writes < MaxWrites
  /\ Continue(b, [op |-> op, rel |-> r, step |-> "start",
                  tag |-> IF op = "flush" THEN staged[b].gen ELSE 0,
                  gen |-> 0, len |-> 0, chunks |-> <<>>,
                  effects |-> IF op = "flush" THEN staged[b].effects ELSE {},
                  token |-> IF op \in {"flush", "vacuum"} THEN writes + 1 ELSE 0,
                  next |-> 0, ceiling |-> 0])
  /\ writes' = IF op \in {"flush", "vacuum"} THEN writes + 1 ELSE writes
  /\ staged' = [staged EXCEPT ![b] = IF op = "flush" THEN None ELSE @]
  /\ UNCHANGED <<pages, lockVars, cache, diskVars, history>>

Return(b) ==
  /\ At(b, "done")
  /\ call' = [call EXCEPT ![b] = None]
  /\ UNCHANGED <<pages, lockVars, staged, cache, diskVars, writes, history>>

-----------------------------------------------------------------------------
(* cached_index.                                                           *)

\* Its first look at the metapage, the lock taken and given back around it.
Peek(b) ==
  /\ At(b, "start") /\ Doing(b, {"scan"})
  /\ Shareable(b, call[b].rel)
  /\ Continue(b, [call[b] EXCEPT !.tag = Meta(call[b].rel).gen, !.step = "consult"])
  /\ UNCHANGED <<pages, lockVars, staged, cache, diskVars, writes, history>>

Keys(c) == {r \in Relations : c[r] # None}

\* The pages' worth that the copies under these keys take up, and how much that is.
Held(c, keys) == {p \in keys \X (1 .. MaxPages) : p[2] <= c[p[1]].bytes}

Weight(c, keys) == Cardinality(Held(c, keys))

\* The keys a cache can be left with when entries other than those in spare are
\* dropped, in whatever order the map yields them, until the rest fit in room.
Evictions(c, spare, room) ==
  {kept \in SUBSET Keys(c) :
     /\ spare \cap Keys(c) \subseteq kept
     /\ Weight(c, kept) <= room \/ kept \subseteq spare
     /\ \/ kept = Keys(c)
        \/ \E last \in Keys(c) \ kept : Weight(c, kept \cup {last}) > room}

Only(c, keys) == [r \in Relations |-> IF r \in keys THEN c[r] ELSE None]

\* Current when this was decoded, and within the ceiling as it now is.
Usable(copy, generation, ceiling) ==
  copy # None /\ copy.gen = generation /\ copy.bytes <= ceiling

\* The look in the cache.  An entry that is of no use is dropped on the way.
Consult(b) ==
  /\ At(b, "consult")
  /\ LET r == call[b].rel
         copy == cache[b][r] IN
     \E ceiling \in Ceilings :
     \E kept \in (IF ceiling = 0 THEN {{}} ELSE Evictions(cache[b], {r}, ceiling)) :
       IF r \in kept /\ Usable(copy, call[b].tag, ceiling)
       THEN /\ cache' = [cache EXCEPT ![b] = Only(@, kept)]
            /\ Continue(b, [call[b] EXCEPT !.step = "done", !.ceiling = ceiling,
                                           !.gen = copy.gen, !.effects = copy.effects])
       ELSE /\ cache' = [cache EXCEPT ![b] = Only(@, kept \ {r})]
            /\ Continue(b, [call[b] EXCEPT !.step = "fetch", !.ceiling = ceiling])
  /\ UNCHANGED <<pages, lockVars, staged, diskVars, writes, history>>

\* Variants of Fill: the image measured after its pages were given up; room made
\* without counting what is about to come in.
FillUnmeasured(b, c) ==
  IF c.ceiling = 0 \/ Len(c.chunks) > c.ceiling THEN UNCHANGED cache
  ELSE \E kept \in Evictions(cache[b], {}, c.ceiling - Len(c.chunks)) :
         cache' = [cache EXCEPT ![b] =
           [Only(@, kept) EXCEPT ![c.rel] =
             [gen |-> c.tag, effects |-> c.effects, bytes |-> Len(c.chunks)]]]

FillWithoutRoom(b, c) ==
  IF c.ceiling = 0 \/ c.len > c.ceiling THEN UNCHANGED cache
  ELSE \E kept \in Evictions(cache[b], {}, c.ceiling) :
         cache' = [cache EXCEPT ![b] =
           [Only(@, kept) EXCEPT ![c.rel] =
             [gen |-> c.tag, effects |-> c.effects, bytes |-> c.len]]]

\* What a scan has loaded goes into the cache if it fits, under the generation the
\* scan looked for.
Fill(b, c) ==
  IF c.ceiling = 0 \/ c.len > c.ceiling THEN UNCHANGED cache
  ELSE \E kept \in Evictions(cache[b], {}, c.ceiling - c.len) :
         cache' = [cache EXCEPT ![b] =
           [Only(@, kept) EXCEPT ![c.rel] =
             [gen |-> c.tag, effects |-> c.effects, bytes |-> c.len]]]

-----------------------------------------------------------------------------
(* load_index_with_generation.                                             *)

\* Variant of LoadStart: the image is read without its lock.
LoadStartUnlocked(b) ==
  LET r == call[b].rel IN
  /\ At(b, "fetch") \/ (At(b, "start") /\ Doing(b, {"stage"}))
  /\ Continue(b, [call[b] EXCEPT !.step = "load", !.chunks = <<>>,
                                 !.gen = Meta(r).gen, !.len = Meta(r).len])
  /\ UNCHANGED <<pages, lockVars, staged, cache, diskVars, writes, history>>

\* A scan that missed, the first insert, a write-back that finds another's image,
\* and every vacuum.  The last two hold the lock exclusively already.
LoadStart(b) ==
  LET r == call[b].rel IN
  /\ At(b, "fetch") \/ (At(b, "start") /\ Doing(b, {"stage"}))
  /\ Shareable(b, r)
  /\ sharers' = [sharers EXCEPT ![r] = @ \cup {b}]
  /\ Continue(b, [call[b] EXCEPT !.step = "load", !.chunks = <<>>,
                                 !.gen = Meta(r).gen, !.len = Meta(r).len])
  /\ UNCHANGED <<pages, holder, staged, cache, diskVars, writes, history>>

LoadPage(b) ==
  LET c == call[b]  at == Len(c.chunks) + 2 IN
  /\ At(b, "load")
  /\ Len(c.chunks) < c.len
  /\ at <= Len(pages[c.rel])
  /\ Continue(b, [c EXCEPT !.chunks = Append(@, pages[c.rel][at])])
  /\ UNCHANGED <<pages, lockVars, staged, cache, diskVars, writes, history>>

\* The lock goes, and the image is used for what it was loaded for.
LoadEnd(b) ==
  /\ At(b, "load") /\ Len(call[b].chunks) = call[b].len
  /\ LET c == [call[b] EXCEPT !.chunks = <<>>,
                 !.effects = call[b].chunks[1].of,
                 !.step = IF Doing(b, {"scan", "stage"}) THEN "done" ELSE "apply"] IN
     /\ sharers' = [sharers EXCEPT ![c.rel] = @ \ {b}]
     /\ Continue(b, c)
     /\ IF c.op = "scan" THEN Fill(b, c) ELSE UNCHANGED cache
     /\ IF c.op = "stage"
        THEN staged' = [staged EXCEPT ![b] =
               [rel |-> c.rel, gen |-> c.gen, effects |-> c.effects]]
        ELSE UNCHANGED staged
  /\ UNCHANGED <<pages, holder, diskVars, writes, history>>

-----------------------------------------------------------------------------
(* flush_locked and ambulkdelete.                                          *)

\* Variant of WriteLock: the generation is not compared.
WriteLockNoReplay(b) ==
  LET c == call[b] IN
  /\ At(b, "start") /\ Doing(b, {"flush", "vacuum"})
  /\ Ownable(b, c.rel)
  /\ holder' = [holder EXCEPT ![c.rel] = b]
  /\ Continue(b, [c EXCEPT !.step = IF c.op = "flush" THEN "apply" ELSE "fetch",
                           !.tag = 0])
  /\ UNCHANGED <<pages, sharers, staged, cache, diskVars, writes, history>>

\* The staged graph is written as it is while nobody has written since it was
\* loaded; else, and in a vacuum, the image is loaded first.
WriteLock(b) ==
  LET c == call[b]  g == Meta(c.rel).gen IN
  /\ At(b, "start") /\ Doing(b, {"flush", "vacuum"})
  /\ Ownable(b, c.rel)
  /\ holder' = [holder EXCEPT ![c.rel] = b]
  /\ Continue(b, [c EXCEPT !.step = IF c.op = "flush" /\ c.tag = g THEN "apply" ELSE "fetch",
                           !.tag = 0])
  /\ UNCHANGED <<pages, sharers, staged, cache, diskVars, writes, history>>

\* Variant of Apply: the generation stays.
ApplySameGeneration(b) ==
  /\ At(b, "apply")
  /\ \E n \in 1 .. MaxPages :
       Continue(b, [call[b] EXCEPT !.step = "write", !.next = 0, !.len = n,
                                   !.gen = Meta(call[b].rel).gen,
                                   !.effects = @ \cup {call[b].token}])
  /\ UNCHANGED <<pages, lockVars, staged, cache, diskVars, writes, history>>

\* The new image, in memory.  It may need more pages than the old one, or fewer.
Apply(b) ==
  /\ At(b, "apply")
  /\ \E n \in 1 .. MaxPages :
       Continue(b, [call[b] EXCEPT !.step = "write", !.next = 0, !.len = n,
                                   !.gen = Meta(call[b].rel).gen + 1,
                                   !.effects = @ \cup {call[b].token}])
  /\ UNCHANGED <<pages, lockVars, staged, cache, diskVars, writes, history>>

\* Variant of NothingRemoved: an early return past the unlock.
NothingRemovedReturns(b) ==
  /\ At(b, "apply") /\ Doing(b, {"vacuum"})
  /\ call' = [call EXCEPT ![b] = None]
  /\ UNCHANGED <<pages, lockVars, staged, cache, diskVars, writes, history>>

\* A vacuum that removes nothing writes nothing.
NothingRemoved(b) ==
  /\ At(b, "apply") /\ Doing(b, {"vacuum"})
  /\ Goto(b, "unlock")
  /\ UNCHANGED <<pages, lockVars, staged, cache, diskVars, writes, history>>

\* Variant of PageOf: the last data page is taken for one to clear.
PageOfShort(c, k) == IF k = 0 THEN [gen |-> c.gen, len |-> c.len]
                     ELSE IF k < c.len THEN [of |-> c.effects, place |-> k]
                     ELSE Cleared

PageOf(c, k) == IF k = 0 THEN [gen |-> c.gen, len |-> c.len]
                ELSE IF k <= c.len THEN [of |-> c.effects, place |-> k]
                ELSE Cleared

\* rewrite_index_blob, one page: the metapage first, then the data pages over the
\* old ones or appended, then what is left of the old image is cleared.
WritePage(b) ==
  LET c == call[b]  r == c.rel  k == c.next  p == PageOf(c, k)
      after == IF k < Len(pages[r]) THEN [pages[r] EXCEPT ![k + 1] = p]
               ELSE Append(pages[r], p) IN
  /\ At(b, "write")
  /\ pages' = [pages EXCEPT ![r] = after]
  /\ Continue(b, IF k >= c.len /\ k + 1 >= Len(after)
                 THEN [c EXCEPT !.step = IF r \in Permanent THEN "log" ELSE "unlock",
                                !.next = 0]
                 ELSE [c EXCEPT !.next = k + 1])
  /\ history' = IF k = 0 THEN [history EXCEPT ![r] = Append(@, c.effects)] ELSE history
  /\ UNCHANGED <<lockVars, staged, cache, diskVars, writes>>

\* Variant of LogBatch: the pages that were cleared are not logged.
LogBatchImageOnly(b) ==
  LET c == call[b]  r == c.rel
      last == IF c.next + BatchPages < c.len + 1 THEN c.next + BatchPages
              ELSE c.len + 1 IN
  /\ At(b, "log")
  /\ wal' = [wal EXCEPT ![r] =
       Append(@, [first |-> c.next + 1, pages |-> SubSeq(pages[r], c.next + 1, last)])]
  /\ Continue(b, IF last = c.len + 1 THEN [c EXCEPT !.step = "unlock"]
                 ELSE [c EXCEPT !.next = last])
  /\ UNCHANGED <<pages, lockVars, staged, cache, durable, writes, history>>

\* log_fork_pages, one record of log_newpage_range.
LogBatch(b) ==
  LET c == call[b]  r == c.rel
      last == IF c.next + BatchPages < Len(pages[r]) THEN c.next + BatchPages
              ELSE Len(pages[r]) IN
  /\ At(b, "log")
  /\ wal' = [wal EXCEPT ![r] =
       Append(@, [first |-> c.next + 1, pages |-> SubSeq(pages[r], c.next + 1, last)])]
  /\ Continue(b, IF last = Len(pages[r]) THEN [c EXCEPT !.step = "unlock"]
                 ELSE [c EXCEPT !.next = last])
  /\ UNCHANGED <<pages, lockVars, staged, cache, durable, writes, history>>

WriteUnlock(b) ==
  /\ At(b, "unlock")
  /\ holder' = [holder EXCEPT ![call[b].rel] = None]
  /\ call' = [call EXCEPT ![b] = None]
  /\ UNCHANGED <<pages, sharers, staged, cache, diskVars, writes, history>>

-----------------------------------------------------------------------------
(* PostgreSQL: errors, the log and the disk, crashes.                      *)

Rewriting(b) == At(b, "write") \/ At(b, "log")

\* An error or a cancelled wait aborts the transaction: its locks go, and what it
\* had staged.
Raise(b) ==
  /\ call[b] # None
  /\ Rewriting(b) => "error" \in MidWrite
  /\ call' = [call EXCEPT ![b] = None]
  /\ staged' = [staged EXCEPT ![b] = None]
  /\ holder' = [r \in Relations |-> IF holder[r] = b THEN None ELSE holder[r]]
  /\ sharers' = [r \in Relations |-> sharers[r] \ {b}]
  /\ UNCHANGED <<pages, cache, diskVars, writes, history>>

\* Recovery lays a record's page images over what is on disk.
Overlay(disk, record) ==
  LET last == record.first + Len(record.pages) - 1 IN
  [k \in 1 .. (IF last > Len(disk) THEN last ELSE Len(disk)) |->
     IF k \in record.first .. last THEN record.pages[k - record.first + 1]
     ELSE IF k <= Len(disk) THEN disk[k] ELSE Cleared]

FlushWal(r) ==
  /\ wal[r] # <<>>
  /\ durable' = [durable EXCEPT ![r] = Overlay(@, Head(wal[r]))]
  /\ wal' = [wal EXCEPT ![r] = Tail(@)]
  /\ UNCHANGED <<pages, lockVars, call, staged, cache, writes, history>>

Quiet(r) == \A b \in Backends : Rewriting(b) => call[b].rel # r

\* No write is under way, and all are logged and the log is on disk.
Settled(r) == Quiet(r) /\ wal[r] = <<>>

\* A checkpoint writes every dirty page, logged or not yet.
Checkpoint(r) ==
  /\ r \in Permanent
  /\ "checkpoint" \in MidWrite \/ Quiet(r)
  /\ durable[r] # pages[r] \/ wal[r] # <<>>
  /\ durable' = [durable EXCEPT ![r] = pages[r]]
  /\ wal' = [wal EXCEPT ![r] = <<>>]
  /\ UNCHANGED <<pages, lockVars, call, staged, cache, writes, history>>


Crash ==
  /\ "crash" \in MidWrite \/ \A r \in Permanent : Settled(r)
  /\ pages' = durable
  /\ history' = [r \in Relations |-> IF r \in Permanent THEN history[r] ELSE <<{}>>]
  /\ wal' = [r \in Relations |-> <<>>]
  /\ holder' = [r \in Relations |-> None]
  /\ sharers' = [r \in Relations |-> {}]
  /\ call' = [b \in Backends |-> None]
  /\ staged' = [b \in Backends |-> None]
  /\ cache' = [b \in Backends |-> [r \in Relations |-> None]]
  /\ UNCHANGED <<durable, writes>>

-----------------------------------------------------------------------------
Acquire(b) == Peek(b) \/ LoadStart(b) \/ WriteLock(b)

Proceed(b) == \/ Consult(b) \/ LoadPage(b) \/ LoadEnd(b)
              \/ Apply(b) \/ NothingRemoved(b)
              \/ WritePage(b) \/ LogBatch(b) \/ WriteUnlock(b)
              \/ Return(b)

Next == \/ \E b \in Backends : \/ \E op \in Operations, r \in Relations : StartCall(b, op, r)
                               \/ Acquire(b) \/ Proceed(b) \/ Raise(b)
        \/ \E r \in Relations : FlushWal(r) \/ Checkpoint(r)
        \/ Crash

\* A backend keeps running, and the lock manager's queue lets no waiter starve.
Fairness == \A b \in Backends : WF_vars(Proceed(b)) /\ SF_vars(Acquire(b))

Spec == Init /\ [][Next]_vars /\ Fairness

-----------------------------------------------------------------------------
(* Properties.                                                             *)

Whole(p) == \A k \in 1 .. p[1].len :
              k < Len(p) /\ p[k + 1] = [of |-> p[2].of, place |-> k]

\* A load never splices two images: every data page it has read belongs to the image
\* whose metapage it read, in its place (storage.rs, IMAGE_LOCK_BLOCK).
NoTornRead ==
  \A b \in Backends : At(b, "load") =>
    LET c == call[b] IN
    /\ c.gen \in DOMAIN history[c.rel]
    /\ \A k \in DOMAIN c.chunks :
         c.chunks[k] = [of |-> history[c.rel][c.gen], place |-> k]

\* A cached copy that goes by the generation of the metapage is the image there,
\* although it was tagged with a generation read before it was loaded (cached_index).
TagsAreHonest ==
  \A b \in Backends, r \in Relations :
    (cache[b][r] # None /\ cache[b][r].gen = Meta(r).gen) =>
      cache[b][r].effects = pages[r][2].of

\* When a scan has its index, its backend's cache is within the ceiling the scan
\* read, whatever the ceiling was when the entries came in.
CacheWithinCeiling ==
  \A b \in Backends : At(b, "done") /\ Doing(b, {"scan"}) =>
    Weight(cache[b], Keys(cache[b])) <= call[b].ceiling

\* Once a write is logged and the log is on disk, recovery restores exactly the
\* pages that readers see: log_fork_pages covers the pages the write appended, and
\* those it cleared.
LoggedImageIsWhole == \A r \in Permanent : Settled(r) => durable[r] = pages[r]

\* Whenever no write is under way the pages are an image that can be read: after a
\* crash too, "Writes are WAL-logged, so the index survives a crash" (README.md:203).
ImageIsReadable ==
  \A r \in Relations : Quiet(r) => Whole(pages[r])

\* Every call returns: with one image lock per relation, taken one at a time, nobody
\* waits for ever (the comments at IMAGE_LOCK_BLOCK).
CallsReturn == \A b \in Backends : (call[b] # None) ~> (call[b] = None)

\* The image as the contract sees it: a write takes effect with its metapage.
ContractImage ==
  [r \in Relations |->
     LET writing == {b \in Backends : At(b, "write") /\ call[b].rel = r /\ call[b].next > 0}
     IN  IF writing # {}
         THEN LET c == call[CHOOSE b \in writing : TRUE]
              IN  [gen |-> c.gen, effects |-> c.effects]
         ELSE [gen |-> Meta(r).gen, effects |-> pages[r][2].of]]

ImageAt(r, g) == [gen |-> g, effects |-> history[r][g]]

\* A read takes effect where it looks at a metapage; the last look counts.
ContractRead ==
  [b \in Backends |->
     IF call[b] = None \/ ~Doing(b, {"scan", "stage"}) THEN None
     ELSE LET c == call[b] IN
          [rel |-> c.rel,
           got |-> CASE c.step = "start" -> None
                     [] c.step \in {"consult", "fetch"} -> ImageAt(c.rel, c.tag)
                     [] c.step = "load" -> ImageAt(c.rel, c.gen)
                     [] c.step = "done" -> [gen |-> c.gen, effects |-> c.effects],
           done |-> c.step = "done"]]

Contract == INSTANCE AtomicImage WITH image <- ContractImage, read <- ContractRead

\* Pages, locks and caches together behave as one value that a write replaces at
\* once: no read is torn or stale, and no write is lost (rewrite_index_blob,
\* load_index, cached_index and flush_locked together).
ActsAtomically == Contract!Spec
=============================================================================
