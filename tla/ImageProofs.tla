---------------------------- MODULE ImageProofs -----------------------------
(***************************************************************************)
(* Proofs about ImageStore, for any number of backends, relations, pages,  *)
(* writes and cache ceilings.                                              *)
(***************************************************************************)
EXTENDS ImageStore, FiniteSetTheorems, TLAPS

-----------------------------------------------------------------------------
(* The inductive invariant, one part per concern.                          *)

\* A record of the log covers pages from its first on; one that starts at the metapage
\* restores a metapage.
Covers(record, k) == record.first <= k /\ k < record.first + Len(record.pages)

WalRecord ==
  {w \in [first : Nat \ {0}, pages : Seq(MetaPage \cup DataPage)] :
     w.pages # <<>> /\ (Covers(w, 1) => w.pages[1] \in MetaPage)}

TypeInv ==
  /\ TypeOK
  /\ wal \in [Relations -> Seq(WalRecord)]
  /\ \A r \in Relations : history[r] # <<>>

\* What the last write of a relation included.
Generation(r) == Len(history[r])
Latest(r) == history[r][Generation(r)]

DataOf(e, k) == [of |-> e, place |-> k]

\* The pages are the last image, whole.
Intact(r) ==
  /\ Meta(r).gen = Generation(r)
  /\ \A k \in 1 .. Meta(r).len :
       k < Len(pages[r]) /\ pages[r][k + 1] = DataOf(Latest(r), k)

\* Past the metapage of a new image.
Midway(b, r) == At(b, "write") /\ call[b].rel = r /\ call[b].next > 0

PagesInv == \A r \in Relations : Intact(r) \/ \E b \in Backends : Midway(b, r)

\* Which operations take which steps.
FlowOK(c) ==
  /\ c.step \in {"apply", "write", "log", "unlock"} => c.op \in {"flush", "vacuum"}
  /\ c.step = "consult" => c.op = "scan"
  /\ c.step = "fetch" => c.op # "stage"
  /\ c.step = "done" => c.op \in {"scan", "stage"}
  /\ c.op \in {"flush", "vacuum"} => c.token \in Writes

\* A generation that a look at the metapage can have found.
SeenOK(r, g) == g \in 1 .. Generation(r) /\ (g = Generation(r) => Intact(r))

\* What a scan has looked for, and what its cache answers to that.
TagOK(b, c) ==
  /\ c.op = "scan" /\ c.step \in {"consult", "fetch", "load"} => SeenOK(c.rel, c.tag)
  /\ LET copy == cache[b][c.rel] IN
     c.step = "consult" /\ copy # None /\ copy.gen = c.tag =>
       copy.effects = history[c.rel][c.tag]

\* A load reads the last image, page by page.
LoadOK(c) == c.step = "load" =>
  /\ c.gen = Generation(c.rel) /\ c.len = Meta(c.rel).len
  /\ Len(c.chunks) <= c.len
  /\ \A k \in 1 .. Len(c.chunks) : c.chunks[k] = DataOf(Latest(c.rel), k)

\* What a write adds to is what its generation says, then the last image.
BaseOK(c) ==
  /\ c.step = "start" /\ c.op = "flush" =>
       c.tag \in 1 .. Generation(c.rel) /\ c.effects = history[c.rel][c.tag]
  /\ c.step = "apply" => c.effects = Latest(c.rel)

\* A rewrite, before and after its metapage is written.
BeforeMeta(c) ==
  /\ c.gen = Generation(c.rel) + 1
  /\ c.effects = Latest(c.rel) \cup {c.token}

PastMeta(c) ==
  /\ c.gen = Generation(c.rel) /\ c.effects = Latest(c.rel)
  /\ Meta(c.rel) = [gen |-> c.gen, len |-> c.len]
  /\ c.next <= Len(pages[c.rel])
  /\ \A k \in 1 .. c.len :
       k < c.next => pages[c.rel][k + 1] = DataOf(c.effects, k)

WriteOK(c) ==
  /\ c.step = "write" =>
       /\ c.len \in 1 .. MaxPages
       /\ c.next = 0 => BeforeMeta(c)
       /\ c.next > 0 => PastMeta(c)
  /\ c.step = "log" => c.rel \in Permanent /\ c.next < Len(pages[c.rel])

CallsInv ==
  \A b \in Backends : call[b] # None =>
    LET c == call[b] IN
    FlowOK(c) /\ TagOK(b, c) /\ LoadOK(c) /\ BaseOK(c) /\ WriteOK(c)

\* The steps that a call takes as the exclusive holder of the lock.
Owning(c) ==
  \/ c.step \in {"apply", "write", "log", "unlock"}
  \/ c.step \in {"fetch", "load"} /\ c.op \in {"flush", "vacuum"}

LockInv ==
  /\ \A b \in Backends : call[b] # None =>
       /\ Owning(call[b]) => holder[call[b].rel] = b
       /\ call[b].step = "load" => b \in sharers[call[b].rel]
  /\ \A r \in Relations : holder[r] # None => sharers[r] \subseteq {holder[r]}

\* Staged rows are based on the image of their generation, a cached copy is of the
\* generation it goes by or a later one.
CopiesInv ==
  /\ \A b \in Backends : staged[b] # None =>
       LET s == staged[b] IN
       s.gen \in 1 .. Generation(s.rel) /\ s.effects = history[s.rel][s.gen]
  /\ \A b \in Backends, r \in Relations : cache[b][r] # None =>
       LET copy == cache[b][r] IN
       /\ SeenOK(r, copy.gen)
       /\ \E g \in copy.gen .. Generation(r) : copy.effects = history[r][g]

\* The page that recovery restores at place k: from the last record that covers it, or
\* else from the disk.
Restorable(r, k) ==
  \/ \E i \in 1 .. Len(wal[r]) :
       /\ Covers(wal[r][i], k)
       /\ wal[r][i].pages[k - wal[r][i].first + 1] = pages[r][k]
       /\ \A j \in i + 1 .. Len(wal[r]) : ~Covers(wal[r][j], k)
  \/ /\ k <= Len(durable[r]) /\ durable[r][k] = pages[r][k]
     /\ \A i \in 1 .. Len(wal[r]) : ~Covers(wal[r][i], k)

\* Recovery restores every page, except those that a rewrite has not logged yet.
Logged(r, k) ==
  \A b \in Backends :
    /\ ~(At(b, "write") /\ call[b].rel = r)
    /\ At(b, "log") /\ call[b].rel = r => k <= call[b].next

DiskInv ==
  /\ \A r \in Permanent :
       /\ Len(durable[r]) <= Len(pages[r])
       /\ \A i \in 1 .. Len(wal[r]), k \in Nat : Covers(wal[r][i], k) => k <= Len(pages[r])
       /\ \A k \in 1 .. Len(pages[r]) : Logged(r, k) => Restorable(r, k)
  /\ \A r \in Relations \ Permanent :
       wal[r] = <<>> /\ durable[r] = ImagePages(FIRST_GENERATION, {}, 1)

IInv == /\ TypeInv /\ PagesInv /\ CallsInv /\ LockInv /\ CopiesInv /\ DiskInv

\* What the inductive invariant is for.
LEMMA TypeOfCall ==
  ASSUME TypeInv, NEW b \in Backends, call[b] # None
  PROVE  /\ call[b] \in Call /\ call[b].rel \in Relations
         /\ call[b].step \in Steps /\ call[b].op \in Operations
BY DEF TypeInv, TypeOK, Call

\* A relation has a metapage and a last image.
LEMMA TypeOfRelation ==
  ASSUME TypeInv, NEW r \in Relations
  PROVE  /\ pages[r] \in Seq(MetaPage \cup DataPage) /\ Len(pages[r]) \in Nat \ {0}
         /\ Meta(r) \in MetaPage
         /\ Meta(r).gen \in Nat /\ Meta(r).len \in 1 .. MaxPages
         /\ history[r] \in Seq(Effects) /\ Generation(r) \in Nat \ {0}
         /\ Latest(r) \in Effects
<1>1. /\ pages[r] \in Seq(MetaPage \cup DataPage) /\ Len(pages[r]) \in Nat \ {0}
      /\ Meta(r) \in MetaPage
  BY DEF TypeInv, TypeOK, Pages, Meta
<1>2. Meta(r).gen \in Nat /\ Meta(r).len \in 1 .. MaxPages
  BY <1>1 DEF MetaPage
<1>3. history[r] \in Seq(Effects) /\ Generation(r) \in Nat \ {0}
  BY DEF TypeInv, TypeOK, Generation
<1>4. Latest(r) \in Effects
  BY <1>3 DEF Latest, Generation
<1> QED BY <1>1, <1>2, <1>3, <1>4

\* A new image: the metapage, then the data pages in their places.
LEMMA PagesOfImage ==
  ASSUME NEW g \in Nat, NEW e \in Effects, NEW n \in 1 .. MaxPages
  PROVE  LET s == ImagePages(g, e, n) IN
         /\ s \in Pages /\ Len(s) = n + 1 /\ s[1] = [gen |-> g, len |-> n]
         /\ \A k \in 1 .. n : s[k + 1] = DataOf(e, k)
<1> DEFINE meta == [gen |-> g, len |-> n]
           data == [k \in 1 .. n |-> [of |-> e, place |-> k]]
           s == <<meta>> \o data
<1>0. n \in Nat \ {0} /\ MaxPages \in Nat
  BY SizesAssumption
<1>1. meta \in MetaPage
  BY DEF MetaPage
<1>2. data \in Seq(DataPage) /\ Len(data) = n
  BY <1>0 DEF DataPage
<1>3. \A k \in 1 .. n : data[k] = DataOf(e, k)
  BY DEF DataOf
<1> HIDE DEF meta, data
<1>4. <<meta>> \in Seq(MetaPage \cup DataPage) /\ data \in Seq(MetaPage \cup DataPage)
      /\ Len(<<meta>>) = 1
  BY <1>1, <1>2
<1>5. s \in Seq(MetaPage \cup DataPage) /\ Len(s) = n + 1
  BY <1>0, <1>2, <1>4
<1>6. s[1] = meta /\ \A k \in 1 .. n : s[k + 1] = data[k]
  BY <1>0, <1>2, <1>4
<1>7. s = ImagePages(g, e, n)
  BY DEF ImagePages, meta, data
<1> HIDE DEF s
<1>8. s \in Pages
  BY <1>0, <1>1, <1>5, <1>6 DEF Pages
<1> QED BY <1>3, <1>5, <1>6, <1>7, <1>8 DEF meta

\* One page of a sequence replaced, or appended (WritePage).
Replaced(s, k, p) == IF k < Len(s) THEN [s EXCEPT ![k + 1] = p] ELSE Append(s, p)

\* The pages after one is replaced, or appended.
LEMMA PageReplaced ==
  ASSUME NEW s \in Pages, NEW k \in 0 .. Len(s), NEW p \in MetaPage \cup DataPage,
         k = 0 => p \in MetaPage
  PROVE  LET after == Replaced(s, k, p) IN
         /\ after \in Pages
         /\ Len(after) = IF k < Len(s) THEN Len(s) ELSE k + 1
         /\ \A j \in 1 .. Len(after) : after[j] = IF j = k + 1 THEN p ELSE s[j]
<1> DEFINE P == MetaPage \cup DataPage
           after == Replaced(s, k, p)
<1> HIDE DEF P
<1>1. s \in Seq(P) /\ Len(s) \in Nat \ {0} /\ s[1] \in MetaPage /\ p \in P
  BY DEF Pages, P
<1>2. /\ Len(after) = IF k < Len(s) THEN Len(s) ELSE k + 1
      /\ \A j \in 1 .. Len(after) : after[j] = IF j = k + 1 THEN p ELSE s[j]
      /\ after \in Seq(P)
  <2>1. CASE k < Len(s)
    BY <1>1, <2>1 DEF Replaced
  <2>2. CASE k = Len(s)
    BY <1>1, <2>2 DEF Replaced
  <2> QED BY <1>1, <2>1, <2>2
<1>3. after \in Pages
  <2>1. after # <<>> /\ after[1] \in MetaPage
    BY <1>1, <1>2
  <2> QED BY <1>2, <2>1 DEF Pages, P
<1> QED BY <1>2, <1>3

-----------------------------------------------------------------------------
(* Steps outside the rewriting of pages.                                   *)

CallOK(b, c) ==
  FlowOK(c) /\ TagOK(b, c) /\ LoadOK(c) /\ BaseOK(c) /\ WriteOK(c)

LockOK(b, c) ==
  /\ Owning(c) => holder[c.rel] = b
  /\ c.step = "load" => b \in sharers[c.rel]

\* Where the pages stay and the caller was not rewriting them, nobody's rewrite moves.
LEMMA PagesStay ==
  ASSUME PagesInv, NEW b \in Backends, NEW d, call \in [Backends -> Call \cup {None}],
         call' = [call EXCEPT ![b] = d], ~At(b, "write"), UNCHANGED <<pages, history>>
  PROVE  PagesInv'
<1> SUFFICES ASSUME NEW r \in Relations PROVE (Intact(r) \/ \E e \in Backends : Midway(e, r))'
  BY DEF PagesInv
<1>1. CASE Intact(r)
  BY <1>1 DEF Intact, Meta, Generation, Latest
<1>2. ASSUME NEW e \in Backends, Midway(e, r) PROVE Midway(e, r)'
  <2>1. e # b
    BY <1>2 DEF Midway
  <2>2. call'[e] = call[e]
    BY <2>1
  <2> QED BY <1>2, <2>2 DEF Midway, At
<1> QED BY <1>1, <1>2 DEF PagesInv

\* What recovery restores stays, where neither pages nor log move.
LEMMA DiskStays ==
  ASSUME DiskInv, NEW b \in Backends, NEW d, call \in [Backends -> Call \cup {None}],
         call' = [call EXCEPT ![b] = d], ~Rewriting(b), UNCHANGED <<pages, diskVars>>
  PROVE  DiskInv'
<1>1. ASSUME NEW r \in Permanent, NEW k \in 1 .. Len(pages[r]), Logged(r, k)'
      PROVE  Logged(r, k)
  <2> SUFFICES ASSUME NEW e \in Backends
               PROVE  /\ ~(At(e, "write") /\ call[e].rel = r)
                      /\ At(e, "log") /\ call[e].rel = r => k <= call[e].next
    BY DEF Logged
  <2>1. CASE e = b
    BY <2>1 DEF Rewriting
  <2>2. CASE e # b
    <3>1. call'[e] = call[e]
      BY <2>2
    <3> QED BY <1>1, <3>1 DEF Logged, At
  <2> QED BY <2>1, <2>2
<1>2. ASSUME NEW r, NEW k PROVE Restorable(r, k) <=> Restorable(r, k)'
  BY DEF Restorable, diskVars
<1> QED BY <1>1, <1>2 DEF DiskInv, diskVars

\* A caller's own step leaves the other calls as they were.
LEMMA CallsStay ==
  ASSUME CallsInv, NEW b \in Backends, NEW d, call \in [Backends -> Call \cup {None}],
         call' = [call EXCEPT ![b] = d], UNCHANGED <<pages, history>>,
         d # None => CallOK(b, d),
         cache' = cache \/ d = None \/ d.step # "consult",
         \A e \in Backends \ {b} : cache'[e] = cache[e]
  PROVE  CallsInv'
<1> SUFFICES ASSUME NEW e \in Backends, call'[e] # None
             PROVE  CallOK(e, call[e])'
  BY DEF CallsInv, CallOK
<1>1. ASSUME NEW c, CallOK(e, c), cache'[e] = cache[e] \/ c.step # "consult"
      PROVE  FlowOK(c) /\ TagOK(e, c)' /\ LoadOK(c)' /\ BaseOK(c)' /\ WriteOK(c)'
  <2>1. TagOK(e, c)'
    BY <1>1 DEF CallOK, TagOK, SeenOK, Intact, Meta, Generation, Latest
  <2>2. LoadOK(c)' /\ BaseOK(c)'
    BY <1>1 DEF CallOK, LoadOK, BaseOK, Meta, Generation, Latest
  <2>3. WriteOK(c)'
    BY <1>1 DEF CallOK, WriteOK, BeforeMeta, PastMeta, Meta, Generation, Latest
  <2> QED BY <1>1, <2>1, <2>2, <2>3 DEF CallOK
<1>2. CASE e = b
  <2>1. call'[b] = d
    OBVIOUS
  <2> QED BY <1>1, <1>2, <2>1 DEF CallOK
<1>3. CASE e # b
  <2>1. call'[e] = call[e] /\ cache'[e] = cache[e]
    BY <1>3
  <2>2. CallOK(e, call[e])
    BY <2>1 DEF CallsInv, CallOK
  <2> QED BY <1>1, <2>1, <2>2 DEF CallOK
<1> QED BY <1>2, <1>3

\* Copies stay good where pages and history stay.
LEMMA CopiesStay ==
  ASSUME CopiesInv, UNCHANGED <<pages, staged, cache, history>>
  PROVE  CopiesInv'
BY DEF CopiesInv, SeenOK, Intact, Meta, Generation, Latest

\* A step that takes no lock and gives none back.
LEMMA LockStays ==
  ASSUME LockInv, NEW b \in Backends, NEW d, call \in [Backends -> Call \cup {None}],
         call' = [call EXCEPT ![b] = d], UNCHANGED lockVars, d # None => LockOK(b, d)
  PROVE  LockInv'
BY DEF LockInv, LockOK, lockVars, Owning

\* A step that changes nothing but its caller's call.
LEMMA OwnStep ==
  ASSUME IInv, NEW b \in Backends, NEW d \in Call \cup {None},
         call' = [call EXCEPT ![b] = d], ~Rewriting(b),
         d # None => CallOK(b, d) /\ LockOK(b, d),
         UNCHANGED <<pages, lockVars, staged, cache, diskVars, writes, history>>
  PROVE  IInv'
<1>1. call \in [Backends -> Call \cup {None}]
  BY DEF IInv, TypeInv, TypeOK
<1>2. TypeInv'
  BY <1>1 DEF IInv, TypeInv, TypeOK, lockVars, diskVars
<1>3. PagesInv' /\ DiskInv'
  BY <1>1, PagesStay, DiskStays DEF IInv, Rewriting
<1>4. CallsInv'
  BY <1>1, CallsStay DEF IInv
<1>5. LockInv'
  BY <1>1, LockStays DEF IInv
<1>6. CopiesInv'
  BY CopiesStay DEF IInv
<1> QED BY <1>2, <1>3, <1>4, <1>5, <1>6 DEF IInv

\* Nobody is rewriting a relation that another backend shares or may share.
LEMMA IntactWhereShared ==
  ASSUME IInv, NEW b \in Backends, NEW r \in Relations, ~At(b, "write"),
         Shareable(b, r) \/ b \in sharers[r]
  PROVE  Intact(r)
<1> SUFFICES ASSUME NEW e \in Backends, Midway(e, r) PROVE FALSE
  BY DEF IInv, PagesInv
<1>1. e # b /\ e # None
  BY NoneAssumption DEF Midway
<1>2. holder[r] = e
  BY DEF IInv, LockInv, Midway, At, Owning
<1>3. sharers[r] \subseteq {e}
  BY <1>1, <1>2 DEF IInv, LockInv
<1> QED BY <1>1, <1>2, <1>3 DEF Shareable

\* What the invariant says of one call.
LEMMA CallUnderWay ==
  ASSUME IInv, NEW b \in Backends, call[b] # None
  PROVE  /\ call[b] \in Call /\ call[b].rel \in Relations
         /\ CallOK(b, call[b]) /\ LockOK(b, call[b])
<1>1. call[b] \in Call /\ call[b].rel \in Relations
  BY TypeOfCall DEF IInv
<1>2. CallOK(b, call[b]) /\ LockOK(b, call[b])
  BY DEF IInv, CallsInv, LockInv, CallOK, LockOK
<1> QED BY <1>1, <1>2

\* A call that is done returns.
LEMMA ReturnStep ==
  ASSUME IInv, NEW b \in Backends, Return(b)
  PROVE  IInv'
<1>1. ~Rewriting(b)
  BY DEF Return, Rewriting, At
<1> QED BY <1>1, OwnStep DEF Return

\* A scan that may share the lock finds the last image, and notes its generation.
LEMMA PeekStep ==
  ASSUME IInv, NEW b \in Backends, Peek(b)
  PROVE  IInv'
<1> DEFINE c == call[b]
           r == c.rel
           d == [c EXCEPT !.tag = Meta(r).gen, !.step = "consult"]
<1>1. /\ call[b] # None /\ c.step = "start" /\ c.op = "scan" /\ Shareable(b, r)
      /\ call' = [call EXCEPT ![b] = d]
      /\ UNCHANGED <<pages, lockVars, staged, cache, diskVars, writes, history>>
  BY DEF Peek, At, Doing, Continue
<1>2. c \in Call /\ r \in Relations /\ CallOK(b, c)
  BY <1>1, CallUnderWay
<1>3. ~Rewriting(b) /\ ~At(b, "write")
  BY <1>1 DEF Rewriting, At
<1>4. Intact(r)
  BY <1>1, <1>2, <1>3, IntactWhereShared
<1>5. Meta(r).gen = Generation(r) /\ Generation(r) \in Nat \ {0}
  BY <1>2, <1>4, TypeOfRelation DEF Intact, IInv
<1>6. /\ d \in Call /\ d.rel = r /\ d.op = "scan" /\ d.step = "consult" /\ d.tag = Generation(r)
  BY <1>1, <1>2, <1>5 DEF Call, Steps
<1> HIDE DEF d
<1>7. TagOK(b, d)
  <2>1. SeenOK(r, d.tag)
    BY <1>4, <1>5, <1>6 DEF SeenOK
  <2>2. ASSUME cache[b][r] # None, cache[b][r].gen = d.tag
        PROVE  cache[b][r].effects = history[r][d.tag]
    <3>1. \E g \in d.tag .. Generation(r) : cache[b][r].effects = history[r][g]
      BY <1>2, <2>2 DEF IInv, CopiesInv
    <3> QED BY <1>5, <1>6, <3>1
  <2> QED BY <1>6, <2>1, <2>2 DEF TagOK
<1>8. CallOK(b, d) /\ LockOK(b, d)
  BY <1>6, <1>7 DEF CallOK, LockOK, FlowOK, LoadOK, BaseOK, WriteOK, Owning
<1> QED BY <1>1, <1>3, <1>6, <1>8, OwnStep

\* A load reads a page of the last image, under its lock.
LEMMA LoadPageStep ==
  ASSUME IInv, NEW b \in Backends, LoadPage(b)
  PROVE  IInv'
<1> DEFINE c == call[b]
           r == c.rel
           n == Len(c.chunks)
           d == [c EXCEPT !.chunks = Append(@, pages[r][n + 2])]
<1>1. /\ call[b] # None /\ c.step = "load" /\ n < c.len
      /\ call' = [call EXCEPT ![b] = d]
      /\ UNCHANGED <<pages, lockVars, staged, cache, diskVars, writes, history>>
  BY DEF LoadPage, At, Continue
<1>2. c \in Call /\ r \in Relations /\ CallOK(b, c) /\ LockOK(b, c)
  BY <1>1, CallUnderWay
<1>3. ~Rewriting(b) /\ ~At(b, "write")
  BY <1>1 DEF Rewriting, At
<1>4. Intact(r)
  BY <1>1, <1>2, <1>3, IntactWhereShared DEF LockOK
<1>5. /\ LoadOK(c) /\ c.chunks \in Seq(DataPage) /\ c.len \in 0 .. MaxPages /\ n \in Nat
      /\ MaxPages \in Nat
  BY <1>1, <1>2, SizesAssumption DEF CallOK, Call
<1>6. pages[r][n + 2] = DataOf(Latest(r), n + 1)
  <2>1. n + 1 \in 1 .. Meta(r).len
    BY <1>1, <1>5 DEF LoadOK
  <2> QED BY <1>4, <1>5, <2>1 DEF Intact
<1>7. DataOf(Latest(r), n + 1) \in DataPage
  <2>1. Latest(r) \in Effects
    BY <1>2, TypeOfRelation DEF IInv
  <2> QED BY <1>1, <1>5, <2>1 DEF DataOf, DataPage
<1> DEFINE s == Append(c.chunks, DataOf(Latest(r), n + 1))
<1>8. /\ s \in Seq(DataPage) /\ Len(s) = n + 1
      /\ \A k \in 1 .. n + 1 : s[k] = IF k = n + 1 THEN DataOf(Latest(r), k) ELSE c.chunks[k]
  BY <1>5, <1>7
<1>9. d = [c EXCEPT !.chunks = s]
  BY <1>6
<1> HIDE DEF s, d
<1>10. /\ d \in Call /\ d.rel = r /\ d.op = c.op /\ d.step = "load" /\ d.tag = c.tag
       /\ d.gen = c.gen /\ d.len = c.len /\ d.chunks = s /\ d.token = c.token
  BY <1>1, <1>2, <1>8, <1>9 DEF Call
<1>11. LoadOK(d)
  BY <1>1, <1>5, <1>8, <1>10 DEF LoadOK
<1>12. CallOK(b, d) /\ LockOK(b, d)
  BY <1>1, <1>2, <1>10, <1>11 DEF CallOK, LockOK, FlowOK, TagOK, BaseOK, WriteOK, Owning
<1> QED BY <1>1, <1>3, <1>10, <1>12, OwnStep

\* A write adds to the last image, under the next generation.
LEMMA ApplyStep ==
  ASSUME IInv, NEW b \in Backends, Apply(b)
  PROVE  IInv'
<1> DEFINE c == call[b]
           r == c.rel
<1>1. /\ call[b] # None /\ c.step = "apply"
      /\ UNCHANGED <<pages, lockVars, staged, cache, diskVars, writes, history>>
  BY DEF Apply, At
<1>2. PICK n \in 1 .. MaxPages :
        call' = [call EXCEPT ![b] = [c EXCEPT !.step = "write", !.next = 0, !.len = n,
                                              !.gen = Meta(r).gen + 1,
                                              !.effects = @ \cup {c.token}]]
  BY DEF Apply, Continue
<1> DEFINE d == [c EXCEPT !.step = "write", !.next = 0, !.len = n,
                          !.gen = Meta(r).gen + 1, !.effects = @ \cup {c.token}]
<1>3. c \in Call /\ r \in Relations /\ CallOK(b, c) /\ LockOK(b, c)
  BY <1>1, CallUnderWay
<1>4. ~Rewriting(b) /\ ~At(b, "write") /\ Shareable(b, r)
  BY <1>1, <1>3 DEF Rewriting, At, LockOK, Owning, Shareable
<1>5. Intact(r)
  BY <1>3, <1>4, IntactWhereShared
<1>6. /\ Meta(r).gen = Generation(r) /\ Generation(r) \in Nat \ {0}
      /\ c.effects = Latest(r) /\ c.effects \in Effects
      /\ c.op \in {"flush", "vacuum"} /\ c.token \in Writes
  BY <1>1, <1>3, <1>5, TypeOfRelation DEF Intact, IInv, CallOK, BaseOK, FlowOK, Call
<1>7. /\ c.effects \cup {c.token} \in Effects
      /\ Meta(r).gen + 1 = Generation(r) + 1 /\ Meta(r).gen + 1 \in Nat
      /\ n \in 0 .. MaxPages
  BY <1>6, SizesAssumption DEF Effects
<1>8. /\ d \in Call /\ d.rel = r /\ d.op = c.op /\ d.step = "write" /\ d.next = 0
      /\ d.len = n /\ d.gen = Generation(r) + 1 /\ d.token = c.token
      /\ d.effects = Latest(r) \cup {c.token}
  BY <1>1, <1>3, <1>6, <1>7 DEF Call, Steps
<1> HIDE DEF d
<1>9. CallOK(b, d) /\ LockOK(b, d)
  BY <1>1, <1>3, <1>6, <1>8
  DEF CallOK, LockOK, FlowOK, TagOK, LoadOK, BaseOK, WriteOK, BeforeMeta, Owning
<1> QED BY <1>1, <1>2, <1>4, <1>8, <1>9, OwnStep DEF d

\* A vacuum that removes nothing has only its lock to give back.
LEMMA NothingRemovedStep ==
  ASSUME IInv, NEW b \in Backends, NothingRemoved(b)
  PROVE  IInv'
<1> DEFINE c == call[b]
           d == [c EXCEPT !.step = "unlock"]
<1>1. /\ call[b] # None /\ c.step = "apply" /\ c.op = "vacuum"
      /\ UNCHANGED <<pages, lockVars, staged, cache, diskVars, writes, history>>
  BY DEF NothingRemoved, At, Doing
<1>2. c \in Call /\ CallOK(b, c) /\ LockOK(b, c) /\ ~Rewriting(b)
  BY <1>1, CallUnderWay DEF Rewriting, At
<1>3. call \in [Backends -> Call \cup {None}]
  BY DEF IInv, TypeInv, TypeOK
<1>4. call' = [call EXCEPT ![b] = d]
  BY <1>1, <1>3 DEF NothingRemoved, Goto
<1>5. d \in Call /\ d.rel = c.rel /\ d.op = "vacuum" /\ d.step = "unlock" /\ d.token = c.token
  BY <1>1, <1>2 DEF Call, Steps
<1> HIDE DEF d
<1>6. CallOK(b, d) /\ LockOK(b, d)
  BY <1>1, <1>2, <1>5
  DEF CallOK, LockOK, FlowOK, TagOK, LoadOK, BaseOK, WriteOK, Owning
<1> QED BY <1>1, <1>2, <1>4, <1>5, <1>6, OwnStep

\* A step of a caller that is not rewriting: the pages, the disk and the calls are
\* as they should be when the call is.
LEMMA CallStep ==
  ASSUME IInv, NEW b \in Backends, NEW d, call' = [call EXCEPT ![b] = d], ~Rewriting(b),
         UNCHANGED <<pages, diskVars, history>>,
         d # None => CallOK(b, d),
         cache' = cache \/ d = None \/ d.step # "consult",
         \A e \in Backends \ {b} : cache'[e] = cache[e]
  PROVE  PagesInv' /\ DiskInv' /\ CallsInv'
<1>1. call \in [Backends -> Call \cup {None}]
  BY DEF IInv, TypeInv, TypeOK
<1>2. PagesInv' /\ DiskInv'
  BY <1>1, PagesStay, DiskStays DEF IInv, Rewriting
<1>3. CallsInv'
  BY <1>1, CallsStay DEF IInv
<1> QED BY <1>2, <1>3

\* When a slot is emptied, what else is staged stays.
LEMMA StagedFewer ==
  ASSUME CopiesInv, UNCHANGED <<pages, cache, history>>,
         \A e \in Backends : staged'[e] # None => staged'[e] = staged[e]
  PROVE  CopiesInv'
<1>1. \A r \in Relations : Generation(r)' = Generation(r) /\ history'[r] = history[r]
  BY DEF Generation
<1>2. \A r, g : SeenOK(r, g) <=> SeenOK(r, g)'
  BY DEF SeenOK, Intact, Meta, Generation, Latest
<1> QED BY <1>1, <1>2 DEF CopiesInv, Generation

\* A call begins; a write-back starts from what was staged.
LEMMA StartCallStep ==
  ASSUME IInv, NEW b \in Backends, NEW op \in Operations, NEW r \in Relations,
         StartCall(b, op, r)
  PROVE  IInv'
<1> DEFINE d == [op |-> op, rel |-> r, step |-> "start",
                 tag |-> IF op = "flush" THEN staged[b].gen ELSE 0,
                 gen |-> 0, len |-> 0, chunks |-> <<>>,
                 effects |-> IF op = "flush" THEN staged[b].effects ELSE {},
                 token |-> IF op \in {"flush", "vacuum"} THEN writes + 1 ELSE 0,
                 next |-> 0, ceiling |-> 0]
<1>1. /\ call[b] = None /\ call' = [call EXCEPT ![b] = d]
      /\ op = "flush" => staged[b] # None /\ staged[b].rel = r
      /\ op \in {"flush", "vacuum"} => writes < MaxWrites
      /\ writes' = IF op \in {"flush", "vacuum"} THEN writes + 1 ELSE writes
      /\ staged' = [staged EXCEPT ![b] = IF op = "flush" THEN None ELSE @]
      /\ UNCHANGED <<pages, lockVars, cache, diskVars, history>>
  BY DEF StartCall, Continue
<1>2. ~Rewriting(b)
  BY <1>1 DEF Rewriting, At
<1>3. /\ writes \in 0 .. MaxWrites /\ MaxWrites \in Nat /\ MaxPages \in Nat
      /\ staged \in [Backends -> Staged \cup {None}]
      /\ call \in [Backends -> Call \cup {None}]
  BY SizesAssumption DEF IInv, TypeInv, TypeOK
<1>4. op = "flush" =>
        /\ staged[b].gen \in 1 .. Generation(r) /\ staged[b].effects = history[r][staged[b].gen]
        /\ staged[b].gen \in Nat /\ staged[b].effects \in Effects
  BY <1>1, <1>3 DEF IInv, CopiesInv, Staged
<1>5. d \in Call
  <2>1. d.tag \in Nat /\ d.effects \in Effects
    BY <1>4 DEF Effects
  <2>2. d.token \in 0 .. MaxWrites
    BY <1>1, <1>3
  <2>3. d.step \in Steps /\ d.chunks \in Seq(DataPage) /\ d.len \in 0 .. MaxPages
    BY <1>3 DEF Steps
  <2> QED BY <2>1, <2>2, <2>3 DEF Call
<1>6. CallOK(b, d)
  <2>1. FlowOK(d)
    BY <1>1, <1>3 DEF FlowOK, Writes
  <2>2. BaseOK(d)
    BY <1>4 DEF BaseOK
  <2>3. TagOK(b, d) /\ LoadOK(d) /\ WriteOK(d)
    BY DEF TagOK, LoadOK, WriteOK
  <2> QED BY <2>1, <2>2, <2>3 DEF CallOK
<1>7. LockOK(b, d)
  BY DEF LockOK, Owning
<1> HIDE DEF d
<1>8. PagesInv' /\ DiskInv' /\ CallsInv'
  BY <1>1, <1>2, <1>6, CallStep
<1>9. TypeInv'
  <2>1. writes' \in 0 .. MaxWrites
    BY <1>1, <1>3
  <2>2. staged' \in [Backends -> Staged \cup {None}]
    BY <1>1, <1>3
  <2>3. call' \in [Backends -> Call \cup {None}]
    BY <1>1, <1>3, <1>5
  <2> QED BY <1>1, <2>1, <2>2, <2>3 DEF IInv, TypeInv, TypeOK, lockVars, diskVars
<1>10. LockInv'
  BY <1>1, <1>3, <1>7, LockStays DEF IInv
<1>11. CopiesInv'
  <2>1. \A e \in Backends : staged'[e] # None => staged'[e] = staged[e]
    BY <1>1, <1>3
  <2> QED BY <1>1, <2>1, StagedFewer DEF IInv
<1> QED BY <1>8, <1>9, <1>10, <1>11 DEF IInv

\* When a cache only loses entries, those that stay are honest.
LEMMA CacheFewer ==
  ASSUME CopiesInv, UNCHANGED <<pages, staged, history>>,
         \A e \in Backends, r \in Relations : cache'[e][r] # None => cache'[e][r] = cache[e][r]
  PROVE  CopiesInv'
<1>1. \A r \in Relations : \A g : SeenOK(r, g) <=> SeenOK(r, g)'
  BY DEF SeenOK, Intact, Meta, Generation, Latest
<1>2. ASSUME NEW e \in Backends, NEW r \in Relations, NEW copy, copy = cache'[e][r], copy # None
      PROVE  SeenOK(r, copy.gen)' /\ \E g \in copy.gen .. Generation(r)' : copy.effects = history'[r][g]
  <2>1. copy = cache[e][r]
    BY <1>2
  <2> QED BY <1>1, <1>2, <2>1 DEF CopiesInv, Generation
<1> QED BY <1>2 DEF CopiesInv, Generation

\* The cache's answer has the generation that was looked for, so it is that image.
LEMMA ConsultStep ==
  ASSUME IInv, NEW b \in Backends, Consult(b)
  PROVE  IInv'
<1> DEFINE c == call[b]
           r == c.rel
           copy == cache[b][r]
<1>1. /\ call[b] # None /\ c.step = "consult"
      /\ UNCHANGED <<pages, lockVars, staged, diskVars, writes, history>>
  BY DEF Consult, At
<1>2a. PICK ceiling \in Ceilings :
         \E kept \in (IF ceiling = 0 THEN {{}} ELSE Evictions(cache[b], {r}, ceiling)) :
           IF r \in kept /\ Usable(copy, c.tag, ceiling)
           THEN /\ cache' = [cache EXCEPT ![b] = Only(@, kept)]
                /\ Continue(b, [c EXCEPT !.step = "done", !.ceiling = ceiling,
                                         !.gen = copy.gen, !.effects = copy.effects])
           ELSE /\ cache' = [cache EXCEPT ![b] = Only(@, kept \ {r})]
                /\ Continue(b, [c EXCEPT !.step = "fetch", !.ceiling = ceiling])
  BY DEF Consult
<1>2. PICK kept :
        IF r \in kept /\ Usable(copy, c.tag, ceiling)
        THEN /\ cache' = [cache EXCEPT ![b] = Only(@, kept)]
             /\ Continue(b, [c EXCEPT !.step = "done", !.ceiling = ceiling,
                                      !.gen = copy.gen, !.effects = copy.effects])
        ELSE /\ cache' = [cache EXCEPT ![b] = Only(@, kept \ {r})]
             /\ Continue(b, [c EXCEPT !.step = "fetch", !.ceiling = ceiling])
  BY <1>2a
<1>3. /\ c \in Call /\ r \in Relations /\ CallOK(b, c) /\ LockOK(b, c) /\ ~Rewriting(b)
      /\ c.op = "scan" /\ ceiling \in Nat
  <2>1. c \in Call /\ r \in Relations /\ CallOK(b, c) /\ LockOK(b, c) /\ ~Rewriting(b)
    BY <1>1, CallUnderWay DEF Rewriting, At
  <2>2. c.op = "scan" /\ ceiling \in Nat
    BY <1>1, <2>1, SizesAssumption DEF CallOK, FlowOK
  <2> QED BY <2>1, <2>2
<1>4. /\ cache \in [Backends -> [Relations -> Copy \cup {None}]]
      /\ call \in [Backends -> Call \cup {None}]
  BY DEF IInv, TypeInv, TypeOK
<1>5. PICK keys : cache' = [cache EXCEPT ![b] = Only(@, keys)]
  BY <1>2
<1>6. /\ cache' \in [Backends -> [Relations -> Copy \cup {None}]]
      /\ \A e \in Backends \ {b} : cache'[e] = cache[e]
      /\ \A e \in Backends, x \in Relations : cache'[e][x] # None => cache'[e][x] = cache[e][x]
  <2>1. cache'[b] = [x \in Relations |-> IF x \in keys THEN cache[b][x] ELSE None]
    BY <1>4, <1>5 DEF Only
  <2>2. cache'[b] \in [Relations -> Copy \cup {None}]
    BY <1>4, <2>1
  <2> QED BY <1>4, <1>5, <2>1, <2>2
<1>7. PICK d \in Call : /\ call' = [call EXCEPT ![b] = d]
                        /\ d.step \in {"done", "fetch"} /\ d.op = "scan" /\ d.rel = r
                        /\ d.tag = c.tag
  <2>1. CASE r \in kept /\ Usable(copy, c.tag, ceiling)
    <3> DEFINE d == [c EXCEPT !.step = "done", !.ceiling = ceiling,
                              !.gen = copy.gen, !.effects = copy.effects]
    <3>1. copy \in Copy
      BY <1>3, <1>4, <2>1 DEF Usable
    <3>2. copy.gen \in Nat /\ copy.effects \in Effects
      BY <3>1 DEF Copy
    <3>3. call' = [call EXCEPT ![b] = d]
      BY <1>2, <2>1 DEF Continue
    <3>4. d \in Call /\ d.step = "done" /\ d.op = "scan" /\ d.rel = r /\ d.tag = c.tag
      BY <1>3, <3>2 DEF Call, Steps
    <3> HIDE DEF d
    <3> QED BY <3>3, <3>4
  <2>2. CASE ~(r \in kept /\ Usable(copy, c.tag, ceiling))
    <3> DEFINE d == [c EXCEPT !.step = "fetch", !.ceiling = ceiling]
    <3>1. call' = [call EXCEPT ![b] = d]
      BY <1>2, <2>2 DEF Continue
    <3>2. d \in Call /\ d.step = "fetch" /\ d.op = "scan" /\ d.rel = r /\ d.tag = c.tag
      BY <1>3 DEF Call, Steps
    <3> HIDE DEF d
    <3> QED BY <3>1, <3>2
  <2> QED BY <2>1, <2>2
<1>8. CallOK(b, d) /\ LockOK(b, d)
  <2>1. FlowOK(d) /\ LoadOK(d) /\ BaseOK(d) /\ WriteOK(d) /\ LockOK(b, d)
    BY <1>7 DEF FlowOK, LoadOK, BaseOK, WriteOK, LockOK, Owning
  <2>2. TagOK(b, d)
    BY <1>1, <1>3, <1>7 DEF CallOK, TagOK
  <2> QED BY <2>1, <2>2 DEF CallOK
<1>9. PagesInv' /\ DiskInv' /\ CallsInv'
  BY <1>1, <1>3, <1>6, <1>7, <1>8, CallStep
<1>10. TypeInv'
  BY <1>1, <1>4, <1>6, <1>7 DEF IInv, TypeInv, TypeOK, lockVars, diskVars
<1>11. LockInv'
  BY <1>1, <1>4, <1>7, <1>8, LockStays DEF IInv
<1>12. CopiesInv'
  BY <1>1, <1>6, CacheFewer DEF IInv
<1> QED BY <1>9, <1>10, <1>11, <1>12 DEF IInv

\* Where a load may share the lock the pages are the last image.
LEMMA LoadStartStep ==
  ASSUME IInv, NEW b \in Backends, LoadStart(b)
  PROVE  IInv'
<1> DEFINE c == call[b]
           r == c.rel
           d == [c EXCEPT !.step = "load", !.chunks = <<>>,
                          !.gen = Meta(r).gen, !.len = Meta(r).len]
<1>1. /\ c.step = "fetch" \/ (c.step = "start" /\ c.op = "stage")
      /\ Shareable(b, r) /\ sharers' = [sharers EXCEPT ![r] = @ \cup {b}]
      /\ call' = [call EXCEPT ![b] = d]
      /\ UNCHANGED <<pages, holder, staged, cache, diskVars, writes, history>>
  BY DEF LoadStart, At, Doing, Continue
<1>2. /\ call[b] # None
      /\ c \in Call /\ r \in Relations /\ CallOK(b, c) /\ LockOK(b, c)
      /\ ~Rewriting(b) /\ ~At(b, "write")
  <2>1. call[b] # None
    BY DEF LoadStart, At
  <2> QED BY <1>1, <2>1, CallUnderWay DEF Rewriting, At
<1>3. Intact(r)
  BY <1>1, <1>2, IntactWhereShared
<1>4. /\ Meta(r).gen = Generation(r) /\ Generation(r) \in Nat
      /\ Meta(r).gen \in Nat /\ Meta(r).len \in 0 .. MaxPages /\ <<>> \in Seq(DataPage)
  BY <1>2, <1>3, TypeOfRelation, SizesAssumption DEF Intact, IInv
<1>5. /\ d \in Call /\ d.rel = r /\ d.op = c.op /\ d.step = "load" /\ d.tag = c.tag
      /\ d.gen = Meta(r).gen /\ d.len = Meta(r).len /\ d.chunks = <<>> /\ d.token = c.token
  BY <1>1, <1>2, <1>4 DEF Call, Steps
<1> HIDE DEF d
<1>6. CallOK(b, d)
  <2>1. FlowOK(d) /\ BaseOK(d) /\ WriteOK(d)
    BY <1>2, <1>5 DEF CallOK, FlowOK, BaseOK, WriteOK
  <2>2. TagOK(b, d)
    BY <1>1, <1>2, <1>5 DEF CallOK, TagOK
  <2>3. LoadOK(d)
    BY <1>4, <1>5 DEF LoadOK
  <2> QED BY <2>1, <2>2, <2>3 DEF CallOK
<1>7. PagesInv' /\ DiskInv' /\ CallsInv'
  BY <1>1, <1>2, <1>5, <1>6, CallStep
<1>8. TypeInv' /\ CopiesInv'
  <2>1. call' \in [Backends -> Call \cup {None}] /\ sharers' \in [Relations -> SUBSET Backends]
    BY <1>1, <1>5 DEF IInv, TypeInv, TypeOK
  <2> QED BY <1>1, <2>1, CopiesStay DEF IInv, TypeInv, TypeOK, diskVars
<1>9. LockInv'
  <2>1. /\ sharers \in [Relations -> SUBSET Backends]
        /\ call \in [Backends -> Call \cup {None}]
    BY DEF IInv, TypeInv, TypeOK
  <2>2. ASSUME NEW x \in Relations, holder'[x] # None PROVE sharers'[x] \subseteq {holder'[x]}
    <3>1. holder'[x] = holder[x] /\ sharers[x] \subseteq {holder[x]}
      BY <1>1, <2>2 DEF IInv, LockInv
    <3>2. x = r => holder[x] = b
      BY <1>1, <2>2, <3>1 DEF Shareable
    <3> QED BY <1>1, <2>1, <3>1, <3>2
  <2>3. ASSUME NEW e \in Backends, call'[e] # None
        PROVE  /\ Owning(call'[e]) => holder'[call'[e].rel] = e
               /\ call'[e].step = "load" => e \in sharers'[call'[e].rel]
    <3>1. CASE e = b
      <4>1. call'[e] = d
        BY <1>1, <2>1, <3>1
      <4>2. Owning(d) => holder[r] = b
        <5>1. Owning(d) => Owning(c)
          BY <1>1, <1>5 DEF Owning
        <5> QED BY <1>2, <5>1 DEF LockOK
      <4>3. b \in sharers'[r]
        BY <1>1, <1>2, <2>1
      <4> QED BY <1>1, <1>5, <3>1, <4>1, <4>2, <4>3
    <3>2. CASE e # b
      <4>1. call'[e] = call[e] /\ call[e] # None
        BY <1>1, <2>1, <2>3, <3>2
      <4>2. call[e].rel \in Relations /\ LockOK(e, call[e])
        BY <4>1, CallUnderWay
      <4> QED BY <1>1, <2>1, <4>1, <4>2 DEF LockOK
    <3> QED BY <3>1, <3>2
  <2> QED BY <2>2, <2>3 DEF LockInv, Owning
<1> QED BY <1>7, <1>8, <1>9 DEF IInv

\* The holder of the lock finds the pages intact; a staged graph of their generation is the last image.
LEMMA WriteLockStep ==
  ASSUME IInv, NEW b \in Backends, WriteLock(b)
  PROVE  IInv'
<1> DEFINE c == call[b]
           r == c.rel
           g == Meta(r).gen
           d == [c EXCEPT !.step = IF c.op = "flush" /\ c.tag = g THEN "apply" ELSE "fetch",
                          !.tag = 0]
<1>1. /\ call[b] # None /\ c.step = "start" /\ c.op \in {"flush", "vacuum"}
      /\ Ownable(b, r) /\ holder' = [holder EXCEPT ![r] = b]
      /\ call' = [call EXCEPT ![b] = d]
      /\ UNCHANGED <<pages, sharers, staged, cache, diskVars, writes, history>>
  BY DEF WriteLock, At, Doing, Continue
<1>2. /\ c \in Call /\ r \in Relations /\ CallOK(b, c) /\ LockOK(b, c)
      /\ ~Rewriting(b) /\ ~At(b, "write")
  BY <1>1, CallUnderWay DEF Rewriting, At
<1>3. Intact(r) /\ g = Generation(r)
  BY <1>1, <1>2, IntactWhereShared DEF Ownable, Intact
<1>4. /\ d \in Call /\ d.rel = r /\ d.op = c.op /\ d.effects = c.effects /\ d.token = c.token
      /\ d.step = IF c.op = "flush" /\ c.tag = g THEN "apply" ELSE "fetch"
  BY <1>1, <1>2 DEF Call, Steps
<1> HIDE DEF d
<1>5. CallOK(b, d)
  <2>1. d.step \in {"apply", "fetch"}
    BY <1>4
  <2>2. FlowOK(d) /\ TagOK(b, d) /\ LoadOK(d) /\ WriteOK(d)
    BY <1>1, <1>2, <1>4, <2>1 DEF CallOK, FlowOK, TagOK, LoadOK, WriteOK
  <2>3. BaseOK(d)
    <3>1. ASSUME d.step = "apply" PROVE d.effects = Latest(r)
      <4>1. c.op = "flush" /\ c.tag = Generation(r)
        BY <1>3, <1>4, <3>1
      <4> QED BY <1>1, <1>2, <1>4, <4>1 DEF CallOK, BaseOK, Latest
    <3> QED BY <1>4, <2>1, <3>1 DEF BaseOK
  <2> QED BY <2>2, <2>3 DEF CallOK
<1>6. PagesInv' /\ DiskInv' /\ CallsInv'
  BY <1>1, <1>2, <1>5, CallStep
<1>7. TypeInv' /\ CopiesInv'
  <2>1. call' \in [Backends -> Call \cup {None}] /\ holder' \in [Relations -> Backends \cup {None}]
    BY <1>1, <1>2, <1>4 DEF IInv, TypeInv, TypeOK
  <2> QED BY <1>1, <2>1, CopiesStay DEF IInv, TypeInv, TypeOK, diskVars
<1>8. LockInv'
  <2>1. /\ holder \in [Relations -> Backends \cup {None}]
        /\ call \in [Backends -> Call \cup {None}]
    BY DEF IInv, TypeInv, TypeOK
  <2>2. ASSUME NEW x \in Relations, holder'[x] # None PROVE sharers'[x] \subseteq {holder'[x]}
    <3>1. CASE x = r
      BY <1>1, <2>1, <3>1 DEF Ownable
    <3>2. CASE x # r
      BY <1>1, <2>1, <2>2, <3>2 DEF IInv, LockInv
    <3> QED BY <3>1, <3>2
  <2>3. ASSUME NEW e \in Backends, call'[e] # None
        PROVE  /\ Owning(call'[e]) => holder'[call'[e].rel] = e
               /\ call'[e].step = "load" => e \in sharers'[call'[e].rel]
    <3>1. CASE e = b
      <4>1. call'[e] = d /\ holder'[r] = b
        BY <1>1, <1>2, <2>1, <3>1
      <4> QED BY <1>4, <3>1, <4>1
    <3>2. CASE e # b
      <4>1. call'[e] = call[e] /\ call[e] # None
        BY <1>1, <2>1, <2>3, <3>2
      <4>2. call[e].rel \in Relations /\ LockOK(e, call[e])
        BY <4>1, CallUnderWay
      <4>3. holder[call[e].rel] = e => call[e].rel # r
        BY <1>1, <3>2, NoneAssumption DEF Ownable, Shareable
      <4> QED BY <1>1, <2>1, <4>1, <4>2, <4>3 DEF LockOK
    <3> QED BY <3>1, <3>2
  <2> QED BY <2>2, <2>3 DEF LockInv, Owning
<1> QED BY <1>6, <1>7, <1>8 DEF IInv

\* Locks that their owner gives back, its call being over or past its need of them.
LEMMA LocksFall ==
  ASSUME IInv, NEW b \in Backends, NEW d, call' = [call EXCEPT ![b] = d],
         d # None => ~Owning(d) /\ d.step # "load",
         \A r \in Relations : /\ holder'[r] = holder[r] \/ (holder[r] = b /\ holder'[r] = None)
                              /\ sharers[r] \ {b} \subseteq sharers'[r]
                              /\ sharers'[r] \subseteq sharers[r]
  PROVE  LockInv'
<1>1. call \in [Backends -> Call \cup {None}]
  BY DEF IInv, TypeInv, TypeOK
<1>2. ASSUME NEW r \in Relations, holder'[r] # None PROVE sharers'[r] \subseteq {holder'[r]}
  BY <1>2 DEF IInv, LockInv
<1>3. ASSUME NEW e \in Backends, call'[e] # None
      PROVE  /\ Owning(call'[e]) => holder'[call'[e].rel] = e
             /\ call'[e].step = "load" => e \in sharers'[call'[e].rel]
  <2>1. CASE e = b
    BY <1>1, <1>3, <2>1 DEF Owning
  <2>2. CASE e # b
    <3>1. call'[e] = call[e] /\ call[e] # None
      BY <1>1, <1>3, <2>2
    <3>2. call[e].rel \in Relations /\ LockOK(e, call[e])
      BY <3>1, CallUnderWay
    <3> QED BY <2>2, <3>1, <3>2 DEF LockOK
  <2> QED BY <2>1, <2>2
<1> QED BY <1>2, <1>3 DEF LockInv, Owning

\* A writer gives its lock back when its pages are the last image.
LEMMA WriteUnlockStep ==
  ASSUME IInv, NEW b \in Backends, WriteUnlock(b)
  PROVE  IInv'
<1>1. /\ call[b] # None /\ call[b].step = "unlock"
      /\ holder' = [holder EXCEPT ![call[b].rel] = None] /\ call' = [call EXCEPT ![b] = None]
      /\ UNCHANGED <<pages, sharers, staged, cache, diskVars, writes, history>>
  BY DEF WriteUnlock, At
<1>2. ~Rewriting(b) /\ call[b].rel \in Relations /\ LockOK(b, call[b])
  BY <1>1, CallUnderWay DEF Rewriting, At
<1>3. PagesInv' /\ DiskInv' /\ CallsInv'
  BY <1>1, <1>2, CallStep
<1>4. TypeInv' /\ CopiesInv'
  <2>1. call' \in [Backends -> Call \cup {None}] /\ holder' \in [Relations -> Backends \cup {None}]
    BY <1>1 DEF IInv, TypeInv, TypeOK
  <2> QED BY <1>1, <2>1, CopiesStay DEF IInv, TypeInv, TypeOK, diskVars
<1>5. LockInv'
  <2>1. holder[call[b].rel] = b
    BY <1>1, <1>2 DEF LockOK, Owning
  <2>2. \A r \in Relations : /\ holder'[r] = holder[r] \/ (holder[r] = b /\ holder'[r] = None)
                             /\ sharers'[r] = sharers[r]
    BY <1>1, <2>1 DEF IInv, TypeInv, TypeOK
  <2> QED BY <1>1, <2>2, LocksFall
<1> QED BY <1>3, <1>4, <1>5 DEF IInv

\* An error outside a rewrite leaves pages that are whole.
LEMMA RaiseStep ==
  ASSUME IInv, NEW b \in Backends, Raise(b), "error" \notin MidWrite
  PROVE  IInv'
<1>1. /\ ~Rewriting(b) /\ call' = [call EXCEPT ![b] = None]
      /\ staged' = [staged EXCEPT ![b] = None]
      /\ holder' = [r \in Relations |-> IF holder[r] = b THEN None ELSE holder[r]]
      /\ sharers' = [r \in Relations |-> sharers[r] \ {b}]
      /\ UNCHANGED <<pages, cache, diskVars, writes, history>>
  BY DEF Raise
<1>2. PagesInv' /\ DiskInv' /\ CallsInv'
  BY <1>1, CallStep
<1>3. TypeInv'
  BY <1>1 DEF IInv, TypeInv, TypeOK, diskVars
<1>4. CopiesInv'
  <2>1. \A e \in Backends : staged'[e] # None => staged'[e] = staged[e]
    BY <1>1 DEF IInv, TypeInv, TypeOK
  <2> QED BY <1>1, <2>1, StagedFewer DEF IInv
<1>5. LockInv'
  <2>1. \A r \in Relations : /\ holder'[r] = holder[r] \/ (holder[r] = b /\ holder'[r] = None)
                             /\ sharers'[r] = sharers[r] \ {b}
    BY <1>1
  <2> QED BY <1>1, <2>1, LocksFall
<1> QED BY <1>2, <1>3, <1>4, <1>5 DEF IInv

\* A cache entry added by a scan, the rest of its cache having lost entries at most.
LEMMA CacheFilled ==
  ASSUME IInv, NEW b \in Backends, NEW c \in Call, Fill(b, c), c.len \in 1 .. MaxPages,
         SeenOK(c.rel, c.tag), c.effects = Latest(c.rel), UNCHANGED <<pages, staged, history>>
  PROVE  /\ CopiesInv' /\ \A e \in Backends \ {b} : cache'[e] = cache[e]
         /\ cache' \in [Backends -> [Relations -> Copy \cup {None}]]
<1> DEFINE r == c.rel
           new == [gen |-> c.tag, effects |-> c.effects, bytes |-> c.len]
<1>1. cache \in [Backends -> [Relations -> Copy \cup {None}]] /\ r \in Relations
  BY DEF IInv, TypeInv, TypeOK, Call
<1>2. CASE UNCHANGED cache
  BY <1>1, <1>2, CopiesStay DEF IInv
<1>3. CASE \E kept : cache' = [cache EXCEPT ![b] = [Only(@, kept) EXCEPT ![r] = new]]
  <2>1. PICK kept : cache' = [cache EXCEPT ![b] = [Only(@, kept) EXCEPT ![r] = new]]
    BY <1>3
  <2>2. new \in Copy /\ new.gen = c.tag /\ new.effects = c.effects
    BY DEF Copy, Call
  <2> HIDE DEF new
  <2>3. \A x \in Relations : cache'[b][x] = IF x = r THEN new
                                           ELSE IF x \in kept THEN cache[b][x] ELSE None
    BY <1>1, <2>1 DEF Only
  <2>4. \A e \in Backends \ {b} : cache'[e] = cache[e]
    BY <1>1, <2>1
  <2>5. cache' \in [Backends -> [Relations -> Copy \cup {None}]]
    <3>1. Only(cache[b], kept) \in [Relations -> Copy \cup {None}]
      BY <1>1 DEF Only
    <3>2. [Only(cache[b], kept) EXCEPT ![r] = new] \in [Relations -> Copy \cup {None}]
      BY <1>1, <2>2, <3>1
    <3> QED BY <1>1, <2>1, <3>2
  <2>6. \A x \in Relations : \A g : SeenOK(x, g) <=> SeenOK(x, g)'
    BY DEF SeenOK, Intact, Meta, Generation, Latest
  <2>7. Generation(r) \in Nat
    BY <1>1, TypeOfRelation DEF IInv
  <2>8. ASSUME NEW e \in Backends, NEW x \in Relations, NEW copy, copy = cache'[e][x], copy # None
        PROVE  SeenOK(x, copy.gen)' /\ \E g \in copy.gen .. Generation(x)' : copy.effects = history'[x][g]
    <3>1. CASE e = b /\ x = r
      <4>1. copy = new
        BY <1>1, <2>3, <2>8, <3>1
      <4>2. c.tag \in 1 .. Generation(r) /\ c.effects = history[r][Generation(r)]
        BY DEF SeenOK, Latest
      <4>3. Generation(r) \in c.tag .. Generation(r)
        BY <2>7, <4>2
      <4>4. SeenOK(r, c.tag)' /\ Generation(r)' = Generation(r) /\ history' = history
        BY <1>1, <2>6 DEF Generation
      <4> QED BY <2>2, <3>1, <4>1, <4>2, <4>3, <4>4
    <3>2. CASE ~(e = b /\ x = r)
      <4>1. copy = cache[e][x]
        BY <2>3, <2>4, <2>8, <3>2
      <4> QED BY <2>6, <2>8, <4>1 DEF IInv, CopiesInv, Generation
    <3> QED BY <3>1, <3>2
  <2>9. CopiesInv'
    BY <2>8 DEF IInv, CopiesInv, Generation
  <2> QED BY <2>4, <2>5, <2>9
<1> QED BY <1>2, <1>3 DEF Fill

\* A load hands over the last image: to the cache, to the slot of staged rows, or to the write it is for.
LEMMA LoadEndStep ==
  ASSUME IInv, NEW b \in Backends, LoadEnd(b)
  PROVE  IInv'
<1> DEFINE c == call[b]
           r == c.rel
           d == [c EXCEPT !.chunks = <<>>, !.effects = c.chunks[1].of,
                          !.step = IF Doing(b, {"scan", "stage"}) THEN "done" ELSE "apply"]
<1>1. /\ call[b] # None /\ c.step = "load" /\ Len(c.chunks) = c.len
      /\ UNCHANGED <<pages, holder, diskVars, writes, history>>
  BY DEF LoadEnd, At
<1>2. /\ sharers' = [sharers EXCEPT ![d.rel] = @ \ {b}]
      /\ call' = [call EXCEPT ![b] = d]
      /\ IF d.op = "scan" THEN Fill(b, d) ELSE UNCHANGED cache
      /\ IF d.op = "stage"
         THEN staged' = [staged EXCEPT ![b] = [rel |-> d.rel, gen |-> d.gen, effects |-> d.effects]]
         ELSE UNCHANGED staged
  BY DEF LoadEnd, Continue
<1>3. /\ c \in Call /\ r \in Relations /\ CallOK(b, c) /\ LockOK(b, c)
      /\ ~Rewriting(b) /\ ~At(b, "write")
  BY <1>1, CallUnderWay DEF Rewriting, At
<1>4. Intact(r)
  BY <1>1, <1>3, IntactWhereShared DEF LockOK
<1>5. /\ Latest(r) \in Effects /\ c.len \in 1 .. MaxPages /\ Generation(r) \in Nat \ {0}
      /\ c.gen = Generation(r) /\ c.chunks[1].of = Latest(r)
  <2>1. LoadOK(c) /\ Meta(r).len \in 1 .. MaxPages /\ Latest(r) \in Effects
        /\ Generation(r) \in Nat \ {0}
    BY <1>3, TypeOfRelation DEF CallOK, IInv
  <2>2. c.len \in 1 .. MaxPages /\ 1 \in 1 .. Len(c.chunks)
    BY <1>1, <2>1, SizesAssumption DEF LoadOK
  <2>3. c.chunks[1] = DataOf(Latest(r), 1)
    BY <1>1, <2>1, <2>2 DEF LoadOK
  <2> QED BY <1>1, <2>1, <2>2, <2>3 DEF LoadOK, DataOf
<1>6. /\ d \in Call /\ d.rel = r /\ d.op = c.op /\ d.tag = c.tag /\ d.len = c.len
      /\ d.gen = c.gen /\ d.effects = Latest(r) /\ d.token = c.token
      /\ d.step = IF c.op \in {"scan", "stage"} THEN "done" ELSE "apply"
  <2>1. <<>> \in Seq(DataPage)
    OBVIOUS
  <2> QED BY <1>3, <1>5, <2>1 DEF Call, Steps, Doing
<1> HIDE DEF d
<1>7. /\ staged' \in [Backends -> Staged \cup {None}]
      /\ cache' \in [Backends -> [Relations -> Copy \cup {None}]]
      /\ \A e \in Backends \ {b} : cache'[e] = cache[e]
      /\ CopiesInv'
  <2>1. /\ staged \in [Backends -> Staged \cup {None}]
        /\ cache \in [Backends -> [Relations -> Copy \cup {None}]]
    BY DEF IInv, TypeInv, TypeOK
  <2>2. CASE c.op = "scan"
    <3>1. SeenOK(r, c.tag)
      BY <1>1, <1>3, <2>2 DEF CallOK, TagOK
    <3> QED BY <1>1, <1>2, <1>5, <1>6, <2>1, <2>2, <3>1, CacheFilled
  <2>3. CASE c.op = "stage"
    <3> DEFINE s == [rel |-> r, gen |-> c.gen, effects |-> Latest(r)]
    <3>1. staged' = [staged EXCEPT ![b] = s] /\ UNCHANGED cache
      BY <1>2, <1>6, <2>3
    <3>2. s \in Staged /\ s.rel = r /\ s.gen = Generation(r) /\ s.effects = Latest(r)
      BY <1>3, <1>5 DEF Staged
    <3> HIDE DEF s
    <3>3. staged' \in [Backends -> Staged \cup {None}]
      BY <2>1, <3>1, <3>2
    <3>4. ASSUME NEW e \in Backends, NEW x, x = staged'[e], x # None
          PROVE  x.gen \in 1 .. Len(history[x.rel]) /\ x.effects = history[x.rel][x.gen]
      <4>1. CASE e = b
        BY <1>5, <2>1, <3>1, <3>2, <3>4, <4>1 DEF Latest, Generation
      <4>2. CASE e # b
        BY <2>1, <3>1, <3>4, <4>2 DEF IInv, CopiesInv, Generation
      <4> QED BY <4>1, <4>2
    <3>5. \A x, g : SeenOK(x, g) <=> SeenOK(x, g)'
      BY <1>1 DEF SeenOK, Intact, Meta, Generation, Latest
    <3>6. CopiesInv'
      BY <1>1, <3>1, <3>4, <3>5 DEF IInv, CopiesInv, Generation
    <3> QED BY <2>1, <3>1, <3>3, <3>6
  <2>4. CASE c.op \notin {"scan", "stage"}
    BY <1>1, <1>2, <1>6, <2>1, <2>4, CopiesStay DEF IInv
  <2> QED BY <2>2, <2>3, <2>4
<1>8. CallOK(b, d)
  <2>1. d.step \in {"done", "apply"} /\ (d.step = "done" <=> c.op \in {"scan", "stage"})
    BY <1>6
  <2>2. FlowOK(d)
    BY <1>3, <1>6, <2>1 DEF CallOK, FlowOK, Call, Operations
  <2>3. TagOK(b, d) /\ LoadOK(d) /\ BaseOK(d) /\ WriteOK(d)
    BY <1>6, <2>1 DEF TagOK, LoadOK, BaseOK, WriteOK
  <2> QED BY <2>2, <2>3 DEF CallOK
<1>9. PagesInv' /\ DiskInv' /\ CallsInv'
  <2>1. d.step # "consult"
    BY <1>6
  <2> QED BY <1>1, <1>2, <1>3, <1>7, <1>8, <2>1, CallStep
<1>10. TypeInv'
  <2>1. call' \in [Backends -> Call \cup {None}] /\ sharers' \in [Relations -> SUBSET Backends]
    BY <1>2, <1>6 DEF IInv, TypeInv, TypeOK
  <2> QED BY <1>1, <1>7, <2>1 DEF IInv, TypeInv, TypeOK, diskVars
<1>11. LockInv'
  <2>1. /\ sharers \in [Relations -> SUBSET Backends]
        /\ call \in [Backends -> Call \cup {None}]
    BY DEF IInv, TypeInv, TypeOK
  <2>2. ASSUME NEW x \in Relations, holder'[x] # None PROVE sharers'[x] \subseteq {holder'[x]}
    BY <1>1, <1>2, <2>1, <2>2 DEF IInv, LockInv
  <2>3. ASSUME NEW e \in Backends, call'[e] # None
        PROVE  /\ Owning(call'[e]) => holder'[call'[e].rel] = e
               /\ call'[e].step = "load" => e \in sharers'[call'[e].rel]
    <3>1. CASE e = b
      <4>1. call'[e] = d
        BY <1>2, <2>1, <3>1
      <4>2. Owning(d) => Owning(c)
        BY <1>1, <1>3, <1>6 DEF Owning, Call, Operations
      <4> QED BY <1>1, <1>3, <1>6, <3>1, <4>1, <4>2 DEF LockOK
    <3>2. CASE e # b
      <4>1. call'[e] = call[e] /\ call[e] # None
        BY <1>2, <2>1, <2>3, <3>2
      <4>2. call[e].rel \in Relations /\ LockOK(e, call[e])
        BY <4>1, CallUnderWay
      <4>3. \A x \in Relations : sharers[x] \ {b} \subseteq sharers'[x]
        BY <1>2, <2>1
      <4> QED BY <1>1, <3>2, <4>1, <4>2, <4>3 DEF LockOK
    <3> QED BY <3>1, <3>2
  <2> QED BY <2>2, <2>3 DEF LockInv, Owning
<1> QED BY <1>7, <1>9, <1>10, <1>11 DEF IInv

-----------------------------------------------------------------------------
(* The rewriting of pages.                                                 *)

\* One page of a rewrite: the metapage brings the new image in, the data pages follow,
\* and past the last page the relation is the image.
LEMMA PageWritten ==
  ASSUME IInv, NEW b \in Backends, WritePage(b),
         NEW c, c = call[b], NEW r, r = c.rel, NEW k, k = c.next
  PROVE  /\ pages' \in [Relations -> Pages] /\ history' \in [Relations -> Seq(Effects)]
         /\ \A x \in Relations \ {r} : pages'[x] = pages[x] /\ history'[x] = history[x]
         /\ Len(pages[r]) <= Len(pages'[r]) /\ k < Len(pages'[r])
         /\ Meta(r)' = [gen |-> c.gen, len |-> c.len]
         /\ Generation(r)' = c.gen /\ Latest(r)' = c.effects
         /\ Generation(r)' = IF k = 0 THEN Generation(r) + 1 ELSE Generation(r)
         /\ \A g \in 1 .. Generation(r) : history'[r][g] = history[r][g]
         /\ \A j \in 1 .. c.len : j <= k => pages'[r][j + 1] = DataOf(c.effects, j)
         /\ Intact(r) /\ k > 0 => Intact(r)'
<1> DEFINE p == PageOf(c, k)
           old == pages[r]
           after == Replaced(old, k, p)
<1>1. /\ call[b] # None /\ c.step = "write" /\ pages' = [pages EXCEPT ![r] = after]
      /\ history' = IF k = 0 THEN [history EXCEPT ![r] = Append(@, c.effects)] ELSE history
  BY DEF WritePage, At, Replaced
<1>2. /\ c \in Call /\ r \in Relations /\ WriteOK(c) /\ c.len \in 1 .. MaxPages
      /\ k \in Nat /\ c.gen \in Nat /\ c.effects \in Effects
      /\ MaxPages \in Nat
  BY <1>1, CallUnderWay, SizesAssumption DEF CallOK, WriteOK, Call
<1>3. /\ pages \in [Relations -> Pages] /\ history \in [Relations -> Seq(Effects)]
      /\ old \in Pages /\ Len(old) \in Nat \ {0}
      /\ history[r] \in Seq(Effects) /\ Generation(r) \in Nat \ {0}
  BY <1>2, TypeOfRelation DEF IInv, TypeInv, TypeOK
<1>4. k \in 0 .. Len(old) /\ (k > 0 => PastMeta(c)) /\ (k = 0 => BeforeMeta(c))
  BY <1>1, <1>2, <1>3 DEF WriteOK, PastMeta
<1>5. /\ k = 0 => p = [gen |-> c.gen, len |-> c.len] /\ p \in MetaPage
      /\ k > 0 /\ k <= c.len => p = DataOf(c.effects, k)
      /\ p \in MetaPage \cup DataPage
  <2>1. k = 0 => p = [gen |-> c.gen, len |-> c.len] /\ p \in MetaPage
    BY <1>2 DEF PageOf, MetaPage
  <2>2. k > 0 /\ k <= c.len => p = DataOf(c.effects, k) /\ p \in DataPage
    BY <1>2 DEF PageOf, DataOf, DataPage
  <2>3. k > 0 /\ ~(k <= c.len) => p \in DataPage
    BY <1>2 DEF PageOf, Cleared, DataPage, Effects
  <2> QED BY <1>2, <2>1, <2>2, <2>3
<1> HIDE DEF p
<1>6. /\ after \in Pages
      /\ Len(after) = IF k < Len(old) THEN Len(old) ELSE k + 1
      /\ \A j \in 1 .. Len(after) : after[j] = IF j = k + 1 THEN p ELSE old[j]
  <2>1. k = 0 => p \in MetaPage
    BY <1>5
  <2>2. old \in Pages /\ k \in 0 .. Len(old) /\ p \in MetaPage \cup DataPage
    BY <1>3, <1>4, <1>5
  <2>3. PICK s, q : s = old /\ q = p
    OBVIOUS
  <2>4. PICK t : t = Replaced(s, k, q)
    OBVIOUS
  <2>5. s \in Pages /\ k \in 0 .. Len(s) /\ q \in MetaPage \cup DataPage /\ (k = 0 => q \in MetaPage)
    BY <2>1, <2>2, <2>3
  <2>6. /\ t \in Pages /\ Len(t) = IF k < Len(s) THEN Len(s) ELSE k + 1
        /\ \A j \in 1 .. Len(t) : t[j] = IF j = k + 1 THEN q ELSE s[j]
    BY <2>4, <2>5, PageReplaced
  <2>7. t = after
    BY <2>3, <2>4
  <2> QED BY <2>3, <2>6, <2>7
<1> HIDE DEF after
<1>7. pages'[r] = after /\ \A x \in Relations \ {r} : pages'[x] = pages[x]
  BY <1>1, <1>2, <1>3
<1>8. pages' \in [Relations -> Pages]
  BY <1>1, <1>2, <1>3, <1>6
<1>9. Len(old) <= Len(after) /\ k < Len(after) /\ Len(after) \in Nat
  BY <1>3, <1>4, <1>6
<1>10. /\ history' \in [Relations -> Seq(Effects)]
       /\ \A x \in Relations \ {r} : history'[x] = history[x]
       /\ Generation(r)' = IF k = 0 THEN Generation(r) + 1 ELSE Generation(r)
       /\ \A g \in 1 .. Generation(r) : history'[r][g] = history[r][g]
       /\ k = 0 => history'[r][Generation(r) + 1] = c.effects
  <2>1. CASE k = 0
    <3> DEFINE h == Append(history[r], c.effects)
    <3>1. h \in Seq(Effects) /\ Len(h) = Generation(r) + 1 /\ h[Generation(r) + 1] = c.effects
          /\ \A g \in 1 .. Generation(r) : h[g] = history[r][g]
      BY <1>2, <1>3 DEF Generation
    <3>2. history' = [history EXCEPT ![r] = h]
      BY <1>1, <2>1
    <3> HIDE DEF h
    <3> QED BY <1>2, <1>3, <2>1, <3>1, <3>2 DEF Generation
  <2>2. CASE k # 0
    BY <1>1, <1>2, <1>3, <2>2 DEF Generation
  <2> QED BY <2>1, <2>2
<1>11. Generation(r)' = c.gen /\ Latest(r)' = c.effects
  <2>1. CASE k = 0
    BY <1>3, <1>4, <1>10, <2>1 DEF BeforeMeta, Latest
  <2>2. CASE k > 0
    <3>1. c.gen = Generation(r) /\ c.effects = history[r][Generation(r)]
      BY <1>4, <2>2 DEF PastMeta, Latest
    <3>2. Generation(r)' = Generation(r) /\ history'[r][Generation(r)] = history[r][Generation(r)]
      BY <1>2, <1>3, <1>10, <2>2
    <3> QED BY <3>1, <3>2 DEF Latest
  <2> QED BY <1>2, <2>1, <2>2
<1>12. Meta(r)' = [gen |-> c.gen, len |-> c.len]
  <2>1. 1 \in 1 .. Len(after)
    BY <1>3, <1>9
  <2>2. CASE k = 0
    BY <1>5, <1>6, <1>7, <2>1, <2>2 DEF Meta
  <2>3. CASE k > 0
    BY <1>2, <1>4, <1>6, <1>7, <2>1, <2>3 DEF Meta, PastMeta
  <2> QED BY <1>2, <2>2, <2>3
<1>13. ASSUME NEW j \in 1 .. c.len, j <= k PROVE pages'[r][j + 1] = DataOf(c.effects, j)
  <2>1. j + 1 \in 1 .. Len(after) /\ k > 0
    BY <1>2, <1>9, <1>13
  <2>2. CASE j = k
    BY <1>5, <1>6, <1>7, <2>1, <2>2
  <2>3. CASE j # k
    <3>1. j < k /\ after[j + 1] = old[j + 1]
      BY <1>2, <1>6, <1>13, <2>1, <2>3
    <3> QED BY <1>4, <1>7, <2>1, <3>1 DEF PastMeta
  <2> QED BY <2>2, <2>3
<1>14. ASSUME Intact(r), k > 0 PROVE Intact(r)'
  <2>1. Meta(r) = [gen |-> c.gen, len |-> c.len] /\ Latest(r) = c.effects
    BY <1>4, <1>14 DEF PastMeta
  <2>2. ASSUME NEW j \in 1 .. c.len
        PROVE  j < Len(after) /\ after[j + 1] = DataOf(c.effects, j)
    <3>1. j < Len(old) /\ old[j + 1] = DataOf(c.effects, j)
      BY <1>14, <2>1 DEF Intact
    <3>2. j + 1 \in 1 .. Len(after) /\ j < Len(after)
      BY <1>2, <1>3, <1>9, <3>1
    <3>3. CASE j = k
      BY <1>5, <1>6, <1>14, <3>2, <3>3
    <3>4. CASE j # k
      BY <1>2, <1>6, <3>1, <3>2, <3>4
    <3> QED BY <3>2, <3>3, <3>4
  <2> QED BY <1>7, <1>11, <1>12, <2>2 DEF Intact
<1> QED BY <1>7, <1>8, <1>9, <1>10, <1>11, <1>12, <1>13, <1>14

\* While one backend rewrites a relation, no other call is past its own look at it.
LEMMA OthersWait ==
  ASSUME IInv, NEW b \in Backends, call[b] # None, Owning(call[b]),
         NEW e \in Backends \ {b}, call[e] # None, call[e].rel = call[b].rel
  PROVE  call[e].step \in {"start", "consult", "fetch", "done"} /\ ~Owning(call[e])
<1>1. LockOK(b, call[b]) /\ LockOK(e, call[e]) /\ call[b].rel \in Relations /\ call[e] \in Call
  BY CallUnderWay
<1>2. holder[call[b].rel] = b /\ b # None
  BY <1>1, NoneAssumption DEF LockOK
<1>3. ~Owning(call[e]) /\ call[e].step # "load"
  BY <1>1, <1>2 DEF LockOK, IInv, LockInv
<1> QED BY <1>1, <1>3 DEF Owning, Call, Steps

\* A rewrite writes one page; only its metapage adds to the history.
LEMMA WritePageStep ==
  ASSUME IInv, NEW b \in Backends, WritePage(b)
  PROVE  IInv'
<1>0. PICK c, r, k, n, s : /\ c = call[b] /\ r = c.rel /\ k = c.next /\ n = c.len /\ s = pages'[r]
  OBVIOUS
<1> DEFINE finished == k >= n /\ k + 1 >= Len(s)
           d == IF finished
                THEN [c EXCEPT !.step = IF r \in Permanent THEN "log" ELSE "unlock", !.next = 0]
                ELSE [c EXCEPT !.next = k + 1]
<1>1. /\ call[b] # None /\ c.step = "write"
      /\ UNCHANGED <<lockVars, staged, cache, diskVars, writes>>
  BY <1>0 DEF WritePage, At
<1>2. /\ c \in Call /\ r \in Relations /\ CallOK(b, c) /\ LockOK(b, c)
      /\ k \in Nat /\ n \in 1 .. MaxPages /\ MaxPages \in Nat
      /\ call \in [Backends -> Call \cup {None}]
  BY <1>0, <1>1, CallUnderWay, SizesAssumption DEF CallOK, WriteOK, Call, IInv, TypeInv, TypeOK
<1>3. /\ pages' \in [Relations -> Pages] /\ history' \in [Relations -> Seq(Effects)]
      /\ \A x \in Relations \ {r} : pages'[x] = pages[x] /\ history'[x] = history[x]
      /\ Len(pages[r]) <= Len(s) /\ k < Len(s)
      /\ Meta(r)' = [gen |-> c.gen, len |-> n]
      /\ Generation(r)' = c.gen /\ Latest(r)' = c.effects
      /\ Generation(r)' = IF k = 0 THEN Generation(r) + 1 ELSE Generation(r)
      /\ \A g \in 1 .. Generation(r) : history'[r][g] = history[r][g]
      /\ \A j \in 1 .. n : j <= k => s[j + 1] = DataOf(c.effects, j)
      /\ Intact(r) /\ k > 0 => Intact(r)'
  <2>1. /\ pages' \in [Relations -> Pages] /\ history' \in [Relations -> Seq(Effects)]
        /\ \A x \in Relations \ {r} : pages'[x] = pages[x] /\ history'[x] = history[x]
    BY <1>0, PageWritten
  <2>2. Len(pages[r]) <= Len(s) /\ k < Len(s)
    BY <1>0, PageWritten
  <2>3. /\ Meta(r)' = [gen |-> c.gen, len |-> n]
        /\ Generation(r)' = c.gen /\ Latest(r)' = c.effects
        /\ Generation(r)' = IF k = 0 THEN Generation(r) + 1 ELSE Generation(r)
    BY <1>0, PageWritten
  <2>4. \A g \in 1 .. Generation(r) : history'[r][g] = history[r][g]
    BY <1>0, PageWritten
  <2>5. \A j \in 1 .. n : j <= k => s[j + 1] = DataOf(c.effects, j)
    BY <1>0, PageWritten
  <2>6. Intact(r) /\ k > 0 => Intact(r)'
    BY <1>0, PageWritten
  <2> QED BY <2>1, <2>2, <2>3, <2>4, <2>5, <2>6
<1>4. Len(s) \in Nat /\ Len(pages[r]) \in Nat /\ Generation(r) \in Nat \ {0}
  BY <1>0, <1>2, <1>3, TypeOfRelation DEF Pages, IInv
<1>5. call' = [call EXCEPT ![b] = d]
  <2>1. s = Replaced(pages[r], k, PageOf(c, k))
    BY <1>0, <1>2 DEF WritePage, Replaced, IInv, TypeInv, TypeOK
  <2> QED BY <1>0, <2>1 DEF WritePage, Continue, Replaced
<1>6. /\ d \in Call /\ d.rel = r /\ d.op = c.op /\ d.token = c.token /\ d.gen = c.gen
      /\ d.len = n /\ d.effects = c.effects /\ d.op \in {"flush", "vacuum"}
      /\ IF finished THEN /\ d.step = IF r \in Permanent THEN "log" ELSE "unlock"
                          /\ d.next = 0
                     ELSE d.step = "write" /\ d.next = k + 1
  <2>1. c.op \in {"flush", "vacuum"}
    BY <1>1, <1>2 DEF CallOK, FlowOK
  <2>2. CASE finished
    <3>1. d = [c EXCEPT !.step = IF r \in Permanent THEN "log" ELSE "unlock", !.next = 0]
      BY <2>2
    <3> QED BY <1>0, <1>2, <2>1, <2>2, <3>1 DEF Call, Steps
  <2>3. CASE ~finished
    <3>1. d = [c EXCEPT !.next = k + 1]
      BY <2>3
    <3> QED BY <1>0, <1>1, <1>2, <2>1, <2>3, <3>1 DEF Call, Steps
  <2> HIDE DEF d, finished
  <2> QED BY <2>2, <2>3
<1> HIDE DEF d
<1>7. finished => Intact(r)'
  <2>1. ASSUME finished, NEW j \in 1 .. n PROVE j < Len(s) /\ s[j + 1] = DataOf(c.effects, j)
    BY <1>2, <1>3, <1>4, <2>1
  <2> QED BY <1>0, <1>3, <2>1 DEF Intact
<1>8. \A x \in Relations : \A g : SeenOK(x, g) => SeenOK(x, g)'
  <2>1. ASSUME NEW x \in Relations \ {r}, NEW g, SeenOK(x, g) PROVE SeenOK(x, g)'
    BY <1>3, <2>1 DEF SeenOK, Intact, Meta, Generation, Latest
  <2>2. ASSUME NEW g, SeenOK(r, g) PROVE SeenOK(r, g)'
    <3>1. g \in 1 .. Generation(r)'
      BY <1>2, <1>3, <1>4, <2>2 DEF SeenOK
    <3>2. g = Generation(r)' => Intact(r)'
      BY <1>2, <1>3, <1>4, <2>2 DEF SeenOK
    <3> QED BY <3>1, <3>2 DEF SeenOK
  <2> QED BY <2>1, <2>2
<1>9. \A x \in Relations : /\ \A g \in 1 .. Generation(x) : history'[x][g] = history[x][g]
                           /\ Generation(x) \in Nat /\ Generation(x)' \in Nat
                           /\ Generation(x) <= Generation(x)'
  <2>1. ASSUME NEW x \in Relations \ {r}
        PROVE  /\ \A g \in 1 .. Generation(x) : history'[x][g] = history[x][g]
               /\ Generation(x) \in Nat /\ Generation(x)' = Generation(x)
    BY <1>3, TypeOfRelation DEF Generation, IInv
  <2> QED BY <1>2, <1>3, <1>4, <2>1
<1>10. TypeInv'
  <2>1. call' \in [Backends -> Call \cup {None}]
    BY <1>2, <1>5, <1>6
  <2>2. ASSUME NEW x \in Relations PROVE history'[x] # <<>>
    <3>1. CASE x = r
      BY <1>2, <1>3, <1>4, <3>1 DEF Generation
    <3>2. CASE x # r
      BY <1>3, <3>2 DEF IInv, TypeInv
    <3> QED BY <3>1, <3>2
  <2> QED BY <1>1, <1>3, <2>1, <2>2 DEF IInv, TypeInv, TypeOK, lockVars, diskVars
<1>11. PagesInv'
  <2>1. Intact(r)' \/ Midway(b, r)'
    <3>1. CASE finished
      BY <1>7, <3>1
    <3>2. CASE ~finished
      BY <1>2, <1>5, <1>6, <3>2, NoneAssumption DEF Midway, At
    <3> QED BY <3>1, <3>2
  <2>2. ASSUME NEW x \in Relations \ {r}
        PROVE  Intact(x)' \/ \E e \in Backends : Midway(e, x)'
    <3>1. CASE Intact(x)
      BY <1>3, <3>1 DEF Intact, Meta, Generation, Latest
    <3>2. ASSUME NEW e \in Backends, Midway(e, x) PROVE Midway(e, x)'
      <4>1. e # b
        BY <1>0, <3>2 DEF Midway
      <4>2. call'[e] = call[e]
        BY <1>2, <1>5, <4>1
      <4> QED BY <3>2, <4>2 DEF Midway, At
    <3> QED BY <3>1, <3>2 DEF IInv, PagesInv
  <2> QED BY <2>1, <2>2 DEF PagesInv
<1>12. LockInv'
  <2>1. LockOK(b, d)
    BY <1>0, <1>1, <1>2, <1>6 DEF LockOK, Owning
  <2> QED BY <1>1, <1>2, <1>5, <2>1, LockStays DEF IInv
<1>13. CopiesInv'
  <2>1. ASSUME NEW e \in Backends, NEW x, x = staged[e], x # None
        PROVE  x.gen \in 1 .. Generation(x.rel)' /\ x.effects = history'[x.rel][x.gen]
    <3>1. x.rel \in Relations
      BY <2>1 DEF IInv, TypeInv, TypeOK, Staged
    <3>2. x.gen \in 1 .. Generation(x.rel) /\ x.effects = history[x.rel][x.gen]
      BY <2>1 DEF IInv, CopiesInv
    <3> QED BY <1>9, <3>1, <3>2
  <2>2. ASSUME NEW e \in Backends, NEW x \in Relations, NEW copy, copy = cache[e][x], copy # None
        PROVE  SeenOK(x, copy.gen)' /\ \E g \in copy.gen .. Generation(x)' : copy.effects = history'[x][g]
    <3>1. SeenOK(x, copy.gen) /\ \E g \in copy.gen .. Generation(x) : copy.effects = history[x][g]
      BY <2>2 DEF IInv, CopiesInv
    <3>2. PICK g \in copy.gen .. Generation(x) : copy.effects = history[x][g]
      BY <3>1
    <3>3. copy.gen \in 1 .. Generation(x)
      BY <3>1 DEF SeenOK
    <3>4. g \in 1 .. Generation(x) /\ g \in copy.gen .. Generation(x)'
      BY <1>9, <3>2, <3>3
    <3> QED BY <1>8, <1>9, <3>1, <3>2, <3>4
  <2> QED BY <1>1, <2>1, <2>2 DEF CopiesInv, Generation
<1>14. CallsInv'
  <2>1. ASSUME NEW e \in Backends \ {b}, NEW x, x = call[e], x # None
        PROVE  FlowOK(x) /\ TagOK(e, x)' /\ LoadOK(x)' /\ BaseOK(x)' /\ WriteOK(x)'
    <3>1. x \in Call /\ x.rel \in Relations /\ CallOK(e, x)
      BY <2>1, CallUnderWay
    <3>2. CASE x.rel # r
      <4>1. pages'[x.rel] = pages[x.rel] /\ history'[x.rel] = history[x.rel] /\ cache' = cache
        BY <1>1, <1>3, <3>1, <3>2
      <4>2. TagOK(e, x)'
        BY <3>1, <4>1 DEF CallOK, TagOK, SeenOK, Intact, Meta, Generation, Latest
      <4>3. LoadOK(x)' /\ BaseOK(x)'
        BY <3>1, <4>1 DEF CallOK, LoadOK, BaseOK, Meta, Generation, Latest
      <4>4. WriteOK(x)'
        BY <3>1, <4>1 DEF CallOK, WriteOK, BeforeMeta, PastMeta, Meta, Generation, Latest
      <4> QED BY <3>1, <4>2, <4>3, <4>4 DEF CallOK
    <3>3. CASE x.rel = r
      <4>1. x.step \in {"start", "consult", "fetch", "done"}
        BY <1>0, <1>1, <2>1, <3>3, OthersWait DEF Owning
      <4>2. TagOK(e, x)'
        <5>1. x.op = "scan" /\ x.step \in {"consult", "fetch", "load"} => SeenOK(x.rel, x.tag)
          BY <3>1 DEF CallOK, TagOK
        <5>2. x.op = "scan" /\ x.step \in {"consult", "fetch", "load"} => SeenOK(x.rel, x.tag)'
          BY <1>8, <3>1, <5>1
        <5>3. ASSUME x.step = "consult", cache[e][x.rel] # None, cache[e][x.rel].gen = x.tag
              PROVE  cache[e][x.rel].effects = history'[x.rel][x.tag]
          <6>1. cache[e][x.rel].effects = history[x.rel][x.tag] /\ x.tag \in 1 .. Generation(x.rel)
            BY <3>1, <5>1, <5>3 DEF CallOK, TagOK, FlowOK, SeenOK
          <6> QED BY <1>9, <3>1, <6>1
        <5> QED BY <1>1, <5>2, <5>3 DEF TagOK
      <4>3. BaseOK(x)'
        <5>1. ASSUME x.step = "start", x.op = "flush"
              PROVE  x.tag \in 1 .. Generation(x.rel)' /\ x.effects = history'[x.rel][x.tag]
          <6>1. x.tag \in 1 .. Generation(x.rel) /\ x.effects = history[x.rel][x.tag]
            BY <3>1, <5>1 DEF CallOK, BaseOK
          <6> QED BY <1>9, <3>1, <6>1
        <5> QED BY <4>1, <5>1 DEF BaseOK
      <4> QED BY <3>1, <4>1, <4>2, <4>3 DEF CallOK, LoadOK, WriteOK
    <3> QED BY <3>2, <3>3
  <2>2. FlowOK(d) /\ TagOK(b, d)' /\ LoadOK(d)' /\ BaseOK(d)' /\ WriteOK(d)'
    <3>1. d.step \in {"write", "log", "unlock"}
      BY <1>6
    <3>2. FlowOK(d)
      BY <1>1, <1>2, <1>6, <3>1 DEF CallOK, FlowOK
    <3>3. TagOK(b, d)' /\ LoadOK(d)' /\ BaseOK(d)'
      BY <3>1 DEF TagOK, LoadOK, BaseOK
    <3>4. CASE finished
      <4>1. d.step = "log" => d.rel \in Permanent
        BY <1>6, <3>4
      <4>2. d.next = 0 /\ d.rel = r /\ d.step # "write" /\ 0 < Len(s)
        BY <1>2, <1>3, <1>4, <1>6, <3>4
      <4>3. WriteOK(d)'
        BY <1>0, <4>1, <4>2 DEF WriteOK
      <4> QED BY <3>2, <3>3, <4>3
    <3>5. CASE ~finished
      <4>1. PastMeta(d)'
        <5>1. ASSUME NEW j \in 1 .. n, j < k + 1 PROVE s[j + 1] = DataOf(c.effects, j)
          BY <1>2, <1>3, <5>1
        <5>2. d.next <= Len(s)
          BY <1>2, <1>3, <1>4, <1>6, <3>5
        <5> QED BY <1>0, <1>3, <1>6, <3>5, <5>1, <5>2 DEF PastMeta
      <4>2. d.step = "write" /\ d.next > 0 /\ d.next # 0
        BY <1>2, <1>6, <3>5
      <4> QED BY <1>2, <1>6, <3>2, <3>3, <4>1, <4>2 DEF WriteOK
    <3> QED BY <3>2, <3>3, <3>4, <3>5
  <2>3. \A e \in Backends : call'[e] = IF e = b THEN d ELSE call[e]
    BY <1>2, <1>5
  <2>4. SUFFICES ASSUME NEW e \in Backends, NEW x, x = call'[e], x # None
                 PROVE  FlowOK(x) /\ TagOK(e, x)' /\ LoadOK(x)' /\ BaseOK(x)' /\ WriteOK(x)'
    BY DEF CallsInv
  <2> QED BY <2>1, <2>2, <2>3, <2>4
<1>15. DiskInv'
  <2>1. ASSUME NEW x \in Permanent, NEW y \in 1 .. Len(pages'[x]), Logged(x, y)'
        PROVE  Restorable(x, y)'
    <3>1. x # r
      <4> SUFFICES ASSUME x = r PROVE FALSE
        OBVIOUS
      <4>1. call'[b] = d
        BY <1>2, <1>5
      <4>2. d # None
        BY <1>6, NoneAssumption
      <4>3. CASE finished
        BY <1>6, <2>1, <4>1, <4>2, <4>3 DEF Logged, At
      <4>4. CASE ~finished
        BY <1>6, <2>1, <4>1, <4>2, <4>4 DEF Logged, At
      <4> QED BY <4>3, <4>4
    <3>2. pages'[x] = pages[x] /\ x \in Relations
      BY <1>3, <3>1, SizesAssumption
    <3>3. Logged(x, y)
      <4> SUFFICES ASSUME NEW e \in Backends
                   PROVE  /\ ~(At(e, "write") /\ call[e].rel = x)
                          /\ At(e, "log") /\ call[e].rel = x => y <= call[e].next
        BY DEF Logged
      <4>1. CASE e = b
        BY <1>0, <3>1, <4>1
      <4>2. CASE e # b
        <5>1. call'[e] = call[e]
          BY <1>2, <1>5, <4>2
        <5> QED BY <2>1, <5>1 DEF Logged, At
      <4> QED BY <4>1, <4>2
    <3>4. Restorable(x, y)
      BY <2>1, <3>2, <3>3 DEF IInv, DiskInv
    <3> QED BY <1>1, <3>2, <3>4 DEF Restorable, diskVars
  <2>2. ASSUME NEW x \in Permanent
        PROVE  /\ Len(durable'[x]) <= Len(pages'[x])
               /\ \A i \in 1 .. Len(wal'[x]), y \in Nat : Covers(wal'[x][i], y) => y <= Len(pages'[x])
    <3>1. /\ x \in Relations /\ Len(pages[x]) \in Nat /\ Len(durable[x]) \in Nat
          /\ Len(pages[x]) <= Len(pages'[x]) /\ Len(pages'[x]) \in Nat
      <4>1. x \in Relations
        BY SizesAssumption
      <4>2. Len(pages[x]) \in Nat /\ Len(durable[x]) \in Nat
        BY <4>1, TypeOfRelation DEF IInv, TypeInv, TypeOK, Pages
      <4>3. CASE x = r
        BY <1>0, <1>3, <1>4, <4>1, <4>2, <4>3
      <4>4. CASE x # r
        BY <1>3, <4>1, <4>2, <4>4
      <4> QED BY <4>3, <4>4
    <3>2. /\ Len(durable[x]) <= Len(pages[x])
          /\ \A i \in 1 .. Len(wal[x]), y \in Nat : Covers(wal[x][i], y) => y <= Len(pages[x])
      BY DEF IInv, DiskInv
    <3> QED BY <1>1, <3>1, <3>2 DEF diskVars
  <2> QED BY <1>1, <2>1, <2>2 DEF IInv, DiskInv, diskVars
<1> QED BY <1>10, <1>11, <1>12, <1>13, <1>14, <1>15 DEF IInv

-----------------------------------------------------------------------------
(* The log and the disk.                                                   *)

\* The last page of a batch that starts after page k, and the batch's record.
BatchEnd(s, k) == IF k + BatchPages < Len(s) THEN k + BatchPages ELSE Len(s)
BatchOf(s, k) == [first |-> k + 1, pages |-> SubSeq(s, k + 1, BatchEnd(s, k))]

\* The record of a batch covers the pages from the next to log to the last of the batch.
LEMMA BatchRecord ==
  ASSUME NEW s \in Pages, NEW k \in Nat, k < Len(s)
  PROVE  LET last == BatchEnd(s, k)  w == BatchOf(s, k) IN
         /\ last \in k + 1 .. Len(s) /\ w \in WalRecord
         /\ \A y \in Nat : Covers(w, y) <=> k < y /\ y <= last
         /\ \A y \in k + 1 .. last : w.pages[y - w.first + 1] = s[y]
<1> DEFINE P == MetaPage \cup DataPage
           last == BatchEnd(s, k)
           t == SubSeq(s, k + 1, last)
           w == [first |-> k + 1, pages |-> t]
<1>1. s \in Seq(P) /\ Len(s) \in Nat /\ s[1] \in MetaPage
  BY DEF Pages
<1>2. last \in k + 1 .. Len(s)
  BY <1>1, SizesAssumption DEF BatchEnd
<1> HIDE DEF P, last
<1>3. t \in Seq(P) /\ Len(t) = last - k /\ \A j \in 1 .. last - k : t[j] = s[k + j]
  BY <1>1, <1>2
<1> HIDE DEF t
<1>4. w.first = k + 1 /\ w.pages = t /\ w \in [first : Nat \ {0}, pages : Seq(P)]
  BY <1>3
<1>5. \A y \in Nat : Covers(w, y) <=> k < y /\ y <= last
  BY <1>2, <1>3, <1>4 DEF Covers
<1>6. t # <<>>
  BY <1>2, <1>3
<1>7. Covers(w, 1) => w.pages[1] \in MetaPage
  <2>1. Covers(w, 1) => k = 0
    BY <1>5
  <2> QED BY <1>1, <1>2, <1>3, <1>4, <2>1
<1>8. \A y \in k + 1 .. last : w.pages[y - w.first + 1] = s[y]
  <2>1. ASSUME NEW y \in k + 1 .. last PROVE t[y - (k + 1) + 1] = s[y]
    <3>1. y - k \in 1 .. last - k /\ y - (k + 1) + 1 = y - k /\ k + (y - k) = y
      BY <1>1, <1>2
    <3> QED BY <1>3, <3>1
  <2> QED BY <1>4, <2>1
<1>9. w \in WalRecord
  BY <1>4, <1>6, <1>7 DEF WalRecord, P
<1> HIDE DEF w
<1>10. w = BatchOf(s, k) /\ last = BatchEnd(s, k)
  BY DEF w, t, last, BatchOf
<1> QED BY <1>2, <1>5, <1>8, <1>9, <1>10

\* After a batch the log restores its pages too.
LEMMA LogBatchStep ==
  ASSUME IInv, NEW b \in Backends, LogBatch(b)
  PROVE  IInv'
<1>0. PICK c, r, k, s : c = call[b] /\ r = c.rel /\ k = c.next /\ s = pages[r]
  OBVIOUS
<1>1. PICK last, w : last = BatchEnd(s, k) /\ w = BatchOf(s, k)
  OBVIOUS
<1> DEFINE d == IF last = Len(s) THEN [c EXCEPT !.step = "unlock"] ELSE [c EXCEPT !.next = last]
<1>3. /\ call[b] # None /\ c.step = "log" /\ call' = [call EXCEPT ![b] = d]
      /\ wal' = [wal EXCEPT ![r] = Append(@, w)]
      /\ UNCHANGED <<pages, lockVars, staged, cache, durable, writes, history>>
  BY <1>0, <1>1 DEF LogBatch, At, Continue, BatchEnd, BatchOf
<1>4. /\ c \in Call /\ r \in Relations /\ CallOK(b, c) /\ LockOK(b, c)
      /\ k \in Nat /\ r \in Permanent /\ k < Len(s) /\ s \in Pages
  BY <1>0, <1>3, CallUnderWay DEF CallOK, WriteOK, Call, IInv, TypeInv, TypeOK
<1>5. /\ last \in k + 1 .. Len(s) /\ w \in WalRecord /\ Len(s) \in Nat
      /\ \A y \in Nat : Covers(w, y) <=> k < y /\ y <= last
      /\ \A y \in k + 1 .. last : w.pages[y - w.first + 1] = s[y]
  <2>1. Len(s) \in Nat
    BY <1>4 DEF Pages
  <2> QED BY <1>1, <1>4, <2>1, BatchRecord
<1>6. /\ call \in [Backends -> Call \cup {None}] /\ wal \in [Relations -> Seq(WalRecord)]
      /\ wal[r] \in Seq(WalRecord) /\ Len(wal[r]) \in Nat
  BY <1>4 DEF IInv, TypeInv, TypeOK
<1>7. /\ d \in Call /\ d.rel = r /\ d.op = c.op /\ d.token = c.token
      /\ IF last = Len(s) THEN d.step = "unlock" ELSE d.step = "log" /\ d.next = last
  <2>1. last \in Nat
    BY <1>4, <1>5
  <2> QED BY <1>0, <1>3, <1>4, <2>1 DEF Call, Steps
<1> HIDE DEF d
<1>8. CallOK(b, d) /\ LockOK(b, d)
  <2>1. d.step \in {"log", "unlock"}
    BY <1>7
  <2>2. FlowOK(d) /\ TagOK(b, d) /\ LoadOK(d) /\ BaseOK(d)
    BY <1>3, <1>4, <1>7, <2>1 DEF CallOK, FlowOK, TagOK, LoadOK, BaseOK
  <2>3. WriteOK(d)
    BY <1>0, <1>4, <1>5, <1>7, <2>1 DEF WriteOK
  <2>4. LockOK(b, d)
    <3>1. Owning(c) /\ d.step # "load"
      BY <1>3, <2>1 DEF Owning
    <3> QED BY <1>0, <1>4, <1>7, <3>1 DEF LockOK
  <2> QED BY <2>2, <2>3, <2>4 DEF CallOK
<1>9. PagesInv' /\ CallsInv' /\ LockInv' /\ CopiesInv'
  <2>1. ~At(b, "write")
    BY <1>0, <1>3 DEF At
  <2>2. PagesInv'
    BY <1>3, <1>6, <2>1, PagesStay DEF IInv
  <2>3. CallsInv' /\ LockInv' /\ CopiesInv'
    BY <1>3, <1>6, <1>8, CallsStay, LockStays, CopiesStay DEF IInv
  <2> QED BY <2>2, <2>3
<1>10. /\ wal'[r] = Append(wal[r], w) /\ \A x \in Relations \ {r} : wal'[x] = wal[x]
       /\ wal' \in [Relations -> Seq(WalRecord)]
  <2>1. Append(wal[r], w) \in Seq(WalRecord)
    BY <1>5, <1>6
  <2> QED BY <1>3, <1>4, <1>6, <2>1
<1>11. TypeInv'
  BY <1>3, <1>6, <1>7, <1>10 DEF IInv, TypeInv, TypeOK, lockVars
<1>12. /\ Len(wal'[r]) = Len(wal[r]) + 1 /\ wal'[r][Len(wal[r]) + 1] = w
       /\ \A i \in 1 .. Len(wal[r]) : wal'[r][i] = wal[r][i]
  BY <1>5, <1>6, <1>10
<1>13. ASSUME NEW x \in Permanent, NEW y \in 1 .. Len(pages[x]), Logged(x, y)', x # r \/ y <= k
       PROVE  Restorable(x, y)
  <2>1. Logged(x, y)
    <3> SUFFICES ASSUME NEW e \in Backends
                 PROVE  /\ ~(At(e, "write") /\ call[e].rel = x)
                        /\ At(e, "log") /\ call[e].rel = x => y <= call[e].next
      BY DEF Logged
    <3>1. CASE e = b
      BY <1>0, <1>3, <1>13, <3>1 DEF At
    <3>2. CASE e # b
      <4>1. call'[e] = call[e]
        BY <1>3, <1>6, <3>2
      <4> QED BY <1>13, <4>1 DEF Logged, At
    <3> QED BY <3>1, <3>2
  <2> QED BY <2>1 DEF IInv, DiskInv
<1>14. ASSUME NEW x \in Permanent, NEW y \in 1 .. Len(pages[x]), Logged(x, y)'
       PROVE  Restorable(x, y)'
  <2>1. CASE x # r
    <3>1. wal'[x] = wal[x]
      BY <1>10, <2>1, SizesAssumption
    <3> QED BY <1>3, <1>13, <1>14, <2>1, <3>1 DEF Restorable
  <2>2. CASE x = r
    <3>1. y <= last /\ y \in Nat /\ y >= 1
      <4>1. call'[b] = d /\ d # None
        BY <1>3, <1>6, <1>7, NoneAssumption
      <4>2. CASE last = Len(s)
        BY <1>0, <1>5, <1>14, <2>2, <4>2
      <4>3. CASE last # Len(s)
        BY <1>0, <1>5, <1>7, <1>14, <2>2, <4>1, <4>3 DEF Logged, At
      <4> QED BY <4>2, <4>3
    <3>2. CASE y > k
      <4>1. y \in k + 1 .. last /\ Covers(w, y) /\ w.pages[y - w.first + 1] = pages'[r][y]
        BY <1>0, <1>3, <1>4, <1>5, <3>1, <3>2
      <4>2. Len(wal[r]) + 1 \in 1 .. Len(wal'[r])
            /\ \A j \in Len(wal[r]) + 1 + 1 .. Len(wal'[r]) : FALSE
        BY <1>6, <1>12
      <4> QED BY <1>12, <2>2, <4>1, <4>2 DEF Restorable
    <3>3. CASE ~(y > k)
      <4>1. ~Covers(w, y) /\ y <= k
        BY <1>4, <1>5, <3>1, <3>3
      <4>2. Restorable(r, y)
        BY <1>13, <1>14, <2>2, <4>1
      <4>3. CASE \E i \in 1 .. Len(wal[r]) :
                   /\ Covers(wal[r][i], y)
                   /\ wal[r][i].pages[y - wal[r][i].first + 1] = pages[r][y]
                   /\ \A j \in i + 1 .. Len(wal[r]) : ~Covers(wal[r][j], y)
        <5>1. PICK i \in 1 .. Len(wal[r]) :
                   /\ Covers(wal[r][i], y)
                   /\ wal[r][i].pages[y - wal[r][i].first + 1] = pages[r][y]
                   /\ \A j \in i + 1 .. Len(wal[r]) : ~Covers(wal[r][j], y)
          BY <4>3
        <5>2. i \in 1 .. Len(wal'[r]) /\ wal'[r][i] = wal[r][i]
          BY <1>6, <1>12
        <5>3. ASSUME NEW j \in i + 1 .. Len(wal'[r]) PROVE ~Covers(wal'[r][j], y)
          <6>1. CASE j = Len(wal[r]) + 1
            BY <1>12, <4>1, <6>1
          <6>2. CASE j # Len(wal[r]) + 1
            <7>1. j \in i + 1 .. Len(wal[r]) /\ j \in 1 .. Len(wal[r])
              BY <1>6, <1>12, <6>2
            <7> QED BY <1>12, <5>1, <7>1
          <6> QED BY <6>1, <6>2
        <5> QED BY <1>3, <2>2, <5>1, <5>2, <5>3 DEF Restorable
      <4>4. CASE /\ y <= Len(durable[r]) /\ durable[r][y] = pages[r][y]
                 /\ \A i \in 1 .. Len(wal[r]) : ~Covers(wal[r][i], y)
        <5>1. ASSUME NEW j \in 1 .. Len(wal'[r]) PROVE ~Covers(wal'[r][j], y)
          <6>1. j = Len(wal[r]) + 1 \/ j \in 1 .. Len(wal[r])
            BY <1>6, <1>12
          <6> QED BY <1>12, <4>1, <4>4, <6>1
        <5> QED BY <1>3, <2>2, <4>4, <5>1 DEF Restorable
      <4> QED BY <4>2, <4>3, <4>4 DEF Restorable
    <3> QED BY <3>2, <3>3
  <2> QED BY <2>1, <2>2
<1>15. ASSUME NEW x \in Permanent, NEW i \in 1 .. Len(wal'[x]), NEW y \in Nat, Covers(wal'[x][i], y)
       PROVE  y <= Len(pages[x])
  <2>1. CASE x # r
    BY <1>10, <1>15, <2>1, SizesAssumption DEF IInv, DiskInv
  <2>2. CASE x = r
    <3>1. i = Len(wal[r]) + 1 \/ i \in 1 .. Len(wal[r])
      BY <1>6, <1>12, <2>2
    <3>2. CASE i = Len(wal[r]) + 1
      BY <1>0, <1>4, <1>5, <1>12, <1>15, <2>2, <3>2
    <3>3. CASE i \in 1 .. Len(wal[r])
      BY <1>12, <1>15, <2>2, <3>3 DEF IInv, DiskInv
    <3> QED BY <3>1, <3>2, <3>3
  <2> QED BY <2>1, <2>2
<1>16. DiskInv'
  <2>1. ASSUME NEW x \in Relations \ Permanent PROVE wal'[x] = wal[x]
    BY <1>4, <1>10
  <2>2. \A x \in Permanent : Len(durable[x]) <= Len(pages[x])
    BY DEF IInv, DiskInv
  <2>3. \A x \in Relations \ Permanent :
          wal'[x] = <<>> /\ durable'[x] = ImagePages(FIRST_GENERATION, {}, 1)
    BY <1>3, <2>1 DEF IInv, DiskInv
  <2> QED BY <1>3, <1>14, <1>15, <2>2, <2>3 DEF DiskInv
<1> QED BY <1>9, <1>11, <1>16 DEF IInv

\* Recovery's overlay, page by page.
LEMMA Overlaid ==
  ASSUME NEW disk \in Pages, NEW w \in WalRecord
  PROVE  LET after == Overlay(disk, w) IN
         /\ after \in Pages /\ Len(disk) <= Len(after)
         /\ \A k \in 1 .. Len(after) :
              /\ Covers(w, k) => after[k] = w.pages[k - w.first + 1]
              /\ ~Covers(w, k) /\ k <= Len(disk) => after[k] = disk[k]
         /\ \A k \in Nat : Covers(w, k) => k <= Len(after)
         /\ Len(after) = Len(disk) \/ Covers(w, Len(after))
<1> DEFINE P == MetaPage \cup DataPage
           last == w.first + Len(w.pages) - 1
           n == IF last > Len(disk) THEN last ELSE Len(disk)
           after == Overlay(disk, w)
<1>1. /\ disk \in Seq(P) /\ Len(disk) \in Nat \ {0} /\ disk[1] \in MetaPage
      /\ w.first \in Nat \ {0} /\ w.pages \in Seq(P) /\ Len(w.pages) \in Nat \ {0}
      /\ (Covers(w, 1) => w.pages[1] \in MetaPage)
  BY DEF Pages, WalRecord
<1>2. Cleared \in P
  BY SizesAssumption DEF Cleared, DataPage, Effects
<1> HIDE DEF P
<1>3. last \in Nat /\ n \in Nat \ {0} /\ last <= n /\ Len(disk) <= n
  BY <1>1
<1>4. \A k \in Nat : Covers(w, k) <=> k \in w.first .. last
  BY <1>1 DEF Covers
<1>5. after = [k \in 1 .. n |-> IF k \in w.first .. last THEN w.pages[k - w.first + 1]
                               ELSE IF k <= Len(disk) THEN disk[k] ELSE Cleared]
  BY DEF Overlay
<1> HIDE DEF n, after, last
<1>6. ASSUME NEW k \in 1 .. n, Covers(w, k)
      PROVE  after[k] = w.pages[k - w.first + 1] /\ after[k] \in P
  <2>1. k \in w.first .. last /\ k - w.first + 1 \in 1 .. Len(w.pages)
    BY <1>1, <1>3, <1>4, <1>6 DEF last
  <2> QED BY <1>1, <1>5, <2>1
<1>7. ASSUME NEW k \in 1 .. n, ~Covers(w, k)
      PROVE  after[k] = (IF k <= Len(disk) THEN disk[k] ELSE Cleared) /\ after[k] \in P
  <2>1. k \notin w.first .. last
    BY <1>3, <1>4, <1>7
  <2>2. after[k] = IF k <= Len(disk) THEN disk[k] ELSE Cleared
    BY <1>5, <2>1
  <2> QED BY <1>1, <1>2, <1>3, <2>2
<1>8. after \in Seq(P) /\ Len(after) = n
  <2>1. \A k \in 1 .. n : after[k] \in P
    BY <1>6, <1>7
  <2>2. after \in [1 .. n -> P]
    BY <1>5, <2>1
  <2> QED BY <1>3, <2>2
<1>9. after[1] \in MetaPage
  <2>1. 1 \in 1 .. n
    BY <1>3
  <2>2. CASE Covers(w, 1)
    <3>1. w.first = 1
      BY <1>1, <2>2 DEF Covers
    <3> QED BY <1>1, <1>6, <2>1, <2>2, <3>1
  <2>3. CASE ~Covers(w, 1)
    BY <1>1, <1>7, <2>1, <2>3
  <2> QED BY <2>2, <2>3
<1>10. after \in Pages
  <2>1. after # <<>>
    BY <1>3, <1>8
  <2> QED BY <1>8, <1>9, <2>1 DEF Pages, P
<1>11. \A k \in Nat : Covers(w, k) => k <= n
  BY <1>1, <1>3, <1>4
<1>12. n = Len(disk) \/ Covers(w, n)
  BY <1>1, <1>3, <1>4 DEF n, last
<1> QED BY <1>3, <1>6, <1>7, <1>8, <1>10, <1>11, <1>12 DEF after

\* A step of the log or the disk, as far as the rest is concerned.
LEMMA DiskStep ==
  ASSUME IInv, UNCHANGED <<pages, lockVars, call, staged, cache, writes, history>>,
         wal' \in [Relations -> Seq(WalRecord)], durable' \in [Relations -> Pages], DiskInv'
  PROVE  IInv'
<1>1. TypeInv'
  BY DEF IInv, TypeInv, TypeOK, lockVars
<1>2. PagesInv'
  BY DEF IInv, PagesInv, Midway, At, Intact, Meta, Generation, Latest
<1>3. LockInv' /\ CopiesInv'
  BY CopiesStay DEF IInv, LockInv, lockVars, Owning
<1>4. CallsInv'
  <2>1. ASSUME NEW e \in Backends, NEW x, x = call[e], x # None
        PROVE  FlowOK(x) /\ TagOK(e, x)' /\ LoadOK(x)' /\ BaseOK(x)' /\ WriteOK(x)'
    <3>1. CallOK(e, x)
      BY <2>1, CallUnderWay
    <3>2. TagOK(e, x)'
      BY <3>1 DEF CallOK, TagOK, SeenOK, Intact, Meta, Generation, Latest
    <3>3. LoadOK(x)' /\ BaseOK(x)'
      BY <3>1 DEF CallOK, LoadOK, BaseOK, Meta, Generation, Latest
    <3>4. WriteOK(x)'
      BY <3>1 DEF CallOK, WriteOK, BeforeMeta, PastMeta, Meta, Generation, Latest
    <3> QED BY <3>1, <3>2, <3>3, <3>4 DEF CallOK
  <2> SUFFICES ASSUME NEW e \in Backends, NEW x, x = call'[e], x # None
               PROVE  FlowOK(x) /\ TagOK(e, x)' /\ LoadOK(x)' /\ BaseOK(x)' /\ WriteOK(x)'
    BY DEF CallsInv
  <2> QED BY <2>1
<1> QED BY <1>1, <1>2, <1>3, <1>4 DEF IInv

\* Laying the oldest record over the disk restores what both restored before.
LEMMA FlushWalStep ==
  ASSUME IInv, NEW r \in Relations, FlushWal(r)
  PROVE  IInv'
<1> DEFINE w == Head(wal[r])
           disk == durable[r]
           after == Overlay(disk, w)
<1>1. /\ wal[r] # <<>> /\ durable' = [durable EXCEPT ![r] = after]
      /\ wal' = [wal EXCEPT ![r] = Tail(@)]
      /\ UNCHANGED <<pages, lockVars, call, staged, cache, writes, history>>
  BY DEF FlushWal
<1>2. /\ wal \in [Relations -> Seq(WalRecord)] /\ wal[r] \in Seq(WalRecord)
      /\ durable \in [Relations -> Pages] /\ disk \in Pages /\ Len(wal[r]) \in Nat \ {0}
      /\ w \in WalRecord /\ w = wal[r][1]
  BY <1>1 DEF IInv, TypeInv, TypeOK
<1>3. /\ after \in Pages /\ Len(disk) <= Len(after)
      /\ \A k \in 1 .. Len(after) :
           /\ Covers(w, k) => after[k] = w.pages[k - w.first + 1]
           /\ ~Covers(w, k) /\ k <= Len(disk) => after[k] = disk[k]
      /\ \A k \in Nat : Covers(w, k) => k <= Len(after)
      /\ Len(after) = Len(disk) \/ Covers(w, Len(after))
  BY <1>2, Overlaid
<1>4. Len(after) \in Nat /\ Len(disk) \in Nat
  BY <1>2, <1>3 DEF Pages
<1> HIDE DEF after
<1>5. /\ Len(Tail(wal[r])) = Len(wal[r]) - 1 /\ Tail(wal[r]) \in Seq(WalRecord)
      /\ \A i \in 1 .. Len(wal[r]) - 1 : Tail(wal[r])[i] = wal[r][i + 1]
  BY <1>1, <1>2
<1>6. /\ wal'[r] = Tail(wal[r]) /\ durable'[r] = after
      /\ \A x \in Relations \ {r} : wal'[x] = wal[x] /\ durable'[x] = durable[x]
      /\ wal' \in [Relations -> Seq(WalRecord)] /\ durable' \in [Relations -> Pages]
  BY <1>1, <1>2, <1>3, <1>5
<1>7. r \in Permanent
  BY <1>1 DEF IInv, DiskInv
<1>8. ASSUME NEW y \in 1 .. Len(pages[r]), Restorable(r, y) PROVE Restorable(r, y)'
  <2>1. CASE \E i \in 1 .. Len(wal[r]) :
               /\ Covers(wal[r][i], y)
               /\ wal[r][i].pages[y - wal[r][i].first + 1] = pages[r][y]
               /\ \A j \in i + 1 .. Len(wal[r]) : ~Covers(wal[r][j], y)
    <3>1. PICK i \in 1 .. Len(wal[r]) :
               /\ Covers(wal[r][i], y)
               /\ wal[r][i].pages[y - wal[r][i].first + 1] = pages[r][y]
               /\ \A j \in i + 1 .. Len(wal[r]) : ~Covers(wal[r][j], y)
      BY <2>1
    <3>2. ASSUME NEW j \in 1 .. Len(wal'[r]), j >= i PROVE ~Covers(wal'[r][j], y)
      <4>1. j + 1 \in i + 1 .. Len(wal[r]) /\ j \in 1 .. Len(wal[r]) - 1
        BY <1>2, <1>5, <1>6, <3>1, <3>2
      <4> QED BY <1>5, <1>6, <3>1, <4>1
    <3>3. CASE i = 1
      <4>1. y <= Len(after) /\ after[y] = pages[r][y]
        BY <1>2, <1>3, <1>4, <3>1, <3>3
      <4>2. \A j \in 1 .. Len(wal'[r]) : ~Covers(wal'[r][j], y)
        BY <3>2, <3>3
      <4> QED BY <1>1, <1>6, <4>1, <4>2 DEF Restorable
    <3>4. CASE i # 1
      <4>1. i - 1 \in 1 .. Len(wal'[r]) /\ wal'[r][i - 1] = wal[r][i]
        <5>1. i - 1 \in 1 .. Len(wal[r]) - 1 /\ i - 1 + 1 = i
          BY <1>2, <3>1, <3>4
        <5> QED BY <1>5, <1>6, <5>1
      <4>2. \A j \in (i - 1) + 1 .. Len(wal'[r]) : ~Covers(wal'[r][j], y)
        <5>1. \A j \in (i - 1) + 1 .. Len(wal'[r]) : j \in 1 .. Len(wal'[r]) /\ j >= i
          BY <1>2, <1>5, <1>6, <3>1
        <5> QED BY <3>2, <5>1
      <4> QED BY <1>1, <3>1, <4>1, <4>2 DEF Restorable
    <3> QED BY <3>3, <3>4
  <2>2. CASE /\ y <= Len(durable[r]) /\ durable[r][y] = pages[r][y]
             /\ \A i \in 1 .. Len(wal[r]) : ~Covers(wal[r][i], y)
    <3>1. y <= Len(after) /\ after[y] = pages[r][y]
      BY <1>2, <1>3, <1>4, <2>2
    <3>2. ASSUME NEW j \in 1 .. Len(wal'[r]) PROVE ~Covers(wal'[r][j], y)
      <4>1. j + 1 \in 1 .. Len(wal[r]) /\ j \in 1 .. Len(wal[r]) - 1
        BY <1>2, <1>5, <1>6, <3>2
      <4> QED BY <1>5, <1>6, <2>2, <4>1
    <3> QED BY <1>1, <1>6, <3>1, <3>2 DEF Restorable
  <2> QED BY <1>8, <2>1, <2>2 DEF Restorable
<1>9. DiskInv'
  <2>1. ASSUME NEW x \in Permanent, NEW y \in 1 .. Len(pages[x]), Logged(x, y)'
        PROVE  Restorable(x, y)'
    <3>1. Logged(x, y)
      BY <1>1, <2>1 DEF Logged, At
    <3>2. Restorable(x, y)
      BY <3>1 DEF IInv, DiskInv
    <3>3. CASE x = r
      BY <1>8, <3>2, <3>3
    <3>4. CASE x # r
      BY <1>1, <1>6, <3>2, <3>4, SizesAssumption DEF Restorable
    <3> QED BY <3>3, <3>4
  <2>2. ASSUME NEW x \in Permanent
        PROVE  /\ Len(durable'[x]) <= Len(pages[x])
               /\ \A i \in 1 .. Len(wal'[x]), y \in Nat : Covers(wal'[x][i], y) => y <= Len(pages[x])
    <3>1. /\ Len(durable[x]) <= Len(pages[x])
          /\ \A i \in 1 .. Len(wal[x]), y \in Nat : Covers(wal[x][i], y) => y <= Len(pages[x])
      BY DEF IInv, DiskInv
    <3>2. CASE x # r
      BY <1>6, <3>1, <3>2, SizesAssumption
    <3>3. CASE x = r
      <4>1. Len(durable'[x]) <= Len(pages[x])
        <5>1. durable'[x] = after /\ Len(disk) <= Len(pages[x])
          BY <1>6, <3>1, <3>3
        <5>2. CASE Covers(w, Len(after))
          <6>1. 1 \in 1 .. Len(wal[x]) /\ wal[x][1] = w
            BY <1>2, <3>3
          <6> QED BY <1>4, <3>1, <5>1, <5>2, <6>1
        <5> QED BY <1>3, <5>1, <5>2
      <4>2. ASSUME NEW i \in 1 .. Len(wal'[r]) PROVE i + 1 \in 1 .. Len(wal[r]) /\ wal'[r][i] = wal[r][i + 1]
        BY <1>2, <1>5, <1>6, <4>2
      <4> QED BY <3>1, <3>3, <4>1, <4>2
    <3> QED BY <3>2, <3>3
  <2>3. \A x \in Relations \ Permanent :
          wal'[x] = <<>> /\ durable'[x] = ImagePages(FIRST_GENERATION, {}, 1)
    BY <1>6, <1>7 DEF IInv, DiskInv
  <2> QED BY <1>1, <2>1, <2>2, <2>3 DEF DiskInv
<1> QED BY <1>1, <1>6, <1>9, DiskStep

\* A checkpoint puts on the disk the pages there are.
LEMMA CheckpointStep ==
  ASSUME IInv, NEW r \in Relations, Checkpoint(r)
  PROVE  IInv'
<1>1. /\ r \in Permanent /\ durable' = [durable EXCEPT ![r] = pages[r]]
      /\ wal' = [wal EXCEPT ![r] = <<>>]
      /\ UNCHANGED <<pages, lockVars, call, staged, cache, writes, history>>
  BY DEF Checkpoint
<1>2. /\ wal \in [Relations -> Seq(WalRecord)] /\ durable \in [Relations -> Pages]
      /\ pages \in [Relations -> Pages] /\ Len(pages[r]) \in Nat
  BY TypeOfRelation DEF IInv, TypeInv, TypeOK
<1>3. /\ wal'[r] = <<>> /\ durable'[r] = pages[r]
      /\ \A x \in Relations \ {r} : wal'[x] = wal[x] /\ durable'[x] = durable[x]
      /\ wal' \in [Relations -> Seq(WalRecord)] /\ durable' \in [Relations -> Pages]
  BY <1>1, <1>2
<1>4. DiskInv'
  <2>1. ASSUME NEW x \in Permanent, NEW y \in 1 .. Len(pages[x]), Logged(x, y)'
        PROVE  Restorable(x, y)'
    <3>1. CASE x = r
      BY <1>1, <1>2, <1>3, <2>1, <3>1 DEF Restorable
    <3>2. CASE x # r
      <4>1. Restorable(x, y)
        BY <1>1, <2>1 DEF Logged, At, IInv, DiskInv
      <4> QED BY <1>1, <1>3, <3>2, <4>1, SizesAssumption DEF Restorable
    <3> QED BY <3>1, <3>2
  <2>2. ASSUME NEW x \in Permanent
        PROVE  /\ Len(durable'[x]) <= Len(pages[x])
               /\ \A i \in 1 .. Len(wal'[x]), y \in Nat : Covers(wal'[x][i], y) => y <= Len(pages[x])
    <3>1. CASE x = r
      BY <1>2, <1>3, <3>1
    <3>2. CASE x # r
      BY <1>3, <3>2, SizesAssumption DEF IInv, DiskInv
    <3> QED BY <3>1, <3>2
  <2>3. \A x \in Relations \ Permanent :
          wal'[x] = <<>> /\ durable'[x] = ImagePages(FIRST_GENERATION, {}, 1)
    BY <1>1, <1>3 DEF IInv, DiskInv
  <2> QED BY <1>1, <2>1, <2>2, <2>3 DEF DiskInv
<1> QED BY <1>1, <1>3, <1>4, DiskStep

-----------------------------------------------------------------------------
(* Where nothing is under way: the start, quiet relations, crashes.        *)

\* With no write under way the pages are the last image.
LEMMA QuietIsIntact ==
  ASSUME IInv, NEW r \in Relations, Quiet(r)
  PROVE  Intact(r)
BY DEF IInv, PagesInv, Midway, Quiet, Rewriting

\* When the log of a quiet relation is on disk, recovery restores every page.
LEMMA SettledIsWhole ==
  ASSUME IInv, NEW r \in Permanent, Settled(r)
  PROVE  durable[r] = pages[r]
<1>1. /\ r \in Relations /\ pages[r] \in Pages /\ durable[r] \in Pages
      /\ Len(pages[r]) \in Nat \ {0}
  BY TypeOfRelation, SizesAssumption DEF IInv, TypeInv, TypeOK
<1>2. wal[r] = <<>> /\ Quiet(r)
  BY DEF Settled
<1>3. ASSUME NEW k \in 1 .. Len(pages[r])
      PROVE  k <= Len(durable[r]) /\ durable[r][k] = pages[r][k]
  <2>1. Logged(r, k)
    BY <1>2 DEF Logged, Quiet, Rewriting
  <2>2. Restorable(r, k)
    BY <2>1 DEF IInv, DiskInv
  <2>3. 1 .. Len(wal[r]) = {}
    BY <1>2
  <2> QED BY <2>2, <2>3 DEF Restorable
<1> DEFINE P == MetaPage \cup DataPage
<1>4. pages[r] \in Seq(P) /\ durable[r] \in Seq(P) /\ Len(durable[r]) \in Nat
  BY <1>1 DEF Pages
<1>5. Len(durable[r]) = Len(pages[r])
  <2>1. Len(durable[r]) <= Len(pages[r])
    BY DEF IInv, DiskInv
  <2>2. Len(pages[r]) <= Len(durable[r])
    BY <1>1, <1>3
  <2> QED BY <1>1, <1>4, <2>1, <2>2
<1> HIDE DEF P
<1> QED BY <1>3, <1>4, <1>5

\* A relation whose pages are the image with nothing in it.
LEMMA FirstImage ==
  LET s == ImagePages(FIRST_GENERATION, {}, 1) IN
  /\ s \in Pages /\ Len(s) = 2 /\ s[1] = [gen |-> 1, len |-> 1] /\ s[2] = DataOf({}, 1)
  /\ <<{}>> \in Seq(Effects) /\ Len(<<{}>>) = 1 /\ <<{}>>[1] = {}
<1>1. {} \in Effects /\ 1 \in 1 .. MaxPages /\ FIRST_GENERATION \in Nat
  BY SizesAssumption DEF Effects, FIRST_GENERATION
<1> DEFINE s == ImagePages(FIRST_GENERATION, {}, 1)
<1>2. /\ s \in Pages /\ Len(s) = 1 + 1 /\ s[1] = [gen |-> FIRST_GENERATION, len |-> 1]
      /\ \A k \in 1 .. 1 : s[k + 1] = DataOf({}, k)
  BY <1>1, PagesOfImage
<1> HIDE DEF s
<1>3. s[1 + 1] = DataOf({}, 1)
  BY <1>2
<1>4. Len(s) = 2 /\ s[2] = DataOf({}, 1) /\ s[1] = [gen |-> 1, len |-> 1]
  BY <1>2, <1>3 DEF FIRST_GENERATION
<1>5. <<{}>> \in Seq(Effects) /\ Len(<<{}>>) = 1 /\ <<{}>>[1] = {}
  BY <1>1
<1> QED BY <1>2, <1>4, <1>5 DEF s

\* A relation that is on disk as it is in memory needs no log.
LEMMA RestorableFromDisk ==
  ASSUME NEW r, NEW k, wal[r] = <<>>, durable[r] = pages[r], k \in 1 .. Len(pages[r])
  PROVE  Restorable(r, k)
<1>1. 1 .. Len(wal[r]) = {} /\ k <= Len(durable[r])
  OBVIOUS
<1> QED BY <1>1 DEF Restorable

\* Each relation starts as one intact image.
LEMMA InitInv == Init => IInv
<1> SUFFICES ASSUME Init PROVE IInv
  OBVIOUS
<1> USE DEF Init
<1>1. \A r \in Relations : /\ pages[r] \in Pages /\ Len(pages[r]) = 2
                           /\ pages[r][1] = [gen |-> 1, len |-> 1]
                           /\ pages[r][2] = DataOf({}, 1)
                           /\ history[r] = <<{}>> /\ history[r] \in Seq(Effects)
                           /\ Len(history[r]) = 1 /\ history[r][1] = {}
                           /\ durable[r] = pages[r] /\ wal[r] = <<>>
  BY FirstImage
<1>2. TypeInv
  <2>1. /\ pages \in [Relations -> Pages] /\ durable \in [Relations -> Pages]
        /\ history \in [Relations -> Seq(Effects)] /\ wal \in [Relations -> Seq(WalRecord)]
    <3>1. pages \in [Relations -> Pages] /\ history \in [Relations -> Seq(Effects)]
      BY <1>1
    <3>2. <<>> \in Seq(WalRecord)
      OBVIOUS
    <3> QED BY <3>1, <3>2
  <2>2. writes \in 0 .. MaxWrites
    BY SizesAssumption
  <2>3. \A r \in Relations : history[r] # <<>>
    BY <1>1
  <2> QED BY <2>1, <2>2, <2>3 DEF TypeInv, TypeOK
<1>3. \A r \in Relations : Intact(r)
  <2>1. ASSUME NEW r \in Relations, NEW k \in 1 .. 1
        PROVE  k < Len(pages[r]) /\ pages[r][k + 1] = DataOf({}, k)
    <3>1. k = 1 /\ k + 1 = 2
      OBVIOUS
    <3> QED BY <1>1, <3>1
  <2> QED BY <1>1, <2>1 DEF Intact, Meta, Generation, Latest
<1>4. PagesInv
  BY <1>3 DEF PagesInv
<1>5. CallsInv /\ LockInv /\ CopiesInv
  BY DEF CallsInv, LockInv, CopiesInv
<1>6. DiskInv
  <2>1. \A r \in Permanent : r \in Relations
    BY SizesAssumption
  <2>2. \A r \in Permanent : \A k \in 1 .. Len(pages[r]) : Restorable(r, k)
    BY <1>1, <2>1, RestorableFromDisk
  <2>3. \A r \in Permanent : Len(durable[r]) <= Len(pages[r]) /\ 1 .. Len(wal[r]) = {}
    BY <1>1, <2>1
  <2> QED BY <1>1, <2>2, <2>3 DEF DiskInv
<1> QED BY <1>2, <1>4, <1>5, <1>6 DEF IInv

\* A crash that strikes between writes finds every logged relation settled.
LEMMA CrashStep ==
  ASSUME IInv, Crash, "crash" \notin MidWrite
  PROVE  IInv'
<1>1. /\ \A r \in Permanent : Settled(r)
      /\ pages' = durable /\ durable' = durable /\ writes' = writes
      /\ history' = [r \in Relations |-> IF r \in Permanent THEN history[r] ELSE <<{}>>]
      /\ wal' = [r \in Relations |-> <<>>]
      /\ holder' = [r \in Relations |-> None] /\ sharers' = [r \in Relations |-> {}]
      /\ call' = [b \in Backends |-> None] /\ staged' = [b \in Backends |-> None]
      /\ cache' = [b \in Backends |-> [r \in Relations |-> None]]
  BY DEF Crash
<1>2. /\ pages \in [Relations -> Pages] /\ durable \in [Relations -> Pages]
      /\ history \in [Relations -> Seq(Effects)] /\ \A r \in Relations : history[r] # <<>>
  BY DEF IInv, TypeInv, TypeOK
<1>3. ASSUME NEW r \in Permanent
      PROVE  r \in Relations /\ durable[r] = pages[r] /\ pages'[r] = pages[r]
             /\ history'[r] = history[r] /\ Intact(r)
  <2>1. r \in Relations /\ durable[r] = pages[r] /\ Intact(r)
    BY <1>1, SizesAssumption, SettledIsWhole, QuietIsIntact DEF Settled
  <2> QED BY <1>1, <2>1
<1>4. ASSUME NEW r \in Relations \ Permanent
      PROVE  /\ pages'[r] = ImagePages(FIRST_GENERATION, {}, 1) /\ history'[r] = <<{}>>
             /\ durable[r] = ImagePages(FIRST_GENERATION, {}, 1)
  BY <1>1 DEF IInv, DiskInv
<1>5. TypeInv'
  <2>1. history' \in [Relations -> Seq(Effects)]
    BY <1>1, <1>2, FirstImage
  <2>2. <<>> \in Seq(WalRecord)
    OBVIOUS
  <2>3. ASSUME NEW r \in Relations PROVE history'[r] # <<>>
    <3>1. <<{}>> # <<>>
      OBVIOUS
    <3> QED BY <1>1, <1>2, <3>1
  <2> QED BY <1>1, <1>2, <2>1, <2>2, <2>3 DEF IInv, TypeInv, TypeOK
<1>6. ASSUME NEW r \in Relations PROVE Intact(r)'
  <2>1. CASE r \in Permanent
    BY <1>3, <2>1 DEF Intact, Meta, Generation, Latest
  <2>2. CASE r \notin Permanent
    <3>1. /\ pages'[r][1] = [gen |-> 1, len |-> 1] /\ Len(pages'[r]) = 2
          /\ pages'[r][2] = DataOf({}, 1) /\ Len(history'[r]) = 1 /\ history'[r][1] = {}
      BY <1>4, <2>2, FirstImage
    <3>2. ASSUME NEW k \in 1 .. 1
          PROVE  k < Len(pages'[r]) /\ pages'[r][k + 1] = DataOf({}, k)
      <4>1. k = 1 /\ k + 1 = 2
        OBVIOUS
      <4> QED BY <3>1, <4>1
    <3> QED BY <3>1, <3>2 DEF Intact, Meta, Generation, Latest
  <2> QED BY <2>1, <2>2
<1>7. PagesInv'
  BY <1>6 DEF PagesInv
<1>8. CallsInv' /\ LockInv' /\ CopiesInv'
  BY <1>1 DEF CallsInv, LockInv, CopiesInv
<1>9. DiskInv'
  <2>1. ASSUME NEW r \in Permanent
        PROVE  wal'[r] = <<>> /\ durable'[r] = pages'[r] /\ Len(pages'[r]) \in Nat
    <3>1. r \in Relations /\ pages'[r] = pages[r]
      BY <1>3
    <3>2. Len(pages[r]) \in Nat
      BY <3>1, TypeOfRelation DEF IInv
    <3> QED BY <1>1, <3>1, <3>2
  <2>2. ASSUME NEW r \in Permanent, NEW k \in 1 .. Len(pages'[r]) PROVE Restorable(r, k)'
    <3>1. 1 .. Len(wal'[r]) = {} /\ k <= Len(durable'[r])
      BY <2>1
    <3> QED BY <2>1, <3>1 DEF Restorable
  <2>3. \A r \in Permanent : Len(durable'[r]) <= Len(pages'[r]) /\ 1 .. Len(wal'[r]) = {}
    BY <2>1
  <2>4. \A r \in Relations \ Permanent :
          wal'[r] = <<>> /\ durable'[r] = ImagePages(FIRST_GENERATION, {}, 1)
    BY <1>1, <1>4
  <2> QED BY <2>2, <2>3, <2>4 DEF DiskInv
<1> QED BY <1>5, <1>7, <1>8, <1>9 DEF IInv

\* Nothing interrupts a write between its first page and its last record.  A
\* checkpoint does not: it writes whatever pages there are.
WritesRunThrough == MidWrite \subseteq {"checkpoint"}

\* Nothing changes.
LEMMA StutterStep ==
  ASSUME IInv, UNCHANGED vars
  PROVE  IInv'
<1>1. DiskInv'
  BY DEF IInv, DiskInv, Logged, At, Restorable, vars, diskVars
<1>2. wal' \in [Relations -> Seq(WalRecord)] /\ durable' \in [Relations -> Pages]
  BY DEF IInv, TypeInv, TypeOK, vars, diskVars
<1> QED BY <1>1, <1>2, DiskStep DEF vars, lockVars

\* Every step keeps the invariant.
LEMMA NextStep ==
  ASSUME WritesRunThrough, IInv, [Next]_vars
  PROVE  IInv'
<1>1. "error" \notin MidWrite /\ "crash" \notin MidWrite
  BY DEF WritesRunThrough
<1>2. ASSUME NEW b \in Backends, NEW op \in Operations, NEW r \in Relations, StartCall(b, op, r)
      PROVE  IInv'
  BY <1>2, StartCallStep
<1>3. ASSUME NEW b \in Backends, Acquire(b) PROVE IInv'
  BY <1>3, PeekStep, LoadStartStep, WriteLockStep DEF Acquire
<1>4. ASSUME NEW b \in Backends, Proceed(b) PROVE IInv'
  BY <1>4, ConsultStep, LoadPageStep, LoadEndStep, ApplyStep, NothingRemovedStep,
     WritePageStep, LogBatchStep, WriteUnlockStep, ReturnStep DEF Proceed
<1>5. ASSUME NEW b \in Backends, Raise(b) PROVE IInv'
  BY <1>1, <1>5, RaiseStep
<1>6. ASSUME NEW r \in Relations, FlushWal(r) \/ Checkpoint(r) PROVE IInv'
  BY <1>6, FlushWalStep, CheckpointStep
<1>7. CASE Crash
  BY <1>1, <1>7, CrashStep
<1>8. CASE UNCHANGED vars
  BY <1>8, StutterStep
<1> QED BY <1>2, <1>3, <1>4, <1>5, <1>6, <1>7, <1>8 DEF Next

\* The invariant holds throughout.
LEMMA Inductive ==
  ASSUME WritesRunThrough
  PROVE  Spec => []IInv
BY InitInv, NextStep, PTL DEF Spec

-----------------------------------------------------------------------------
(* Theorems.                                                               *)

\* Every variable keeps its type (the whole of storage.rs as modelled).
THEOREM TypesHold ==
  ASSUME WritesRunThrough
  PROVE  Spec => []TypeOK
<1>1. IInv => TypeOK
  BY DEF IInv, TypeInv
<1> QED BY <1>1, Inductive, PTL

\* A load never splices two images, however writers and other readers interleave with
\* it (load_index_with_generation, IMAGE_LOCK_BLOCK).
THEOREM LoadsAreWhole ==
  ASSUME WritesRunThrough
  PROVE  Spec => []NoTornRead
<1>1. ASSUME IInv PROVE NoTornRead
  <2> SUFFICES ASSUME NEW b \in Backends, At(b, "load")
               PROVE  /\ call[b].gen \in DOMAIN history[call[b].rel]
                      /\ \A k \in DOMAIN call[b].chunks :
                           call[b].chunks[k] =
                             [of |-> history[call[b].rel][call[b].gen], place |-> k]
    BY DEF NoTornRead
  <2>1. /\ call[b] \in Call /\ call[b].rel \in Relations /\ LoadOK(call[b])
        /\ call[b].step = "load"
    BY <1>1, CallUnderWay DEF At, CallOK
  <2>2. history[call[b].rel] \in Seq(Effects) /\ Generation(call[b].rel) \in Nat \ {0}
    BY <1>1, <2>1, TypeOfRelation DEF IInv
  <2>3. DOMAIN call[b].chunks = 1 .. Len(call[b].chunks)
    BY <2>1 DEF Call
  <2> QED BY <2>1, <2>2, <2>3 DEF LoadOK, DataOf, Latest, Generation
<1> QED BY <1>1, Inductive, PTL

\* A cached copy that goes by the metapage's generation is the image there, although the
\* tag was read before the image was loaded and the lock was not held in between
\* (cached_index).
THEOREM CachedCopiesAreHonest ==
  ASSUME WritesRunThrough
  PROVE  Spec => []TagsAreHonest
<1>1. ASSUME IInv PROVE TagsAreHonest
  <2> SUFFICES ASSUME NEW b \in Backends, NEW r \in Relations, cache[b][r] # None,
                      cache[b][r].gen = Meta(r).gen
               PROVE  cache[b][r].effects = pages[r][2].of
    BY DEF TagsAreHonest
  <2>1. /\ SeenOK(r, cache[b][r].gen)
        /\ \E g \in cache[b][r].gen .. Generation(r) : cache[b][r].effects = history[r][g]
    BY <1>1 DEF IInv, CopiesInv
  <2>2. Generation(r) \in Nat \ {0} /\ Meta(r).gen \in Nat /\ Meta(r).len \in 1 .. MaxPages
        /\ MaxPages \in Nat
    BY <1>1, TypeOfRelation, SizesAssumption DEF IInv
  <2>3. Meta(r).gen = Generation(r)
    <3>1. CASE Intact(r)
      BY <3>1 DEF Intact
    <3>2. ASSUME NEW e \in Backends, Midway(e, r) PROVE Meta(r).gen = Generation(r)
      <4>1. PastMeta(call[e])
        BY <1>1, <3>2, CallUnderWay DEF Midway, At, CallOK, WriteOK
      <4> QED BY <3>2, <4>1 DEF PastMeta, Midway
    <3> QED BY <1>1, <3>1, <3>2 DEF IInv, PagesInv
  <2>4. Intact(r) /\ cache[b][r].effects = Latest(r)
    BY <2>1, <2>2, <2>3 DEF SeenOK, Latest
  <2>5. 1 \in 1 .. Meta(r).len
    BY <2>2
  <2>6. pages[r][1 + 1] = DataOf(Latest(r), 1)
    BY <2>4, <2>5 DEF Intact
  <2> QED BY <2>4, <2>6 DEF DataOf
<1> QED BY <1>1, Inductive, PTL

\* Once a write is logged and its log is on disk, recovery restores the pages that readers
\* see: log_fork_pages covers the pages appended, and those cleared.
THEOREM LoggedPagesAreAll ==
  ASSUME WritesRunThrough
  PROVE  Spec => []LoggedImageIsWhole
<1>1. IInv => LoggedImageIsWhole
  BY SettledIsWhole DEF LoggedImageIsWhole
<1> QED BY <1>1, Inductive, PTL

\* While no write is under way the pages are an image that can be read, after a crash or an
\* error between writes too (rewrite_index_blob, log_fork_pages).
THEOREM ImageStaysReadable ==
  ASSUME WritesRunThrough
  PROVE  Spec => []ImageIsReadable
<1>1. ASSUME IInv PROVE ImageIsReadable
  <2> SUFFICES ASSUME NEW r \in Relations, Quiet(r) PROVE Whole(pages[r])
    BY DEF ImageIsReadable
  <2>1. Intact(r) /\ Meta(r).len \in 1 .. MaxPages /\ MaxPages \in Nat
    BY <1>1, QuietIsIntact, TypeOfRelation, SizesAssumption DEF IInv
  <2>2. 1 \in 1 .. Meta(r).len
    BY <2>1
  <2>3. pages[r][1 + 1] = DataOf(Latest(r), 1)
    BY <2>1, <2>2 DEF Intact
  <2>4. pages[r][2].of = Latest(r)
    BY <2>3 DEF DataOf
  <2> QED BY <2>1, <2>4 DEF Whole, Intact, Meta, DataOf
<1> QED BY <1>1, Inductive, PTL

-----------------------------------------------------------------------------
(* The refinement of AtomicImage.                                          *)

\* The image of a relation, as its last write left it.
Current(r) == [gen |-> Generation(r), effects |-> Latest(r)]

ImageSeen == ContractImage = [r \in Relations |-> Current(r)]

\* The contract's image is the last one written: of a relation whose rewrite is under way,
\* the one that the rewrite carries.
LEMMA ContractSeesCurrent == IInv => ImageSeen
<1> SUFFICES ASSUME IInv, NEW r \in Relations
             PROVE  ContractImage[r] = Current(r)
  BY DEF ImageSeen, ContractImage
<1> DEFINE writing == {b \in Backends : At(b, "write") /\ call[b].rel = r /\ call[b].next > 0}
<1>1. CASE writing # {}
  <2>1. PICK b : b = CHOOSE e \in writing : TRUE
    OBVIOUS
  <2>2. b \in writing
    BY <1>1, <2>1
  <2>3. b \in Backends /\ At(b, "write") /\ call[b].rel = r /\ call[b].next > 0
    BY <2>2
  <2>4. PastMeta(call[b])
    BY <2>3, CallUnderWay DEF At, CallOK, WriteOK
  <2>5. ContractImage[r] = [gen |-> call[b].gen, effects |-> call[b].effects]
    BY <1>1, <2>1 DEF ContractImage
  <2> QED BY <2>3, <2>4, <2>5 DEF PastMeta, Current
<1>2. CASE writing = {}
  <2>1. Intact(r)
    BY <1>2 DEF IInv, PagesInv, Midway
  <2>2. Meta(r).len \in 1 .. MaxPages /\ MaxPages \in Nat
    BY TypeOfRelation, SizesAssumption DEF IInv
  <2>3. 1 \in 1 .. Meta(r).len
    BY <2>2
  <2>4. pages[r][1 + 1] = DataOf(Latest(r), 1)
    BY <2>1, <2>3 DEF Intact
  <2>5. ContractImage[r] = [gen |-> Meta(r).gen, effects |-> pages[r][2].of]
    BY <1>2 DEF ContractImage
  <2> QED BY <2>1, <2>4, <2>5 DEF Intact, DataOf, Current
<1> QED BY <1>1, <1>2

\* A read, as the contract sees it.
Reading(c) == c # None /\ c.op \in {"scan", "stage"}

Got(c) == CASE c.step = "start" -> None
            [] c.step \in {"consult", "fetch"} -> ImageAt(c.rel, c.tag)
            [] c.step = "load" -> ImageAt(c.rel, c.gen)
            [] c.step = "done" -> [gen |-> c.gen, effects |-> c.effects]

ReadOf(c) == IF Reading(c) THEN [rel |-> c.rel, got |-> Got(c), done |-> c.step = "done"]
             ELSE None

\* The reads of the contract, call by call.
LEMMA ContractReads == ContractRead = [b \in Backends |-> ReadOf(call[b])]
BY DEF ContractRead, ReadOf, Reading, Got, Doing

\* None is not a read, nor an image that one has got.
LEMMA ReadIsSome ==
  ASSUME IInv, NEW b \in Backends, Reading(call[b])
  PROVE  /\ ReadOf(call[b]) # None
         /\ call[b].step # "start" => Got(call[b]) # None
<1> DEFINE c == call[b]
<1>1. /\ c \in Call /\ c.rel \in Relations /\ FlowOK(c) /\ TagOK(b, c) /\ LoadOK(c)
      /\ c.op \in {"scan", "stage"} /\ c.step \in Steps
  BY CallUnderWay, TypeOfCall DEF IInv, Reading, CallOK
<1>2. /\ history[c.rel] \in Seq(Effects) /\ Generation(c.rel) \in Nat \ {0}
      /\ Len(history[c.rel]) = Generation(c.rel)
  BY <1>1, TypeOfRelation DEF IInv, Generation
<1>3. c.step \in {"start", "consult", "fetch", "load", "done"}
  BY <1>1 DEF FlowOK, Steps
<1>4. CASE c.step = "start"
  <2>1. ReadOf(c) = [rel |-> c.rel, got |-> None, done |-> FALSE]
    BY <1>4 DEF ReadOf, Reading, Got
  <2>2. ReadOf(c) \in [rel : Relations, got : [gen : Nat, effects : Effects] \cup {None},
                       done : BOOLEAN]
    BY <1>1, <2>1
  <2> QED BY <1>4, <2>2, NoneAssumption
<1>5. CASE c.step # "start"
  <2>1. Got(c) \in [gen : Nat, effects : Effects]
    <3>1. CASE c.step \in {"consult", "fetch"}
      <4>1. c.tag \in 1 .. Generation(c.rel)
        BY <1>1, <3>1 DEF TagOK, SeenOK, FlowOK
      <4> QED BY <1>2, <3>1, <4>1 DEF Got, ImageAt
    <3>2. CASE c.step = "load"
      <4>1. c.gen \in 1 .. Generation(c.rel)
        BY <1>1, <1>2, <3>2 DEF LoadOK
      <4> QED BY <1>2, <3>2, <4>1 DEF Got, ImageAt
    <3>3. CASE c.step = "done"
      BY <1>1, <3>3 DEF Got, Call
    <3> QED BY <1>3, <1>5, <3>1, <3>2, <3>3
  <2>2. ReadOf(c) \in [rel : Relations, got : [gen : Nat, effects : Effects] \cup {None},
                       done : BOOLEAN]
    BY <1>1, <2>1 DEF ReadOf, Reading
  <2> QED BY <2>1, <2>2, NoneAssumption
<1> QED BY <1>4, <1>5


\* While histories grow at their ends, what a read has got stays what it was.
LEMMA ReadsStay ==
  ASSUME IInv, NEW e \in Backends, NEW c, c = call[e],
         \A r \in Relations : \A g \in 1 .. Generation(r) : history'[r][g] = history[r][g]
  PROVE  ReadOf(c)' = ReadOf(c)
<1>1. CASE ~Reading(c)
  BY <1>1 DEF ReadOf, Reading
<1>2. CASE Reading(c)
  <2>1. /\ c \in Call /\ c.rel \in Relations /\ FlowOK(c) /\ TagOK(e, c) /\ LoadOK(c)
        /\ c.op \in {"scan", "stage"} /\ c.step \in Steps
    BY <1>2, CallUnderWay, TypeOfCall DEF IInv, Reading, CallOK
  <2>2. Generation(c.rel) \in Nat \ {0}
    BY <2>1, TypeOfRelation DEF IInv
  <2>3. c.step \in {"start", "consult", "fetch", "load", "done"}
    BY <2>1 DEF FlowOK, Steps
  <2>4. Got(c)' = Got(c)
    <3>1. CASE c.step \in {"consult", "fetch"}
      <4>1. c.tag \in 1 .. Generation(c.rel)
        BY <2>1, <3>1 DEF TagOK, SeenOK, FlowOK
      <4> QED BY <2>1, <3>1, <4>1 DEF Got, ImageAt
    <3>2. CASE c.step = "load"
      <4>1. c.gen \in 1 .. Generation(c.rel)
        BY <2>1, <2>2, <3>2 DEF LoadOK
      <4> QED BY <2>1, <3>2, <4>1 DEF Got, ImageAt
    <3>3. CASE c.step \in {"start", "done"}
      BY <3>3 DEF Got
    <3> QED BY <2>3, <3>1, <3>2, <3>3
  <2> QED BY <1>2, <2>4 DEF ReadOf, Reading
<1> QED BY <1>1, <1>2

\* A step of one backend that writes no image, as the contract sees it.
LEMMA ReadChanges ==
  ASSUME ImageSeen, ImageSeen', NEW b \in Backends, NEW d,
         call \in [Backends -> Call \cup {None}],
         call' = [call EXCEPT ![b] = d], UNCHANGED history
  PROVE  /\ UNCHANGED ContractImage
         /\ ContractRead' = [ContractRead EXCEPT ![b] = ReadOf(d)]
<1>1. UNCHANGED ContractImage
  BY DEF ImageSeen, Current, Generation, Latest
<1>2. ContractRead' = [e \in Backends |-> ReadOf(call[e])']
  BY DEF ContractRead, ReadOf, Reading, Got, Doing
<1>3. ASSUME NEW e \in Backends, NEW c, c = call'[e] PROVE ReadOf(call[e])' = ReadOf(c)
  BY <1>3 DEF ReadOf, Reading, Got, ImageAt
<1>4. \A e \in Backends : ContractRead'[e] = IF e = b THEN ReadOf(d) ELSE ReadOf(call[e])
  <2>1. ASSUME NEW e \in Backends
        PROVE  ContractRead'[e] = IF e = b THEN ReadOf(d) ELSE ReadOf(call[e])
    <3>1. call'[e] = IF e = b THEN d ELSE call[e]
      OBVIOUS
    <3> QED BY <1>2, <1>3, <3>1
  <2> QED BY <2>1
<1>5. ContractRead' = [e \in Backends |-> ContractRead'[e]]
  BY <1>2
<1> QED BY <1>1, <1>4, <1>5, ContractReads

\* A step that is nothing to the contract.
LEMMA NoReadStep ==
  ASSUME IInv, ImageSeen, ImageSeen', NEW b \in Backends, NEW d,
         call' = [call EXCEPT ![b] = d], UNCHANGED history,
         ReadOf(d) = ReadOf(call[b])
  PROVE  UNCHANGED Contract!vars
<1>1. call \in [Backends -> Call \cup {None}]
  BY DEF IInv, TypeInv, TypeOK
<1>2. UNCHANGED ContractImage /\ ContractRead' = [ContractRead EXCEPT ![b] = ReadOf(d)]
  BY <1>1, ReadChanges
<1>3. ContractRead[b] = ReadOf(d)
  BY ContractReads
<1>4. ContractRead' = ContractRead
  BY <1>2, <1>3, ContractReads
<1> QED BY <1>2, <1>4 DEF Contract!vars

\* One field of a read, altered.
LEMMA ReadGot ==
  ASSUME NEW r, NEW x, NEW y, NEW z
  PROVE  [[rel |-> r, got |-> x, done |-> z] EXCEPT !.got = y] = [rel |-> r, got |-> y, done |-> z]
OBVIOUS

\* Another field of it.
LEMMA ReadDone ==
  ASSUME NEW r, NEW x, NEW y, NEW z
  PROVE  [[rel |-> r, got |-> x, done |-> z] EXCEPT !.done = y] = [rel |-> r, got |-> x, done |-> y]
OBVIOUS

\* The steps of a read.
LEMMA LookStep ==
  ASSUME IInv, ImageSeen, ImageSeen', NEW b \in Backends, NEW d, NEW r \in Relations,
         call' = [call EXCEPT ![b] = d], UNCHANGED history,
         Reading(call[b]), call[b].step # "done", call[b].rel = r,
         ReadOf(d) = [rel |-> r, got |-> Current(r), done |-> FALSE]
  PROVE  Contract!Look(b)
<1>1. call \in [Backends -> Call \cup {None}]
  BY DEF IInv, TypeInv, TypeOK
<1>2. UNCHANGED ContractImage /\ ContractRead' = [ContractRead EXCEPT ![b] = ReadOf(d)]
  BY <1>1, ReadChanges
<1>3. /\ ContractRead[b] = ReadOf(call[b]) /\ ContractRead[b] # None
      /\ ContractRead[b] = [rel |-> r, got |-> Got(call[b]), done |-> FALSE]
  BY ContractReads, ReadIsSome DEF ReadOf
<1>4. PICK v, i, g : v = ContractRead[b] /\ i = ContractImage /\ g = Current(r)
  OBVIOUS
<1>5. i[r] = g
  BY <1>4 DEF ImageSeen
<1>6. v # None /\ v.done = FALSE /\ [v EXCEPT !.got = i[v.rel]] = ReadOf(d)
  <2>1. PICK x : v = [rel |-> r, got |-> x, done |-> FALSE]
    BY <1>3, <1>4
  <2>2. [v EXCEPT !.got = g] = [rel |-> r, got |-> g, done |-> FALSE]
    <3>1. PICK z : z = FALSE
      OBVIOUS
    <3>2. [[rel |-> r, got |-> x, done |-> z] EXCEPT !.got = g] = [rel |-> r, got |-> g, done |-> z]
      BY ReadGot
    <3> QED BY <2>1, <3>1, <3>2, Zenon
  <2>3. i[v.rel] = g
    BY <1>5, <2>1
  <2> QED BY <1>3, <1>4, <2>1, <2>2, <2>3
<1> QED BY <1>2, <1>4, <1>6 DEF Contract!Look, Contract!SetRead

\* A read that returns what it looked at.
LEMMA FinishStep ==
  ASSUME IInv, ImageSeen, ImageSeen', NEW b \in Backends, NEW d,
         call' = [call EXCEPT ![b] = d], UNCHANGED history,
         Reading(call[b]), call[b].step \notin {"start", "done"},
         ReadOf(d) = [rel |-> call[b].rel, got |-> Got(call[b]), done |-> TRUE]
  PROVE  Contract!Finish(b)
<1>1. call \in [Backends -> Call \cup {None}]
  BY DEF IInv, TypeInv, TypeOK
<1>2. UNCHANGED ContractImage /\ ContractRead' = [ContractRead EXCEPT ![b] = ReadOf(d)]
  BY <1>1, ReadChanges
<1>3. /\ ContractRead[b] # None /\ Got(call[b]) # None
      /\ ContractRead[b] = [rel |-> call[b].rel, got |-> Got(call[b]), done |-> FALSE]
  BY ContractReads, ReadIsSome DEF ReadOf
<1>4. PICK v, x, r : v = ContractRead[b] /\ x = Got(call[b]) /\ r = call[b].rel
  OBVIOUS
<1>5. v # None /\ v.got # None /\ [v EXCEPT !.done = TRUE] = ReadOf(d)
  <2>1. v = [rel |-> r, got |-> x, done |-> FALSE]
    BY <1>3, <1>4
  <2>2. [[rel |-> r, got |-> x, done |-> FALSE] EXCEPT !.done = TRUE]
          = [rel |-> r, got |-> x, done |-> TRUE]
    BY ReadDone, Zenon
  <2> QED BY <1>3, <1>4, <2>1, <2>2
<1> QED BY <1>2, <1>4, <1>5 DEF Contract!Finish, Contract!SetRead

\* A read that is over.
LEMMA LeaveStep ==
  ASSUME IInv, ImageSeen, ImageSeen', NEW b \in Backends,
         call' = [call EXCEPT ![b] = None], UNCHANGED history
  PROVE  Contract!Leave(b)
<1>1. call \in [Backends -> Call \cup {None}] /\ ReadOf(None) = None
  BY DEF IInv, TypeInv, TypeOK, ReadOf, Reading
<1>2. UNCHANGED ContractImage /\ ContractRead' = [ContractRead EXCEPT ![b] = None]
  BY <1>1, ReadChanges
<1> QED BY <1>2 DEF Contract!Leave, Contract!SetRead

\* What StartCall leaves.
LEMMA CallStarted ==
  ASSUME IInv, NEW b \in Backends, NEW op \in Operations, NEW r \in Relations,
         StartCall(b, op, r)
  PROVE  \E d \in Call : /\ call[b] = None /\ call' = [call EXCEPT ![b] = d]
                         /\ d.op = op /\ d.rel = r /\ d.step = "start" /\ UNCHANGED history
<1> DEFINE d == [op |-> op, rel |-> r, step |-> "start",
                 tag |-> IF op = "flush" THEN staged[b].gen ELSE 0,
                 gen |-> 0, len |-> 0, chunks |-> <<>>,
                 effects |-> IF op = "flush" THEN staged[b].effects ELSE {},
                 token |-> IF op \in {"flush", "vacuum"} THEN writes + 1 ELSE 0,
                 next |-> 0, ceiling |-> 0]
<1>1. /\ call[b] = None /\ call' = [call EXCEPT ![b] = d] /\ UNCHANGED history
      /\ op = "flush" => staged[b] # None
      /\ op \in {"flush", "vacuum"} => writes < MaxWrites
  BY DEF StartCall, Continue
<1>2. /\ writes \in 0 .. MaxWrites /\ MaxWrites \in Nat /\ MaxPages \in Nat
      /\ staged \in [Backends -> Staged \cup {None}]
  BY SizesAssumption DEF IInv, TypeInv, TypeOK
<1>3. d \in Call
  <2>1. d.tag \in Nat /\ d.effects \in Effects
    BY <1>1, <1>2 DEF Effects, Staged
  <2>2. d.token \in 0 .. MaxWrites
    BY <1>1, <1>2
  <2>3. d.step \in Steps /\ d.chunks \in Seq(DataPage) /\ d.len \in 0 .. MaxPages
    BY <1>2 DEF Steps
  <2> QED BY <2>1, <2>2, <2>3 DEF Call
<1>4. d.op = op /\ d.rel = r /\ d.step = "start"
  OBVIOUS
<1> HIDE DEF d
<1> QED BY <1>1, <1>3, <1>4

\* A call begins: a read, or a write that the contract does not see yet.
LEMMA StartCallImplements ==
  ASSUME IInv, ImageSeen, ImageSeen', NEW b \in Backends, NEW op \in Operations,
         NEW r \in Relations, StartCall(b, op, r)
  PROVE  [Contract!Next]_(Contract!vars)
<1>1. PICK d \in Call : /\ call[b] = None /\ call' = [call EXCEPT ![b] = d]
                        /\ d.op = op /\ d.rel = r /\ d.step = "start" /\ UNCHANGED history
  BY CallStarted
<1>2. d # None
  BY NoneAssumption
<1>3. ReadOf(call[b]) = None
  BY <1>1 DEF ReadOf, Reading
<1>4. CASE op \in {"scan", "stage"}
  <2>1. ReadOf(d) = [rel |-> r, got |-> None, done |-> FALSE]
    BY <1>1, <1>2, <1>4 DEF ReadOf, Reading, Got
  <2>2. UNCHANGED ContractImage /\ ContractRead' = [ContractRead EXCEPT ![b] = ReadOf(d)]
    BY <1>1, ReadChanges DEF IInv, TypeInv, TypeOK
  <2>3. ContractRead[b] = None
    BY <1>3, ContractReads
  <2>4. Contract!Begin(b, r)
    BY <2>1, <2>2, <2>3 DEF Contract!Begin, Contract!SetRead
  <2> QED BY <2>4 DEF Contract!Next
<1>5. CASE op \in {"flush", "vacuum"}
  <2>1. ReadOf(d) = None
    BY <1>1, <1>5 DEF ReadOf, Reading
  <2> QED BY <1>1, <1>3, <2>1, NoReadStep
<1> QED BY <1>4, <1>5 DEF Operations

\* A scan's look at the metapage.
LEMMA PeekImplements ==
  ASSUME IInv, ImageSeen, ImageSeen', NEW b \in Backends, Peek(b)
  PROVE  [Contract!Next]_(Contract!vars)
<1> DEFINE c == call[b]
           r == c.rel
           d == [c EXCEPT !.tag = Meta(r).gen, !.step = "consult"]
<1>1. /\ c # None /\ c.step = "start" /\ c.op = "scan" /\ Shareable(b, r)
      /\ call' = [call EXCEPT ![b] = d] /\ UNCHANGED history
  BY DEF Peek, At, Doing, Continue
<1>2. c \in Call /\ r \in Relations /\ ~At(b, "write")
  BY <1>1, CallUnderWay DEF At
<1>3. Meta(r).gen = Generation(r) /\ Generation(r) \in Nat \ {0}
  BY <1>1, <1>2, IntactWhereShared, TypeOfRelation DEF Intact, IInv
<1>4. d \in Call /\ d.op = "scan" /\ d.rel = r /\ d.step = "consult" /\ d.tag = Generation(r)
  BY <1>1, <1>2, <1>3 DEF Call, Steps
<1> HIDE DEF d
<1>5. ReadOf(d) = [rel |-> r, got |-> Current(r), done |-> FALSE]
  BY <1>4, NoneAssumption DEF ReadOf, Reading, Got, ImageAt, Current, Latest
<1>6. Contract!Look(b)
  BY <1>1, <1>2, <1>5, LookStep DEF Reading
<1> QED BY <1>6 DEF Contract!Next

\* A scan that its cache answers has read what it looked at; one that it does not has
\* read nothing more.
LEMMA ConsultImplements ==
  ASSUME IInv, ImageSeen, ImageSeen', NEW b \in Backends, Consult(b)
  PROVE  [Contract!Next]_(Contract!vars)
<1> DEFINE c == call[b]
           r == c.rel
           copy == cache[b][r]
<1>1. c # None /\ c.step = "consult" /\ UNCHANGED history
  BY DEF Consult, At
<1>2. /\ c \in Call /\ r \in Relations /\ c.op = "scan" /\ TagOK(b, c)
      /\ cache \in [Backends -> [Relations -> Copy \cup {None}]]
  <2>1. c \in Call /\ r \in Relations /\ CallOK(b, c)
    BY <1>1, CallUnderWay
  <2>2. FlowOK(c) /\ TagOK(b, c)
    BY <2>1 DEF CallOK
  <2>3. c.op = "scan"
    BY <1>1, <2>2 DEF FlowOK
  <2>4. cache \in [Backends -> [Relations -> Copy \cup {None}]]
    BY DEF IInv, TypeInv, TypeOK
  <2> QED BY <2>1, <2>2, <2>3, <2>4
<1>3. PICK ceiling \in Ceilings :
        \/ /\ Usable(copy, c.tag, ceiling)
           /\ call' = [call EXCEPT ![b] =
                [c EXCEPT !.step = "done", !.ceiling = ceiling,
                          !.gen = copy.gen, !.effects = copy.effects]]
        \/ call' = [call EXCEPT ![b] = [c EXCEPT !.step = "fetch", !.ceiling = ceiling]]
  BY DEF Consult, Continue
<1>4. ceiling \in Nat
  BY SizesAssumption
<1>5. ReadOf(c) = [rel |-> r, got |-> ImageAt(r, c.tag), done |-> FALSE] /\ Got(c) = ImageAt(r, c.tag)
  BY <1>1, <1>2 DEF ReadOf, Reading, Got
<1>6. ASSUME Usable(copy, c.tag, ceiling),
             NEW d, d = [c EXCEPT !.step = "done", !.ceiling = ceiling,
                                  !.gen = copy.gen, !.effects = copy.effects],
             call' = [call EXCEPT ![b] = d]
      PROVE  Contract!Finish(b)
  <2>1. copy \in Copy /\ copy.gen = c.tag /\ copy # None
    BY <1>2, <1>6 DEF Usable
  <2>2. copy.effects = history[r][c.tag] /\ copy.gen \in Nat /\ copy.effects \in Effects
    BY <1>1, <1>2, <2>1 DEF TagOK, Copy
  <2>3. /\ d \in Call /\ d.op = "scan" /\ d.rel = r /\ d.step = "done"
        /\ d.gen = c.tag /\ d.effects = history[r][c.tag]
    BY <1>1, <1>2, <1>4, <1>6, <2>1, <2>2 DEF Call, Steps
  <2>4. ReadOf(d) = [rel |-> r, got |-> ImageAt(r, c.tag), done |-> TRUE]
    BY <2>3, NoneAssumption DEF ReadOf, Reading, Got, ImageAt
  <2> QED BY <1>1, <1>2, <1>5, <1>6, <2>4, FinishStep DEF Reading
<1>7. ASSUME NEW d, d = [c EXCEPT !.step = "fetch", !.ceiling = ceiling],
             call' = [call EXCEPT ![b] = d]
      PROVE  UNCHANGED Contract!vars
  <2>1. d \in Call /\ d.op = "scan" /\ d.rel = r /\ d.step = "fetch" /\ d.tag = c.tag
    BY <1>1, <1>2, <1>4, <1>7 DEF Call, Steps
  <2>2. ReadOf(d) = [rel |-> r, got |-> ImageAt(r, c.tag), done |-> FALSE]
    BY <2>1, NoneAssumption DEF ReadOf, Reading, Got
  <2> QED BY <1>1, <1>5, <1>7, <2>2, NoReadStep
<1> QED BY <1>3, <1>6, <1>7 DEF Contract!Next

\* A load takes effect where it looks at the metapage, its lock held.
LEMMA LoadStartImplements ==
  ASSUME IInv, ImageSeen, ImageSeen', NEW b \in Backends, LoadStart(b)
  PROVE  [Contract!Next]_(Contract!vars)
<1> DEFINE c == call[b]
           r == c.rel
           d == [c EXCEPT !.step = "load", !.chunks = <<>>,
                          !.gen = Meta(r).gen, !.len = Meta(r).len]
<1>1. /\ c.step = "fetch" \/ (c.step = "start" /\ c.op = "stage")
      /\ Shareable(b, r) /\ call' = [call EXCEPT ![b] = d] /\ UNCHANGED history
  BY DEF LoadStart, At, Doing, Continue
<1>2. c \in Call /\ r \in Relations /\ ~At(b, "write") /\ c # None
  <2>1. c # None
    BY DEF LoadStart, At
  <2> QED BY <1>1, <2>1, CallUnderWay DEF At
<1>3. /\ Meta(r).gen = Generation(r) /\ Generation(r) \in Nat \ {0}
      /\ Meta(r).len \in 0 .. MaxPages /\ <<>> \in Seq(DataPage)
  BY <1>1, <1>2, IntactWhereShared, TypeOfRelation, SizesAssumption DEF Intact, IInv
<1>4. d \in Call /\ d.op = c.op /\ d.rel = r /\ d.step = "load" /\ d.gen = Generation(r)
  BY <1>1, <1>2, <1>3 DEF Call, Steps
<1> HIDE DEF d
<1>5. CASE c.op \in {"scan", "stage"}
  <2>1. ReadOf(d) = [rel |-> r, got |-> Current(r), done |-> FALSE]
    BY <1>4, <1>5, NoneAssumption DEF ReadOf, Reading, Got, ImageAt, Current, Latest
  <2>2. Contract!Look(b)
    BY <1>1, <1>2, <1>5, <2>1, LookStep DEF Reading
  <2> QED BY <2>2 DEF Contract!Next
<1>6. CASE c.op \notin {"scan", "stage"}
  <2>1. ReadOf(d) = ReadOf(c)
    BY <1>4, <1>6 DEF ReadOf, Reading
  <2> QED BY <1>1, <2>1, NoReadStep
<1> QED BY <1>5, <1>6

\* A page more is nothing more to the contract.
LEMMA LoadPageImplements ==
  ASSUME IInv, ImageSeen, ImageSeen', NEW b \in Backends, LoadPage(b)
  PROVE  UNCHANGED Contract!vars
<1> DEFINE c == call[b]
           r == c.rel
           n == Len(c.chunks)
           s == Append(c.chunks, DataOf(Latest(r), n + 1))
           d == [c EXCEPT !.chunks = s]
<1>1. /\ c # None /\ c.step = "load" /\ n < c.len /\ UNCHANGED history
      /\ call' = [call EXCEPT ![b] = [c EXCEPT !.chunks = Append(@, pages[r][n + 2])]]
  BY DEF LoadPage, At, Continue
<1>2. /\ c \in Call /\ r \in Relations /\ LoadOK(c) /\ LockOK(b, c) /\ ~At(b, "write")
      /\ c.chunks \in Seq(DataPage) /\ c.len \in 0 .. MaxPages /\ n \in Nat /\ MaxPages \in Nat
  BY <1>1, CallUnderWay, SizesAssumption DEF At, CallOK, Call
<1>3. Intact(r)
  BY <1>1, <1>2, IntactWhereShared DEF LockOK
<1>4. pages[r][n + 2] = DataOf(Latest(r), n + 1)
  <2>1. n + 1 \in 1 .. Meta(r).len
    BY <1>1, <1>2 DEF LoadOK
  <2> QED BY <1>2, <1>3, <2>1 DEF Intact
<1>5. s \in Seq(DataPage)
  <2>1. Latest(r) \in Effects
    BY <1>2, TypeOfRelation DEF IInv
  <2>2. DataOf(Latest(r), n + 1) \in DataPage
    BY <1>1, <1>2, <2>1 DEF DataOf, DataPage
  <2> QED BY <1>2, <2>2
<1>6. call' = [call EXCEPT ![b] = d]
  BY <1>1, <1>2, <1>4 DEF Call
<1> HIDE DEF s
<1>7. d \in Call /\ d.op = c.op /\ d.rel = r /\ d.step = "load" /\ d.gen = c.gen
  BY <1>1, <1>2, <1>5 DEF Call
<1> HIDE DEF d
<1>8. ReadOf(d) = ReadOf(c)
  BY <1>1, <1>7, NoneAssumption DEF ReadOf, Reading, Got
<1> QED BY <1>1, <1>6, <1>8, NoReadStep

\* A load that has read its last page is the read, done; what it read is the image that it
\* looked at.
LEMMA LoadEndImplements ==
  ASSUME IInv, ImageSeen, ImageSeen', NEW b \in Backends, LoadEnd(b)
  PROVE  [Contract!Next]_(Contract!vars)
<1> DEFINE c == call[b]
           r == c.rel
           d == [c EXCEPT !.chunks = <<>>, !.effects = c.chunks[1].of,
                          !.step = IF Doing(b, {"scan", "stage"}) THEN "done" ELSE "apply"]
<1>1. /\ c # None /\ c.step = "load" /\ Len(c.chunks) = c.len
      /\ call' = [call EXCEPT ![b] = d] /\ UNCHANGED history
  BY DEF LoadEnd, At, Continue
<1>2. c \in Call /\ r \in Relations /\ LoadOK(c) /\ LockOK(b, c) /\ ~At(b, "write")
  BY <1>1, CallUnderWay DEF At, CallOK
<1>3. c.gen = Generation(r) /\ c.chunks[1].of = Latest(r) /\ Latest(r) \in Effects
  <2>1. Meta(r).len \in 1 .. MaxPages /\ Latest(r) \in Effects
    BY <1>2, TypeOfRelation DEF IInv
  <2>2. 1 \in 1 .. Len(c.chunks)
    BY <1>1, <1>2, <2>1, SizesAssumption DEF LoadOK
  <2>3. c.chunks[1] = DataOf(Latest(r), 1)
    BY <1>1, <1>2, <2>2 DEF LoadOK
  <2> QED BY <1>1, <1>2, <2>1, <2>3 DEF LoadOK, DataOf
<1>4. /\ d \in Call /\ d.op = c.op /\ d.rel = r /\ d.gen = c.gen /\ d.effects = Latest(r)
      /\ d.step = IF c.op \in {"scan", "stage"} THEN "done" ELSE "apply"
  <2>1. <<>> \in Seq(DataPage)
    OBVIOUS
  <2> QED BY <1>2, <1>3, <2>1 DEF Call, Steps, Doing
<1> HIDE DEF d
<1>5. CASE c.op \in {"scan", "stage"}
  <2>1. Got(c) = ImageAt(r, c.gen)
    BY <1>1 DEF Got
  <2>2. ReadOf(d) = [rel |-> r, got |-> ImageAt(r, c.gen), done |-> TRUE]
    BY <1>3, <1>4, <1>5, NoneAssumption DEF ReadOf, Reading, Got, ImageAt, Latest
  <2>3. Contract!Finish(b)
    BY <1>1, <1>2, <1>5, <2>1, <2>2, FinishStep DEF Reading
  <2> QED BY <2>3 DEF Contract!Next
<1>6. CASE c.op \notin {"scan", "stage"}
  <2>1. ReadOf(d) = ReadOf(c)
    BY <1>4, <1>6 DEF ReadOf, Reading
  <2> QED BY <1>1, <2>1, NoReadStep
<1> QED BY <1>5, <1>6

\* A writer's steps, its first page aside, change nothing that the contract sees.
LEMMA WriterImplements ==
  ASSUME IInv, ImageSeen, ImageSeen', NEW b \in Backends,
         \/ WriteLock(b) \/ Apply(b) \/ NothingRemoved(b) \/ LogBatch(b) \/ WriteUnlock(b)
  PROVE  UNCHANGED Contract!vars
<1> DEFINE c == call[b]
<1>1. /\ c # None /\ UNCHANGED history
      /\ c.step \in {"apply", "log", "unlock"} \/ c.op \in {"flush", "vacuum"}
  BY DEF WriteLock, Apply, NothingRemoved, LogBatch, WriteUnlock, At, Doing
<1>2. c \in Call /\ c.op \in {"flush", "vacuum"}
  BY <1>1, CallUnderWay DEF CallOK, FlowOK
<1>3. PICK d : call' = [call EXCEPT ![b] = d] /\ (d = None \/ d.op = c.op)
  <2>1. CASE WriteLock(b)
    <3>1. PICK s : call' = [call EXCEPT ![b] = [c EXCEPT !.step = s, !.tag = 0]]
      BY <2>1 DEF WriteLock, Continue
    <3>2. [c EXCEPT !.step = s, !.tag = 0].op = c.op
      BY <1>2 DEF Call
    <3> QED BY <3>1, <3>2
  <2>2. CASE Apply(b)
    <3>1. PICK n, g, e : call' = [call EXCEPT ![b] =
            [c EXCEPT !.step = "write", !.next = 0, !.len = n, !.gen = g, !.effects = e]]
      BY <2>2 DEF Apply, Continue
    <3>2. [c EXCEPT !.step = "write", !.next = 0, !.len = n, !.gen = g, !.effects = e].op = c.op
      BY <1>2 DEF Call
    <3> QED BY <3>1, <3>2
  <2>3. CASE NothingRemoved(b)
    <3>1. call' = [call EXCEPT ![b] = [c EXCEPT !.step = "unlock"]]
      BY <2>3 DEF NothingRemoved, Goto, IInv, TypeInv, TypeOK
    <3>2. [c EXCEPT !.step = "unlock"].op = c.op
      BY <1>2 DEF Call
    <3> QED BY <3>1, <3>2
  <2>4. CASE LogBatch(b)
    <3>1. PICK k : \/ call' = [call EXCEPT ![b] = [c EXCEPT !.step = "unlock"]]
                   \/ call' = [call EXCEPT ![b] = [c EXCEPT !.next = k]]
      BY <2>4 DEF LogBatch, Continue
    <3>2. [c EXCEPT !.step = "unlock"].op = c.op /\ [c EXCEPT !.next = k].op = c.op
      BY <1>2 DEF Call
    <3> QED BY <3>1, <3>2
  <2>5. CASE WriteUnlock(b)
    BY <2>5 DEF WriteUnlock
  <2> QED BY <2>1, <2>2, <2>3, <2>4, <2>5
<1>4. ReadOf(c) = None /\ ReadOf(d) = None
  BY <1>2, <1>3 DEF ReadOf, Reading
<1> QED BY <1>1, <1>3, <1>4, NoReadStep

\* A write takes effect with its metapage: what it has in hand is the last image and its
\* own effect, under the next generation.
LEMMA WritePageImplements ==
  ASSUME IInv, ImageSeen, ImageSeen', NEW b \in Backends, WritePage(b)
  PROVE  [Contract!Next]_(Contract!vars)
<1>0. PICK c, r, k : c = call[b] /\ r = c.rel /\ k = c.next
  OBVIOUS
<1>1. c # None /\ c.step = "write"
  BY <1>0 DEF WritePage, At
<1>2. /\ c \in Call /\ r \in Relations /\ WriteOK(c) /\ k \in Nat
      /\ c.op \in {"flush", "vacuum"} /\ c.token \in Writes
  BY <1>0, <1>1, CallUnderWay DEF CallOK, FlowOK, Call
<1>3. /\ history' \in [Relations -> Seq(Effects)]
      /\ \A x \in Relations \ {r} : history'[x] = history[x]
      /\ Generation(r)' = c.gen /\ Latest(r)' = c.effects
      /\ \A g \in 1 .. Generation(r) : history'[r][g] = history[r][g]
  <2>1. /\ history' \in [Relations -> Seq(Effects)]
        /\ \A x \in Relations \ {r} : history'[x] = history[x]
    BY <1>0, PageWritten
  <2>2. Generation(r)' = c.gen /\ Latest(r)' = c.effects
    BY <1>0, PageWritten
  <2>3. \A g \in 1 .. Generation(r) : history'[r][g] = history[r][g]
    BY <1>0, PageWritten
  <2> QED BY <2>1, <2>2, <2>3
<1>4. PICK d : call' = [call EXCEPT ![b] = d] /\ d.op = c.op
  <2>1. PICK s : \/ call' = [call EXCEPT ![b] = [c EXCEPT !.step = s, !.next = 0]]
                 \/ call' = [call EXCEPT ![b] = [c EXCEPT !.next = k + 1]]
    BY <1>0 DEF WritePage, Continue
  <2>2. [c EXCEPT !.step = s, !.next = 0].op = c.op /\ [c EXCEPT !.next = k + 1].op = c.op
    BY <1>2 DEF Call
  <2> QED BY <2>1, <2>2
<1>5. UNCHANGED ContractRead
  <2>1. \A x \in Relations : \A g \in 1 .. Generation(x) : history'[x][g] = history[x][g]
    BY <1>3
  <2>2. ContractRead' = [e \in Backends |-> ReadOf(call[e])']
    BY DEF ContractRead, ReadOf, Reading, Got, Doing
  <2>3. ASSUME NEW e \in Backends PROVE ReadOf(call[e])' = ReadOf(call[e])
    <3>1. PICK x : x = call'[e]
      OBVIOUS
    <3>2. ReadOf(call[e])' = ReadOf(x)'
      BY <3>1 DEF ReadOf, Reading, Got, ImageAt
    <3>3. CASE e = b
      <4>1. x = d /\ ~Reading(d) /\ ~Reading(c)
        BY <1>2, <1>4, <3>1, <3>3 DEF IInv, TypeInv, TypeOK, Reading
      <4>2. ReadOf(x)' = None /\ ReadOf(c) = None
        BY <4>1 DEF ReadOf, Reading
      <4> QED BY <1>0, <3>2, <3>3, <4>2
    <3>4. CASE e # b
      <4>1. x = call[e]
        BY <1>4, <3>1, <3>4
      <4>2. ReadOf(x)' = ReadOf(x)
        BY <2>1, <4>1, ReadsStay
      <4> QED BY <3>2, <4>1, <4>2
    <3> QED BY <3>3, <3>4
  <2> QED BY <2>2, <2>3, ContractReads
<1>6. CASE k = 0
  <2>1. c.gen = Generation(r) + 1 /\ c.effects = Latest(r) \cup {c.token}
    BY <1>0, <1>1, <1>2, <1>6 DEF WriteOK, BeforeMeta
  <2>2. Current(r)' = [gen |-> Generation(r) + 1, effects |-> Latest(r) \cup {c.token}]
    BY <1>3, <2>1 DEF Current
  <2>3. \A x \in Relations \ {r} : Current(x)' = Current(x)
    BY <1>3 DEF Current, Generation, Latest
  <2>4. ContractImage' = [ContractImage EXCEPT ![r] =
          [gen |-> @.gen + 1, effects |-> @.effects \cup {c.token}]]
    <3>1. ContractImage[r].gen = Generation(r) /\ ContractImage[r].effects = Latest(r)
      BY <1>2 DEF ImageSeen, Current
    <3>2. ContractImage' = [x \in Relations |-> Current(x)']
      BY DEF ImageSeen
    <3> QED BY <1>2, <2>2, <2>3, <3>1, <3>2 DEF ImageSeen
  <2>5. Contract!Write(r, c.token)
    BY <1>5, <2>4 DEF Contract!Write
  <2> QED BY <1>2, <2>5 DEF Contract!Next
<1>7. CASE k # 0
  <2>1. c.gen = Generation(r) /\ c.effects = Latest(r)
    BY <1>0, <1>1, <1>2, <1>7 DEF WriteOK, PastMeta
  <2>2. \A x \in Relations : Current(x)' = Current(x)
    BY <1>3, <2>1 DEF Current, Generation, Latest
  <2>3. UNCHANGED ContractImage
    BY <2>2 DEF ImageSeen
  <2> QED BY <1>5, <2>3 DEF Contract!vars
<1> QED BY <1>6, <1>7

\* A crash ends the reads, and empties what is not logged.
LEMMA CrashImplements ==
  ASSUME ImageSeen, ImageSeen', Crash
  PROVE  Contract!Crash
<1>1. /\ call' = [b \in Backends |-> None]
      /\ history' = [r \in Relations |-> IF r \in Permanent THEN history[r] ELSE <<{}>>]
  BY DEF Crash
<1>2. ContractRead' = [b \in Backends |-> None]
  BY <1>1 DEF ContractRead
<1>3. ASSUME NEW r \in Relations
      PROVE  Current(r)' = IF r \in Permanent THEN Current(r) ELSE [gen |-> 1, effects |-> {}]
  <2>1. CASE r \in Permanent
    BY <1>1, <2>1 DEF Current, Generation, Latest
  <2>2. CASE r \notin Permanent
    BY <1>1, <2>2, FirstImage DEF Current, Generation, Latest
  <2> QED BY <2>1, <2>2
<1>4. ContractImage' = [r \in Relations |-> Current(r)']
  BY DEF ImageSeen
<1> QED BY <1>2, <1>3, <1>4 DEF Contract!Crash, Contract!Empty, ImageSeen

\* The first images are empty, and nobody reads.
LEMMA InitImplements ==
  ASSUME ImageSeen, Init
  PROVE  Contract!Init
<1>1. ASSUME NEW r \in Relations PROVE Current(r) = [gen |-> 1, effects |-> {}]
  BY FirstImage DEF Init, Current, Generation, Latest
<1>2. ContractRead = [b \in Backends |-> None]
  BY DEF ContractRead, Init
<1> QED BY <1>1, <1>2 DEF Contract!Init, Contract!Empty, ImageSeen

\* Every step is one of the contract's, or none.
LEMMA NextImplements ==
  ASSUME WritesRunThrough, IInv, ImageSeen, ImageSeen', [Next]_vars
  PROVE  [Contract!Next]_(Contract!vars)
<1>1. ASSUME NEW b \in Backends, NEW op \in Operations, NEW r \in Relations, StartCall(b, op, r)
      PROVE  [Contract!Next]_(Contract!vars)
  BY <1>1, StartCallImplements
<1>2. ASSUME NEW b \in Backends, Acquire(b) PROVE [Contract!Next]_(Contract!vars)
  BY <1>2, PeekImplements, LoadStartImplements, WriterImplements DEF Acquire
<1>3. ASSUME NEW b \in Backends, Proceed(b) PROVE [Contract!Next]_(Contract!vars)
  <2>1. ASSUME Return(b) PROVE [Contract!Next]_(Contract!vars)
    BY <2>1, LeaveStep DEF Return, Contract!Next
  <2> QED BY <1>3, <2>1, ConsultImplements, LoadPageImplements, LoadEndImplements,
             WritePageImplements, WriterImplements DEF Proceed
<1>4. ASSUME NEW b \in Backends, Raise(b) PROVE [Contract!Next]_(Contract!vars)
  BY <1>4, LeaveStep DEF Raise, Contract!Next
<1>5. ASSUME UNCHANGED <<call, history>> PROVE UNCHANGED Contract!vars
  <2>1. UNCHANGED ContractImage
    BY <1>5 DEF ImageSeen, Current, Generation, Latest
  <2>2. UNCHANGED ContractRead
    BY <1>5 DEF ContractRead, Doing, ImageAt
  <2> QED BY <2>1, <2>2 DEF Contract!vars
<1>6. ASSUME NEW r \in Relations, FlushWal(r) \/ Checkpoint(r)
      PROVE  [Contract!Next]_(Contract!vars)
  BY <1>5, <1>6 DEF FlushWal, Checkpoint
<1>7. CASE Crash
  BY <1>7, CrashImplements DEF Contract!Next
<1>8. CASE UNCHANGED vars
  BY <1>5, <1>8 DEF vars
<1> QED BY <1>1, <1>2, <1>3, <1>4, <1>6, <1>7, <1>8 DEF Next

\* Pages, locks, log and caches implement one value per relation that a write replaces at
\* once (storage.rs against AtomicImage): no read is torn or stale, and no write is lost.
THEOREM ImplementsAtomicImage ==
  ASSUME WritesRunThrough
  PROVE  Spec => ActsAtomically
<1>1. IInv => ImageSeen
  BY ContractSeesCurrent
<1>2. Init => IInv
  BY InitInv
<1>3. ASSUME Init PROVE Contract!Init
  BY <1>1, <1>2, <1>3, InitImplements
<1>4. IInv /\ ImageSeen /\ ImageSeen' /\ [Next]_vars => [Contract!Next]_(Contract!vars)
  BY NextImplements
<1>5. Spec => []IInv
  BY Inductive
<1> QED BY <1>1, <1>3, <1>4, <1>5, PTL DEF Spec, ActsAtomically, Contract!Spec

-----------------------------------------------------------------------------
(* The ceiling of the cache.                                               *)

\* What copies weigh is a number, which fewer of them do not exceed.
LEMMA WeightFewer ==
  ASSUME NEW c, NEW keys \in SUBSET Relations, NEW fewer \in SUBSET keys
  PROVE  /\ IsFiniteSet(Held(c, keys)) /\ Weight(c, keys) \in Nat
         /\ IsFiniteSet(Held(c, fewer)) /\ Weight(c, fewer) \in Nat
         /\ Weight(c, fewer) <= Weight(c, keys)
<1>1. IsFiniteSet(keys) /\ IsFiniteSet(1 .. MaxPages)
  BY SizesAssumption, FS_Subset, FS_Interval
<1>2. IsFiniteSet(keys \X (1 .. MaxPages))
  BY <1>1, FS_Product
<1>3. Held(c, keys) \in SUBSET (keys \X (1 .. MaxPages)) /\ Held(c, fewer) \in SUBSET Held(c, keys)
  BY DEF Held
<1>4. IsFiniteSet(Held(c, keys))
  BY <1>2, <1>3, FS_Subset
<1>5. IsFiniteSet(Held(c, fewer)) /\ Cardinality(Held(c, fewer)) <= Cardinality(Held(c, keys))
  BY <1>3, <1>4, FS_Subset
<1> QED BY <1>4, <1>5, FS_CardinalityType DEF Weight

\* No copy, no weight.
LEMMA WeightOfNone ==
  ASSUME NEW c
  PROVE  Weight(c, {}) = 0
<1>1. Held(c, {}) = {}
  BY DEF Held
<1> QED BY <1>1, FS_EmptySet DEF Weight

\* One copy weighs what it weighs.
LEMMA WeightOfOne ==
  ASSUME NEW c, NEW r, c[r].bytes \in 1 .. MaxPages
  PROVE  IsFiniteSet(Held(c, {r})) /\ Weight(c, {r}) = c[r].bytes
<1> DEFINE n == c[r].bytes
<1>1. n \in 1 .. MaxPages /\ MaxPages \in Nat
  BY SizesAssumption
<1>2. Held(c, {r}) = {r} \X (1 .. n)
  BY <1>1 DEF Held
<1> HIDE DEF n
<1>3. n \in Nat /\ IsFiniteSet(1 .. n) /\ Cardinality(1 .. n) = n
  <2>1. 1 \in Int /\ n \in Int /\ ~(1 > n)
    BY <1>1
  <2>2. IsFiniteSet(1 .. n) /\ Cardinality(1 .. n) = n - 1 + 1
    BY <2>1, FS_Interval
  <2> QED BY <2>1, <2>2, <1>1
<1>4. IsFiniteSet({r}) /\ Cardinality({r}) = 1
  BY FS_Singleton
<1>5. IsFiniteSet({r} \X (1 .. n))
      /\ Cardinality({r} \X (1 .. n)) = Cardinality({r}) * Cardinality(1 .. n)
  BY <1>3, <1>4, FS_Product
<1>6. Cardinality({r} \X (1 .. n)) = n
  BY <1>3, <1>4, <1>5
<1> QED BY <1>2, <1>5, <1>6 DEF Weight, n

\* A copy that comes in adds its weight at most.
LEMMA WeightWithOne ==
  ASSUME NEW c, NEW d, NEW keys \in SUBSET Relations, NEW r \in Relations,
         d[r].bytes \in 1 .. MaxPages, \A x \in keys \ {r} : d[x] = c[x]
  PROVE  Weight(d, keys \cup {r}) <= Weight(c, keys) + d[r].bytes
<1> DEFINE A == Held(c, keys \ {r})
           B == Held(d, {r})
<1>1. Held(d, keys \cup {r}) = A \cup B
  BY DEF Held
<1>2. IsFiniteSet(A) /\ Cardinality(A) <= Weight(c, keys) /\ Weight(c, keys) \in Nat
      /\ Cardinality(A) \in Nat
  BY WeightFewer DEF Weight
<1>3. IsFiniteSet(B) /\ Cardinality(B) = d[r].bytes
  BY WeightOfOne DEF Weight
<1> HIDE DEF A, B
<1>4. Cardinality(A \cup B) = Cardinality(A) + Cardinality(B) - Cardinality(A \cap B)
  BY <1>2, <1>3, FS_Union
<1>5. A \cap B \in SUBSET A
  OBVIOUS
<1>6. IsFiniteSet(A \cap B)
  BY <1>2, <1>5, FS_Subset
<1>7. Cardinality(A \cap B) \in Nat
  BY <1>6, FS_CardinalityType
<1>8. Cardinality(A \cup B) <= Weight(c, keys) + Cardinality(B)
  <2>1. Cardinality(B) \in Nat
    BY <1>3, FS_CardinalityType
  <2> DEFINE w == Weight(c, keys)
  <2>2. w \in Nat /\ Cardinality(A) <= w
    BY <1>2
  <2> HIDE DEF w
  <2>3. Cardinality(A \cup B) <= w + Cardinality(B)
    BY ONLY <2>1, <2>2, <1>2, <1>4, <1>7
  <2> QED BY <2>3 DEF w
<1> QED BY <1>1, <1>3, <1>8 DEF Weight

\* What is left of a cache when it keeps some of its keys.
LEMMA OnlyKept ==
  ASSUME NEW c, NEW kept \in SUBSET Keys(c)
  PROVE  Keys(Only(c, kept)) = kept /\ Weight(Only(c, kept), kept) = Weight(c, kept)
<1>1. \A r \in kept : r \in Relations /\ c[r] # None /\ Only(c, kept)[r] = c[r]
  BY DEF Keys, Only
<1>2. Keys(Only(c, kept)) = kept
  BY <1>1 DEF Keys, Only
<1>3. Held(Only(c, kept), kept) = Held(c, kept)
  BY <1>1 DEF Held
<1> QED BY <1>2, <1>3 DEF Weight

\* Once a scan has read the ceiling, its backend's cache is within it.
CeilingInv ==
  \A b \in Backends :
    (call[b] # None /\ Doing(b, {"scan"}) /\ ~At(b, "start") /\ ~At(b, "consult")) =>
      Weight(cache[b], Keys(cache[b])) <= call[b].ceiling

\* The look in the cache makes it so.
LEMMA ConsultCeiling ==
  ASSUME IInv, CeilingInv, NEW b \in Backends, Consult(b)
  PROVE  CeilingInv'
<1> DEFINE c == call[b]
           r == c.rel
           copy == cache[b][r]
<1>1. c # None /\ c \in Call /\ r \in Relations
  BY CallUnderWay DEF Consult, At
<1>2. /\ cache \in [Backends -> [Relations -> Copy \cup {None}]]
      /\ call \in [Backends -> Call \cup {None}]
  BY DEF IInv, TypeInv, TypeOK
<1>3. PICK ceiling \in Ceilings :
         \E kept \in (IF ceiling = 0 THEN {{}} ELSE Evictions(cache[b], {r}, ceiling)) :
           IF r \in kept /\ Usable(copy, c.tag, ceiling)
           THEN /\ cache' = [cache EXCEPT ![b] = Only(@, kept)]
                /\ Continue(b, [c EXCEPT !.step = "done", !.ceiling = ceiling,
                                         !.gen = copy.gen, !.effects = copy.effects])
           ELSE /\ cache' = [cache EXCEPT ![b] = Only(@, kept \ {r})]
                /\ Continue(b, [c EXCEPT !.step = "fetch", !.ceiling = ceiling])
  BY DEF Consult
<1>4. PICK kept \in (IF ceiling = 0 THEN {{}} ELSE Evictions(cache[b], {r}, ceiling)) :
           IF r \in kept /\ Usable(copy, c.tag, ceiling)
           THEN /\ cache' = [cache EXCEPT ![b] = Only(@, kept)]
                /\ Continue(b, [c EXCEPT !.step = "done", !.ceiling = ceiling,
                                         !.gen = copy.gen, !.effects = copy.effects])
           ELSE /\ cache' = [cache EXCEPT ![b] = Only(@, kept \ {r})]
                /\ Continue(b, [c EXCEPT !.step = "fetch", !.ceiling = ceiling])
  BY <1>3
<1>5. ceiling \in Nat
  BY SizesAssumption
<1>6. kept \in SUBSET Keys(cache[b])
      /\ (Weight(cache[b], kept) <= ceiling \/ kept \subseteq {r})
  <2>1. CASE ceiling = 0
    BY <1>4, <2>1
  <2>2. CASE ceiling # 0
    BY <1>4, <2>2 DEF Evictions
  <2> QED BY <2>1, <2>2
<1>7. PICK left \in SUBSET Keys(cache[b]) :
        /\ cache' = [cache EXCEPT ![b] = Only(@, left)]
        /\ call'[b].ceiling = ceiling /\ \A e \in Backends \ {b} : call'[e] = call[e]
        /\ Weight(cache[b], left) <= ceiling
  <2>1. CASE r \in kept /\ Usable(copy, c.tag, ceiling)
    <3>1. Weight(cache[b], kept) <= ceiling
      <4>1. CASE kept \subseteq {r}
        <5>1. kept = {r} /\ copy \in Copy /\ copy.bytes <= ceiling
          BY <1>1, <1>2, <2>1, <4>1 DEF Usable
        <5>2. copy.bytes \in 1 .. MaxPages
          BY <5>1 DEF Copy
        <5> QED BY <5>1, <5>2, WeightOfOne
      <4> QED BY <1>6, <4>1
    <3>2. call' = [call EXCEPT ![b] = [c EXCEPT !.step = "done", !.ceiling = ceiling,
                                         !.gen = copy.gen, !.effects = copy.effects]]
      BY <1>4, <2>1 DEF Continue
    <3>3. call'[b].ceiling = ceiling /\ \A e \in Backends \ {b} : call'[e] = call[e]
      BY <1>1, <1>2, <3>2 DEF Call
    <3> QED BY <1>4, <1>6, <2>1, <3>1, <3>3
  <2>2. CASE ~(r \in kept /\ Usable(copy, c.tag, ceiling))
    <3>1. Weight(cache[b], kept \ {r}) <= ceiling
      <4>1. CASE kept \subseteq {r}
        <5>1. kept \ {r} = {}
          BY <4>1
        <5> QED BY <1>5, <5>1, WeightOfNone
      <4>2. CASE Weight(cache[b], kept) <= ceiling
        <5>1. kept \in SUBSET Relations /\ kept \ {r} \in SUBSET kept
          BY <1>6 DEF Keys
        <5> QED BY <1>5, <4>2, <5>1, WeightFewer
      <4> QED BY <1>6, <4>1, <4>2
    <3>2. call' = [call EXCEPT ![b] = [c EXCEPT !.step = "fetch", !.ceiling = ceiling]]
      BY <1>4, <2>2 DEF Continue
    <3>3. call'[b].ceiling = ceiling /\ \A e \in Backends \ {b} : call'[e] = call[e]
      BY <1>1, <1>2, <3>2 DEF Call
    <3> QED BY <1>4, <1>6, <2>2, <3>1, <3>3
  <2> QED BY <2>1, <2>2
<1>8. cache'[b] = Only(cache[b], left) /\ \A e \in Backends \ {b} : cache'[e] = cache[e]
  BY <1>2, <1>7
<1>9. Weight(cache'[b], Keys(cache'[b])) <= call'[b].ceiling
  BY <1>7, <1>8, OnlyKept
<1>10. \A e \in Backends \ {b} : call'[e] = call[e] /\ cache'[e] = cache[e]
  BY <1>7, <1>8
<1> QED BY <1>9, <1>10 DEF CeilingInv, Doing, At

\* What was loaded comes in only where there is room for it, or is made.
LEMMA LoadEndCeiling ==
  ASSUME IInv, CeilingInv, NEW b \in Backends, LoadEnd(b)
  PROVE  CeilingInv'
<1> DEFINE c == [call[b] EXCEPT !.chunks = <<>>,
                 !.effects = call[b].chunks[1].of,
                 !.step = IF Doing(b, {"scan", "stage"}) THEN "done" ELSE "apply"]
<1>1. /\ call[b] # None /\ call[b].step = "load" /\ call[b] \in Call /\ call[b].rel \in Relations
      /\ CallOK(b, call[b])
  BY CallUnderWay DEF LoadEnd, At
<1>2. /\ cache \in [Backends -> [Relations -> Copy \cup {None}]]
      /\ call \in [Backends -> Call \cup {None}]
      /\ pages \in [Relations -> Pages]
  BY DEF IInv, TypeInv, TypeOK
<1>3. /\ call' = [call EXCEPT ![b] = c]
      /\ IF c.op = "scan" THEN Fill(b, c) ELSE UNCHANGED cache
  BY DEF LoadEnd, Continue
<1>4. /\ c.op = call[b].op /\ c.rel = call[b].rel /\ c.len = call[b].len
      /\ c.ceiling = call[b].ceiling /\ c.tag = call[b].tag /\ c.ceiling \in Nat
  BY <1>1 DEF Call
<1> HIDE DEF c
<1>5. call'[b] = c /\ \A e \in Backends \ {b} : call'[e] = call[e]
  BY <1>2, <1>3
<1>6. \A e \in Backends \ {b} : cache'[e] = cache[e]
  BY <1>2, <1>3 DEF Fill
<1>7. CASE cache' = cache
  BY <1>1, <1>4, <1>5, <1>7 DEF CeilingInv, Doing, At
<1>8. CASE cache' # cache
  <2>1. c.op = "scan" /\ c.len <= c.ceiling /\ c.rel \in Relations
    <3>1. c.op = "scan" /\ ~(c.ceiling = 0 \/ c.len > c.ceiling)
      BY <1>3, <1>8 DEF Fill
    <3>2. c.len \in Nat
      BY <1>1, <1>4, SizesAssumption DEF Call
    <3> QED BY <1>1, <1>4, <3>1, <3>2
  <2> DEFINE copy == [gen |-> c.tag, effects |-> c.effects, bytes |-> c.len]
  <2>2. PICK kept \in Evictions(cache[b], {}, c.ceiling - c.len) :
          cache' = [cache EXCEPT ![b] = [Only(@, kept) EXCEPT ![c.rel] = copy]]
    BY <1>3, <1>8, <2>1 DEF Fill
  <2>3. c.len \in 1 .. MaxPages
    <3>1. Meta(c.rel) \in MetaPage
      BY <1>1, <1>2, <1>4 DEF Meta, Pages
    <3>2. c.len = Meta(c.rel).len
      BY <1>1, <1>4 DEF CallOK, LoadOK
    <3> QED BY <3>1, <3>2 DEF MetaPage
  <2>4. kept \in SUBSET Keys(cache[b]) /\ kept \in SUBSET Relations
        /\ Weight(cache[b], kept) <= c.ceiling - c.len
    <3>1. kept \in SUBSET Keys(cache[b])
          /\ (Weight(cache[b], kept) <= c.ceiling - c.len \/ kept = {})
      BY DEF Evictions
    <3>2. kept \in SUBSET Relations
      BY <3>1 DEF Keys
    <3> QED BY <1>4, <2>1, <2>3, <3>1, <3>2, WeightOfNone
  <2>5. cache'[b] = [Only(cache[b], kept) EXCEPT ![c.rel] = copy]
    BY <1>2, <2>2
  <2>6. /\ cache'[b][c.rel] = copy
        /\ \A x \in Relations \ {c.rel} : cache'[b][x] = Only(cache[b], kept)[x]
    BY <2>1, <2>5 DEF Only
  <2>7. copy.bytes = c.len
    OBVIOUS
  <2> HIDE DEF copy
  <2>8. /\ Keys(cache'[b]) \subseteq kept \cup {c.rel}
        /\ \A x \in kept \ {c.rel} : cache'[b][x] = cache[b][x]
    BY <2>4, <2>6 DEF Keys, Only
  <2>9. Weight(cache'[b], kept \cup {c.rel}) <= Weight(cache[b], kept) + c.len
    <3>1. cache'[b][c.rel].bytes = c.len
      BY <2>6, <2>7
    <3>2. cache'[b][c.rel].bytes \in 1 .. MaxPages
      BY <2>3, <3>1
    <3>3. Weight(cache'[b], kept \cup {c.rel})
            <= Weight(cache[b], kept) + cache'[b][c.rel].bytes
      BY <2>1, <2>4, <2>8, <3>2, WeightWithOne
    <3> QED BY <3>1, <3>3
  <2>10. kept \cup {c.rel} \in SUBSET Relations /\ Keys(cache'[b]) \in SUBSET (kept \cup {c.rel})
    BY <2>1, <2>4, <2>8
  <2>11. /\ Weight(cache'[b], Keys(cache'[b])) \in Nat
         /\ Weight(cache'[b], kept \cup {c.rel}) \in Nat
         /\ Weight(cache'[b], Keys(cache'[b])) <= Weight(cache'[b], kept \cup {c.rel})
    BY <2>10, WeightFewer
  <2>12. Weight(cache[b], kept) \in Nat
    BY <2>4, WeightFewer
  <2>13. Weight(cache'[b], Keys(cache'[b])) <= call'[b].ceiling
    BY <1>4, <1>5, <2>3, <2>4, <2>9, <2>11, <2>12
  <2> QED BY <1>5, <1>6, <2>13 DEF CeilingInv, Doing, At
<1> QED BY <1>7, <1>8

\* Every other step leaves caches alone, or empties them all, and starts no scan past its
\* look.
LEMMA NextCeiling ==
  ASSUME IInv, CeilingInv, [Next]_vars
  PROVE  CeilingInv'
<1> DEFINE Past(c) == c # None /\ c.op = "scan" /\ c.step \notin {"start", "consult"}
<1>1. \A b \in Backends : Past(call[b]) => Weight(cache[b], Keys(cache[b])) <= call[b].ceiling
  BY DEF CeilingInv, At, Doing
<1>2. call \in [Backends -> Call \cup {None}]
  BY DEF IInv, TypeInv, TypeOK
<1>3. ASSUME cache' = cache,
             \A b \in Backends : Past(call'[b]) => Past(call[b]) /\ call'[b].ceiling = call[b].ceiling
      PROVE  CeilingInv'
  BY <1>1, <1>3 DEF CeilingInv, At, Doing
<1>4. ASSUME cache' = cache, NEW b \in Backends, \A e \in Backends \ {b} : call'[e] = call[e],
             Past(call'[b]) => Past(call[b]) /\ call'[b].ceiling = call[b].ceiling
      PROVE  CeilingInv'
  BY <1>3, <1>4
<1>5. \A b \in Backends : call[b] # None =>
        /\ call[b] \in Call
        /\ call[b].step \in {"apply", "write", "log", "unlock"} => call[b].op # "scan"
  BY <1>2 DEF IInv, CallsInv, FlowOK
<1>6. ASSUME NEW b \in Backends, NEW op \in Operations, NEW r \in Relations, StartCall(b, op, r)
      PROVE  CeilingInv'
  <2>1. call'[b].step = "start" /\ \A e \in Backends \ {b} : call'[e] = call[e]
    BY <1>2, <1>6 DEF StartCall, Continue
  <2> QED BY <1>4, <1>6, <2>1 DEF StartCall
<1>7. ASSUME NEW b \in Backends, Peek(b) PROVE CeilingInv'
  <2>1. call[b] \in Call /\ cache' = cache
        /\ call' = [call EXCEPT ![b] = [call[b] EXCEPT !.tag = Meta(call[b].rel).gen,
                                                      !.step = "consult"]]
    BY <1>5, <1>7 DEF Peek, Continue, At
  <2>2. call'[b].step = "consult" /\ \A e \in Backends \ {b} : call'[e] = call[e]
    BY <1>2, <2>1 DEF Call
  <2> QED BY <1>4, <2>1, <2>2
<1>8. ASSUME NEW b \in Backends, LoadStart(b) PROVE CeilingInv'
  <2>1. /\ call[b] \in Call /\ cache' = cache
        /\ call[b].step = "fetch" \/ call[b].op = "stage"
        /\ call' = [call EXCEPT ![b] =
             [call[b] EXCEPT !.step = "load", !.chunks = <<>>,
                             !.gen = Meta(call[b].rel).gen, !.len = Meta(call[b].rel).len]]
    BY <1>5, <1>8 DEF LoadStart, Continue, At, Doing
  <2>2. /\ call'[b].op = call[b].op /\ call'[b].ceiling = call[b].ceiling
        /\ \A e \in Backends \ {b} : call'[e] = call[e]
    BY <1>2, <2>1 DEF Call
  <2>3. call[b] # None
    BY <1>8 DEF LoadStart, At
  <2> QED BY <1>4, <2>1, <2>2, <2>3
<1>9. ASSUME NEW b \in Backends, WriteLock(b) PROVE CeilingInv'
  <2> DEFINE c == call[b]
             step == IF c.op = "flush" /\ c.tag = Meta(c.rel).gen THEN "apply" ELSE "fetch"
  <2>1. /\ call[b] \in Call /\ cache' = cache /\ call[b].op # "scan"
        /\ call' = [call EXCEPT ![b] = [call[b] EXCEPT !.step = step, !.tag = 0]]
    BY <1>5, <1>9 DEF WriteLock, Continue, At, Doing
  <2> HIDE DEF step
  <2>2. call'[b].op = call[b].op /\ \A e \in Backends \ {b} : call'[e] = call[e]
    BY <1>2, <2>1 DEF Call
  <2> QED BY <1>4, <2>1, <2>2
<1>10. ASSUME NEW b \in Backends, LoadPage(b) PROVE CeilingInv'
  <2> DEFINE page == pages[call[b].rel][Len(call[b].chunks) + 2]
  <2>1. /\ call[b] \in Call /\ call[b] # None /\ cache' = cache /\ call[b].step = "load"
        /\ call' = [call EXCEPT ![b] = [call[b] EXCEPT !.chunks = Append(@, page)]]
    BY <1>5, <1>10 DEF LoadPage, Continue, At
  <2> HIDE DEF page
  <2>2. /\ call'[b].op = call[b].op /\ call'[b].ceiling = call[b].ceiling
        /\ \A e \in Backends \ {b} : call'[e] = call[e]
    BY <1>2, <2>1 DEF Call
  <2> QED BY <1>4, <2>1, <2>2
<1>11. ASSUME NEW b \in Backends,
              Apply(b) \/ NothingRemoved(b) \/ WritePage(b) \/ LogBatch(b)
       PROVE  CeilingInv'
  <2>1. call[b] \in Call /\ call[b].op # "scan" /\ cache' = cache
    BY <1>5, <1>11 DEF Apply, NothingRemoved, WritePage, LogBatch, At
  <2>2. call'[b].op = call[b].op /\ \A e \in Backends \ {b} : call'[e] = call[e]
    <3>1. CASE Apply(b)
      BY <1>2, <2>1, <3>1 DEF Apply, Continue, Call
    <3>2. CASE NothingRemoved(b)
      BY <1>2, <2>1, <3>2 DEF NothingRemoved, Goto, Call
    <3>3. CASE WritePage(b)
      BY <1>2, <2>1, <3>3 DEF WritePage, Continue, Call
    <3>4. CASE LogBatch(b)
      BY <1>2, <2>1, <3>4 DEF LogBatch, Continue, Call
    <3> QED BY <1>11, <3>1, <3>2, <3>3, <3>4
  <2>3. ~Past(call'[b])
    BY <2>1, <2>2
  <2> HIDE DEF Past
  <2> QED BY <1>4, <2>1, <2>2, <2>3, Zenon
<1>12. ASSUME NEW b \in Backends, WriteUnlock(b) \/ Return(b) \/ Raise(b) PROVE CeilingInv'
  <2>1. cache' = cache /\ call' = [call EXCEPT ![b] = None]
    BY <1>12 DEF WriteUnlock, Return, Raise
  <2>2. call'[b] = None /\ \A e \in Backends \ {b} : call'[e] = call[e]
    BY <1>2, <2>1
  <2> QED BY <1>4, <2>1, <2>2
<1>13. ASSUME NEW r \in Relations, FlushWal(r) \/ Checkpoint(r) PROVE CeilingInv'
  BY <1>3, <1>13 DEF FlushWal, Checkpoint
<1>14. CASE Crash
  BY <1>14 DEF Crash, CeilingInv, At
<1>15. CASE UNCHANGED vars
  BY <1>3, <1>15 DEF vars
<1> QED
  BY <1>6, <1>7, <1>8, <1>9, <1>10, <1>11, <1>12, <1>13, <1>14, <1>15, ConsultCeiling, LoadEndCeiling
  DEF Next, Acquire, Proceed

\* When a scan has its index, its backend's cache is within the ceiling that the scan
\* read, for any number of relations and any evictions (cached_index).
THEOREM CachesAreBounded ==
  ASSUME WritesRunThrough
  PROVE  Spec => []CacheWithinCeiling
<1>1. Init => CeilingInv
  BY DEF Init, CeilingInv, At
<1>2. IInv /\ CeilingInv /\ [Next]_vars => CeilingInv'
  BY NextCeiling
<1>3. CeilingInv => CacheWithinCeiling
  BY DEF CeilingInv, CacheWithinCeiling, At, Doing
<1> QED BY <1>1, <1>2, <1>3, Inductive, PTL DEF Spec
=============================================================================
