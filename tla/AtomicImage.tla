---------------------------- MODULE AtomicImage ----------------------------
(***************************************************************************)
(* What storage.rs promises of a stored image, to everything above it: a   *)
(* write replaces the image at one moment, building on the image it        *)
(* replaces, and a read returns an image that was current at some moment   *)
(* of the read.  ImageStore shows that pages, locks and caches keep the    *)
(* promise; Staging is written on top of it.                               *)
(***************************************************************************)
EXTENDS Integers

CONSTANTS
  Backends,
  Relations,  \* the physical relations that hold an image each
  Permanent,  \* the ones that outlive a crash
  Writes,     \* what a write adds to an image: rows, or tombstones
  None        \* an absent Option

VARIABLES
  image,  \* per relation: its generation and the writes it includes
  read    \* per backend: the read under way

vars == <<image, read>>

Empty == [gen |-> 1, effects |-> {}]

Init ==
  /\ image = [r \in Relations |-> Empty]
  /\ read = [b \in Backends |-> None]

SetRead(b, v) == read' = [read EXCEPT ![b] = v] /\ UNCHANGED image

Begin(b, r) ==
  /\ read[b] = None
  /\ SetRead(b, [rel |-> r, got |-> None, done |-> FALSE])

\* The moment a read takes effect; a later look replaces an earlier one.
Look(b) ==
  /\ read[b] # None /\ ~read[b].done
  /\ SetRead(b, [read[b] EXCEPT !.got = image[read[b].rel]])

Finish(b) ==
  /\ read[b] # None /\ read[b].got # None
  /\ SetRead(b, [read[b] EXCEPT !.done = TRUE])

\* A reader has used what it read, or went down without it.
Leave(b) == SetRead(b, None)

\* A crash ends every read, and empties the relations that are not logged.
Crash ==
  /\ read' = [b \in Backends |-> None]
  /\ image' = [r \in Relations |-> IF r \in Permanent THEN image[r] ELSE Empty]

Write(r, e) ==
  /\ image' = [image EXCEPT ![r] = [gen |-> @.gen + 1, effects |-> @.effects \cup {e}]]
  /\ UNCHANGED read

Next == \/ \E b \in Backends : \/ \E r \in Relations : Begin(b, r)
                               \/ Look(b) \/ Finish(b) \/ Leave(b)
        \/ Crash
        \/ \E r \in Relations, e \in Writes : Write(r, e)

Spec == Init /\ [][Next]_vars
=============================================================================
