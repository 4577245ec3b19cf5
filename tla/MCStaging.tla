----------------------------- MODULE MCStaging -----------------------------
(* Staging for TLC: symmetry over backends and over rows of one kind.        *)
EXTENDS Staging, TLC

\* Rows with a vector that the table does not start with are interchangeable.
RowSymmetry == Permutations(Tids \ (Vectorless \cup InitialRows))

Symmetry == RowSymmetry \cup Permutations(Backends)
=============================================================================
