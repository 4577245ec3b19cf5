\* One backend: rows of both kinds, nested savepoints, rebuilds inside them; errors and
\* DROP INDEX outside them.
SPECIFICATION Spec
CONSTANTS
  None = None
  Indexes = {i1}
  Tids = {t1, t2, n1}
  Vectorless = {n1}
  Backends = {b1}
  InitialRows = {}
  MaxDepth = 2
  MaxSubs = 2
  MaxInserts = 2
  MaxRebuilds = 2
  CanVacuum = FALSE
  CanDrop = TRUE
  Faults = {"settle", "flush", "stage"}
  RiskDepth = 0
SYMMETRY Symmetry
INVARIANTS
  TypeOK NoRowLost NoRowTwice
  OneDiscardPerSub DiscardsAreOpen MarksInBounds
