\* Two backends and a VACUUM: replays, settles, heap pointers handed out again, errors.
SPECIFICATION Spec
CONSTANTS
  None = None
  Indexes = {i1}
  Tids = {t1, n1}
  Vectorless = {n1}
  Backends = {b1, b2}
  InitialRows = {t1, n1}
  MaxDepth = 1
  MaxSubs = 1
  MaxInserts = 2
  MaxRebuilds = 0
  CanVacuum = TRUE
  CanDrop = FALSE
  Faults = {"settle", "flush", "stage"}
  RiskDepth = 0
SYMMETRY Symmetry
INVARIANTS
  NoRowLost NoRowTwice NoDanglingEntry BaseIsCurrent
PROPERTIES WritesOnlyLiveRows
