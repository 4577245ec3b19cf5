\* A flush that fails inside a savepoint.
SPECIFICATION Spec
CONSTANTS
  None = None
  Indexes = {i1}
  Tids = {t1, t2}
  Vectorless = {}
  Backends = {b1}
  InitialRows = {}
  MaxDepth = 1
  MaxSubs = 2
  MaxInserts = 2
  MaxRebuilds = 0
  CanVacuum = FALSE
  CanDrop = FALSE
  Faults = {"flush"}
  RiskDepth = 1
SYMMETRY Symmetry
INVARIANTS
  NoRowLost
