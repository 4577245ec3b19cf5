\* A row refused inside a savepoint, and another backend's TRUNCATE.
SPECIFICATION Spec
CONSTANTS
  None = None
  Indexes = {i1}
  Tids = {t1, t2}
  Vectorless = {}
  Backends = {b1, b2}
  InitialRows = {t1}
  MaxDepth = 1
  MaxSubs = 1
  MaxInserts = 1
  MaxRebuilds = 1
  CanVacuum = FALSE
  CanDrop = FALSE
  Faults = {"stage"}
  RiskDepth = 1
SYMMETRY Symmetry
INVARIANTS
  NoDanglingEntry
