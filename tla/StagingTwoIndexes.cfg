\* Two backends that write two indexes through one slot each: switches, rebuilds by the
\* other backend, and errors at every step that may raise.
SPECIFICATION Spec
CONSTANTS
  None = None
  Indexes = {i1, i2}
  Tids = {t1}
  Vectorless = {}
  Backends = {b1, b2}
  InitialRows = {}
  MaxDepth = 1
  MaxSubs = 0
  MaxInserts = 2
  MaxRebuilds = 1
  CanVacuum = FALSE
  CanDrop = FALSE
  Faults = {"settle", "flush", "stage"}
  RiskDepth = 0
SYMMETRY Symmetry
INVARIANTS
  NoRowLost NoDanglingEntry ReadsItsOwnRows
