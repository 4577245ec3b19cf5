\* One graph: inserts on several layers, tombstones, compaction.
SPECIFICATION Spec
CONSTANTS
  Unfiltered = Unfiltered
  Points = {0, 1, 2}
  Distance <- ArcDistance
  Undefined = Undefined
  M = 2
  Dim = 3
  Arity = 2
  RowOf <- LineRows
  SideRows <- TwoSideRows
  MIN_SLOTS = 4194304
  Gamma = 1
  EfConstruction = 2
  Levels = {0, 1}
  MaxNodes = 5
  MaxDead = 1
  MaxCompacted = 3
INVARIANTS
  TypeOK ImageRoundTrips NeighborsShareTheLayer OneSidedOnlyWhenFull
