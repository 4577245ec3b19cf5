\* A row inserted after every row of the graph was deleted and vacuumed.
SPECIFICATION Spec
CONSTANTS
  Unfiltered = Unfiltered
  Points = {0, 1, 2}
  Distance <- ArcDistance
  Undefined = Undefined
  M = 2
  Dim = 3
  Arity = 2
  RowOf <- LineRows
  SideRows <- TwoSideRows
  MIN_SLOTS = 4194304
  Gamma = 1
  EfConstruction = 2
  Levels = {0, 1}
  MaxNodes = 3
  MaxDead = 1
  MaxCompacted = 0
INVARIANTS LiveNodesReachable
