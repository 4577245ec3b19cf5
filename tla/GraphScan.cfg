\* Scans over three graphs of eight nodes, one with zero vectors, and an empty one, with predicates that match next to nothing.
SPECIFICATION ScanSpec
CONSTANTS
  Unfiltered = Unfiltered
  Points = {0, 1, 2, 3, 4, 5, 6, 7, 8}
  Distance <- ArcDistance
  Undefined = Undefined
  M = 2
  Gamma = 1
  EfConstruction = 2
  Levels = {0, 1, 2}
  MaxNodes = 8
  MaxDead = 2
  MaxCompacted = 0
  Builds <- LineBuilds
  Burials <- LineBurials
  Unrankable <- SideTable
  Queries = {0, 1, 5}
  WhereClauses <- LineClauses
  Attributes <- LineAttributes
  Columns <- TwoColumns
  NaN = NaN
  Null = Null
  Budgets = {1, 3}
  DETOURS_PER_EF = 2
  EXPANSIONS_PER_EF = 2
INVARIANTS
  ScanTypeOK ResultsAreNearestSeen EndsShortOnlyWhenSpent WithinAllowances RowsInOrder
  ScanAnswersTheQuery DroppedOnce
PROPERTIES FootholdKept SearchEnds
