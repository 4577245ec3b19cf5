\* One call at a time, with changes of the table and its indexes between its queries.
SPECIFICATION Spec
CONSTANTS
  Null = Null
  NoIndex = NoIndex
  Rows = {1, 2, 3, 4}
  Indexes = {i1, i2}
  Tables <- FirstTables
  RowValues <- NewDocuments
  ColumnTypes <- Columns
  Calls <- SomeCalls
  WithLists <- SomeLists
  HALF = 4
  MaxRank = 4
  Absorbing = 1000
  EfSearch = 2
  MaxChanges = 1
INVARIANTS
  HybridTypeOK ScoresAreExplained BetterRowsFirst VectorSideFollowsOperator IndexesCanBeRead
