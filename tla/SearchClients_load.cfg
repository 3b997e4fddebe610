SPECIFICATION Spec
CHECK_DEADLOCK FALSE
CONSTANTS
  Floor <- MCFloor
  NaN = NaN
  MaxVectors = 2
  MaxDim = 2
  IndexRange = 100
  Files <- MCFiles
  Dot <- MCDot
  Clients = {c1}
  Queries <- MCQueries
  TopKs = {0, 1, 2, 3, 9}
  MaxTopK = 3
  ToolQueries <- MCQueries
  ToolTopKs = {0, 1, 2, 9}
  ToolMaxTopK = 3
  DefaultTopK = 2
INVARIANTS
  LoadServesSearches
