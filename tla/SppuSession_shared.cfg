SPECIFICATION Spec
CONSTANTS
  NaN = NaN
  Floor <- MCFloor
  MaxVectors = 2
  MaxDimension = 2
  Elem <- MCElem
  Dot <- MCDot
  Clients = {c1, c2}
  Databases <- MCDatabases
  Queries <- MCQueries
INVARIANTS
  AnswerIsOwn
