SPECIFICATION FairSpec
CONSTANTS
  NaN = NaN
  Floor <- MCFloor
  MaxVectors = 2
  MaxDimension = 2
  Elem <- MCElem
  Dot <- MCDot
  Clients = {c1}
  Databases <- MCDatabases
  Queries <- MCQueries
INVARIANTS
  TypeOK
  AnswerIsOwn
PROPERTY RequestEnds
