SPECIFICATION FairSpec
CONSTANTS
  NaN = NaN
  Floor <- MCFloor
  MaxVectors = 3
  MaxDimension = 1
  Elem <- MCElem
  Dot <- MCDot
PROPERTIES
  StartIsAtomic
  SearchTerminates
