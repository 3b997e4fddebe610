SPECIFICATION FairSpec
CHECK_DEADLOCK FALSE
CONSTANTS
  Depths <- MCDepths
  Offsets <- MCOffsets
  BranchCounts <- MCBranchCounts
  MaxPolls = 2
INVARIANTS
  TypeOK
  PredictionIsOwn
  HypothesesAreOwn
PROPERTY CycleEnds
