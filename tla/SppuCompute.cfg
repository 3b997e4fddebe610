SPECIFICATION ComputeFairSpec
CONSTANTS
  MaxCount = 2
  MaxDimension = 4
  BurstWords = 2
  MemoryWords = 12
  TreeArea = {4}
INVARIANT BeatsStored
PROPERTIES
  EnginesImplementHandshake
  StepProgresses
