SPECIFICATION FairSpec
CHECK_DEADLOCK FALSE
INVARIANTS
  TypeOK
  NothingLeaks
  FileHasMemory
  RunningHandlerHasRegisters
PROPERTIES
  CompletionReported
  UnloadEnds
