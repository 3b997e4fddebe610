SPECIFICATION HostFairSpec
CONSTANTS
  BusWrites = {}
  Users = {"search", "seu"}
  SearchMask <- DriverMask
  ResetsFirst = TRUE
  Abandons = TRUE
INVARIANTS
  HostTypeOK
  FreshResult
  FreshTree
  NoLostCompletion
PROPERTIES
  SearchEnds
  PredictionEnds
  CompletionReported
