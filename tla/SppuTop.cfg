SPECIFICATION FairSpec
CONSTANT BusWrites <- MCBusWrites
INVARIANTS
  BusyHasEngine
  TreeStatusTracksEngine
PROPERTY BusySearchCompletes
