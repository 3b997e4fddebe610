SPECIFICATION FairSpec
CONSTANTS
  TreeConfigs <- MCTreeConfigs
  Depths <- MCDepths
  Exposed = {2}
INVARIANTS
  TypeOK
  StatusTracksRun
  TreeInMemory
PROPERTY ImplementsHandshake
