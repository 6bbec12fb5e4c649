CONSTANTS
  Owners = {o1, o2}
  NoOwner = NoOwner
  MaxBatch = 2
  MaxCommands = 2
SPECIFICATION FairSpec
PROPERTIES
  StopCompletes
  EveryCommandSettles
  KeepsContract
