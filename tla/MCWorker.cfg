CONSTANTS
  NumWorkers = 2
  MaxFds = 3
SPECIFICATION FairSpec
INVARIANTS
  NoLostWakeup
  FlagIsExact
  HandedOverInTurn
PROPERTIES
  EveryFdServed
  EverySessionFreed
