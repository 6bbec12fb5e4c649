CONSTANTS
  Chains <- MCChains
  MaxIov = 2
  SndBuf = 3
  RcvBuf = 1
SPECIFICATION ReadySpec
INVARIANTS
  SentInOrder
PROPERTIES
  ShutdownReleases
  CallsReturn
