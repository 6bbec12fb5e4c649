CONSTANTS
  Sessions = {s1, s2}
  NumChannels = 2
  MaxScript = 2
  Scripts <- PairScripts
  Budget = 1
  OutBatch = 1
SYMMETRY Symmetry
SPECIFICATION Spec
INVARIANTS
  RepliesInRequestOrder
  FinishedIsForgotten
