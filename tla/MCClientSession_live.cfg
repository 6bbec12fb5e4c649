CONSTANTS
  Sessions = {s1}
  NumChannels = 2
  MaxScript = 2
  Scripts <- MCScripts
  Budget = 1
  OutBatch = 2
SPECIFICATION FairSpec
PROPERTIES
  ClosingEnds
  EveryRequestAnswered
