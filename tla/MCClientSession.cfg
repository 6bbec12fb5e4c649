CONSTANTS
  Sessions = {s1}
  NumChannels = 2
  MaxScript = 4
  Scripts <- MCScripts
  Budget = 2
  OutBatch = 2
SPECIFICATION Spec
INVARIANTS
  RepliesInRequestOrder
  PendingOnCurrent
  DrainedIsComplete
