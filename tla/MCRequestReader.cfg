CONSTANTS
  InitialSlots = 1
  Limits = {6, 1000}
  Scripts <- MCScripts
  Budget = 2
SPECIFICATION ReaderSpec
INVARIANTS
  VerdictExact
  ScratchBounded
  BytesAccounted
  EndsForCause
PROPERTIES
  ArrivedIsTaken
CHECK_DEADLOCK FALSE
