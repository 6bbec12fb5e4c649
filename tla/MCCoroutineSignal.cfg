CONSTANTS
  Coroutines = {c1, c2, c3}
SPECIFICATION FairSpec
INVARIANTS
  NothingMissed
PROPERTIES
  ReturnsOnNews
  ImplementsSticky
CHECK_DEADLOCK FALSE
