CONSTANTS
  Owners = {o1, o2}
  NoOwner = NoOwner
  MaxBatch = 2
  MaxCommands = 3
SYMMETRY Symmetry
SPECIFICATION Spec
INVARIANTS
  TypeOK
  ReplyGoesToItsOwner
  OwedIsQueued
  QueuedCountExact
  NoLostWakeup
  DescriptorHeld
  StoppedIsQuiet
