CONSTANTS
  Buffers = {f1}
  Chains = {c1, c2}
  Blocks = {b1, b2, b3}
  BlockSize = 2
  MaxBytes = 4
  MaxSlices = 3
  MaxMade = 3
SYMMETRY Symmetry
SPECIFICATION Spec
INVARIANTS
  TypeOK
  ViewIsUnread
  ChainsIntact
  RefcountExact
