SPECIFICATION Spec
CONSTANTS
  Proc = {p1, p2}
  MaxRows = 3
  MaxSeals = 2
  MaxAborts = 2
  BlockCap = 2
  ExclusiveSealer = TRUE
SYMMETRY Symmetry
INVARIANTS NoEventLost SealedInOrder CursorAtHead StableViewComplete
PROPERTIES ChainAppendOnly LogSpec
CHECK_DEADLOCK FALSE
