SPECIFICATION Spec
CONSTANTS
  Proc = {p1, p2}
  MaxRows = 3
  MaxSeals = 2
  MaxAborts = 0
  BlockCap = 2
  ExclusiveSealer = TRUE
SYMMETRY Symmetry
INVARIANT FreeViewComplete
CHECK_DEADLOCK FALSE
