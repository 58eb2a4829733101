SPECIFICATION Spec
CONSTANTS
  Proc = {p1, p2, p3}
  MaxCalls = 2
SYMMETRY Symmetry
INVARIANTS ExclusiveWithoutTakeover OwnerKeepsCarrier
CHECK_DEADLOCK FALSE
