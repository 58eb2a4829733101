SPECIFICATION Spec
CONSTANTS
  N = 2
  Modes = {"local"}
  MaxCalls = 3
  MaxMoves = 1
CHECK_DEADLOCK FALSE
INVARIANT RefusedIsEffectFree
