SPECIFICATION Spec
CONSTANTS
  N = 3
  Modes = {"remote", "local"}
  MaxCalls = 4
  MaxMoves = 1
CHECK_DEADLOCK FALSE
INVARIANT EndIsTrue
INVARIANT PreparedFirst
INVARIANT ReverseOrder
PROPERTY FinalIsQuiet
