SPECIFICATION FairSpec
CONSTANTS
  Proc = {p1, p2, p3, p4}
  MaxSlot = 2
  MaxCalls = 1
INVARIANTS MutualExclusion HintNeverSkipsHolder
PROPERTIES OnlyOwnerRemoves Progress
CHECK_DEADLOCK FALSE
