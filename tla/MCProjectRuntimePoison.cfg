SPECIFICATION Spec
CONSTANTS
  p1 = p1
  p2 = p2
  j1 = j1
  j2 = j2
  res = res
  Proc = {p1, p2}
  Jobs = {j1, j2}
  Commands = {j1}
  NoResource = NoResource
  Resource <- MCResource
  Home <- MCHome
  Ceiling = 2
  Lease = 1
  MaxTime = 1
  MayCancel = {j1}
  MaxCrashes = 1
INVARIANT NotPoisoned
CHECK_DEADLOCK FALSE
