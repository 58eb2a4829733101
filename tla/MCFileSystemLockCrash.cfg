SPECIFICATION Spec
CONSTANTS
  t1 = t1
  t2 = t2
  t3 = t3
  h1 = h1
  h2 = h2
  h3 = h3
  Task = {t1, t2, t3}
  Host <- Apart
  MaxCalls <- Once
INVARIANT ExclusiveAfterCrash
CHECK_DEADLOCK FALSE
