SPECIFICATION FairSpec
CONSTANTS
  t1 = t1
  t2 = t2
  t3 = t3
  h1 = h1
  h2 = h2
  h3 = h3
  Task = {t1, t2, t3}
  Host <- Shared
  MaxCalls <- Again
INVARIANTS TypeOK ExclusiveWithoutRecovery OnePerProcess
PROPERTY EveryCallSettles
CHECK_DEADLOCK FALSE
