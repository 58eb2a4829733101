CONSTANTS
    a1 = a1
    a2 = a2
    u1 = u1
    u2 = u2
    None = None
    Attempts <- MCAttempts
    Uids <- MCUids
    Reserved <- MCReserved
    CanaryAttempts <- MCCanary
SPECIFICATION FairSpec
INVARIANTS UidExclusive NoOrphan CleanSuccess LeaseIsOwn
PROPERTIES NoForeignKill Returns
CHECK_DEADLOCK FALSE
