CONSTANTS
    p1 = p1  p2 = p2  p3 = p3
    Process <- Three  Tries = 2  Timed = TRUE
    MaxStarts = 3  MaxCrashes = 1
CHECK_DEADLOCK FALSE
SPECIFICATION FairSpec
INVARIANTS OldLockKept OnlyTheftBreaksMutex
PROPERTY DeadLockReaped
