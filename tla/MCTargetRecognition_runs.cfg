SPECIFICATION Spec
CONSTANTS
    n1 = n1
    n2 = n2
    Slots = 2
    Name = {n1, n2}
    Default <- DefaultList
    File <- Files
    Start = {"stock", "old stub", "old hook", "moved cave"}
    MaxRuns = 3
    MaxTroubles = 2
CHECK_DEADLOCK FALSE
INVARIANTS TypeOK SuccessIsTrue SuccessIsSeen OneMarkedCave KilledIsRecovered
PROPERTIES ForeignIntact TwinIntact
