CONSTANTS
    Thread = {1, 2, 3}  Leader = 1  Early = {1}  Cpu = {1, 2}  Homes <- SomeHomes
    MaxPasses = 16  StablePasses = 2  Flushes = 2
    MaxGaps = 1  MaxTroubles = 2
SPECIFICATION Spec
INVARIANTS
    TypeOK NobodyRuns FlushReachesAll GivenBack SignalsReturn GivesUpForCause
