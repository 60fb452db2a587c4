CONSTANTS
    c1 = c1  c2 = c2  w1 = w1  w2 = w2  service = service  p1 = p1  p2 = p2
    Client <- TwoClients  Worker <- TwoWorkers  Service = service
    Mode = {"enabled", "disabled"}  Pkgs <- TwoPkgs  Global = "enabled"
    BootTries = 1  ClientTries = 1  MaxPid = 3
    PidReuse = FALSE  Revert = FALSE  CrashAt <- NotInPatch
    MaxCommands = 2  MaxRestarts = 0  MaxCrashes = 0  MaxFaults = 0  MaxReboots = 0
SYMMETRY BothSymmetry
SPECIFICATION Spec
INVARIANTS TypeOK NoOrphanRequest
PROPERTY AppliedMonotone
