CONSTANTS
    c1 = c1  c2 = c2  w1 = w1  w2 = w2  service = service  p1 = p1  p2 = p2
    Client <- OneClient  Worker <- TwoWorkers  Service = service
    Mode = {"enabled", "disabled"}  Pkgs <- TwoPkgs  Global = "enabled"
    BootTries = 1  ClientTries = 1  MaxPid = 2
    PidReuse = FALSE  Revert = FALSE  CrashAt <- Anywhere
    MaxCommands = 1  MaxRestarts = 1  MaxCrashes = 1  MaxFaults = 1  MaxReboots = 1
SYMMETRY Symmetry
SPECIFICATION Spec
INVARIANT NeverCertifiesStale
