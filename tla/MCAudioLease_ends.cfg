CONSTANTS
  a = a
  b = b
  p1 = p1
  s1 = s1
  s2 = s2
  None = None
  Package = {a, b}
  Port = {p1}
  Session = {s1, s2}
  Enabled = {a}
  Orphans = FALSE
  MaxLeases = 3
  MaxPlays = 2
  MaxTracks = 2
  MaxEdits = 1
  MaxFaults = 1
  MaxDowns = 1
  MaxEvents = 2
SPECIFICATION FairSpec
INVARIANTS
  TypeOK
  PolicyHasPort
  DisallowedIsPending
  PortsAgree
  OneWorker
PROPERTY OnlyPlayingHold
CHECK_DEADLOCK FALSE
