CONSTANTS
  a = a
  b = b
  p1 = p1
  s1 = s1
  s2 = s2
  None = None
  Package = {a}
  Port = {p1}
  Session = {s1, s2}
  Enabled = {a}
  Orphans = FALSE
  MaxLeases = 2
  MaxPlays = 2
  MaxTracks = 0
  MaxEdits = 0
  MaxFaults = 0
  MaxDowns = 0
  MaxEvents = 2
SPECIFICATION Spec
INVARIANT PlayingHasLease
CHECK_DEADLOCK FALSE
