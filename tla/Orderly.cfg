\* Two devices in turn, nothing fails.
SPECIFICATION OrderlySpec
CONSTANTS
  d1 = d1 d2 = d2 p1 = p1 p2 = p2 a = a b = b
  Devices = {d1, d2}
  Paths = {p1, p2}
  Blocks = {a, b}
  Contents <- Two
  Faults = {}
  MaxClock = 4
  MaxFile = 3
  MaxOps = 5
INVARIANTS ReplicaMatches
PROPERTIES DownloadRight NoDataLoss
SYMMETRY Symmetry
CHECK_DEADLOCK FALSE
