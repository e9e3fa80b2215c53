SPECIFICATION OrderlySpec
CONSTANTS
  d1 = d1 d2 = d2 p1 = p1 p2 = p2 a = a b = b
  Devices = {d1, d2}
  Paths = {p1}
  Blocks = {a, b}
  Contents <- One
  Faults = {"net"}
  MaxClock = 3
  MaxFile = 3
  MaxOps = 4
PROPERTIES DownloadRight
CHECK_DEADLOCK FALSE
