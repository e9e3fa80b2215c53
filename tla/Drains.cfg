\* Every device finishes, on any schedule of its threads, with failing requests
\* and crashes.
SPECIFICATION ThreadsSpec
CONSTANTS
  d1 = d1 d2 = d2 p1 = p1 a = a b = b
  Devices = {d1, d2}
  Paths = {p1}
  Blocks = {a, b}
  Contents <- Long
  Faults = {"net", "crash"}
  MaxClock = 2
  MaxFile = 4
  MaxOps = 3
PROPERTIES Drains
CHECK_DEADLOCK FALSE
