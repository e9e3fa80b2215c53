\* Two devices that both write, every fault.
SPECIFICATION Spec
CONSTANTS
  d1 = d1 d2 = d2 p1 = p1 p2 = p2 a = a b = b
  Devices = {d1, d2}
  Paths = {p1, p2}
  Blocks = {a, b}
  Contents <- Two
  Faults = {"net", "crash"}
  MaxClock = 2
  MaxFile = 3
  MaxOps = 3
INVARIANTS TypeOK RowsBacked ChunksUnique VersionsDisjoint OneCurrent
PROPERTIES BackupSpec
SYMMETRY SymmetryOfBoth
VIEW View
CHECK_DEADLOCK FALSE
