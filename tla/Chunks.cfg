\* One worker, as configured; any operation may fail and the server may end.
SPECIFICATION Spec
CONSTANTS
  w1 = w1 w2 = w2 a = a b = b
  Workers = {w1}
  Uploads <- Clashing
  Paths = {p}
  Blocks = {a, b}
  MaxFile = 1
  MaxGets = 2
  Faults = {"mongo", "crash"}
INVARIANTS TypeOK OneDocument RestoresAcked AckedAreStored
PROPERTIES CollectionSpec
CHECK_DEADLOCK FALSE
