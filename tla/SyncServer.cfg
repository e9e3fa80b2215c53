\* One worker, as configured; any statement may fail and the server may end.
SPECIFICATION Spec
CONSTANTS
  w1 = w1 w2 = w2 p = p b = b
  Workers = {w1}
  Credentials <- People
  Uploads <- Two
  Paths = {p}
  Blocks = {b}
  MaxFile = 2
  MaxConn = 3
  MaxRequests = 3
  Faults = {"sql", "crash"}
INVARIANTS TypeOK Registered LoginRight AckedAreSaved OneIsCurrent UpToDate
  LeftoversHoldNothing
PROPERTIES UploadsAreAtomic
CHECK_DEADLOCK FALSE
