\* One worker, nothing fails, more requests than connections.
SPECIFICATION Spec
CONSTANTS
  w1 = w1 w2 = w2 p = p b = b
  Workers = {w1}
  Credentials <- People
  Uploads <- Three
  Paths = {p}
  Blocks = {b}
  MaxFile = 2
  MaxConn = 3
  MaxRequests = 4
  Faults = {}
INVARIANTS ServerGoesOn
CHECK_DEADLOCK FALSE
