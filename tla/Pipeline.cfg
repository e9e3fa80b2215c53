\* Three clients, two of whom may leave, two workers, descriptors for two sessions.
SPECIFICATION FairSpec
CONSTANTS
  Clients = {c1, c2, c3}
  Leavers = {c1, c2}
  Workers = {w1, w2}
  MaxOpen = 2
  None = None
INVARIANTS TypeOK InOnePlace
PROPERTIES RequestReplySpec StarvedOnlyByThese
CHECK_DEADLOCK FALSE
