CONSTANTS
  Peers = {me, p, q}
  NoPeer = NoPeer
  None = None
  MaxRevision = 1
  MaxAttempts = 2
  Ids = {i}
  Own = me
  ClientsStay = FALSE
SPECIFICATION Spec
INVARIANT UnknownIsHeld
CHECK_DEADLOCK FALSE
