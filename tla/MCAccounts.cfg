CONSTANTS
  Peers = {me, p, q}
  NoPeer = NoPeer
  None = None
  MaxRevision = 1
  MaxAttempts = 2
  Ids = {i}
  Own = me
  ClientsStay = TRUE
SPECIFICATION FairSpec
INVARIANTS OneOwner UnknownIsHeld RunningIsCommitted LoginIsHonest
PROPERTIES CommitsAreMeant LeaseEnds
CHECK_DEADLOCK FALSE
