SPECIFICATION FairSpec
CONSTANTS
  CallIds = {c1}
  NoCall = NoCall
  Refs = {r1, r2, r3}
  NoRef = NoRef
  StrayEnds = FALSE
INVARIANTS
  NoFabricatedEnd
PROPERTIES
  CallsAndUsageAreSettled
CHECK_DEADLOCK FALSE
