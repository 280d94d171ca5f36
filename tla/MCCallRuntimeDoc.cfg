SPECIFICATION Spec
CONSTANTS
  CallIds = {c1}
  NoCall = NoCall
  Refs = {r1, r2}
  NoRef = NoRef
  StrayEnds = TRUE
INVARIANTS
  NoFabricatedEnd
CHECK_DEADLOCK FALSE
