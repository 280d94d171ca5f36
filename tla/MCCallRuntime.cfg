SPECIFICATION Spec
CONSTANTS
  CallIds = {c1, c2}
  NoCall = NoCall
  Refs = {r1, r2, r3}
  NoRef = NoRef
  StrayEnds = TRUE
SYMMETRY Symmetry
INVARIANTS
  SlotMatchesCapacity
  SettlementsAgree
  AbandonedLegsAreHungUp
PROPERTIES
  ImplementsLifecycle
CHECK_DEADLOCK FALSE
