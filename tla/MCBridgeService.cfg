SPECIFICATION FairSpec
CONSTANTS
  CallIds = {c1, c2, c3}
INVARIANTS
  LinesHoldCapacity
  UncertaintyPauses
PROPERTIES
  DialsAreCurrent
  ImplementsLifecycle
  CallsAreSettled
