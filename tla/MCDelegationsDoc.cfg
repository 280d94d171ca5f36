SPECIFICATION Spec
CONSTANTS
  DelegationIds = {d1}
  MaxContext = 2
  Idle = Idle
PROPERTIES
  LateResultsAreRecorded
