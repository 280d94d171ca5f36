SPECIFICATION FairSpec
CONSTANTS
  DelegationIds = {d1}
  MaxContext = 2
  Idle = Idle
INVARIANTS
  SpokenInOrder
  AcceptedIsRecorded
PROPERTIES
  PaidOnce
  WorkIsAnswered
  CallbacksAreSettled
