SPECIFICATION Spec
CONSTANTS
  CallIds = {c1, c2}
INVARIANTS
  RecoveryPauses
