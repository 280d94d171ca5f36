SPECIFICATION Spec
CONSTANTS
  CallIds = {c1, c2}
  NoCall = NoCall
  Commands = {k1, k2}
  Digests = {h1, h2}
  Reasons = {}
  NoReason = noReason
  Cancelled = cancelled
  Restarted = restarted
  MaxRevision = 3
SYMMETRY Symmetry
INVARIANTS
  RetryFindsCall
  LogNeverRedials
  FactsSummariseLog
  MigrationAgrees
PROPERTIES
  ImplementsLifecycle
CHECK_DEADLOCK FALSE
