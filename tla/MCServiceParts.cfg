CONSTANTS
  CallIds = {c1, c2}
  BatchSize = 2
  MaxEvents = 2
  Works = {w1, w2}
  Responses = {x1, x2}
  Items = {i1, i2}
  Nobody = Nobody
  MaxSequence = 3
  WorkLimit = 2
  PhonePeriod = 2
  LivePeriod = 4
  FrameBytes = 2
  Capacity = 4
  PipeLimit = 4
  ProcessBuffer = 2
  MaxGap = 5
  Spenders = {c1, c2, c3}
  Zones = {z1, z2}
  DailySeconds = 4
  MaxSeconds = 2
  LastDay = 2
  RecordIds = {1, 2}
  MaxTime = 2
  MaxFragments = 2
  PageSize = 1
  Tabs = {t1, t2}
  Logins = {l1, l2}
  NoLogin = NoLogin
  Unlinked = Unlinked
  SessionLimit = 1
  MaxSignIns = 2
  MaxAccountRevision = 2
  MaxFlows = 2
  MaxSteps = 2
  Agents = {a1, a2}
  Keys = {k1}
  MaxRuns = 2
  MaxAttempts = 2
SPECIFICATION PartsSpec
INVARIANTS LastWordStands PruningIsHonest ClosedIsFinal ResponsesKeptApart AudioIsKept BudgetHolds RecordsAreHonest AccessIsCurrent DialogIsHonest ToldIsSo
PROPERTIES EventsAreSettled
CHECK_DEADLOCK FALSE
