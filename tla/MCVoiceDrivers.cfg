CONSTANTS
  Refs = {r1, r2}
  NoRef = NoRef
  Inbound = {r2}
  MaxOps = 2
  OfferLimit = 1
  QueueLimit = 1
  EarlyLimit = 2
SPECIFICATION VoiceSpec
PROPERTIES DriversKeepContract EndsAreTold
CHECK_DEADLOCK FALSE
