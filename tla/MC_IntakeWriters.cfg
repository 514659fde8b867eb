SPECIFICATION FairSpec
CONSTANTS
  Metrics <- MCMetrics
  Thresholds <- MCThresholds
  Scale = 1
  Requests = {r1, r2, r3}
  Messages <- MCFewMessages
  PoolSize = 2
  OtherWriters = TRUE
  NoRequest = NoRequest
INVARIANTS
  OneRowPerMessage
  SuccessIsStored
PROPERTIES
  AcceptIsAtomic
  EveryRequestEnds
CHECK_DEADLOCK FALSE
