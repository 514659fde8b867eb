SPECIFICATION Spec
CONSTANTS
  Metrics <- MCMetrics
  Thresholds <- MCThresholds
  Scale = 1
  Requests = {r1, r2, r3}
  Messages <- MCMessages
  PoolSize = 2
  OtherWriters = FALSE
  NoRequest = NoRequest
SYMMETRY RequestSymmetry
INVARIANTS
  AlertsAgreeWithNewest
PROPERTIES
  AlertsMoveForward
CHECK_DEADLOCK FALSE
