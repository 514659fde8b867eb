SPECIFICATION FairSpec
CONSTANTS
  Metrics <- MCMetrics
  Thresholds <- MCThresholds
  Scale = 1
  Readings <- MCReadings
  MaxMeasurements = 2
  MaxAttempts = 4
  MaxRetryCount = 1
INVARIANTS
  AcceptedIsStored
  AttemptsBounded
PROPERTIES
  OnlyNewestIsSent
  AuthenticationErrorIsFinal
  PendingIsSettled
