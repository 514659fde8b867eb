\* An hour of two instants, a day of two hours, Tokyo ahead by one hour.
SPECIFICATION QuerySpec
CONSTANTS
  Metrics <- MCMetrics
  Thresholds <- MCThresholds
  Scale = 3
  Metric = "TEMPERATURE"
  Readings <- MCReadings
  MaxEvaluations = 5
  Hour = 2
  Day = 4
  Offset = 2
  MaxPeriod = 5
  MaxPoints = 2
  MaxAlerts = 1
  Measured <- MCMetrics
  None = None
  AskedPeriods <- MCPeriods
INVARIANTS
  AlertsAreEpisodes
  SeriesAgreesWithStatistics
PROPERTIES
  AlertHistoryIsHonest
CHECK_DEADLOCK FALSE
