\* Past the range of millis(); a late loop may miss a measurement altogether.
CONSTANTS
    Word = 8
    RetryInterval = 2
    ResyncInterval = 3
    Validity = 4
    DisplayInterval = 1
    Second = 5
    Skew = 1
    LongestLoop = 3
    MaxUptime = 9
    MaxAge = 1
    SensorRetryInterval = 3
    MeasurementInterval = 2
SPECIFICATION MeasuringSpec
CHECK_DEADLOCK FALSE
INVARIANTS SensorRetriedInTime MeasurementsKeepTime ResyncInTimeAtFirst ValidMeansRecentForOneWrap
PROPERTIES ReadingIsFresh MeasuredAtIsAccurate MeasuredAtNeverGoesBack
