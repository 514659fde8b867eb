---- MODULE MC_MeasurementQueries ----
EXTENDS MeasurementQueries

\* In thirds of the stored hundredth: lower 30, upper 60, hysteresis 6, readings
\* on both sides of every edge; 29 and 61 are abnormal but stored as 30 and 60.
MCMetrics == {"TEMPERATURE"}
MCThresholds == [m \in MCMetrics |-> [lower |-> 30, upper |-> 60, hysteresis |-> 6]]
MCReadings == {29, 30, 35, 36, 54, 55, 61}

MCPeriods == {[from |-> 1, to |-> 5]}
====
