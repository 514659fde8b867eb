---- MODULE MC_DeviceDelivery ----
EXTENDS DeviceDelivery

MCMetrics == {"TEMPERATURE"}
MCThresholds == [m \in MCMetrics |-> [lower |-> 10, upper |-> 20, hysteresis |-> 2]]

\* What a reading does to the alerts is checked with the backend's modules.
MCReadings == {[m \in MCMetrics |-> 15]}
====
