---- MODULE MC_MeasurementIntake ----
EXTENDS MeasurementIntake, TLC

MCMetrics == {"TEMPERATURE"}
MCThresholds == [m \in MCMetrics |-> [lower |-> 10, upper |-> 20, hysteresis |-> 2]]

Body(id, at, value) == [id |-> id, at |-> at, reading |-> [m \in MCMetrics |-> value]]

\* Two messages of the same time, a late one and a resend of any of them; the
\* readings open, continue and resolve a HIGH and open a LOW alert.
MCMessages == {Body(1, 2, 21), Body(2, 2, 15), Body(3, 1, 9), Body(4, 3, 19), Body(5, 3, 9)}

\* A normal and an abnormal measurement, the second possibly stored elsewhere.
MCFewMessages == {Body(1, 1, 15), Body(2, 2, 21)}

RequestSymmetry == Permutations(Requests)
====
