---- MODULE AlertRules ----
(***************************************************************************)
(* The pure part of alerting: what one evaluated measurement does to the   *)
(* alert rows of one metric (AlertService._evaluate_metric), and the       *)
(* rounding PostgreSQL applies when a value is stored.                     *)
(*                                                                         *)
(* Values are integers.  One hundredth of a degree (or of a percent), the  *)
(* resolution of the numeric(5,2) columns, is Scale units; with Scale = 1  *)
(* every value is representable, with Scale > 1 a request may carry more   *)
(* digits than the database keeps.                                         *)
(***************************************************************************)
EXTENDS Integers, Sequences

CONSTANTS
  Metrics,      \* {"TEMPERATURE", "HUMIDITY"} in the code
  Thresholds,   \* per metric the configured lower, upper and hysteresis
  Scale         \* units in one stored hundredth

Threshold == [lower : Int, upper : Int, hysteresis : Int]

\* What ThresholdSettings.validate_thresholds enforces when the program starts.
ValidThreshold(t) ==
  /\ t.lower < t.upper
  /\ 0 < t.hysteresis
  /\ 2 * t.hysteresis < t.upper - t.lower

ASSUME ThresholdAssumption ==
  /\ Thresholds \in [Metrics -> Threshold]
  /\ \A m \in Metrics : ValidThreshold(Thresholds[m])

ASSUME ScaleAssumption == Scale \in Nat \ {0}

Directions == {"LOW", "HIGH"}

\* 0 stands for SQL NULL in the time columns: no time is 0.
Null == 0

Alert == [direction : Directions, status : {"OPEN", "RESOLVED"},
          threshold : Int, trigger : Int, hysteresis : Nat \ {0},
          started : Nat, lastDetected : Nat, resolved : Nat]

\* numeric(5,2): half a hundredth rounds away from zero.
Stored(value) ==
  LET magnitude(v) == Scale * ((2 * v + Scale) \div (2 * Scale))
  IN  IF value >= 0 THEN magnitude(value) ELSE -magnitude(-value)

\* The CHECK on the stored width: a narrower one would keep every alert, and with it
\* its measurement, from being stored.
ASSUME HysteresisAssumption == \A m \in Metrics : Stored(Thresholds[m].hysteresis) > 0

\* Mutated form of Continues: no hysteresis.
ContinuesBeyond(direction, value, t) ==
  IF direction = "LOW" THEN value < t.lower ELSE value > t.upper

Continues(direction, value, t) ==
  IF direction = "LOW" THEN value < t.lower + t.hysteresis
                       ELSE value > t.upper - t.hysteresis

NewDirections(value, t) ==
  {d \in Directions : IF d = "LOW" THEN value < t.lower ELSE value > t.upper}

NewAlert(direction, at, value, t) ==
  [direction |-> direction, status |-> "OPEN",
   threshold |-> Stored(IF direction = "LOW" THEN t.lower ELSE t.upper),
   trigger |-> Stored(value), hysteresis |-> Stored(t.hysteresis),
   started |-> at, lastDetected |-> at, resolved |-> Null]

\* The rows find_open can return; session.scalar takes one of them.
OpenRows(rows) == {i \in DOMAIN rows : rows[i].status = "OPEN"}
FindOpen(rows) == CHOOSE i \in OpenRows(rows) : TRUE

OpenNew(rows, at, value, t) ==
  IF NewDirections(value, t) = {}
  THEN rows
  ELSE Append(rows, NewAlert(CHOOSE d \in NewDirections(value, t) : TRUE, at, value, t))

Touched(row, at) == [row EXCEPT !.lastDetected = at]

Resolved(row, at) == [row EXCEPT !.status = "RESOLVED", !.resolved = at]

EvaluateMetric(metric, rows, at, value) ==
  LET t == Thresholds[metric]
      current == FindOpen(rows)
      row == rows[current]
  IN  IF OpenRows(rows) = {}
      THEN OpenNew(rows, at, value, t)
      ELSE IF Continues(row.direction, value, t)
      THEN [rows EXCEPT ![current] = Touched(row, at)]
      ELSE OpenNew([rows EXCEPT ![current] = Resolved(row, at)], at, value, t)

\* AlertService.evaluate: every metric of one measurement, on its own rows.
EvaluateAll(rows, at, reading) ==
  [m \in Metrics |-> EvaluateMetric(m, rows[m], at, reading[m])]

\* Mutated form of IsNewer: any measurement.
IsAnything(at, evaluated) == TRUE

\* MeasurementService evaluates a measurement only if it is newer than any it
\* evaluated before.
IsNewer(at, evaluated) == evaluated = Null \/ at > evaluated

\* At most one alert of the metric is open.
AtMostOneOpen(rows) == \A i, j \in OpenRows(rows) : i = j

\* The rows agree with a reading: an open alert is one the reading continues,
\* and with none open the reading is inside the thresholds.
Agrees(metric, rows, value) ==
  LET t == Thresholds[metric]
  IN  /\ \A i \in OpenRows(rows) : Continues(rows[i].direction, value, t)
      /\ OpenRows(rows) = {} => value \in t.lower .. t.upper
====
