--------------------------- MODULE MeasuringLoop ---------------------------
(***************************************************************************)
(* The measurements of the device: the loop of DeviceClock with the sensor, *)
(* which may stop answering and is initialised again, and with the timer of *)
(* update_measurement.  The sensor's own answers are the environment's.      *)
(***************************************************************************)
EXTENDS DeviceClock

CONSTANTS MaxAge,               \* maximum_sensor_reading_age_ms
          SensorRetryInterval, MeasurementInterval

ASSUME MeasuringAssumption ==
    /\ MaxAge \in Nat /\ MaxAge + LongestLoop < Word
    /\ {SensorRetryInterval, MeasurementInterval} \subseteq 1..(Half - 1)
    /\ LongestLoop < Half

VARIABLES
    sensor,              \* the members of SensorFreshnessTracker
    nextSensorAttempt, nextMeasurement,
    readOn, triedOn      \* observation, see below

sensorVars == <<sensor, nextSensorAttempt, readOn, triedOn>>
measuringVars == <<vars, sensorVars, nextMeasurement>>

(* readOn: the uptime of the reading the sensor has.  triedOn: that of the    *)
(* last attempt to initialise it or, if later, of its loss; never with a      *)
(* reading.                                                                   *)
Unavailable == [ready |-> FALSE, has |-> FALSE, initializedAt |-> 0, readAt |-> 0]

\* Mutated form of Initialized: it counts as a reading.
InitializedAsRead == [ready |-> TRUE, has |-> TRUE, initializedAt |-> now, readAt |-> now]

(* SensorFreshnessTracker::mark_initialized *)
Initialized == [ready |-> TRUE, has |-> FALSE, initializedAt |-> now, readAt |-> 0]

MeasuringInit ==
    /\ Init
    /\ sensor \in {Unavailable, [Unavailable EXCEPT !.ready = TRUE]}
    /\ nextSensorAttempt = IF sensor.ready THEN 0 ELSE SensorRetryInterval
    /\ nextMeasurement = MeasurementInterval
    /\ readOn = never /\ triedOn = 0

-----------------------------------------------------------------------------
(* update_sensor, which the loop calls before update_wifi *)

Reference == IF sensor.has THEN sensor.readAt ELSE sensor.initializedAt

\* Mutated form of Expired: the counter is past a later value.
ExpiredAfterEnd == now > Reference + MaxAge

Expired == Elapsed(now, Reference) > MaxAge

(* The sensor has a new value. *)
ReadSensor == /\ sensor.ready
              /\ sensor' = [sensor EXCEPT !.has = TRUE, !.readAt = now]
              /\ readOn' = uptime /\ triedOn' = never
              /\ UNCHANGED nextSensorAttempt

(* It has none, yet. *)
KeepReading == sensor.ready /\ ~Expired /\ UNCHANGED sensorVars

(* It has had none for too long; what is left of its times is read no more. *)
LoseSensor == /\ sensor.ready /\ Expired
              /\ sensor' = Unavailable
              /\ nextSensorAttempt' = Later(now, SensorRetryInterval)
              /\ triedOn' = uptime /\ readOn' = never

SensorDue == DeadlineReached(now, nextSensorAttempt)

RetrySensor == /\ ~sensor.ready /\ SensorDue
               /\ sensor' \in {Initialized, Unavailable}
               /\ nextSensorAttempt' = Later(now, SensorRetryInterval)
               /\ triedOn' = uptime /\ UNCHANGED readOn

WaitForSensor == ~sensor.ready /\ ~SensorDue /\ UNCHANGED sensorVars

UpdateSensor == ReadSensor \/ KeepReading \/ LoseSensor \/ RetrySensor \/ WaitForSensor

-----------------------------------------------------------------------------
(* update_measurement *)

MeasurementDue == DeadlineReached(now, nextMeasurement)

(* SensorReader::latest *)
HasLatest == sensor.ready /\ sensor.has /\ ~Expired

(* The do-while loop: the first of the following deadlines not yet reached. *)
CaughtUpFromNow == Later(now, MeasurementInterval)
CaughtUp ==
    LET following(k) == Later(nextMeasurement, k * MeasurementInterval)
        steps == CHOOSE k \in 1..(LongestLoop + 1) :
                   /\ ~DeadlineReached(now, following(k))
                   /\ \A j \in 1..(k - 1) : DeadlineReached(now, following(j))
    IN  following(steps)

TakeMeasurement == /\ MeasurementDue /\ HasLatest /\ Measure
                   /\ nextMeasurement' = CaughtUp /\ UNCHANGED sensorVars

(* No reading, one out of range, or no valid time. *)
MissMeasurement == /\ MeasurementDue /\ NoMeasurement
                   /\ nextMeasurement' = CaughtUp /\ UNCHANGED sensorVars

AwaitMeasurement == /\ ~MeasurementDue /\ NoMeasurement
                    /\ UNCHANGED <<nextMeasurement, sensorVars>>

-----------------------------------------------------------------------------

OtherSteps == LinkChanges \/ SntpAnswers \/ UpdateClock \/ RequestSynchronization
              \/ NoRequest \/ UpdateDisplay \/ NextLoop

MeasuringNext == \/ UpdateWifi /\ UpdateSensor /\ UNCHANGED nextMeasurement
                 \/ TakeMeasurement \/ MissMeasurement \/ AwaitMeasurement
                 \/ OtherSteps /\ UNCHANGED <<sensorVars, nextMeasurement>>

MeasuringSpec == MeasuringInit /\ [][MeasuringNext]_measuringVars

-----------------------------------------------------------------------------
(* Properties *)

(* A value older than the maximum age is not measured again, at any uptime: a *)
(* 32-bit age never gets as far as to wrap and look young again, because each  *)
(* loop looks at it, also when no measurement is due                           *)
(* (SensorReader::update, invalidate_if_expired, latest).                      *)
ReadingIsFresh == [][TakeMeasurement => readOn \in (uptime - MaxAge)..uptime]_measuringVars

(* At any uptime a sensor that says nothing for longer than the maximum age is *)
(* given up (invalidate_if_expired), and one that is not available, lost or    *)
(* missing from the start, is initialised again every interval                 *)
(* (update_sensor; docs/detailed-design/device.md:46).                         *)
Quiet == uptime - (IF triedOn = never THEN readOn ELSE triedOn)
SensorRetriedInTime ==
    step = "clock" => IF sensor.ready THEN Quiet <= MaxAge ELSE Quiet < SensorRetryInterval

(* And not more often: initialisation resets the bus.                         *)
SensorRetriesAreSpaced ==
    [][RetrySensor => uptime - triedOn >= SensorRetryInterval]_measuringVars

(* docs/detailed-design/device.md:50: measurements stay on the grid of their   *)
(* interval from the start on, not from the end of the last one: no delay      *)
(* of a loop shifts the later ones, and a loop that missed some makes up for   *)
(* one and waits for the next (update_measurement).                            *)
MeasurementsKeepTime ==
    step = "display" =>
        \E due \in (uptime + 1)..(uptime + MeasurementInterval) :
            due % MeasurementInterval = 0 /\ nextMeasurement = MillisAt(due)
=============================================================================
