---- MODULE DeviceDelivery ----
(***************************************************************************)
(* From a reading to a stored measurement: the main loop of the device     *)
(* (AppController with its RetryController), a network that loses and      *)
(* delays, and the backend as IntakeSpec.                                  *)
(*                                                                         *)
(* The loop is single-threaded; each update_* call is a step.  The Wi-Fi   *)
(* link and the backend go on between the steps and while a send blocks.   *)
(* A request the device gave up on may still be handled, any time later.   *)
(* Timers are abstract here: a timer that runs may expire at any time, so  *)
(* every timing of the measurement and the retry interval is included.     *)
(* What two of them do with the 32-bit millisecond counter is in           *)
(* DeviceClock and WifiSupervisor.                                         *)
(***************************************************************************)
EXTENDS AlertRules, FiniteSets

CONSTANTS
  Readings,          \* the readings the sensor may give
  MaxMeasurements,   \* bound on the measurements taken
  MaxAttempts,       \* bound on the HTTP requests made
  MaxRetryCount      \* 6 in the code

ASSUME DeliveryAssumption ==
  /\ Readings \subseteq [Metrics -> Int]
  /\ MaxMeasurements \in Nat
  /\ MaxAttempts \in Nat
  /\ MaxRetryCount \in Nat

Attempts == 1 .. MaxAttempts
Message == [id : 1 .. MaxMeasurements, at : 1 .. MaxMeasurements, reading : Readings]

VARIABLES
  step,           \* the update_* call the loop is at, or "await" inside send
  state,          \* DeviceState
  sensorReady,    \* the sensor is initialised
  wifiConnected,  \* status_.wifi_connected, a copy of the link's state
  clockValid,     \* is_time_valid, the same for a whole iteration
  pending,        \* the measurement RetryController holds: {} or {message}
  retries,        \* retry_count_
  due,            \* next_attempt_ms_ is reached
  sending,        \* the attempt send waits for, 0 if none
  measured,       \* messages created so far
  accepted,       \* ids the device has seen accepted (history)
  linkUp,         \* WiFi.status() == WL_CONNECTED
  body,           \* the message of each attempt, in order
  answer,         \* the backend's answer to each attempt, 0 before
  lastEvaluated, measurements, alerts    \* the backend's database

control == <<step, state, sensorReady, wifiConnected, clockValid>>
retryState == <<pending, retries, due>>
backend == <<answer, lastEvaluated, measurements, alerts>>
vars == <<control, retryState, measured, sending, accepted, linkUp, body, backend>>

Backend == INSTANCE IntakeSpec WITH
  Requests <- Attempts, Messages <- Message, OtherWriters <- FALSE, Lost <- 1

Init ==
  /\ step = "sensor"
  /\ state = "initializing"
  /\ sensorReady = FALSE
  /\ wifiConnected = FALSE /\ clockValid = FALSE
  /\ pending = {} /\ retries = 0 /\ due = FALSE
  /\ sending = 0
  /\ measured = 0
  /\ accepted = {}
  /\ linkUp = FALSE
  /\ body = <<>>
  /\ answer = [a \in Attempts |-> 0]
  /\ lastEvaluated = Null
  /\ measurements = <<>>
  /\ alerts = [m \in Metrics |-> <<>>]

----------------------------------------------------------------------------
(* The loop                                                                  *)

\* The sensor may stop delivering, or be initialised again.
UpdateSensor ==
  /\ step = "sensor"
  /\ step' = "wifi"
  /\ sensorReady' \in BOOLEAN
  /\ UNCHANGED <<state, wifiConnected, clockValid, retryState, measured, sending,
                 accepted, linkUp, body, backend>>

UpdateWifi ==
  /\ step = "wifi"
  /\ step' = "clock"
  /\ wifiConnected' = linkUp
  /\ UNCHANGED <<state, sensorReady, clockValid, retryState, measured, sending,
                 accepted, linkUp, body, backend>>

\* NTP may have answered, or the last synchronisation become too old.
UpdateClock ==
  /\ step = "clock"
  /\ step' = "measure"
  /\ clockValid' \in BOOLEAN
  /\ UNCHANGED <<state, sensorReady, wifiConnected, retryState, measured, sending,
                 accepted, linkUp, body, backend>>

TransmissionStopped == state = "authentication_error"

\* The measurement timer is not reached.
MeasureLater ==
  /\ step = "measure"
  /\ step' = "send"
  /\ UNCHANGED <<state, sensorReady, wifiConnected, clockValid, retryState, measured,
                 sending, accepted, linkUp, body, backend>>

\* Mutated form of MeasureNothing: an authentication error is forgotten.
MeasureNothingRestart ==
  /\ step = "measure"
  /\ step' = "send"
  /\ state' = "ready"
  /\ UNCHANGED <<sensorReady, wifiConnected, clockValid, retryState, measured, sending,
                 accepted, linkUp, body, backend>>

\* No fresh valid reading, or no valid time: the measurement is skipped.
MeasureNothing ==
  /\ step = "measure"
  /\ step' = "send"
  /\ state' = IF TransmissionStopped THEN state ELSE "ready"
  /\ UNCHANGED <<sensorReady, wifiConnected, clockValid, retryState, measured, sending,
                 accepted, linkUp, body, backend>>

\* RetryController::replace
Replace(message) ==
  /\ pending' = {message}
  /\ retries' = 0
  /\ due' = TRUE

\* A valid reading becomes a message and replaces what was pending.  Its time is
\* after that of the message before it: a measurement is taken once a minute.
MeasureQueue ==
  /\ step = "measure"
  /\ sensorReady /\ clockValid
  /\ ~TransmissionStopped
  /\ measured < MaxMeasurements
  /\ step' = "send"
  /\ \E reading \in Readings :
       Replace([id |-> measured + 1, at |-> measured + 1, reading |-> reading])
  /\ measured' = measured + 1
  /\ state' = "pending_send"
  /\ UNCHANGED <<sensorReady, wifiConnected, clockValid, sending, accepted, linkUp,
                 body, backend>>

MaySend ==
  /\ ~TransmissionStopped
  /\ wifiConnected
  /\ clockValid
  /\ pending # {} /\ due

SendNothing ==
  /\ step = "send"
  /\ ~MaySend
  /\ step' = "display"
  /\ UNCHANGED <<state, sensorReady, wifiConnected, clockValid, retryState, measured,
                 sending, accepted, linkUp, body, backend>>

\* ApiClient.send puts the request on the network and blocks.
Send ==
  /\ step = "send"
  /\ MaySend
  /\ Len(body) < MaxAttempts
  /\ step' = "await"
  /\ state' = "pending_send"
  /\ body' = Append(body, CHOOSE m \in pending : TRUE)
  /\ sending' = Len(body) + 1
  /\ UNCHANGED <<sensorReady, wifiConnected, clockValid, retryState, measured,
                 accepted, linkUp, backend>>

TransportFailure == 0

\* What ApiClient::send may return: the answer, or a transport failure, which
\* includes an answer that came too late or was lost.
Answers(a) == {answer[a], TransportFailure}

\* Mutated form of Disposition: only a client error is not a success.
DispositionOptimistic(status) ==
  IF status \in 400 .. 499 THEN "discard" ELSE "accepted"

\* classify_send_result; 401 stands for 401 and 403, 400 for the other 4xx.
Disposition(status) ==
  CASE status \in {200, 201} -> "accepted"
    [] status = 401 -> "authentication_error"
    [] status \in {TransportFailure, 429} \cup 500 .. 599 -> "retryable"
    [] OTHER -> "discard"

\* Mutated form of Exhausted: one retry too many.
ExhaustedLate == retries > MaxRetryCount

Exhausted == retries >= MaxRetryCount

\* Mutated form of Settle: the settled message stays pending.
SettleKeeping(newState) ==
  /\ state' = newState
  /\ UNCHANGED retryState

\* The pending message is given up or done with.
Settle(newState) ==
  /\ state' = newState
  /\ pending' = {}
  /\ UNCHANGED <<retries, due>>

\* RetryController::apply_result and record_send_result.  Nothing replaces the
\* pending message while send blocks, so the result is always that of the
\* pending message and none is ignored.
ApplyResult(status) ==
  LET disposition == Disposition(status)
  IN  /\ \/ disposition \in {"accepted", "discard"} /\ Settle("ready")
         \/ disposition = "authentication_error" /\ Settle("authentication_error")
         \/ disposition = "retryable" /\ Exhausted /\ Settle("ready")
         \/ /\ disposition = "retryable" /\ ~Exhausted
            /\ state' = "retry_wait"
            /\ retries' = retries + 1
            /\ due' = FALSE
            /\ UNCHANGED pending
      /\ accepted' = IF disposition = "accepted"
                     THEN accepted \cup {body[sending].id} ELSE accepted

\* send returns and its result is applied.
SendReturns ==
  /\ step = "await"
  /\ step' = "display"
  /\ \E status \in Answers(sending) : ApplyResult(status)
  /\ sending' = 0
  /\ UNCHANGED <<sensorReady, wifiConnected, clockValid, measured, linkUp, body, backend>>

DisplayLater ==
  /\ step = "display"
  /\ step' = "sensor"
  /\ UNCHANGED <<state, sensorReady, wifiConnected, clockValid, retryState, measured,
                 sending, accepted, linkUp, body, backend>>

\* Once a second the display is drawn from refreshed copies.
UpdateDisplay ==
  /\ step = "display"
  /\ step' = "sensor"
  /\ wifiConnected' = linkUp
  /\ state' = IF state = "initializing" /\ sensorReady /\ wifiConnected' /\ clockValid
              THEN "ready" ELSE state
  /\ UNCHANGED <<sensorReady, clockValid, retryState, measured, sending, accepted,
                 linkUp, body, backend>>

\* The retry interval has passed.
RetryDue ==
  /\ pending # {} /\ ~due
  /\ due' = TRUE
  /\ UNCHANGED <<control, pending, retries, measured, sending, accepted, linkUp, body,
                 backend>>

\* The device is reset, at any point: all it holds is in volatile memory.
Restart ==
  /\ step' = "sensor"
  /\ state' = "initializing"
  /\ sensorReady' = FALSE
  /\ wifiConnected' = FALSE /\ clockValid' = FALSE
  /\ pending' = {} /\ retries' = 0 /\ due' = FALSE
  /\ sending' = 0
  /\ UNCHANGED <<measured, accepted, linkUp, body, backend>>

----------------------------------------------------------------------------
(* Its environment                                                           *)

LinkChanges ==
  /\ linkUp' = ~linkUp
  /\ UNCHANGED <<control, retryState, measured, sending, accepted, body, backend>>

Device == <<control, retryState, measured, sending, accepted, linkUp>>

\* The backend handles a request that reached it, whether or not the device
\* still waits for the answer.  An answer nobody waits for is of no consequence:
\* such a request is only ever accepted, or never handled.
HandleAccept(a) ==
  /\ \E status \in {201, 503} : /\ a # sending => status = 201
                               /\ Backend!Accept(a, status)
  /\ UNCHANGED Device

HandleResend(a) ==
  /\ a = sending
  /\ Backend!AcknowledgeResend(a)
  /\ UNCHANGED Device

\* It fails; 503 stands for 500 and 503, which the device treats alike.
HandleFailure(a) ==
  /\ a = sending
  /\ Backend!Refuse(a, 503)
  /\ UNCHANGED Device

\* The endpoint's checks refuse the request: credentials or the request itself.
HandleReject(a) ==
  /\ a = sending
  /\ \E status \in {400, 401} : Backend!Decide(a, status)
  /\ UNCHANGED <<Device, lastEvaluated, measurements, alerts>>

Loop ==
  \/ UpdateSensor \/ UpdateWifi \/ UpdateClock
  \/ MeasureLater \/ MeasureNothing \/ MeasureQueue
  \/ SendNothing \/ Send \/ SendReturns
  \/ DisplayLater \/ UpdateDisplay

Next ==
  \/ Loop \/ RetryDue \/ Restart \/ LinkChanges
  \/ \E a \in DOMAIN body :
       HandleAccept(a) \/ HandleResend(a) \/ HandleFailure(a) \/ HandleReject(a)

Spec == Init /\ [][Next]_vars

\* The loop always goes on (every call returns, send after its timeouts) and a
\* retry interval passes.  Nothing else is forced.
FairSpec == Spec /\ WF_vars(Loop) /\ WF_vars(RetryDue)

----------------------------------------------------------------------------
(* Properties                                                                *)

\* What the device takes for accepted, and forgets, is in the database.
AcceptedIsStored == \A id \in accepted : Backend!IsStored(id)

\* A message is sent at most once and then retried at most MaxRetryCount times.
AttemptsBounded ==
  \A id \in 1 .. measured :
    Cardinality({a \in DOMAIN body : body[a].id = id}) <= 1 + MaxRetryCount

\* Only the newest measurement is ever sent, and never after the device saw it
\* accepted.
OnlyNewestIsSent ==
  [][body' # body =>
       LET id == body'[Len(body')].id IN id = measured /\ id \notin accepted]_vars

\* After an authentication error nothing is sent until the device is restarted.
AuthenticationErrorIsFinal ==
  [][TransmissionStopped => (state' = state /\ body' = body) \/ Restart]_vars

\* With the link up and the time valid from some time on, no message stays
\* pending: it is accepted, given up, or replaced, whatever the backend does.
PendingIsSettled ==
  <>[](linkUp /\ clockValid) =>
    \A id \in 1 .. MaxMeasurements :
      (\E m \in pending : m.id = id) ~> ~(\E m \in pending : m.id = id)
====
