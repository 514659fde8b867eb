---- MODULE IntakeSpec ----
(***************************************************************************)
(* What MeasurementService.accept promises: each request takes effect in   *)
(* one step or not at all, and its answer tells which as far as it is      *)
(* known.  Threads, statements, locks and the pool do not appear.          *)
(***************************************************************************)
EXTENDS AlertRules

CONSTANTS
  Requests,      \* the requests that may be made
  Messages,      \* the measurements they may carry
  OtherWriters,  \* TRUE: measurements may also be stored by other clients
  Lost           \* the "answer" of a request that never gets one

VARIABLES
  lastEvaluated,  \* time of the newest evaluated measurement
  measurements,   \* the stored measurements, in order
  alerts,         \* the alert rows of each metric
  body,           \* the measurement each request carries
  answer          \* 0, an HTTP status, or Lost

vars == <<lastEvaluated, measurements, alerts, body, answer>>

IsStored(id) == \E i \in DOMAIN measurements : measurements[i].id = id

Init ==
  /\ lastEvaluated = Null
  /\ measurements = <<>>
  /\ alerts = [m \in Metrics |-> <<>>]
  /\ body \in [Requests -> Messages]
  /\ answer = [r \in Requests |-> 0]

Decide(r, status) ==
  /\ answer[r] = 0
  /\ answer' = [answer EXCEPT ![r] = status]
  /\ UNCHANGED body

\* A message not stored yet is stored and, if it is the newest, evaluated.  The
\* answer is "created", or "unavailable" if the outcome did not become known.
Accept(r, status) ==
  /\ status \in {201, 503}
  /\ ~IsStored(body[r].id)
  /\ measurements' = Append(measurements, body[r])
  /\ IF IsNewer(body[r].at, lastEvaluated)
     THEN /\ alerts' = EvaluateAll(alerts, body[r].at, body[r].reading)
          /\ lastEvaluated' = body[r].at
     ELSE UNCHANGED <<alerts, lastEvaluated>>
  /\ Decide(r, status)

\* A stored message is acknowledged and changes nothing.
AcknowledgeResend(r) ==
  /\ IsStored(body[r].id)
  /\ Decide(r, 200)
  /\ UNCHANGED <<lastEvaluated, measurements, alerts>>

\* Any request may fail without effect.
Refuse(r, status) ==
  /\ status \in {500, 503}
  /\ Decide(r, status)
  /\ UNCHANGED <<lastEvaluated, measurements, alerts>>

\* Requests whose fate is open may be lost together.
Lose(rs) ==
  /\ \A r \in rs : answer[r] = 0
  /\ answer' = [r \in Requests |-> IF r \in rs THEN Lost ELSE answer[r]]
  /\ UNCHANGED <<lastEvaluated, measurements, alerts, body>>

StoreElsewhere(m) ==
  /\ OtherWriters
  /\ ~IsStored(m.id)
  /\ measurements' = Append(measurements, m)
  /\ UNCHANGED <<lastEvaluated, alerts, body, answer>>

Next ==
  \/ \E r \in Requests :
       \/ \E status \in {201, 503} : Accept(r, status)
       \/ AcknowledgeResend(r)
       \/ \E status \in {500, 503} : Refuse(r, status)
  \/ \E rs \in SUBSET Requests : Lose(rs)
  \/ \E m \in Messages : StoreElsewhere(m)

Spec == Init /\ [][Next]_vars

----------------------------------------------------------------------------
(* What follows from atomic acceptance, for the systems built on it.         *)

\* The i-th row is the newest measurement, the first stored of its time.
IsNewest(i) ==
  /\ \A j \in DOMAIN measurements : measurements[j].at <= measurements[i].at
  /\ \A j \in 1 .. i - 1 : measurements[j].at < measurements[i].at

====
