------------------------ MODULE DeviceDelivery_proofs ------------------------
(***************************************************************************)
(* From the device to the database, for any readings, any number of         *)
(* measurements, requests and retries, and whatever the network and the      *)
(* backend do: what is sent, how often, and what the device may forget.      *)
(***************************************************************************)
EXTENDS DeviceDelivery, FiniteSetTheorems, TLAPS

----------------------------------------------------------------------------
(* The inductive invariant                                                   *)

States == {"initializing", "ready", "pending_send", "retry_wait", "authentication_error"}
StepNames == {"sensor", "wifi", "clock", "measure", "send", "await", "display"}
Statuses == {0, 200, 201, 400, 401, 503}

TypeInv ==
  /\ step \in StepNames /\ state \in States
  /\ retries \in 0 .. MaxRetryCount
  /\ measured \in 0 .. MaxMeasurements
  /\ accepted \subseteq 1 .. measured
  /\ body \in Seq(Message)
  /\ Len(body) <= MaxAttempts
  /\ answer \in [Attempts -> Statuses]
  /\ \A a \in Attempts : answer[a] # 0 => a \in DOMAIN body
  /\ measurements \in Seq(Message)
  /\ \A a \in DOMAIN body : body[a].id <= measured

\* The controller holds at most one message, the last one made, and never one
\* the device has seen accepted.
PendingIsNewest ==
  \A m \in pending : m \in Message /\ pending = {m} /\ m.id = measured /\ m.id \notin accepted

\* send waits for the last request made, which carries the pending message.
AwaitsPending ==
  IF step = "await"
  THEN /\ body # <<>> /\ sending = Len(body) /\ pending = {body[sending]}
       /\ state = "pending_send"
  ELSE sending = 0

AttemptsOf(id) == {a \in DOMAIN body : body[a].id = id}

\* Every failed attempt of the pending message was counted as a retry; the one
\* under way is not yet.
AttemptsAreCounted ==
  pending # {} =>
    Cardinality(AttemptsOf(measured)) <= retries + (IF step = "await" THEN 1 ELSE 0)

\* A success was answered for what the database has.
SuccessIsTrue ==
  \A a \in DOMAIN body : answer[a] \in {200, 201} => Backend!IsStored(body[a].id)

DeliveryInv ==
  /\ TypeInv
  /\ PendingIsNewest
  /\ AwaitsPending
  /\ AttemptsAreCounted
  /\ AttemptsBounded
  /\ SuccessIsTrue
  /\ AcceptedIsStored

----------------------------------------------------------------------------
(* Lemmas                                                                    *)

LEMMA BodyFacts ==
  ASSUME TypeInv
  PROVE  /\ DOMAIN body = 1 .. Len(body) /\ Len(body) \in Nat
         /\ \A a \in DOMAIN body : body[a] \in Message /\ body[a].id \in Nat /\ a \in Attempts
         /\ MaxAttempts \in Nat /\ MaxRetryCount \in Nat /\ MaxMeasurements \in Nat
         /\ measured \in Nat /\ retries \in Nat
<1>1. body \in Seq(Message) /\ Len(body) <= MaxAttempts
  BY DEF TypeInv
<1>2. /\ MaxAttempts \in Nat /\ MaxRetryCount \in Nat /\ MaxMeasurements \in Nat
  BY DeliveryAssumption
<1>3. DOMAIN body = 1 .. Len(body) /\ Len(body) \in Nat /\ \A a \in DOMAIN body : body[a] \in Message
  BY <1>1
<1>4. \A a \in DOMAIN body : a \in Attempts
  BY <1>1, <1>2, <1>3 DEF Attempts
<1>5. \A m \in Message : m.id \in Nat
  BY <1>2 DEF Message
<1>6. measured \in Nat /\ retries \in Nat
  BY <1>2 DEF TypeInv
<1> QED BY <1>2, <1>3, <1>4, <1>5, <1>6

LEMMA AttemptsFinite ==
  ASSUME TypeInv, NEW id
  PROVE  IsFiniteSet(AttemptsOf(id)) /\ Cardinality(AttemptsOf(id)) \in Nat
<1>1. IsFiniteSet(1 .. Len(body))
  BY BodyFacts, FS_Interval
<1>2. AttemptsOf(id) \subseteq 1 .. Len(body)
  BY BodyFacts DEF AttemptsOf
<1> QED BY <1>1, <1>2, FS_Subset, FS_CardinalityType

\* A stored measurement stays stored when another is.
LEMMA AppendStores ==
  ASSUME measurements \in Seq(Message), NEW m \in Message, measurements' = Append(measurements, m)
  PROVE  /\ measurements' \in Seq(Message)
         /\ \A id : Backend!IsStored(id) => Backend!IsStored(id)'
         /\ Backend!IsStored(m.id)'
<1>1. /\ DOMAIN measurements = 1 .. Len(measurements) /\ Len(measurements) \in Nat
      /\ DOMAIN measurements' = 1 .. Len(measurements) + 1
      /\ measurements'[Len(measurements) + 1] = m
      /\ \A i \in 1 .. Len(measurements) : measurements'[i] = measurements[i]
      /\ measurements' \in Seq(Message)
  OBVIOUS
<1>2. \A i \in DOMAIN measurements : i \in DOMAIN measurements' /\ measurements'[i] = measurements[i]
  BY <1>1
<1>3. Len(measurements) + 1 \in DOMAIN measurements'
  BY <1>1
<1> QED BY <1>1, <1>2, <1>3 DEF Backend!IsStored

Handles(a) == HandleAccept(a) \/ HandleResend(a) \/ HandleFailure(a) \/ HandleReject(a)

\* What the backend does to a request: it answers once, and a success for what
\* it has.
LEMMA HandleFacts ==
  ASSUME TypeInv, NEW a \in DOMAIN body, Handles(a)
  PROVE  /\ UNCHANGED <<Device, body>>
         /\ measurements' \in Seq(Message)
         /\ \A id : Backend!IsStored(id) => Backend!IsStored(id)'
         /\ \E status \in Statuses :
              /\ answer' = [answer EXCEPT ![a] = status]
              /\ status \in {200, 201} => Backend!IsStored(body[a].id)'
<1>1. body[a] \in Message /\ measurements \in Seq(Message)
  BY BodyFacts DEF TypeInv
<1>2. CASE HandleAccept(a)
  <2>1. PICK status \in {201, 503} : Backend!Accept(a, status)
    BY <1>2 DEF HandleAccept
  <2>2. /\ measurements' = Append(measurements, body[a])
        /\ answer' = [answer EXCEPT ![a] = status] /\ UNCHANGED body
    BY <2>1 DEF Backend!Accept, Backend!Decide
  <2>3. UNCHANGED Device
    BY <1>2 DEF HandleAccept
  <2>4. /\ measurements' \in Seq(Message)
        /\ \A id : Backend!IsStored(id) => Backend!IsStored(id)'
        /\ Backend!IsStored(body[a].id)'
    BY <1>1, <2>2, AppendStores
  <2>5. status \in Statuses /\ (status \in {200, 201} => Backend!IsStored(body[a].id)')
    BY <2>4 DEF Statuses
  <2> QED BY <2>2, <2>3, <2>4, <2>5
<1>3. CASE ~HandleAccept(a)
  <2>1. /\ UNCHANGED <<Device, measurements, body>>
        /\ \E status \in {200, 503, 400, 401} :
             /\ answer' = [answer EXCEPT ![a] = status]
             /\ status = 200 => Backend!IsStored(body[a].id)
    BY <1>3 DEF Handles, HandleResend, HandleFailure, HandleReject, Backend!AcknowledgeResend,
                Backend!Refuse, Backend!Decide
  <2>2. \A id : Backend!IsStored(id) <=> Backend!IsStored(id)'
    BY <2>1 DEF Backend!IsStored
  <2>3. PICK status \in {200, 503, 400, 401} :
          /\ answer' = [answer EXCEPT ![a] = status]
          /\ status = 200 => Backend!IsStored(body[a].id)
    BY <2>1
  <2>4. status \in Statuses /\ (status \in {200, 201} => Backend!IsStored(body[a].id)')
    BY <2>1, <2>2, <2>3 DEF Statuses
  <2>5. \E st \in Statuses :
          /\ answer' = [answer EXCEPT ![a] = st]
          /\ st \in {200, 201} => Backend!IsStored(body[a].id)'
    BY <2>3, <2>4
  <2> QED BY <1>1, <2>1, <2>2, <2>5
<1> QED BY <1>2, <1>3

----------------------------------------------------------------------------
(* The steps                                                                 *)

\* What the device counts on, unchanged.
message == <<pending, retries, measured, sending, accepted>>

\* A step between two calls that neither makes nor settles a message.
Quiet ==
  /\ UNCHANGED <<message, body, answer, measurements>>
  /\ step' \in StepNames /\ state' \in States
  /\ step = "await" <=> step' = "await"
  /\ step = "await" => state' = state

LEMMA QuietSteps ==
  ASSUME TypeInv,
         \/ UpdateSensor \/ UpdateWifi \/ UpdateClock \/ MeasureLater \/ MeasureNothing
         \/ SendNothing \/ DisplayLater \/ UpdateDisplay \/ RetryDue \/ LinkChanges
         \/ UNCHANGED vars
  PROVE  Quiet
<1> USE DEF Quiet, message, retryState, backend, StepNames, States
<1>1. step \in StepNames /\ state \in States
  BY DEF TypeInv
<1>2. CASE UpdateSensor \/ UpdateWifi \/ UpdateClock
  BY <1>1, <1>2 DEF UpdateSensor, UpdateWifi, UpdateClock
<1>3. CASE MeasureLater \/ MeasureNothing \/ SendNothing
  BY <1>1, <1>3 DEF MeasureLater, MeasureNothing, SendNothing
<1>4. CASE DisplayLater \/ UpdateDisplay
  BY <1>1, <1>4 DEF DisplayLater, UpdateDisplay
<1>5. CASE RetryDue \/ LinkChanges \/ UNCHANGED vars
  BY <1>1, <1>5 DEF RetryDue, LinkChanges, vars, control
<1> QED BY <1>2, <1>3, <1>4, <1>5

LEMMA QuietKeeps ==
  ASSUME DeliveryInv, Quiet
  PROVE  DeliveryInv'
<1>1. /\ UNCHANGED <<message, body, answer, measurements>>
      /\ pending' = pending /\ retries' = retries /\ measured' = measured
      /\ sending' = sending /\ accepted' = accepted
  BY DEF Quiet, message
<1>2. TypeInv'
  BY <1>1 DEF DeliveryInv, TypeInv, Quiet
<1>3. PendingIsNewest' /\ AwaitsPending'
  BY <1>1 DEF DeliveryInv, PendingIsNewest, AwaitsPending, Quiet
<1>4. AttemptsAreCounted' /\ AttemptsBounded'
  BY <1>1 DEF DeliveryInv, AttemptsAreCounted, AttemptsBounded, AttemptsOf, Quiet
<1>5. SuccessIsTrue' /\ AcceptedIsStored'
  BY <1>1 DEF DeliveryInv, SuccessIsTrue, AcceptedIsStored, Backend!IsStored
<1> QED BY <1>2, <1>3, <1>4, <1>5 DEF DeliveryInv

LEMMA MeasureKeeps ==
  ASSUME DeliveryInv, MeasureQueue
  PROVE  DeliveryInv'
<1> DEFINE id == measured + 1
<1>1. PICK reading \in Readings :
        Replace([id |-> measured + 1, at |-> measured + 1, reading |-> reading])
  BY DEF MeasureQueue
<1> DEFINE m == [id |-> measured + 1, at |-> measured + 1, reading |-> reading]
<1>2. /\ step = "measure" /\ step' = "send" /\ state' = "pending_send"
      /\ measured < MaxMeasurements /\ measured' = id
      /\ pending' = {m} /\ retries' = 0
      /\ UNCHANGED <<sending, accepted, body, answer, measurements>>
  BY <1>1 DEF MeasureQueue, Replace, backend
<1>3. measured \in Nat /\ id \in 1 .. MaxMeasurements /\ MaxRetryCount \in Nat
  BY <1>2, BodyFacts DEF DeliveryInv
<1>4. m \in Message /\ m.id = id
  BY <1>3 DEF Message
<1>5. id \notin accepted /\ accepted \subseteq 1 .. id
  BY <1>3 DEF DeliveryInv, TypeInv
<1>6. TypeInv'
  <2>1. \A a \in DOMAIN body' : body'[a].id <= measured'
    BY <1>2, <1>3, BodyFacts DEF DeliveryInv, TypeInv
  <2> QED BY <1>2, <1>3, <1>5, <2>1 DEF DeliveryInv, TypeInv, StepNames, States
<1>7. PendingIsNewest' /\ AwaitsPending'
  BY <1>2, <1>4, <1>5 DEF DeliveryInv, PendingIsNewest, AwaitsPending
<1>8. AttemptsOf(id) = {} /\ Cardinality(AttemptsOf(id)) = 0
  <2>1. \A a \in DOMAIN body : body[a].id # id
    BY <1>3, BodyFacts DEF DeliveryInv, TypeInv
  <2>2. AttemptsOf(id) = {}
    BY <2>1 DEF AttemptsOf
  <2> QED BY <2>2, FS_EmptySet
<1> HIDE DEF id, m
<1>9. AttemptsAreCounted'
  BY <1>2, <1>8 DEF AttemptsAreCounted, AttemptsOf
<1>10. AttemptsBounded'
  <2>1. SUFFICES ASSUME NEW i \in 1 .. id
                 PROVE  Cardinality(AttemptsOf(i)) <= 1 + MaxRetryCount
    BY <1>2 DEF AttemptsBounded, AttemptsOf
  <2>2. i = id \/ i \in 1 .. measured
    BY <1>3 DEF id
  <2> QED BY <1>3, <1>8, <2>2 DEF DeliveryInv, AttemptsBounded, AttemptsOf
<1>11. SuccessIsTrue' /\ AcceptedIsStored'
  BY <1>2 DEF DeliveryInv, SuccessIsTrue, AcceptedIsStored, Backend!IsStored
<1> QED BY <1>6, <1>7, <1>9, <1>10, <1>11 DEF DeliveryInv

\* The request carries the pending message, and is its next attempt.
LEMMA SendKeeps ==
  ASSUME DeliveryInv, Send
  PROVE  DeliveryInv'
<1> DEFINE n == Len(body) + 1
<1>1. PICK m \in pending : pending = {m} /\ m \in Message /\ m.id = measured /\ m.id \notin accepted
  BY DEF DeliveryInv, PendingIsNewest, Send, MaySend
<1>2. (CHOOSE x \in pending : TRUE) = m
  BY <1>1
<1>3. /\ step = "send" /\ step' = "await" /\ state' = "pending_send"
      /\ body' = Append(body, m) /\ sending' = n /\ Len(body) < MaxAttempts
      /\ UNCHANGED <<pending, retries, measured, accepted, answer, measurements>>
  BY <1>2 DEF Send, retryState, backend
<1>4. /\ body \in Seq(Message) /\ Len(body) \in Nat /\ DOMAIN body = 1 .. Len(body)
      /\ n \in Nat /\ n \in Attempts /\ n \notin DOMAIN body
      /\ \A a \in DOMAIN body : body[a] \in Message
  BY <1>3, BodyFacts DEF DeliveryInv, TypeInv, Attempts
<1>5. /\ body' \in Seq(Message) /\ Len(body') = n /\ DOMAIN body' = DOMAIN body \cup {n}
      /\ body'[n] = m /\ \A a \in DOMAIN body : body'[a] = body[a]
  BY <1>1, <1>3, <1>4
<1>6. measured \in Nat /\ retries \in Nat /\ retries <= MaxRetryCount /\ MaxRetryCount \in Nat
  BY BodyFacts DEF DeliveryInv, TypeInv
<1> HIDE DEF n
<1>7. TypeInv'
  <2>1. Len(body') <= MaxAttempts
    BY <1>3, <1>4, <1>5, BodyFacts DEF n, DeliveryInv
  <2>2. \A a \in DOMAIN body' : body'[a].id <= measured'
    BY <1>1, <1>3, <1>5, <1>6 DEF DeliveryInv, TypeInv
  <2> QED BY <1>3, <1>5, <2>1, <2>2 DEF DeliveryInv, TypeInv, StepNames, States
<1>8. PendingIsNewest'
  BY <1>3 DEF DeliveryInv, PendingIsNewest
<1>9. AwaitsPending'
  <2>1. body' # <<>>
    BY <1>5
  <2> QED BY <1>1, <1>3, <1>5, <2>1 DEF AwaitsPending
<1>10. /\ AttemptsOf(measured)' = AttemptsOf(measured) \cup {n}
       /\ \A id : id # measured => AttemptsOf(id)' = AttemptsOf(id)
  BY <1>1, <1>3, <1>5 DEF AttemptsOf
<1>11. Cardinality(AttemptsOf(measured)') = Cardinality(AttemptsOf(measured)) + 1
  <2>1. n \notin AttemptsOf(measured)
    BY <1>4 DEF AttemptsOf
  <2> QED BY <1>10, <2>1, AttemptsFinite, FS_AddElement DEF DeliveryInv
<1>12. Cardinality(AttemptsOf(measured)) <= retries /\ Cardinality(AttemptsOf(measured)) \in Nat
  BY <1>1, <1>3, <1>6, AttemptsFinite DEF DeliveryInv, AttemptsAreCounted
<1>13. AttemptsAreCounted'
  <2>1. Cardinality(AttemptsOf(measured)') <= retries + 1
    BY <1>6, <1>11, <1>12
  <2> QED BY <1>3, <2>1 DEF AttemptsAreCounted
<1>14. AttemptsBounded'
  <2>1. SUFFICES ASSUME NEW id \in 1 .. measured
                 PROVE  Cardinality(AttemptsOf(id)') <= 1 + MaxRetryCount
    BY <1>3 DEF AttemptsBounded, AttemptsOf
  <2>2. CASE id = measured
    <3>1. AttemptsOf(id)' = AttemptsOf(measured)'
      BY <1>3, <2>2 DEF AttemptsOf
    <3> QED BY <1>6, <1>11, <1>12, <3>1
  <2>3. CASE id # measured
    BY <1>10, <2>3 DEF DeliveryInv, AttemptsBounded, AttemptsOf
  <2> QED BY <2>2, <2>3
<1>15. SuccessIsTrue'
  <2>1. ~(answer'[n] \in {200, 201})
    BY <1>3, <1>4 DEF DeliveryInv, TypeInv
  <2> QED BY <1>3, <1>5, <2>1 DEF DeliveryInv, SuccessIsTrue, Backend!IsStored
<1>16. AcceptedIsStored'
  BY <1>3 DEF DeliveryInv, AcceptedIsStored, Backend!IsStored
<1> QED BY <1>7, <1>8, <1>9, <1>13, <1>14, <1>15, <1>16 DEF DeliveryInv

\* An accepted message is stored; a retry is one attempt more, and one retry.
LEMMA ReturnKeeps ==
  ASSUME DeliveryInv, SendReturns
  PROVE  DeliveryInv'
<1>1. PICK status \in {answer[sending], 0} : ApplyResult(status)
  BY DEF SendReturns, Answers, TransportFailure
<1>2. /\ step = "await" /\ step' = "display" /\ sending' = 0
      /\ UNCHANGED <<measured, body, answer, measurements>>
  BY DEF SendReturns, backend
<1>3. /\ sending \in DOMAIN body /\ pending = {body[sending]} /\ body[sending].id = measured
      /\ measured \in 1 .. measured
  <2>1. body # <<>> /\ sending = Len(body) /\ pending = {body[sending]}
    BY <1>2 DEF DeliveryInv, AwaitsPending
  <2>2. sending \in DOMAIN body
    BY <2>1, BodyFacts DEF DeliveryInv, TypeInv
  <2>3. body[sending].id = measured /\ body[sending] \in Message
    BY <2>1 DEF DeliveryInv, PendingIsNewest
  <2>4. measured \in 1 .. measured
    BY <2>3 DEF Message
  <2> QED BY <2>1, <2>2, <2>3, <2>4
<1>4. \/ /\ pending' = {} /\ retries' = retries /\ state' \in {"ready", "authentication_error"}
         /\ accepted' = accepted \/ (accepted' = accepted \cup {measured} /\ status \in {200, 201})
      \/ /\ pending' = pending /\ retries' = retries + 1 /\ retries < MaxRetryCount
         /\ accepted' = accepted /\ state' = "retry_wait"
  <2>1. retries \in Nat /\ MaxRetryCount \in Nat
    BY BodyFacts DEF DeliveryInv
  <2>2. Disposition(status) = "accepted" => status \in {200, 201}
    BY DEF Disposition
  <2> QED BY <1>1, <1>3, <2>1, <2>2 DEF ApplyResult, Settle, Exhausted
<1>5. status \in {200, 201} => Backend!IsStored(measured)
  BY <1>3 DEF DeliveryInv, SuccessIsTrue
<1>6. retries \in Nat /\ retries' \in 0 .. MaxRetryCount
  BY <1>4, BodyFacts DEF DeliveryInv, TypeInv
<1>7. TypeInv'
  <2>1. accepted' \subseteq 1 .. measured'
    <3>1. accepted \subseteq 1 .. measured /\ measured' = measured
      BY <1>2 DEF DeliveryInv, TypeInv
    <3>2. accepted' \subseteq accepted \cup {measured}
      BY <1>4
    <3> QED BY <1>3, <3>1, <3>2
  <2> QED BY <1>2, <1>4, <1>6, <2>1 DEF DeliveryInv, TypeInv, StepNames, States
<1>8. PendingIsNewest'
  BY <1>2, <1>4 DEF DeliveryInv, PendingIsNewest
<1>9. AwaitsPending'
  BY <1>2 DEF AwaitsPending
<1>10. AttemptsAreCounted'
  BY <1>2, <1>4, <1>6 DEF DeliveryInv, AttemptsAreCounted, AttemptsOf
<1>11. AttemptsBounded' /\ SuccessIsTrue'
  BY <1>2 DEF DeliveryInv, AttemptsBounded, SuccessIsTrue, Backend!IsStored
<1>12. AcceptedIsStored'
  BY <1>2, <1>4, <1>5 DEF DeliveryInv, AcceptedIsStored, Backend!IsStored
<1> QED BY <1>7, <1>8, <1>9, <1>10, <1>11, <1>12 DEF DeliveryInv

\* A reset forgets the message, and nothing that was accepted.
LEMMA RestartKeeps ==
  ASSUME DeliveryInv, Restart
  PROVE  DeliveryInv'
<1>1. /\ step' = "sensor" /\ state' = "initializing"
      /\ pending' = {} /\ retries' = 0 /\ sending' = 0
      /\ UNCHANGED <<measured, accepted, body, answer, measurements>>
  BY DEF Restart, backend
<1>2. TypeInv'
  BY <1>1, DeliveryAssumption DEF DeliveryInv, TypeInv, StepNames, States
<1>3. PendingIsNewest' /\ AwaitsPending' /\ AttemptsAreCounted'
  BY <1>1 DEF PendingIsNewest, AwaitsPending, AttemptsAreCounted
<1>4. AttemptsBounded' /\ SuccessIsTrue' /\ AcceptedIsStored'
  BY <1>1 DEF DeliveryInv, AttemptsBounded, SuccessIsTrue, AcceptedIsStored, Backend!IsStored
<1> QED BY <1>2, <1>3, <1>4 DEF DeliveryInv

\* The backend stores, and never removes.
LEMMA HandleKeeps ==
  ASSUME DeliveryInv, NEW a \in DOMAIN body, Handles(a)
  PROVE  DeliveryInv'
<1>1. /\ UNCHANGED <<Device, body>>
      /\ measurements' \in Seq(Message)
      /\ \A id : Backend!IsStored(id) => Backend!IsStored(id)'
  BY HandleFacts DEF DeliveryInv
<1>2. PICK status \in Statuses :
        /\ answer' = [answer EXCEPT ![a] = status]
        /\ status \in {200, 201} => Backend!IsStored(body[a].id)'
  BY HandleFacts DEF DeliveryInv
<1>3. /\ UNCHANGED <<step, state, pending, retries, measured, sending, accepted, body>>
  BY <1>1 DEF Device, control, retryState
<1>4. a \in Attempts /\ answer \in [Attempts -> Statuses]
      /\ \A b \in DOMAIN body : b \in Attempts
  BY BodyFacts DEF DeliveryInv, TypeInv
<1>5. TypeInv'
  BY <1>1, <1>2, <1>3, <1>4 DEF DeliveryInv, TypeInv
<1>6. PendingIsNewest' /\ AwaitsPending'
  BY <1>3 DEF DeliveryInv, PendingIsNewest, AwaitsPending
<1>7. AttemptsAreCounted' /\ AttemptsBounded'
  BY <1>3 DEF DeliveryInv, AttemptsAreCounted, AttemptsBounded, AttemptsOf
<1>8. SuccessIsTrue'
  <2>1. SUFFICES ASSUME NEW b \in DOMAIN body, answer'[b] \in {200, 201}
                 PROVE  Backend!IsStored(body[b].id)'
    BY <1>3 DEF SuccessIsTrue, Backend!IsStored
  <2>2. CASE b = a
    BY <1>2, <1>4, <2>1, <2>2
  <2>3. CASE b # a
    BY <1>1, <1>2, <1>4, <2>1, <2>3 DEF DeliveryInv, SuccessIsTrue
  <2> QED BY <2>2, <2>3
<1>9. AcceptedIsStored'
  BY <1>1, <1>3 DEF DeliveryInv, AcceptedIsStored, Backend!IsStored
<1> QED BY <1>5, <1>6, <1>7, <1>8, <1>9 DEF DeliveryInv

----------------------------------------------------------------------------
(* The invariant                                                             *)

LEMMA InitInv == Init => DeliveryInv
<1>1. SUFFICES ASSUME Init PROVE DeliveryInv
  OBVIOUS
<1>2. /\ step = "sensor" /\ state = "initializing" /\ retries = 0 /\ measured = 0
      /\ accepted = {} /\ body = <<>> /\ measurements = <<>> /\ pending = {} /\ sending = 0
      /\ answer = [a \in Attempts |-> 0]
  BY <1>1 DEF Init
<1>3. TypeInv
  BY <1>2, DeliveryAssumption DEF TypeInv, StepNames, States, Statuses
<1>4. PendingIsNewest /\ AwaitsPending /\ AttemptsAreCounted
  BY <1>2 DEF PendingIsNewest, AwaitsPending, AttemptsAreCounted
<1>5. AttemptsBounded /\ SuccessIsTrue /\ AcceptedIsStored
  BY <1>2 DEF AttemptsBounded, SuccessIsTrue, AcceptedIsStored
<1> QED BY <1>3, <1>4, <1>5 DEF DeliveryInv

LEMMA NextInv == DeliveryInv /\ [Next]_vars => DeliveryInv'
<1>1. SUFFICES ASSUME DeliveryInv, [Next]_vars PROVE DeliveryInv'
  OBVIOUS
<1>2. CASE \/ UpdateSensor \/ UpdateWifi \/ UpdateClock \/ MeasureLater \/ MeasureNothing
           \/ SendNothing \/ DisplayLater \/ UpdateDisplay \/ RetryDue \/ LinkChanges
           \/ UNCHANGED vars
  BY <1>1, <1>2, QuietSteps, QuietKeeps DEF DeliveryInv
<1>3. CASE MeasureQueue
  BY <1>1, <1>3, MeasureKeeps
<1>4. CASE Send
  BY <1>1, <1>4, SendKeeps
<1>5. CASE SendReturns
  BY <1>1, <1>5, ReturnKeeps
<1>6. CASE Restart
  BY <1>1, <1>6, RestartKeeps
<1>7. CASE \E a \in DOMAIN body : Handles(a)
  BY <1>1, <1>7, HandleKeeps
<1> QED BY <1>1, <1>2, <1>3, <1>4, <1>5, <1>6, <1>7 DEF Next, Loop, Handles

\* Whatever the network loses or delays and the backend answers, the device, the
\* requests under way and the database agree as DeliveryInv says.
THEOREM DeliveryInvariant == Spec => []DeliveryInv
<1>1. Init => DeliveryInv
  BY InitInv
<1>2. DeliveryInv /\ [Next]_vars => DeliveryInv'
  BY NextInv
<1> QED BY <1>1, <1>2, PTL DEF Spec

----------------------------------------------------------------------------
(* What it gives                                                             *)

\* No measurement the device takes for accepted, and forgets, is missing in the
\* database, also after late answers and resets (RetryController::apply_result).
THEOREM NothingAcceptedIsLost == Spec => []AcceptedIsStored
<1>1. DeliveryInv => AcceptedIsStored
  BY DEF DeliveryInv
<1> QED BY <1>1, DeliveryInvariant, PTL

\* No measurement is sent more than 1 + MaxRetryCount times, resets included: a
\* reset gives the message up.
THEOREM NoEndlessResending == Spec => []AttemptsBounded
<1>1. DeliveryInv => AttemptsBounded
  BY DEF DeliveryInv
<1> QED BY <1>1, DeliveryInvariant, PTL

\* Only the newest measurement is sent, and not once the device knows it
\* accepted (RetryController::replace, update_sending).
THEOREM SendsOnlyNewest == Spec => OnlyNewestIsSent
<1> DEFINE Step == body' # body =>
                     LET id == body'[Len(body')].id IN id = measured /\ id \notin accepted
<1>1. DeliveryInv /\ [Next]_vars => Step
  <2>1. SUFFICES ASSUME DeliveryInv, [Next]_vars, body' # body PROVE Step
    OBVIOUS
  <2>2. Send
    <3>1. \A a \in DOMAIN body : Handles(a) => body' = body
      BY <2>1, HandleFacts DEF DeliveryInv
    <3>2. Loop \/ RetryDue \/ Restart \/ LinkChanges
      BY <2>1, <3>1 DEF Next, Handles, vars
    <3>3. ~(RetryDue \/ Restart \/ LinkChanges \/ MeasureQueue \/ SendReturns)
      BY <2>1 DEF RetryDue, Restart, LinkChanges, MeasureQueue, SendReturns
    <3>4. ~(\/ UpdateSensor \/ UpdateWifi \/ UpdateClock \/ MeasureLater \/ MeasureNothing
            \/ SendNothing \/ DisplayLater \/ UpdateDisplay)
      BY <2>1, QuietSteps DEF DeliveryInv, Quiet
    <3> QED BY <3>2, <3>3, <3>4 DEF Loop
  <2>3. PICK m \in pending : pending = {m} /\ m \in Message /\ m.id = measured /\ m.id \notin accepted
    BY <2>1, <2>2 DEF DeliveryInv, PendingIsNewest, Send, MaySend
  <2>4. body' = Append(body, m) /\ body \in Seq(Message)
    <3>1. (CHOOSE x \in pending : TRUE) = m
      BY <2>3
    <3> QED BY <2>1, <2>2, <3>1 DEF Send, DeliveryInv, TypeInv
  <2>5. body'[Len(body')] = m
    BY <2>3, <2>4
  <2> QED BY <2>3, <2>5
<1> QED BY <1>1, DeliveryInvariant, PTL DEF Spec, OnlyNewestIsSent

\* After an authentication error only a reset makes the device send again
\* (transmission_stopped_).
THEOREM NoSendAfterAuthenticationError == Spec => AuthenticationErrorIsFinal
<1> DEFINE Step == TransmissionStopped => (state' = state /\ body' = body) \/ Restart
<1>1. DeliveryInv /\ [Next]_vars => Step
  <2>1. SUFFICES ASSUME DeliveryInv, [Next]_vars, TransmissionStopped, ~Restart
                 PROVE  state' = state /\ body' = body
    OBVIOUS
  <2>2. ~MeasureQueue /\ ~Send
    BY <2>1 DEF MeasureQueue, Send, MaySend
  <2>3. ~SendReturns
    BY <2>1 DEF TransmissionStopped, SendReturns, DeliveryInv, AwaitsPending
  <2>4. CASE \E a \in DOMAIN body : Handles(a)
    BY <2>1, <2>4, HandleFacts DEF DeliveryInv, Device, control
  <2>5. CASE RetryDue \/ LinkChanges \/ UNCHANGED vars
    BY <2>5 DEF RetryDue, LinkChanges, vars, control
  <2>6. CASE UpdateSensor \/ UpdateWifi \/ UpdateClock \/ MeasureLater \/ DisplayLater
    BY <2>6 DEF UpdateSensor, UpdateWifi, UpdateClock, MeasureLater, DisplayLater
  <2>7. CASE MeasureNothing \/ SendNothing \/ UpdateDisplay
    BY <2>1, <2>7 DEF MeasureNothing, SendNothing, UpdateDisplay, TransmissionStopped
  <2> QED BY <2>1, <2>2, <2>3, <2>4, <2>5, <2>6, <2>7 DEF Next, Loop, Handles
<1> QED BY <1>1, DeliveryInvariant, PTL DEF Spec, AuthenticationErrorIsFinal
====
