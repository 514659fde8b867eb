---- MODULE MeasurementIntake ----
(***************************************************************************)
(* POST /api/v1/devices/{device}/measurements once a request has passed    *)
(* the endpoint's checks: MeasurementService.accept, run by any number of  *)
(* threads at once against PostgreSQL (READ COMMITTED) through SQLAlchemy. *)
(*                                                                         *)
(* One device.  Every statement of the transaction is a step, so steps of  *)
(* several requests interleave; the device row lock, the UNIQUE constraint *)
(* on (device, message) and the connection pool are the database's and the *)
(* library's side.  A statement or the commit may fail, the               *)
(* acknowledgement of a commit that took effect may be lost, and the       *)
(* process may crash and take every request in progress with it.           *)
(***************************************************************************)
EXTENDS AlertRules, FiniteSets

CONSTANTS
  Requests,      \* HTTP requests, each handled by a thread
  Messages,      \* the bodies a request may carry
  PoolSize,      \* connections the engine's pool can hand out
  OtherWriters,  \* TRUE: some client of the database inserts without the lock
  NoRequest      \* the row lock is free

\* A measurement as MeasurementRequest accepts it: an id, a time, and a reading
\* of every metric.
Message == [id : Nat, at : Nat \ {Null}, reading : [Metrics -> Int]]

ASSUME IntakeAssumption ==
  /\ Messages \subseteq Message
  /\ PoolSize \in Nat \ {0}
  /\ OtherWriters \in BOOLEAN
  /\ NoRequest \notin Requests

VARIABLES
  registered,     \* the device has a row in app.devices
  lastEvaluated,  \* devices.last_alert_evaluated_at, Null before the first
  measurements,   \* app.measurements, in order of commit
  alerts,         \* app.alerts per metric, in order of insertion
  rowLock,        \* the request whose transaction holds the device row lock
  pc,             \* where each request is in accept
  body,           \* the measurement each request carries
  seen,           \* last_alert_evaluated_at in the request's Device object
  draft,          \* the alert rows its session will write at commit: {} or {rows}
  result          \* HTTP status of the answer, 0 while there is none

database == <<registered, lastEvaluated, measurements, alerts>>
session == <<seen, draft>>
vars == <<database, session, body, rowLock, pc, result>>

Stages == {"idle", "checkout", "lock", "find", "insert", "evaluate", "commit",
           "reread", "respond", "done", "lost"}

Lost == 1   \* a request that never got an answer

\* Stages in which the request's session holds a pooled connection.
Connected == {"lock", "find", "insert", "evaluate", "commit"}
Locked == {"find", "insert", "evaluate", "commit"}
InProgress == {"checkout", "reread", "respond"} \cup Connected

Connections == {r \in Requests : pc[r] \in Connected}
PoolExhausted == Cardinality(Connections) >= PoolSize

IsStored(id) == \E i \in DOMAIN measurements : measurements[i].id = id

\* The measurement has been flushed but not committed.
Flushed(r) == pc[r] \in {"evaluate", "commit"}

\* Mutated form of Released: the transaction is left open.
NeverReleased(r) == rowLock

Released(r) == IF rowLock = r THEN NoRequest ELSE rowLock

NoAlerts == [m \in Metrics |-> <<>>]

Init ==
  /\ registered = FALSE
  /\ lastEvaluated = Null
  /\ measurements = <<>>
  /\ alerts = NoAlerts
  /\ rowLock = NoRequest
  /\ pc = [r \in Requests |-> "idle"]
  /\ body \in [Requests -> Messages]
  /\ seen = [r \in Requests |-> Null]
  /\ draft = [r \in Requests |-> {}]
  /\ result = [r \in Requests |-> 0]

Goto(r, stage) == pc' = [pc EXCEPT ![r] = stage]

\* The transaction ends: what it read and meant to write is gone, and its lock.
EndTransaction(r) ==
  /\ rowLock' = Released(r)
  /\ seen' = [seen EXCEPT ![r] = Null]
  /\ draft' = [draft EXCEPT ![r] = {}]

\* The handler is left with an answer: the session is closed, which rolls back
\* what is not committed, releases the row lock and returns the connection.
Finish(r, status) ==
  /\ Goto(r, "respond")
  /\ result' = [result EXCEPT ![r] = status]
  /\ EndTransaction(r)
  /\ UNCHANGED body

----------------------------------------------------------------------------
(* The device is registered by the initialisation command, at any time and   *)
(* as often as it is run.                                                    *)
RegisterDevice ==
  /\ ~registered
  /\ registered' = TRUE
  /\ UNCHANGED <<lastEvaluated, measurements, alerts, session, body, rowLock, pc, result>>

(* A request that passed the endpoint's checks is handed to a thread.        *)
Receive(r) ==
  /\ pc[r] = "idle"
  /\ Goto(r, "checkout")
  /\ UNCHANGED <<database, session, body, rowLock, result>>

(* The session's first statement takes a connection from the pool ...        *)
Checkout(r) ==
  /\ pc[r] = "checkout"
  /\ ~PoolExhausted
  /\ Goto(r, "lock")
  /\ UNCHANGED <<database, session, body, rowLock, result>>

(* ... or times out waiting for one, also when the session needs it again    *)
(* after a rollback: an SQLAlchemyError that is no DBAPIError, hence 500.    *)
CheckoutTimeout(r) ==
  /\ pc[r] \in {"checkout", "reread"}
  /\ PoolExhausted
  /\ Finish(r, 500)
  /\ UNCHANGED database

\* Mutated form of LockDevice: a SELECT without FOR UPDATE.
ReadDevice(r) ==
  /\ pc[r] = "lock"
  /\ registered
  /\ seen' = [seen EXCEPT ![r] = lastEvaluated]
  /\ Goto(r, "find")
  /\ UNCHANGED <<database, body, rowLock, draft, result>>

(* SELECT ... FOR UPDATE of the device row returns: no other transaction     *)
(* holds it, and the row is read as last committed.                          *)
LockDevice(r) ==
  /\ pc[r] = "lock"
  /\ registered
  /\ rowLock = NoRequest
  /\ rowLock' = r
  /\ seen' = [seen EXCEPT ![r] = lastEvaluated]
  /\ Goto(r, "find")
  /\ UNCHANGED <<database, body, draft, result>>

DeviceMissing(r) ==
  /\ pc[r] = "lock"
  /\ ~registered
  /\ Finish(r, 500)
  /\ UNCHANGED database

(* find_by_message_id: a stored message is answered as a safe resend.        *)
FindStored(r) ==
  /\ pc[r] = "find"
  /\ IsStored(body[r].id)
  /\ Finish(r, 200)
  /\ UNCHANGED database

FindNothing(r) ==
  /\ pc[r] = "find"
  /\ ~IsStored(body[r].id)
  /\ Goto(r, "insert")
  /\ UNCHANGED <<database, session, body, rowLock, result>>

\* Mutated form of Insert: the table has no UNIQUE constraint.
InsertUnchecked(r) ==
  /\ pc[r] = "insert"
  /\ Goto(r, "evaluate")
  /\ UNCHANGED <<database, session, body, rowLock, result>>

(* repository.add flushes the INSERT.  The row is visible to others only     *)
(* after the commit, but the UNIQUE constraint is checked now, and an INSERT *)
(* of the same message waits for the transaction that flushed it.            *)
Insert(r) ==
  /\ pc[r] = "insert"
  /\ ~IsStored(body[r].id)
  /\ \A q \in Requests : Flushed(q) => body[q].id # body[r].id
  /\ Goto(r, "evaluate")
  /\ UNCHANGED <<database, session, body, rowLock, result>>

(* uq_measurements_device_message is violated: the transaction is rolled     *)
(* back, which releases the lock and returns the connection.                 *)
InsertDuplicate(r) ==
  /\ pc[r] = "insert"
  /\ IsStored(body[r].id)
  /\ EndTransaction(r)
  /\ Goto(r, "reread")
  /\ UNCHANGED <<database, body, result>>

(* The message is read again, in a new transaction without the lock.         *)
Reread(r) ==
  /\ pc[r] = "reread"
  /\ ~PoolExhausted
  /\ Finish(r, IF IsStored(body[r].id) THEN 200 ELSE 500)
  /\ UNCHANGED database

(* AlertService.evaluate, for a measurement newer than any evaluated before; *)
(* its rows stay in the session (autoflush is off) until the commit.         *)
Evaluate(r) ==
  /\ pc[r] = "evaluate"
  /\ draft' = [draft EXCEPT ![r] = IF IsNewer(body[r].at, seen[r])
                                  THEN {EvaluateAll(alerts, body[r].at, body[r].reading)}
                                  ELSE {}]
  /\ Goto(r, "commit")
  /\ UNCHANGED <<database, body, seen, rowLock, result>>

\* Mutated form of CommitEffect: last_alert_evaluated_at is not set.
CommitWithoutTime(r) ==
  /\ measurements' = Append(measurements, body[r])
  /\ IF draft[r] = {} THEN UNCHANGED alerts ELSE alerts' \in draft[r]
  /\ UNCHANGED <<registered, lastEvaluated>>

(* session.commit flushes the alert rows and the device row and commits.     *)
CommitEffect(r) ==
  /\ measurements' = Append(measurements, body[r])
  /\ IF draft[r] = {}
     THEN UNCHANGED <<alerts, lastEvaluated>>
     ELSE /\ alerts' \in draft[r]
          /\ lastEvaluated' = body[r].at
  /\ UNCHANGED registered

Commit(r) ==
  /\ pc[r] = "commit"
  /\ CommitEffect(r)
  /\ Finish(r, 201)

(* The commit took effect and the connection broke before it was known.      *)
CommitUnacknowledged(r) ==
  /\ pc[r] = "commit"
  /\ CommitEffect(r)
  /\ Finish(r, 503)

\* Mutated form of DatabaseFails: the answer is decided before the commit.
DatabaseFailsUnnoticed(r) ==
  /\ pc[r] \in Connected
  /\ Finish(r, 201)
  /\ UNCHANGED database

(* Connecting, a statement or the commit fails with a DBAPIError: nothing is  *)
(* written.                                                                  *)
DatabaseFails(r) ==
  /\ pc[r] \in Connected \cup {"checkout", "reread"}
  /\ pc[r] \notin Connected => ~PoolExhausted
  /\ Finish(r, 503)
  /\ UNCHANGED database

(* The endpoint sends the response.                                          *)
Respond(r) ==
  /\ pc[r] = "respond"
  /\ Goto(r, "done")
  /\ UNCHANGED <<database, session, body, rowLock, result>>

(* The process stops: requests in progress get no answer, and the database   *)
(* rolls their transactions back.                                            *)
Crash ==
  /\ \E r \in Requests : pc[r] \in InProgress
  /\ pc' = [r \in Requests |-> IF pc[r] \in InProgress THEN "lost" ELSE pc[r]]
  /\ rowLock' = NoRequest
  /\ seen' = [r \in Requests |-> Null]
  /\ draft' = [r \in Requests |-> {}]
  /\ UNCHANGED <<database, body, result>>

(* Another client of the database commits a measurement without the device   *)
(* lock.  It would wait for a transaction that has flushed the same message, *)
(* and fail for a stored one.                                                *)
InsertElsewhere(m) ==
  /\ OtherWriters
  /\ registered
  /\ ~IsStored(m.id)
  /\ \A r \in Requests : Flushed(r) => body[r].id # m.id
  /\ measurements' = Append(measurements, m)
  /\ UNCHANGED <<registered, lastEvaluated, alerts, session, body, rowLock, pc, result>>

Handle(r) ==
  \/ Checkout(r) \/ CheckoutTimeout(r) \/ LockDevice(r) \/ DeviceMissing(r)
  \/ FindStored(r) \/ FindNothing(r) \/ Insert(r) \/ InsertDuplicate(r) \/ Reread(r)
  \/ Evaluate(r) \/ Commit(r) \/ Respond(r)

Next ==
  \/ RegisterDevice
  \/ \E r \in Requests : \/ Receive(r) \/ Handle(r)
                         \/ DatabaseFails(r) \/ CommitUnacknowledged(r)
  \/ Crash
  \/ \E m \in Messages : InsertElsewhere(m)

Spec == Init /\ [][Next]_vars

\* A thread goes on as long as it can; nothing forces arrivals or failures.
Fairness == \A r \in Requests : WF_vars(Handle(r))
FairSpec == Spec /\ Fairness

----------------------------------------------------------------------------
(* Properties                                                                *)

TypeOK ==
  /\ registered \in BOOLEAN
  /\ lastEvaluated \in Nat
  /\ measurements \in Seq(Messages)
  /\ alerts \in [Metrics -> Seq(Alert)]
  /\ rowLock \in Requests \cup {NoRequest}
  /\ pc \in [Requests -> Stages]
  /\ body \in [Requests -> Messages]
  /\ seen \in [Requests -> Nat]
  /\ draft \in [Requests -> SUBSET [Metrics -> Seq(Alert)]]
  /\ result \in [Requests -> {0, 200, 201, 500, 503}]

\* However often and however concurrently a message is sent, it is stored once.
OneRowPerMessage ==
  \A i, j \in DOMAIN measurements : measurements[i].id = measurements[j].id => i = j

\* A success is answered only for a message that is durably stored; a 201 also
\* means that the row is the one this request carried.
SuccessIsStored ==
  \A r \in Requests :
    /\ result[r] = 200 => IsStored(body[r].id)
    /\ result[r] = 201 => \E i \in DOMAIN measurements : measurements[i] = body[r]

\* Two requests never both report having created the same message.
CreatedOnce ==
  \A r, s \in Requests :
    result[r] = 201 /\ result[s] = 201 /\ body[r].id = body[s].id => r = s

\* Until it commits, a transaction with the device lock works on the current
\* state: what it read of the device, that its message is new, and the alert
\* rows it computed are what the database holds, whatever others do meanwhile.
WorkingCopyIsCurrent ==
  \A r \in Requests :
    /\ pc[r] \in Locked => rowLock = r /\ seen[r] = lastEvaluated
    /\ Flushed(r) => ~IsStored(body[r].id)
    /\ pc[r] = "commit" =>
         draft[r] = IF IsNewer(body[r].at, lastEvaluated)
                    THEN {EvaluateAll(alerts, body[r].at, body[r].reading)}
                    ELSE {}

\* The device lock alone removes duplicates: unless some client writes without
\* it, the UNIQUE constraint is never violated.
ConstraintUnused == ~OtherWriters => \A r \in Requests : pc[r] # "reread"

\* Requests of one device never open two alerts of a metric at a time.
OneOpenPerMetric == \A m \in Metrics : AtMostOneOpen(alerts[m])

\* The i-th row is the newest measurement, the first stored of its time.
IsNewest(i) ==
  /\ \A j \in DOMAIN measurements : measurements[j].at <= measurements[i].at
  /\ \A j \in 1 .. i - 1 : measurements[j].at < measurements[i].at

\* Whatever order requests commit in, the alert state is the one the newest
\* stored measurement calls for, and last_alert_evaluated_at is its time.
AlertsAgreeWithNewest ==
  ~OtherWriters =>
    /\ measurements = <<>> => lastEvaluated = Null
    /\ \A i \in DOMAIN measurements : IsNewest(i) =>
         /\ lastEvaluated = measurements[i].at
         /\ \A m \in Metrics : Agrees(m, alerts[m], measurements[i].reading[m])

\* Alert rows and last_alert_evaluated_at change only in the step that stores
\* a measurement newer than all evaluated before, never for a late arrival and
\* never without its measurement.
AlertsMoveForward ==
  [][<<alerts, lastEvaluated>>' # <<alerts, lastEvaluated>> =>
       \E r \in Requests :
         /\ measurements' = Append(measurements, body[r])
         /\ lastEvaluated' = body[r].at
         /\ lastEvaluated' > lastEvaluated]_vars

\* Every request handed to a thread is answered unless the process crashes,
\* whatever the others hold: lock and pool never block it for good.
EveryRequestEnds ==
  \A r \in Requests : pc[r] \in InProgress ~> pc[r] \in {"done", "lost"}

----------------------------------------------------------------------------
(* The abstract specification: accept is one step.                           *)

Answer == [r \in Requests |->
             IF pc[r] = "lost" /\ result[r] = 0 THEN Lost ELSE result[r]]

Atomic == INSTANCE IntakeSpec WITH answer <- Answer

\* Every interleaving, failure and crash looks like whole acceptances one after
\* the other: stored and evaluated together, or not at all.
AcceptIsAtomic == Atomic!Spec
====
