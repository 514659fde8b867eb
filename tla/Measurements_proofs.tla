------------------------ MODULE Measurements_proofs ------------------------
(***************************************************************************)
(* Proofs about the path of a measurement: its intake, for every number of *)
(* requests, messages and pooled connections, with or without clients that *)
(* write without the lock; the episodes that alerting makes of a history;   *)
(* and the alert histories, series and statistics asked for meanwhile.  All *)
(* thresholds, every scale, bucket length and page size.                    *)
(***************************************************************************)
EXTENDS MeasurementIntake, MeasurementQueries, Arithmetic_proofs

----------------------------------------------------------------------------
(* The rules of alerting: what EvaluateMetric preserves and establishes. *)

LEMMA ThresholdsAreValid ==
  ASSUME NEW m \in Metrics
  PROVE  /\ Thresholds[m] \in Threshold
         /\ ValidThreshold(Thresholds[m])
  BY ThresholdAssumption

LEMMA StoredIsInt ==
  ASSUME NEW v \in Int
  PROVE  Stored(v) \in Int
<1> DEFINE magnitude(x) == Scale * ((2 * x + Scale) \div (2 * Scale))
<1>1. ASSUME NEW x \in Int PROVE magnitude(x) \in Int
  <2>1. 2 * Scale \in Nat \ {0} BY ScaleAssumption
  <2>2. 2 * x + Scale \in Int BY ScaleAssumption
  <2>3. (2 * x + Scale) \div (2 * Scale) \in Int BY <2>1, <2>2
  <2> QED BY <2>3, ScaleAssumption
<1>2. -v \in Int OBVIOUS
<1>3. magnitude(v) \in Int BY <1>1
<1>4. magnitude(-v) \in Int BY <1>1, <1>2
<1> HIDE DEF magnitude
<1>5. -magnitude(-v) \in Int BY <1>4
<1>6. Stored(v) = IF v >= 0 THEN magnitude(v) ELSE -magnitude(-v)
  BY DEF Stored, magnitude
<1> QED BY <1>3, <1>5, <1>6

\* A new alert is an alert row.
LEMMA NewAlertType ==
  ASSUME NEW m \in Metrics, NEW d \in Directions, NEW at \in Nat, NEW v \in Int
  PROVE  NewAlert(d, at, v, Thresholds[m]) \in Alert
<1> DEFINE t == Thresholds[m]
<1>1. t \in Threshold
  BY ThresholdsAreValid
<1>2. Stored(IF d = "LOW" THEN t.lower ELSE t.upper) \in Int
  BY <1>1, StoredIsInt DEF Threshold
<1>3. Stored(v) \in Int BY StoredIsInt
<1>4. Stored(t.hysteresis) \in Nat \ {0}
  <2>1. Stored(t.hysteresis) \in Int
    BY <1>1, StoredIsInt DEF Threshold
  <2> QED BY <2>1, HysteresisAssumption
<1> QED BY <1>2, <1>3, <1>4 DEF NewAlert, Alert, Null

\* The alert opened for a reading is one the reading itself continues.
LEMMA NewDirectionContinues ==
  ASSUME NEW t \in Threshold, ValidThreshold(t), NEW v \in Int,
         NEW d \in NewDirections(v, t)
  PROVE  d \in Directions /\ Continues(d, v, t)
  BY DEF NewDirections, Directions, Continues, ValidThreshold, Threshold

\* With no direction to open the reading is inside the thresholds.
LEMMA NoNewDirection ==
  ASSUME NEW t \in Threshold, NEW v \in Int, NewDirections(v, t) = {}
  PROVE  v \in t.lower .. t.upper
<1>1. "LOW" \in Directions /\ "HIGH" \in Directions BY DEF Directions
<1>2. ~(v < t.lower) BY <1>1 DEF NewDirections
<1>3. ~(v > t.upper)
  <2>1. "HIGH" # "LOW" OBVIOUS
  <2> QED BY <1>1, <2>1 DEF NewDirections
<1> QED BY <1>2, <1>3 DEF Threshold

\* A resolved alert is not opened again by the reading that resolved it: the new
\* row of one evaluation always has the other direction, so the INSERT, which
\* SQLAlchemy flushes before the UPDATE, cannot meet the partial unique index.
THEOREM ResolvedDoesNotReopen ==
  ASSUME NEW t \in Threshold, ValidThreshold(t), NEW v \in Int,
         NEW d \in Directions, ~Continues(d, v, t)
  PROVE  d \notin NewDirections(v, t)
  BY NewDirectionContinues

\* With no alert open, OpenNew leaves rows that agree with the reading.
LEMMA OpenNewAgrees ==
  ASSUME NEW m \in Metrics, NEW rows \in Seq(Alert), OpenRows(rows) = {},
         NEW at \in Nat, NEW v \in Int
  PROVE  LET new == OpenNew(rows, at, v, Thresholds[m])
         IN  new \in Seq(Alert) /\ AtMostOneOpen(new) /\ Agrees(m, new, v)
<1> DEFINE t == Thresholds[m]
<1> DEFINE d == CHOOSE x \in NewDirections(v, t) : TRUE
<1> DEFINE alert == NewAlert(d, at, v, t)
<1>0. t \in Threshold /\ ValidThreshold(t) BY ThresholdsAreValid
<1>1. CASE NewDirections(v, t) = {}
  <2>1. OpenNew(rows, at, v, t) = rows BY <1>1 DEF OpenNew
  <2>2. v \in t.lower .. t.upper BY <1>0, <1>1, NoNewDirection
  <2> QED BY <2>1, <2>2 DEF AtMostOneOpen, Agrees
<1>2. CASE NewDirections(v, t) # {}
  <2>1. d \in NewDirections(v, t) BY <1>2
  <2>2. d \in Directions /\ Continues(d, v, t) BY <1>0, <2>1, NewDirectionContinues
  <2>3. alert \in Alert BY <1>0, <2>2, NewAlertType
  <2>4. OpenNew(rows, at, v, t) = Append(rows, alert) BY <1>2 DEF OpenNew
  <2>5. alert.status = "OPEN" /\ alert.direction = d BY DEF NewAlert
  <2> HIDE DEF alert, d
  <2>6. Append(rows, alert) \in Seq(Alert) BY <2>3
  <2>7. OpenRows(Append(rows, alert)) = {Len(rows) + 1} BY <2>3, <2>5 DEF OpenRows
  <2>8. Append(rows, alert)[Len(rows) + 1] = alert BY <2>3
  <2>9. AtMostOneOpen(Append(rows, alert)) BY <2>7 DEF AtMostOneOpen
  <2>10. Agrees(m, Append(rows, alert), v)
    BY <2>2, <2>5, <2>7, <2>8 DEF Agrees
  <2> QED BY <2>4, <2>6, <2>9, <2>10
<1> QED BY <1>1, <1>2

\* Changing the open row and nothing else.
LEMMA ReplaceOpenRow ==
  ASSUME NEW rows \in Seq(Alert), NEW c \in OpenRows(rows), AtMostOneOpen(rows),
         NEW row \in Alert
  PROVE  LET new == [rows EXCEPT ![c] = row]
         IN  /\ new \in Seq(Alert)
             /\ new[c] = row
             /\ OpenRows(new) = IF row.status = "OPEN" THEN {c} ELSE {}
<1> DEFINE new == [rows EXCEPT ![c] = row]
<1>1. c \in DOMAIN rows /\ c \in 1 .. Len(rows) BY DEF OpenRows
<1>2. \A i \in DOMAIN rows : rows[i].status = "OPEN" => i = c
  BY DEF AtMostOneOpen, OpenRows
<1>3. new \in Seq(Alert) /\ DOMAIN new = DOMAIN rows BY <1>1
<1>4. new[c] = row /\ \A i \in DOMAIN rows : i # c => new[i] = rows[i] BY <1>1
<1>5. OpenRows(new) = IF row.status = "OPEN" THEN {c} ELSE {}
  BY <1>1, <1>2, <1>3, <1>4 DEF OpenRows
<1> QED BY <1>3, <1>4, <1>5

\* One evaluation keeps at most one alert of the metric open and leaves the
\* alert state the reading calls for.
THEOREM EvaluateMetricAgrees ==
  ASSUME NEW m \in Metrics, NEW rows \in Seq(Alert), AtMostOneOpen(rows),
         NEW at \in Nat, NEW v \in Int
  PROVE  LET new == EvaluateMetric(m, rows, at, v)
         IN  new \in Seq(Alert) /\ AtMostOneOpen(new) /\ Agrees(m, new, v)
<1> DEFINE t == Thresholds[m]
<1> DEFINE current == FindOpen(rows)
<1>1. CASE OpenRows(rows) = {}
  <2>1. EvaluateMetric(m, rows, at, v) = OpenNew(rows, at, v, t) BY <1>1 DEF EvaluateMetric
  <2> QED BY <1>1, <2>1, OpenNewAgrees
<1>2. CASE OpenRows(rows) # {}
  <2>1. current \in OpenRows(rows) BY <1>2 DEF FindOpen
  <2>2. rows[current] \in Alert BY <2>1 DEF OpenRows
  <2>3. CASE Continues(rows[current].direction, v, t)
    <3> DEFINE row == Touched(rows[current], at)
    <3> DEFINE new == [rows EXCEPT ![current] = row]
    <3>1. EvaluateMetric(m, rows, at, v) = new BY <1>2, <2>3 DEF EvaluateMetric
    <3>2. row \in Alert /\ row.direction = rows[current].direction
      BY <2>2 DEF Alert, Touched
    <3>3. row.status = "OPEN" BY <2>1, <2>2 DEF Alert, OpenRows, Touched
    <3> HIDE DEF current, row
    <3>4. new \in Seq(Alert) /\ new[current] = row /\ OpenRows(new) = {current}
      BY <2>1, <3>2, <3>3, ReplaceOpenRow
    <3>5. AtMostOneOpen(new) BY <3>4 DEF AtMostOneOpen
    <3>6. Agrees(m, new, v) BY <2>3, <3>2, <3>4 DEF Agrees
    <3> QED BY <3>1, <3>4, <3>5, <3>6
  <2>4. CASE ~Continues(rows[current].direction, v, t)
    <3> DEFINE row == Resolved(rows[current], at)
    <3> DEFINE new == [rows EXCEPT ![current] = row]
    <3>1. EvaluateMetric(m, rows, at, v) = OpenNew(new, at, v, t)
      BY <1>2, <2>4 DEF EvaluateMetric
    <3>2. row \in Alert BY <2>2 DEF Alert, Resolved
    <3>3. row.status # "OPEN" BY <2>2 DEF Alert, Resolved
    <3> HIDE DEF current, row
    <3>4. new \in Seq(Alert) /\ OpenRows(new) = {}
      BY <2>1, <3>2, <3>3, ReplaceOpenRow
    <3> HIDE DEF new
    <3> QED BY <3>1, <3>4, OpenNewAgrees
  <2> QED BY <2>3, <2>4
<1> QED BY <1>1, <1>2

----------------------------------------------------------------------------
(* The transactions *)

\* A request has an answer exactly when accept has been left with one.
StatusInv ==
  \A r \in Requests :
    /\ pc[r] \in {"respond", "done"} => result[r] # 0
    /\ pc[r] \notin {"respond", "done", "lost"} => result[r] = 0

\* Without other writers, what find_by_message_id did not find stays absent.
InsertIsNew ==
  ~OtherWriters =>
    \A r \in Requests : pc[r] # "reread" /\ (pc[r] = "insert" => ~IsStored(body[r].id))

\* The inductive invariant.
IInv ==
  /\ TypeOK
  /\ OneOpenPerMetric
  /\ WorkingCopyIsCurrent
  /\ StatusInv
  /\ OneRowPerMessage
  /\ SuccessIsStored
  /\ CreatedOnce
  /\ InsertIsNew

----------------------------------------------------------------------------
(* Lemmas                                                                   *)

LEMMA MessageType ==
  ASSUME NEW m \in Messages
  PROVE  /\ m.id \in Nat
         /\ m.at \in Nat \ {Null}
         /\ m.reading \in [Metrics -> Int]
  BY IntakeAssumption DEF Message

\* Evaluating every metric keeps each with one open alert at most, and leaves
\* the alert state the readings call for.
LEMMA EvaluateAllAgrees ==
  ASSUME NEW rows \in [Metrics -> Seq(Alert)], \A m \in Metrics : AtMostOneOpen(rows[m]),
         NEW at \in Nat, NEW reading \in [Metrics -> Int]
  PROVE  LET new == EvaluateAll(rows, at, reading)
         IN  /\ new \in [Metrics -> Seq(Alert)]
             /\ \A m \in Metrics : /\ AtMostOneOpen(new[m])
                                   /\ Agrees(m, new[m], reading[m])
<1>1. ASSUME NEW m \in Metrics
      PROVE  LET new == EvaluateMetric(m, rows[m], at, reading[m])
             IN  new \in Seq(Alert) /\ AtMostOneOpen(new) /\ Agrees(m, new, reading[m])
  BY EvaluateMetricAgrees
<1> QED BY <1>1 DEF EvaluateAll

\* What a request computes from the current state is type-correct and keeps one
\* open alert per metric.
LEMMA EvaluateType ==
  ASSUME IInv, NEW r \in Requests
  PROVE  LET new == EvaluateAll(alerts, body[r].at, body[r].reading)
         IN  /\ new \in [Metrics -> Seq(Alert)]
             /\ \A m \in Metrics : /\ AtMostOneOpen(new[m])
                                   /\ Agrees(m, new[m], body[r].reading[m])
<1>1. body[r] \in Messages BY DEF IInv, TypeOK
<1>2. body[r].at \in Nat /\ body[r].reading \in [Metrics -> Int] BY <1>1, MessageType
<1>3. alerts \in [Metrics -> Seq(Alert)] BY DEF IInv, TypeOK
<1>4. \A m \in Metrics : AtMostOneOpen(alerts[m]) BY DEF IInv, OneOpenPerMetric
<1> QED BY <1>2, <1>3, <1>4, EvaluateAllAgrees

\* A commit writes a type-correct database with one open alert per metric.
LEMMA CommitEffectType ==
  ASSUME IInv, NEW r \in Requests, pc[r] = "commit", CommitEffect(r)
  PROVE  /\ measurements' \in Seq(Messages)
         /\ alerts' \in [Metrics -> Seq(Alert)]
         /\ lastEvaluated' \in Nat
         /\ OneOpenPerMetric'
<1>1. body[r] \in Messages BY DEF IInv, TypeOK
<1>2. measurements' \in Seq(Messages) BY <1>1 DEF IInv, TypeOK, CommitEffect
<1>3. CASE draft[r] = {}
  BY <1>2, <1>3 DEF CommitEffect, IInv, TypeOK, OneOpenPerMetric
<1>4. CASE draft[r] # {}
  <2>1. alerts' = EvaluateAll(alerts, body[r].at, body[r].reading)
    BY <1>4 DEF CommitEffect, IInv, WorkingCopyIsCurrent
  <2>2. alerts' \in [Metrics -> Seq(Alert)] BY <2>1, EvaluateType
  <2>3. OneOpenPerMetric' BY <2>1, EvaluateType DEF OneOpenPerMetric
  <2>4. lastEvaluated' \in Nat BY <1>1, <1>4, MessageType DEF CommitEffect
  <2> QED BY <1>2, <2>2, <2>3, <2>4
<1> QED BY <1>3, <1>4

----------------------------------------------------------------------------
(* Type correctness                                                         *)

LEMMA TypeStep == IInv /\ [Next]_vars => TypeOK'
<1> SUFFICES ASSUME IInv, [Next]_vars PROVE TypeOK'
  OBVIOUS
<1> USE DEF IInv, TypeOK, Stages, Connected, InProgress, database, session, Goto, Null
<1>1. CASE RegisterDevice BY <1>1 DEF RegisterDevice
<1>2. CASE Crash BY <1>2 DEF Crash
<1>3. ASSUME NEW m \in Messages, InsertElsewhere(m) PROVE TypeOK'
  BY <1>3 DEF InsertElsewhere
<1>4. ASSUME NEW r \in Requests PROVE (Receive(r) \/ Handle(r) \/ DatabaseFails(r) \/ CommitUnacknowledged(r)) => TypeOK'
  <2>1. CASE Receive(r) BY <2>1 DEF Receive
  <2>2. CASE Checkout(r) BY <2>2 DEF Checkout
  <2>3. CASE LockDevice(r) BY <2>3 DEF LockDevice
  <2>4. CASE FindNothing(r) BY <2>4 DEF FindNothing
  <2>5. CASE Insert(r) BY <2>5 DEF Insert
  <2>6. CASE InsertDuplicate(r) BY <2>6 DEF InsertDuplicate, EndTransaction, Released
  <2>7. CASE Evaluate(r)
    <3>1. EvaluateAll(alerts, body[r].at, body[r].reading) \in [Metrics -> Seq(Alert)]
      BY EvaluateType
    <3> QED BY <2>7, <3>1 DEF Evaluate
  <2>8. CASE Respond(r) BY <2>8 DEF Respond
  <2>9. ASSUME NEW status \in {200, 201, 500, 503}, Finish(r, status)
        PROVE  /\ rowLock' \in Requests \cup {NoRequest}
               /\ pc' \in [Requests -> Stages]
               /\ body' \in [Requests -> Messages]
               /\ seen' \in [Requests -> Nat]
               /\ draft' \in [Requests -> SUBSET [Metrics -> Seq(Alert)]]
               /\ result' \in [Requests -> {0, 200, 201, 500, 503}]
    BY <2>9 DEF Finish, EndTransaction, Released
  <2>10. CASE CheckoutTimeout(r) BY <2>9, <2>10 DEF CheckoutTimeout
  <2>11. CASE DeviceMissing(r) BY <2>9, <2>11 DEF DeviceMissing
  <2>12. CASE FindStored(r) BY <2>9, <2>12 DEF FindStored
  <2>13. CASE Reread(r) BY <2>9, <2>13 DEF Reread
  <2>14. CASE DatabaseFails(r) BY <2>9, <2>14 DEF DatabaseFails
  <2>15. CASE Commit(r)
    <3>1. pc[r] = "commit" /\ CommitEffect(r) /\ Finish(r, 201) BY <2>15 DEF Commit
    <3>2. registered' = registered BY <3>1 DEF CommitEffect
    <3> QED BY <2>9, <3>1, <3>2, CommitEffectType
  <2>16. CASE CommitUnacknowledged(r)
    <3>1. pc[r] = "commit" /\ CommitEffect(r) /\ Finish(r, 503)
      BY <2>16 DEF CommitUnacknowledged
    <3>2. registered' = registered BY <3>1 DEF CommitEffect
    <3> QED BY <2>9, <3>1, <3>2, CommitEffectType
  <2> QED
    BY <2>1, <2>2, <2>3, <2>4, <2>5, <2>6, <2>7, <2>8, <2>10, <2>11, <2>12, <2>13,
       <2>14, <2>15, <2>16 DEF Handle
<1>5. CASE UNCHANGED vars BY <1>5 DEF vars
<1> QED BY <1>1, <1>2, <1>3, <1>4, <1>5 DEF Next

----------------------------------------------------------------------------
(* The other conjuncts of the invariant                                     *)

\* Every step either leaves the database's measurements and alert state alone,
\* is the effect of one commit, or is an insertion by another client.
LEMMA DatabaseStep ==
  ASSUME [Next]_vars
  PROVE  \/ UNCHANGED <<measurements, alerts, lastEvaluated, body>>
         \/ /\ \E r \in Requests : Commit(r) \/ CommitUnacknowledged(r)
            /\ UNCHANGED body
         \/ /\ \E m \in Messages : InsertElsewhere(m)
            /\ UNCHANGED <<alerts, lastEvaluated, body>>
<1> USE DEF database, session
<1>1. CASE RegisterDevice BY <1>1 DEF RegisterDevice
<1>2. CASE Crash BY <1>2 DEF Crash
<1>3. CASE \E m \in Messages : InsertElsewhere(m) BY <1>3 DEF InsertElsewhere
<1>4. ASSUME NEW r \in Requests,
             Receive(r) \/ Handle(r) \/ DatabaseFails(r) \/ CommitUnacknowledged(r)
      PROVE  \/ UNCHANGED <<measurements, alerts, lastEvaluated, body>>
             \/ /\ \E q \in Requests : Commit(q) \/ CommitUnacknowledged(q)
                /\ UNCHANGED body
  <2>1. CASE Commit(r) BY <2>1 DEF Commit, Finish
  <2>2. CASE CommitUnacknowledged(r) BY <2>2 DEF CommitUnacknowledged, Finish
  <2>3. CASE \/ Receive(r) \/ Checkout(r) \/ LockDevice(r) \/ FindNothing(r) \/ Insert(r)
             \/ InsertDuplicate(r) \/ Evaluate(r) \/ Respond(r)
    BY <2>3 DEF Receive, Checkout, LockDevice, FindNothing, Insert, InsertDuplicate,
                Evaluate, Respond
  <2>4. CASE \/ CheckoutTimeout(r) \/ DeviceMissing(r) \/ FindStored(r) \/ Reread(r)
             \/ DatabaseFails(r)
    BY <2>4 DEF CheckoutTimeout, DeviceMissing, FindStored, Reread, DatabaseFails, Finish
  <2> QED BY <1>4, <2>1, <2>2, <2>3, <2>4 DEF Handle
<1>5. CASE UNCHANGED vars BY <1>5 DEF vars
<1> QED BY <1>1, <1>2, <1>3, <1>4, <1>5 DEF Next

LEMMA OneOpenStep == IInv /\ [Next]_vars => OneOpenPerMetric'
<1> SUFFICES ASSUME IInv, [Next]_vars PROVE OneOpenPerMetric'
  OBVIOUS
<1>1. CASE UNCHANGED alerts BY <1>1 DEF IInv, OneOpenPerMetric
<1>2. ASSUME NEW r \in Requests, Commit(r) \/ CommitUnacknowledged(r)
      PROVE  OneOpenPerMetric'
  BY <1>2, CommitEffectType DEF Commit, CommitUnacknowledged
<1> QED BY <1>1, <1>2, DatabaseStep

LEMMA StatusStep == IInv /\ [Next]_vars => StatusInv'
<1> SUFFICES ASSUME IInv, [Next]_vars PROVE StatusInv'
  OBVIOUS
<1> USE DEF IInv, TypeOK, StatusInv, Goto, InProgress, Connected
<1>1. CASE RegisterDevice BY <1>1 DEF RegisterDevice
<1>2. CASE Crash BY <1>2 DEF Crash
<1>3. CASE \E m \in Messages : InsertElsewhere(m) BY <1>3 DEF InsertElsewhere
<1>4. ASSUME NEW r \in Requests,
             Receive(r) \/ Handle(r) \/ DatabaseFails(r) \/ CommitUnacknowledged(r)
      PROVE  StatusInv'
  <2>1. CASE \/ Receive(r) \/ Checkout(r) \/ LockDevice(r) \/ FindNothing(r) \/ Insert(r)
             \/ InsertDuplicate(r) \/ Evaluate(r) \/ Respond(r)
    <3>1. /\ result' = result
          /\ \/ pc[r] \in {"idle", "checkout", "lock", "find", "insert", "evaluate"}
                /\ \E stage \in InProgress \ {"respond"} : pc' = [pc EXCEPT ![r] = stage]
             \/ pc[r] = "respond" /\ pc' = [pc EXCEPT ![r] = "done"]
      BY <2>1 DEF Receive, Checkout, LockDevice, FindNothing, Insert, InsertDuplicate,
                  Evaluate, Respond
    <3>2. CASE pc[r] = "respond" /\ pc' = [pc EXCEPT ![r] = "done"]
      BY <3>1, <3>2
    <3>3. ASSUME NEW stage \in InProgress \ {"respond"},
                 pc[r] \in {"idle", "checkout", "lock", "find", "insert", "evaluate"},
                 pc' = [pc EXCEPT ![r] = stage]
          PROVE  StatusInv'
      <4>1. stage \notin {"respond", "done", "lost"} BY <3>3
      <4>2. pc[r] \notin {"respond", "done", "lost"} BY <3>3
      <4>3. result[r] = 0 BY <4>2
      <4> QED BY <3>1, <3>3, <4>1, <4>3
    <3> QED BY <3>1, <3>2, <3>3
  <2>2. ASSUME NEW status \in {200, 201, 500, 503}, Finish(r, status)
        PROVE  StatusInv'
    BY <2>2 DEF Finish
  <2>3. CASE \/ CheckoutTimeout(r) \/ DeviceMissing(r) \/ FindStored(r) \/ Reread(r)
             \/ DatabaseFails(r) \/ Commit(r) \/ CommitUnacknowledged(r)
    BY <2>2, <2>3 DEF CheckoutTimeout, DeviceMissing, FindStored, Reread, DatabaseFails,
                      Commit, CommitUnacknowledged
  <2> QED BY <1>4, <2>1, <2>3 DEF Handle
<1>5. CASE UNCHANGED vars BY <1>5 DEF vars
<1> QED BY <1>1, <1>2, <1>3, <1>4, <1>5 DEF Next

\* Some row of a table has the id.
HasId(rows, id) == \E i \in DOMAIN rows : rows[i].id = id

\* Appending a message stores its id and no other.
LEMMA AppendStores ==
  ASSUME NEW rows \in Seq(Messages), NEW m \in Messages, NEW id
  PROVE  HasId(Append(rows, m), id) <=> HasId(rows, id) \/ m.id = id
<1> DEFINE new == Append(rows, m)
<1>1. /\ DOMAIN new = 1 .. Len(rows) + 1
      /\ DOMAIN rows = 1 .. Len(rows)
      /\ new[Len(rows) + 1] = m
      /\ \A i \in 1 .. Len(rows) : new[i] = rows[i]
      /\ Len(rows) \in Nat
  OBVIOUS
<1> HIDE DEF new
<1>2. \A i \in 1 .. Len(rows) + 1 : i \in 1 .. Len(rows) \/ i = Len(rows) + 1
  BY <1>1
<1>3. HasId(new, id) => HasId(rows, id) \/ m.id = id BY <1>1, <1>2 DEF HasId
<1>4. HasId(rows, id) \/ m.id = id => HasId(new, id) BY <1>1 DEF HasId
<1> QED BY <1>3, <1>4 DEF new

\* A stored message stays stored, and only a commit or another client's
\* insertion of the very id stores one.
LEMMA StoredStep ==
  ASSUME IInv, [Next]_vars, NEW id
  PROVE  /\ IsStored(id) => IsStored(id)'
         /\ IsStored(id)' /\ ~IsStored(id) =>
              \/ \E r \in Requests : /\ Commit(r) \/ CommitUnacknowledged(r)
                                     /\ body[r].id = id
              \/ \E m \in Messages : InsertElsewhere(m) /\ m.id = id
<1>1. CASE UNCHANGED measurements BY <1>1 DEF IsStored
<1>2. ASSUME NEW r \in Requests, Commit(r) \/ CommitUnacknowledged(r)
      PROVE  IsStored(id)' <=> IsStored(id) \/ body[r].id = id
  <2>1. measurements' = Append(measurements, body[r]) /\ body[r] \in Messages
    BY <1>2 DEF Commit, CommitUnacknowledged, CommitEffect, IInv, TypeOK
  <2>2. HasId(measurements', id) <=> HasId(measurements, id) \/ body[r].id = id
    BY <2>1, AppendStores DEF IInv, TypeOK
  <2> QED BY <2>2 DEF IsStored, HasId
<1>3. ASSUME NEW m \in Messages, InsertElsewhere(m)
      PROVE  IsStored(id)' <=> IsStored(id) \/ m.id = id
  <2>1. measurements' = Append(measurements, m) BY <1>3 DEF InsertElsewhere
  <2>2. HasId(measurements', id) <=> HasId(measurements, id) \/ m.id = id
    BY <2>1, AppendStores DEF IInv, TypeOK
  <2> QED BY <2>2 DEF IsStored, HasId
<1> QED BY <1>1, <1>2, <1>3, DatabaseStep

\* A step of one request leaves another request's local state alone, and the
\* database too while the other holds the lock.
LEMMA OtherRequest ==
  ASSUME IInv, NEW r \in Requests, NEW q \in Requests, r # q,
         Receive(r) \/ Handle(r) \/ DatabaseFails(r) \/ CommitUnacknowledged(r)
  PROVE  /\ pc'[q] = pc[q] /\ seen'[q] = seen[q] /\ draft'[q] = draft[q]
         /\ pc[q] \in Locked => rowLock' = rowLock
<1> USE DEF IInv, TypeOK, Goto, session, database
<1>1. pc[q] \in Locked => rowLock = q BY DEF WorkingCopyIsCurrent
<1>2. CASE \/ Receive(r) \/ Checkout(r) \/ FindNothing(r) \/ Insert(r) \/ Respond(r)
  BY <1>2 DEF Receive, Checkout, FindNothing, Insert, Respond
<1>3. CASE LockDevice(r)
  BY <1>1, <1>3, IntakeAssumption DEF LockDevice
<1>4. CASE Evaluate(r) BY <1>4 DEF Evaluate
<1>5. CASE EndTransaction(r) /\ \E stage \in Stages : Goto(r, stage)
  BY <1>1, <1>5 DEF EndTransaction, Released
<1>6. CASE InsertDuplicate(r) BY <1>5, <1>6 DEF InsertDuplicate, Stages
<1>7. CASE \/ CheckoutTimeout(r) \/ DeviceMissing(r) \/ FindStored(r) \/ Reread(r)
           \/ DatabaseFails(r) \/ Commit(r) \/ CommitUnacknowledged(r)
  BY <1>5, <1>7 DEF CheckoutTimeout, DeviceMissing, FindStored, Reread, DatabaseFails,
                    Commit, CommitUnacknowledged, Finish, Stages
<1> QED BY <1>2, <1>3, <1>4, <1>6, <1>7 DEF Handle

\* The lock serialises commits: no other request is inside its transaction.
LEMMA CommitIsAlone ==
  ASSUME IInv, NEW r \in Requests, Commit(r) \/ CommitUnacknowledged(r),
         NEW q \in Requests
  PROVE  pc'[q] \notin Locked
<1>1. pc[r] = "commit" /\ pc'= [pc EXCEPT ![r] = "respond"]
  BY DEF Commit, CommitUnacknowledged, Finish, Goto
<1>2. rowLock = r BY <1>1 DEF IInv, WorkingCopyIsCurrent, Locked
<1>3. q # r => pc[q] \notin Locked BY <1>2 DEF IInv, WorkingCopyIsCurrent
<1> QED BY <1>1, <1>3 DEF IInv, TypeOK, Locked

\* A flushed message is stored by nobody else before its transaction ends.
LEMMA FlushedStaysNew ==
  ASSUME IInv, [Next]_vars, NEW q \in Requests, Flushed(q), Flushed(q)'
  PROVE  ~IsStored(body[q].id)'
<1>1. ~IsStored(body[q].id) BY DEF IInv, WorkingCopyIsCurrent
<1>2. ~ \E r \in Requests : Commit(r) \/ CommitUnacknowledged(r)
  BY CommitIsAlone DEF Flushed, Locked
<1>3. ~ \E m \in Messages : InsertElsewhere(m) /\ m.id = body[q].id
  BY DEF InsertElsewhere
<1>4. body' = body BY <1>2, DatabaseStep
<1>5. body[q].id = (body[q].id)' BY <1>4
<1> QED BY <1>1, <1>2, <1>3, <1>5, StoredStep

\* What WorkingCopyIsCurrent says of one request.
Current(q) ==
  /\ pc[q] \in Locked => rowLock = q /\ seen[q] = lastEvaluated
  /\ Flushed(q) => ~IsStored(body[q].id)
  /\ pc[q] = "commit" =>
       draft[q] = IF IsNewer(body[q].at, lastEvaluated)
                  THEN {EvaluateAll(alerts, body[q].at, body[q].reading)}
                  ELSE {}

\* A step that keeps the request's local state and the alert state keeps it
\* current, if the lock and the newness of its message are kept.
LEMMA CurrentIsKept ==
  ASSUME NEW q \in Requests, Current(q),
         pc'[q] = pc[q], seen'[q] = seen[q], draft'[q] = draft[q],
         UNCHANGED <<alerts, lastEvaluated, body>>,
         pc[q] \in Locked => rowLock' = rowLock,
         Flushed(q)' => ~IsStored(body[q].id)'
  PROVE  Current(q)'
<1>1. pc'[q] \in Locked => rowLock' = q /\ seen'[q] = lastEvaluated' BY DEF Current
<1>2. pc'[q] = "commit" => draft'[q] = IF IsNewer(body'[q].at, lastEvaluated')
                            THEN {EvaluateAll(alerts', body'[q].at, body'[q].reading)}
                            ELSE {}
  BY DEF Current
<1> QED BY <1>1, <1>2 DEF Current

LEMMA WorkingStep == IInv /\ [Next]_vars => WorkingCopyIsCurrent'
<1> SUFFICES ASSUME IInv, [Next]_vars, NEW q \in Requests
             PROVE  Current(q)'
  BY DEF WorkingCopyIsCurrent, Current
<1>0. Current(q) BY DEF IInv, WorkingCopyIsCurrent, Current
<1>t. pc \in [Requests -> Stages] BY DEF IInv, TypeOK
<1>f. Flushed(q) /\ Flushed(q)' => ~IsStored(body[q].id)'
  BY FlushedStaysNew
<1>1. CASE RegisterDevice
  <2>1. pc' = pc /\ seen' = seen /\ draft' = draft /\ rowLock' = rowLock
        /\ UNCHANGED <<alerts, lastEvaluated, body>>
    BY <1>1 DEF RegisterDevice, session
  <2>2. Flushed(q)' => ~IsStored(body[q].id)' BY <2>1, <1>f DEF Flushed
  <2> QED BY <2>1, <2>2, <1>0, CurrentIsKept
<1>2. CASE Crash
  <2>1. pc'[q] \notin Locked
    BY <1>2, <1>t DEF Crash, InProgress, Connected, Locked
  <2> QED BY <2>1 DEF Current, Flushed, Locked
<1>3. CASE \E m \in Messages : InsertElsewhere(m)
  <2>1. pc' = pc /\ seen' = seen /\ draft' = draft /\ rowLock' = rowLock
        /\ UNCHANGED <<alerts, lastEvaluated, body>>
    BY <1>3 DEF InsertElsewhere, session
  <2>2. Flushed(q)' => ~IsStored(body[q].id)' BY <2>1, <1>f DEF Flushed
  <2> QED BY <2>1, <2>2, <1>0, CurrentIsKept
<1>4. ASSUME NEW r \in Requests, r # q,
             Receive(r) \/ Handle(r) \/ DatabaseFails(r) \/ CommitUnacknowledged(r)
      PROVE  Current(q)'
  <2>1. CASE Commit(r) \/ CommitUnacknowledged(r)
    BY <2>1, CommitIsAlone DEF Current, Flushed, Locked
  <2>2. CASE ~(Commit(r) \/ CommitUnacknowledged(r))
    <3>1. /\ pc'[q] = pc[q] /\ seen'[q] = seen[q] /\ draft'[q] = draft[q]
          /\ pc[q] \in Locked => rowLock' = rowLock
      BY <1>4, OtherRequest
    <3>2. UNCHANGED <<alerts, lastEvaluated, body>>
      BY <1>4, <2>2 DEF Handle, Receive, Checkout, CheckoutTimeout, LockDevice,
         DeviceMissing, FindStored, FindNothing, Insert, InsertDuplicate, Reread, Evaluate,
         Respond, DatabaseFails, Finish, database
    <3>3. Flushed(q)' => ~IsStored(body[q].id)' BY <3>1, <1>f DEF Flushed
    <3> QED BY <3>1, <3>2, <3>3, <1>0, CurrentIsKept
  <2> QED BY <2>1, <2>2
<1>5. ASSUME Receive(q) \/ Handle(q) \/ DatabaseFails(q) \/ CommitUnacknowledged(q)
      PROVE  Current(q)'
  <2> USE DEF Goto
  <2>1. CASE \/ Receive(q) \/ Checkout(q) \/ Respond(q) \/ InsertDuplicate(q)
             \/ CheckoutTimeout(q) \/ DeviceMissing(q) \/ FindStored(q) \/ Reread(q)
             \/ DatabaseFails(q) \/ Commit(q) \/ CommitUnacknowledged(q)
    <3>1. \E stage \in Stages \ Locked : pc' = [pc EXCEPT ![q] = stage]
      BY <2>1 DEF Receive, Checkout, Respond, InsertDuplicate, CheckoutTimeout,
         DeviceMissing, FindStored, Reread, DatabaseFails, Commit, CommitUnacknowledged,
         Finish, Stages, Locked
    <3>2. pc'[q] \notin Locked BY <3>1, <1>t
    <3> QED BY <3>2 DEF Current, Flushed, Locked
  <2>2. CASE LockDevice(q)
    <3>1. pc'[q] = "find" /\ rowLock' = q /\ seen'[q] = lastEvaluated'
      BY <2>2, <1>t DEF LockDevice, IInv, TypeOK, database
    <3> QED BY <3>1 DEF Current, Flushed, Locked
  <2>3. CASE FindNothing(q)
    <3>1. /\ pc[q] = "find" /\ pc'[q] = "insert" /\ rowLock' = rowLock
          /\ seen' = seen /\ lastEvaluated' = lastEvaluated
      BY <2>3, <1>t DEF FindNothing, session, database
    <3> QED BY <3>1, <1>0 DEF Current, Flushed, Locked
  <2>4. CASE Insert(q)
    <3>1. /\ pc[q] = "insert" /\ pc'[q] = "evaluate" /\ rowLock' = rowLock
          /\ seen' = seen /\ lastEvaluated' = lastEvaluated
          /\ ~IsStored(body[q].id)'
      BY <2>4, <1>t DEF Insert, session, database, IsStored
    <3> QED BY <3>1, <1>0 DEF Current, Flushed, Locked
  <2>5. CASE Evaluate(q)
    <3>1. /\ pc[q] = "evaluate" /\ pc'[q] = "commit" /\ rowLock' = rowLock
          /\ seen' = seen /\ UNCHANGED <<lastEvaluated, alerts, body>>
      BY <2>5, <1>t DEF Evaluate, database
    <3>2. draft'[q] = IF IsNewer(body[q].at, seen[q])
                      THEN {EvaluateAll(alerts, body[q].at, body[q].reading)}
                      ELSE {}
      BY <2>5 DEF Evaluate, IInv, TypeOK
    <3>3. rowLock = q /\ seen[q] = lastEvaluated BY <3>1, <1>0 DEF Current, Locked
    <3>4. ~IsStored(body[q].id)' BY <3>1, <1>f DEF Flushed
    <3> QED BY <3>1, <3>2, <3>3, <3>4 DEF Current
  <2> QED BY <1>5, <2>1, <2>2, <2>3, <2>4, <2>5 DEF Handle
<1>6. CASE UNCHANGED vars
  <2>1. pc' = pc /\ seen' = seen /\ draft' = draft /\ rowLock' = rowLock
        /\ UNCHANGED <<alerts, lastEvaluated, body>>
    BY <1>6 DEF vars, session, database
  <2>2. Flushed(q)' => ~IsStored(body[q].id)' BY <2>1, <1>f DEF Flushed
  <2> QED BY <2>1, <2>2, <1>0, CurrentIsKept
<1> QED BY <1>1, <1>2, <1>3, <1>4, <1>5, <1>6 DEF Next

\* Appending a message whose id is new keeps ids unique.
LEMMA AppendKeepsUnique ==
  ASSUME NEW rows \in Seq(Messages), NEW m \in Messages, ~HasId(rows, m.id),
         \A i, j \in DOMAIN rows : rows[i].id = rows[j].id => i = j
  PROVE  \A i, j \in DOMAIN Append(rows, m) :
            Append(rows, m)[i].id = Append(rows, m)[j].id => i = j
<1> DEFINE new == Append(rows, m)
<1>1. /\ DOMAIN new = 1 .. Len(rows) + 1
      /\ DOMAIN rows = 1 .. Len(rows)
      /\ new[Len(rows) + 1] = m
      /\ \A i \in 1 .. Len(rows) : new[i] = rows[i]
      /\ Len(rows) \in Nat
  OBVIOUS
<1> HIDE DEF new
<1>2. \A i \in DOMAIN rows : rows[i].id # m.id BY DEF HasId
<1>3. \A i \in DOMAIN new : i \in DOMAIN rows \/ i = Len(rows) + 1 BY <1>1
<1>4. \A i, j \in DOMAIN new : new[i].id = new[j].id => i = j BY <1>1, <1>2, <1>3
<1> QED BY <1>4 DEF new

LEMMA OneRowStep == IInv /\ [Next]_vars => OneRowPerMessage'
<1> SUFFICES ASSUME IInv, [Next]_vars PROVE OneRowPerMessage'
  OBVIOUS
<1>1. CASE UNCHANGED measurements BY <1>1 DEF IInv, OneRowPerMessage
<1>2. ASSUME NEW m \in Messages, ~IsStored(m.id), measurements' = Append(measurements, m)
      PROVE  OneRowPerMessage'
  <2>1. ~HasId(measurements, m.id) BY <1>2 DEF IsStored, HasId
  <2>2. measurements \in Seq(Messages) BY DEF IInv, TypeOK
  <2>3. \A i, j \in DOMAIN measurements : measurements[i].id = measurements[j].id => i = j
    BY DEF IInv, OneRowPerMessage
  <2>4. \A i, j \in DOMAIN Append(measurements, m) :
           Append(measurements, m)[i].id = Append(measurements, m)[j].id => i = j
    BY <2>1, <2>2, <2>3, AppendKeepsUnique
  <2> QED BY <1>2, <2>4 DEF OneRowPerMessage
<1>3. ASSUME NEW r \in Requests, Commit(r) \/ CommitUnacknowledged(r)
      PROVE  OneRowPerMessage'
  <2>1. /\ body[r] \in Messages
        /\ measurements' = Append(measurements, body[r])
        /\ pc[r] = "commit"
    BY <1>3 DEF Commit, CommitUnacknowledged, CommitEffect, IInv, TypeOK
  <2>2. ~IsStored(body[r].id)
    BY <2>1 DEF IInv, WorkingCopyIsCurrent, Flushed
  <2> QED BY <1>2, <2>1, <2>2
<1>4. ASSUME NEW m \in Messages, InsertElsewhere(m) PROVE OneRowPerMessage'
  BY <1>2, <1>4 DEF InsertElsewhere
<1> QED BY <1>1, <1>3, <1>4, DatabaseStep

\* A stored row is never changed or removed.
LEMMA RowsStay ==
  ASSUME IInv, [Next]_vars, NEW m, \E i \in DOMAIN measurements : measurements[i] = m
  PROVE  \E i \in DOMAIN measurements' : measurements'[i] = m
<1>1. CASE UNCHANGED measurements BY <1>1
<1>2. ASSUME NEW n \in Messages, measurements' = Append(measurements, n)
      PROVE  \E i \in DOMAIN measurements' : measurements'[i] = m
  <2>1. measurements \in Seq(Messages) BY DEF IInv, TypeOK
  <2>2. /\ DOMAIN measurements = 1 .. Len(measurements)
        /\ DOMAIN measurements' = 1 .. Len(measurements) + 1
        /\ Len(measurements) \in Nat
        /\ \A i \in 1 .. Len(measurements) : measurements'[i] = measurements[i]
    BY <1>2, <2>1
  <2> QED BY <2>2
<1>3. ASSUME NEW r \in Requests, Commit(r) \/ CommitUnacknowledged(r)
      PROVE  \E i \in DOMAIN measurements' : measurements'[i] = m
  BY <1>2, <1>3 DEF Commit, CommitUnacknowledged, CommitEffect, IInv, TypeOK
<1>4. ASSUME NEW n \in Messages, InsertElsewhere(n)
      PROVE  \E i \in DOMAIN measurements' : measurements'[i] = m
  BY <1>2, <1>4 DEF InsertElsewhere
<1> QED BY <1>1, <1>3, <1>4, DatabaseStep

\* The answers of a step: at most one request gets one, a 200 for a message that
\* is stored and a 201 only by the commit that stores it.
LEMMA AnswerStep ==
  ASSUME IInv, [Next]_vars, NEW q \in Requests, result'[q] # result[q]
  PROVE  /\ result'[q] = 200 => IsStored(body[q].id)
         /\ result'[q] = 201 => Commit(q)
         /\ \A s \in Requests : s # q => result'[s] = result[s]
<1> USE DEF IInv, TypeOK
<1>1. CASE RegisterDevice BY <1>1 DEF RegisterDevice
<1>2. CASE Crash BY <1>2 DEF Crash
<1>3. CASE \E m \in Messages : InsertElsewhere(m) BY <1>3 DEF InsertElsewhere
<1>4. CASE UNCHANGED vars BY <1>4 DEF vars
<1>5. ASSUME NEW r \in Requests,
             Receive(r) \/ Handle(r) \/ DatabaseFails(r) \/ CommitUnacknowledged(r)
      PROVE  /\ result'[q] = 200 => IsStored(body[q].id)
             /\ result'[q] = 201 => Commit(q)
             /\ \A s \in Requests : s # q => result'[s] = result[s]
  <2>1. CASE \/ Receive(r) \/ Checkout(r) \/ LockDevice(r) \/ FindNothing(r) \/ Insert(r)
             \/ InsertDuplicate(r) \/ Evaluate(r) \/ Respond(r)
    <3>1. result' = result
      BY <2>1 DEF Receive, Checkout, LockDevice, FindNothing, Insert, InsertDuplicate,
                  Evaluate, Respond
    <3> QED BY <3>1
  <2>2. ASSUME NEW status \in {200, 201, 500, 503}, Finish(r, status)
        PROVE  /\ r = q
               /\ result'[q] = status
               /\ \A s \in Requests : s # q => result'[s] = result[s]
    BY <2>2 DEF Finish
  <2>3. CASE Commit(r) BY <2>2, <2>3 DEF Commit
  <2>4. CASE CommitUnacknowledged(r) BY <2>2, <2>4 DEF CommitUnacknowledged
  <2>5. CASE CheckoutTimeout(r) BY <2>2, <2>5 DEF CheckoutTimeout
  <2>6. CASE DeviceMissing(r) BY <2>2, <2>6 DEF DeviceMissing
  <2>7. CASE FindStored(r) BY <2>2, <2>7 DEF FindStored
  <2>8. CASE Reread(r)
    <3>1. CASE IsStored(body[r].id) BY <2>2, <2>8, <3>1 DEF Reread
    <3>2. CASE ~IsStored(body[r].id) BY <2>2, <2>8, <3>2 DEF Reread
    <3> QED BY <3>1, <3>2
  <2>9. CASE DatabaseFails(r) BY <2>2, <2>9 DEF DatabaseFails
  <2> QED BY <1>5, <2>1, <2>3, <2>4, <2>5, <2>6, <2>7, <2>8, <2>9 DEF Handle
<1> QED BY <1>1, <1>2, <1>3, <1>4, <1>5 DEF Next

\* No step changes what a request carries.
LEMMA BodyStep == [Next]_vars => body' = body
  BY DatabaseStep

LEMMA SuccessStep == IInv /\ [Next]_vars => SuccessIsStored'
<1> SUFFICES ASSUME IInv, [Next]_vars, NEW q \in Requests
             PROVE  /\ result'[q] = 200 => IsStored(body[q].id)'
                    /\ result'[q] = 201 =>
                         \E i \in DOMAIN measurements' : measurements'[i] = body'[q]
  BY DEF SuccessIsStored
<1>1. body' = body BY BodyStep
<1>2. CASE result'[q] = result[q]
  <2>0. /\ result[q] = 200 => IsStored(body[q].id)
        /\ result[q] = 201 => \E i \in DOMAIN measurements : measurements[i] = body[q]
    <3>1. SuccessIsStored BY DEF IInv
    <3> QED BY <3>1 DEF SuccessIsStored
  <2>1. result'[q] = 200 => IsStored(body[q].id)'
    <3>1. result'[q] = 200 => IsStored(body[q].id) BY <1>2, <2>0
    <3>2. (body[q].id)' = body[q].id BY <1>1
    <3> QED BY <3>1, <3>2, StoredStep
  <2>2. result'[q] = 201 => \E i \in DOMAIN measurements : measurements[i] = body[q]
    BY <1>2, <2>0
  <2> QED BY <1>1, <2>1, <2>2, RowsStay
<1>3. CASE result'[q] # result[q]
  <2>1. result'[q] = 200 => IsStored(body[q].id)'
    <3>1. result'[q] = 200 => IsStored(body[q].id) BY <1>3, AnswerStep
    <3>2. (body[q].id)' = body[q].id BY <1>1
    <3> QED BY <3>1, <3>2, StoredStep
  <2>2. result'[q] = 201 => \E i \in DOMAIN measurements' : measurements'[i] = body'[q]
    <3> SUFFICES ASSUME Commit(q)
                 PROVE  \E i \in DOMAIN measurements' : measurements'[i] = body'[q]
      BY <1>3, AnswerStep
    <3>1. measurements' = Append(measurements, body[q]) /\ body[q] \in Messages
      BY DEF Commit, CommitEffect, IInv, TypeOK
    <3>2. measurements'[Len(measurements) + 1] = body[q]
          /\ Len(measurements) + 1 \in DOMAIN measurements'
      BY <3>1 DEF IInv, TypeOK
    <3> QED BY <1>1, <3>2
  <2> QED BY <2>1, <2>2
<1> QED BY <1>2, <1>3

LEMMA CreatedStep == IInv /\ [Next]_vars => CreatedOnce'
<1> SUFFICES ASSUME IInv, [Next]_vars, NEW q \in Requests, NEW s \in Requests, q # s,
                    result'[q] = 201, result'[s] = 201, body[q].id = body[s].id
             PROVE  FALSE
  BY BodyStep DEF CreatedOnce
\* One of the two is answered first, so its message is stored already.
<1>1. ASSUME NEW r \in Requests, NEW t \in Requests, r # t, body[r].id = body[t].id,
             result'[r] = 201, result'[t] = 201, result'[r] # result[r]
      PROVE  FALSE
  <2>1. Commit(r) /\ result[t] = 201 BY <1>1, AnswerStep
  <2>2. ~IsStored(body[r].id)
    BY <2>1 DEF Commit, IInv, WorkingCopyIsCurrent, Flushed
  <2>3. \E i \in DOMAIN measurements : measurements[i] = body[t]
    BY <2>1 DEF IInv, SuccessIsStored
  <2> QED BY <1>1, <2>2, <2>3 DEF IsStored
<1>2. result'[q] = result[q] /\ result'[s] = result[s] BY <1>1
<1> QED BY <1>2 DEF IInv, CreatedOnce

LEMMA InsertIsNewStep == IInv /\ [Next]_vars => InsertIsNew'
<1> SUFFICES ASSUME IInv, [Next]_vars, ~OtherWriters, NEW q \in Requests
             PROVE  pc'[q] # "reread" /\ (pc'[q] = "insert" => ~IsStored(body[q].id)')
  BY BodyStep DEF InsertIsNew
<1> USE DEF Goto
<1>t. pc \in [Requests -> Stages] BY DEF IInv, TypeOK
<1>0. pc[q] # "reread" /\ (pc[q] = "insert" => ~IsStored(body[q].id))
  BY DEF IInv, InsertIsNew
<1>1. CASE pc'[q] = pc[q]
  <2> SUFFICES ASSUME pc[q] = "insert", IsStored(body[q].id)' PROVE FALSE
    BY <1>0, <1>1
  <2>1. (body[q].id)' = body[q].id BY BodyStep
  <2>2. \E r \in Requests : Commit(r) \/ CommitUnacknowledged(r)
    BY <1>0, <2>1, StoredStep DEF InsertElsewhere
  <2> QED BY <1>1, <2>2, CommitIsAlone DEF Locked
<1>2. CASE pc'[q] # pc[q]
  <2>1. Receive(q) \/ Handle(q) \/ DatabaseFails(q) \/ CommitUnacknowledged(q) \/ Crash
    BY <1>2, OtherRequest DEF Next, RegisterDevice, InsertElsewhere, vars
  <2>2. CASE Crash BY <2>2, <1>t, <1>2 DEF Crash
  <2>3. CASE FindNothing(q) BY <2>3, <1>t DEF FindNothing, database, IsStored
  <2>4. CASE InsertDuplicate(q) BY <2>4, <1>0 DEF InsertDuplicate
  <2>5. CASE \/ Receive(q) \/ Checkout(q) \/ LockDevice(q) \/ Insert(q) \/ Evaluate(q)
             \/ Respond(q) \/ CheckoutTimeout(q) \/ DeviceMissing(q) \/ FindStored(q)
             \/ Reread(q) \/ DatabaseFails(q) \/ Commit(q) \/ CommitUnacknowledged(q)
    <3>1. \E stage \in Stages \ {"reread", "insert"} : pc' = [pc EXCEPT ![q] = stage]
      BY <2>5 DEF Receive, Checkout, LockDevice, Insert, Evaluate, Respond, CheckoutTimeout,
         DeviceMissing, FindStored, Reread, DatabaseFails, Commit, CommitUnacknowledged,
         Finish, Stages
    <3> QED BY <3>1, <1>t
  <2> QED BY <2>1, <2>2, <2>3, <2>4, <2>5 DEF Handle
<1> QED BY <1>1, <1>2

----------------------------------------------------------------------------
(* Theorems                                                                 *)

LEMMA InitIInv == Init => IInv
<1> SUFFICES ASSUME Init PROVE IInv
  OBVIOUS
<1>1. TypeOK
  <2>1. NoAlerts \in [Metrics -> Seq(Alert)]
    <3>1. <<>> \in Seq(Alert) OBVIOUS
    <3> QED BY <3>1 DEF NoAlerts
  <2>2. measurements \in Seq(Messages)
    <3>1. measurements = <<>> BY DEF Init
    <3> QED BY <3>1
  <2>3. registered \in BOOLEAN BY DEF Init
  <2>4. alerts \in [Metrics -> Seq(Alert)] BY <2>1 DEF Init
  <2>5. draft \in [Requests -> SUBSET [Metrics -> Seq(Alert)]]
    <3>1. draft = [r \in Requests |-> {}] BY DEF Init
    <3> QED BY <3>1, Zenon
  <2>6. body \in [Requests -> Messages] BY DEF Init
  <2>7. pc \in [Requests -> Stages] BY DEF Init, Stages
  <2>8. /\ lastEvaluated \in Nat
        /\ rowLock \in Requests \cup {NoRequest}
        /\ seen \in [Requests -> Nat]
        /\ result \in [Requests -> {0, 200, 201, 500, 503}]
    BY DEF Init, Null
  <2> QED BY <2>2, <2>3, <2>4, <2>5, <2>6, <2>7, <2>8 DEF TypeOK
<1>2. OneOpenPerMetric
  BY DEF Init, NoAlerts, OneOpenPerMetric, AtMostOneOpen, OpenRows
<1>3. WorkingCopyIsCurrent BY DEF Init, WorkingCopyIsCurrent, Locked, Flushed
<1>4. StatusInv BY DEF Init, StatusInv
<1>5. OneRowPerMessage BY DEF Init, OneRowPerMessage
<1>6. SuccessIsStored /\ CreatedOnce BY DEF Init, SuccessIsStored, CreatedOnce
<1>7. InsertIsNew BY DEF Init, InsertIsNew
<1> QED BY <1>1, <1>2, <1>3, <1>4, <1>5, <1>6, <1>7 DEF IInv

\* The inductive invariant holds in every reachable state.
THEOREM Invariance == Spec => []IInv
<1>1. IInv /\ [Next]_vars => IInv'
  BY TypeStep, OneOpenStep, WorkingStep, StatusStep, OneRowStep, SuccessStep, CreatedStep,
     InsertIsNewStep DEF IInv
<1> QED BY <1>1, InitIInv, PTL DEF Spec

\* Type correctness of the intake.
THEOREM TypeCorrect == Spec => []TypeOK
<1>1. IInv => TypeOK BY DEF IInv
<1> QED BY <1>1, Invariance, PTL

\* A message is stored at most once, however its sends interleave.
THEOREM StoredOnce == Spec => []OneRowPerMessage
<1>1. IInv => OneRowPerMessage BY DEF IInv
<1> QED BY <1>1, Invariance, PTL

\* A 200 or a 201 is only ever answered for a durably stored message.
THEOREM SuccessMeansStored == Spec => []SuccessIsStored
<1>1. IInv => SuccessIsStored BY DEF IInv
<1> QED BY <1>1, Invariance, PTL

\* At most one request is told that it created a message.
THEOREM OneCreator == Spec => []CreatedOnce
<1>1. IInv => CreatedOnce BY DEF IInv
<1> QED BY <1>1, Invariance, PTL

\* Without other writers the device lock keeps the UNIQUE constraint unused.
THEOREM LockSuffices == Spec => []ConstraintUnused
<1>1. IInv => ConstraintUnused BY DEF IInv, InsertIsNew, ConstraintUnused
<1> QED BY <1>1, Invariance, PTL

\* Concurrent abnormal measurements never open two alerts of one metric.
THEOREM OneOpenAlert == Spec => []OneOpenPerMetric
<1>1. IInv => OneOpenPerMetric BY DEF IInv
<1> QED BY <1>1, Invariance, PTL

\* What a transaction holding the lock works on stays current until it commits.
THEOREM LockKeepsWorkingCopy == Spec => []WorkingCopyIsCurrent
<1>1. IInv => WorkingCopyIsCurrent BY DEF IInv
<1> QED BY <1>1, Invariance, PTL

----------------------------------------------------------------------------
(* What the interleaved transactions amount to                              *)

Commits(r) == Commit(r) \/ CommitUnacknowledged(r)

----------------------------------------------------------------------------
(* What a commit does to the database                                       *)

\* A commit stores a new message and evaluates it exactly if it is the newest.
LEMMA CommitIsAccept ==
  ASSUME IInv, NEW r \in Requests, Commits(r)
  PROVE  /\ body[r] \in Messages
         /\ ~IsStored(body[r].id)
         /\ measurements' = Append(measurements, body[r])
         /\ IF IsNewer(body[r].at, lastEvaluated)
            THEN /\ alerts' = EvaluateAll(alerts, body[r].at, body[r].reading)
                 /\ lastEvaluated' = body[r].at
            ELSE UNCHANGED <<alerts, lastEvaluated>>
         /\ body' = body
<1>1. pc[r] = "commit" /\ CommitEffect(r) /\ body' = body
  BY DEF Commits, Commit, CommitUnacknowledged, Finish
<1>2. /\ ~IsStored(body[r].id)
      /\ draft[r] = IF IsNewer(body[r].at, lastEvaluated)
                    THEN {EvaluateAll(alerts, body[r].at, body[r].reading)}
                    ELSE {}
  BY <1>1 DEF IInv, WorkingCopyIsCurrent, Flushed
<1>3. body[r] \in Messages BY DEF IInv, TypeOK
<1> QED BY <1>1, <1>2, <1>3 DEF CommitEffect

\* Alerts and evaluation time change only with the newest measurement.
THEOREM LateArrivalsChangeNoAlert == Spec => AlertsMoveForward
<1>1. ASSUME IInv, [Next]_vars, <<alerts, lastEvaluated>>' # <<alerts, lastEvaluated>>
      PROVE  \E r \in Requests :
               /\ measurements' = Append(measurements, body[r])
               /\ lastEvaluated' = body[r].at
               /\ lastEvaluated' > lastEvaluated
  <2>1. PICK r \in Requests : Commits(r) BY <1>1, DatabaseStep DEF Commits
  <2>2. IsNewer(body[r].at, lastEvaluated) BY <1>1, <2>1, CommitIsAccept
  <2>3. /\ measurements' = Append(measurements, body[r])
        /\ lastEvaluated' = body[r].at
    BY <1>1, <2>1, <2>2, CommitIsAccept
  <2>4. body[r].at \in Nat \ {Null} BY <1>1, <2>1, CommitIsAccept, MessageType
  <2>5. lastEvaluated' > lastEvaluated
    BY <1>1, <2>2, <2>3, <2>4 DEF IsNewer, IInv, TypeOK, Null
  <2> QED BY <2>3, <2>5
<1> DEFINE Forward == <<alerts, lastEvaluated>>' # <<alerts, lastEvaluated>> =>
                        \E r \in Requests :
                          /\ measurements' = Append(measurements, body[r])
                          /\ lastEvaluated' = body[r].at
                          /\ lastEvaluated' > lastEvaluated
<1>2. IInv /\ [Next]_vars => [Forward]_vars BY <1>1
<1> QED BY <1>2, Invariance, PTL DEF Spec, AlertsMoveForward

----------------------------------------------------------------------------
(* The alert state follows the newest measurement                           *)

\* Every stored measurement is at or before the evaluation time, which is the
\* time of some stored measurement; the first of that time set the alert state.
NewestInv ==
  ~OtherWriters =>
    /\ \A i \in DOMAIN measurements : measurements[i].at <= lastEvaluated
    /\ lastEvaluated # Null => \E i \in DOMAIN measurements : measurements[i].at = lastEvaluated
    /\ \A i \in DOMAIN measurements : IsNewest(i) =>
         /\ lastEvaluated = measurements[i].at
         /\ \A m \in Metrics : Agrees(m, alerts[m], measurements[i].reading[m])

LEMMA NewestStep == IInv /\ NewestInv /\ [Next]_vars => NewestInv'
<1> SUFFICES ASSUME IInv, NewestInv, [Next]_vars, ~OtherWriters PROVE NewestInv'
  BY DEF NewestInv
<1>1. CASE UNCHANGED <<measurements, alerts, lastEvaluated>>
  BY <1>1 DEF NewestInv, IsNewest
<1>2. ASSUME NEW r \in Requests, Commits(r) PROVE NewestInv'
  <2>0. PICK n : n = Len(measurements) + 1 OBVIOUS
  <2> DEFINE old == 1 .. Len(measurements)
             at(i) == measurements[i].at
  <2>1. /\ body[r] \in Messages
        /\ measurements' = Append(measurements, body[r])
        /\ body' = body
    BY <1>2, CommitIsAccept
  <2>2. measurements \in Seq(Messages) /\ lastEvaluated \in Nat BY DEF IInv, TypeOK
  <2>3. /\ Len(measurements) \in Nat
        /\ DOMAIN measurements = old
        /\ DOMAIN measurements' = 1 .. n
        /\ n \in Nat /\ 1 .. n = old \cup {n} /\ \A i \in old : i < n
        /\ measurements'[n] = body[r]
        /\ \A i \in old : measurements'[i] = measurements[i] /\ measurements[i] \in Messages
    BY <2>0, <2>1, <2>2
  <2>4. body[r].at \in Nat \ {Null} /\ \A i \in old : at(i) \in Nat \ {Null}
    BY <2>1, <2>3, MessageType
  <2>5. /\ \A i \in old : at(i) <= lastEvaluated
        /\ lastEvaluated # Null => \E i \in old : at(i) = lastEvaluated
        /\ \A i \in old : IsNewest(i) =>
             /\ lastEvaluated = at(i)
             /\ \A m \in Metrics : Agrees(m, alerts[m], measurements[i].reading[m])
    BY <2>3 DEF NewestInv
  <2>6. CASE IsNewer(body[r].at, lastEvaluated)
    <3>1. /\ alerts' = EvaluateAll(alerts, body[r].at, body[r].reading)
          /\ lastEvaluated' = body[r].at
      BY <1>2, <2>6, CommitIsAccept
    <3>2. \A i \in old : at(i) < body[r].at
      BY <2>2, <2>4, <2>5, <2>6 DEF IsNewer, Null
    <3>3. \A m \in Metrics : Agrees(m, alerts'[m], body[r].reading[m])
      BY <3>1, EvaluateType
    <3>4. ASSUME NEW i \in 1 .. n, IsNewest(i)' PROVE i = n
      <4>1. measurements'[n].at <= measurements'[i].at
        BY <3>4, <2>0, <2>3 DEF IsNewest
      <4> QED BY <4>1, <2>0, <2>3, <2>4, <3>2
    <3>5. \A i \in 1 .. n : measurements'[i].at <= lastEvaluated'
      BY <2>3, <2>4, <3>1, <3>2
    <3>6. \A i \in 1 .. n : IsNewest(i)' =>
            /\ lastEvaluated' = measurements'[i].at
            /\ \A m \in Metrics : Agrees(m, alerts'[m], measurements'[i].reading[m])
      BY <2>3, <3>1, <3>3, <3>4
    <3>7. \E i \in 1 .. n : measurements'[i].at = lastEvaluated' BY <2>3, <3>1
    <3> QED BY <2>3, <3>5, <3>6, <3>7 DEF NewestInv
  <2>7. CASE ~IsNewer(body[r].at, lastEvaluated)
    <3>1. UNCHANGED <<alerts, lastEvaluated>> BY <1>2, <2>7, CommitIsAccept
    <3>2. body[r].at <= lastEvaluated /\ lastEvaluated # Null
      BY <2>2, <2>4, <2>7 DEF IsNewer
    <3>3. ~IsNewest(n)'
      <4> SUFFICES ASSUME IsNewest(n)' PROVE FALSE
        OBVIOUS
      <4>1. PICK i \in old : at(i) = lastEvaluated BY <2>5, <3>2
      <4>2. measurements'[i].at < measurements'[n].at
        BY <2>0, <2>3, <4>1 DEF IsNewest
      <4> QED BY <2>2, <2>3, <2>4, <3>2, <4>1, <4>2
    <3>4. ASSUME NEW i \in old, IsNewest(i)' PROVE IsNewest(i)
      <4>1. \A j \in 1 .. n : measurements'[j].at <= measurements'[i].at
        BY <3>4, <2>3 DEF IsNewest
      <4>2. \A j \in 1 .. i - 1 : measurements'[j].at < measurements'[i].at
        BY <3>4 DEF IsNewest
      <4> QED BY <4>1, <4>2, <2>0, <2>3 DEF IsNewest
    <3>5. \A i \in 1 .. n : measurements'[i].at <= lastEvaluated'
      BY <2>3, <2>5, <3>1, <3>2
    <3>6. \A i \in 1 .. n : IsNewest(i)' =>
            /\ lastEvaluated' = measurements'[i].at
            /\ \A m \in Metrics : Agrees(m, alerts'[m], measurements'[i].reading[m])
      <4> SUFFICES ASSUME NEW i \in 1 .. n, IsNewest(i)'
                   PROVE  /\ lastEvaluated' = measurements'[i].at
                          /\ \A m \in Metrics :
                               Agrees(m, alerts'[m], measurements'[i].reading[m])
        OBVIOUS
      <4>1. i \in old BY <2>0, <2>3, <3>3
      <4> QED BY <4>1, <2>3, <2>5, <3>1, <3>4
    <3>7. \E i \in 1 .. n : measurements'[i].at = lastEvaluated'
      BY <2>3, <2>5, <3>1, <3>2
    <3> QED BY <2>3, <3>5, <3>6, <3>7 DEF NewestInv
  <2> QED BY <2>6, <2>7
<1> QED BY <1>1, <1>2, DatabaseStep DEF Commits, InsertElsewhere

\* Whatever order concurrent requests commit in, the alert rows are those the
\* newest stored measurement calls for.
THEOREM NewestDecides == Spec => []AlertsAgreeWithNewest
<1>1. Init => NewestInv BY DEF Init, NewestInv, Null
<1>2. IInv /\ NewestInv => AlertsAgreeWithNewest
  <2> SUFFICES ASSUME IInv, NewestInv, ~OtherWriters, measurements = <<>>
               PROVE  lastEvaluated = Null
    BY DEF NewestInv, AlertsAgreeWithNewest
  <2> QED BY DEF NewestInv
<1> QED BY <1>1, <1>2, NewestStep, Invariance, PTL DEF Spec

----------------------------------------------------------------------------
(* Every behaviour is one of atomic acceptances                             *)

\* A step that only moves requests along, none to or from "lost", answers none.
LEMMA AnswerKept ==
  ASSUME UNCHANGED result, NEW r \in Requests, NEW stage \in Stages \ {"lost"},
         pc \in [Requests -> Stages], pc[r] # "lost", pc' = [pc EXCEPT ![r] = stage]
  PROVE  UNCHANGED Answer
<1>1. ASSUME NEW q \in Requests PROVE pc'[q] = "lost" <=> pc[q] = "lost"
  OBVIOUS
<1>2. \A q \in Requests : (IF pc'[q] = "lost" /\ result'[q] = 0 THEN Lost ELSE result'[q])
                       = (IF pc[q] = "lost" /\ result[q] = 0 THEN Lost ELSE result[q])
  BY <1>1
<1> QED BY <1>2 DEF Answer

\* Leaving accept with a status is deciding the answer.
LEMMA FinishDecides ==
  ASSUME IInv, NEW r \in Requests, NEW status, Finish(r, status), result[r] = 0, pc[r] # "lost"
  PROVE  Atomic!Decide(r, status)
<1>1. /\ pc \in [Requests -> Stages]
      /\ result \in [Requests -> {0, 200, 201, 500, 503}]
      /\ pc' = [pc EXCEPT ![r] = "respond"]
      /\ result' = [result EXCEPT ![r] = status]
      /\ body' = body
  BY DEF IInv, TypeOK, Finish, Goto
<1>2. Answer[r] = 0 BY <1>1 DEF Answer
<1>3. Answer' = [Answer EXCEPT ![r] = status]
  <2>1. Answer' = [q \in Requests |->
                     IF pc'[q] = "lost" /\ result'[q] = 0 THEN Lost ELSE result'[q]]
    BY DEF Answer
  <2>2. \A q \in Requests : Answer'[q] = IF q = r THEN status ELSE Answer[q]
    BY <1>1, <2>1 DEF Answer
  <2> QED BY <2>1, <2>2 DEF Answer
<1> QED BY <1>1, <1>2, <1>3 DEF Atomic!Decide

\* While a request is in a stage of accept it has no answer.
LEMMA Undecided ==
  ASSUME IInv, NEW r \in Requests, pc[r] \in Connected \cup {"checkout", "reread"}
  PROVE  result[r] = 0 /\ pc[r] # "lost"
  BY DEF IInv, StatusInv, Connected

\* A crash loses exactly the requests that had no answer yet.
LEMMA CrashLoses ==
  ASSUME IInv, Crash
  PROVE  Atomic!Lose({r \in Requests : pc[r] \in InProgress /\ result[r] = 0})
<1> DEFINE rs == {r \in Requests : pc[r] \in InProgress /\ result[r] = 0}
<1>1. /\ pc' = [r \in Requests |-> IF pc[r] \in InProgress THEN "lost" ELSE pc[r]]
      /\ UNCHANGED <<result, body, measurements, alerts, lastEvaluated>>
  BY DEF Crash, database
<1>2. \A r \in rs : Answer[r] = 0 BY DEF Answer, InProgress, Connected
<1>3. \A r \in Requests : (IF pc'[r] = "lost" /\ result'[r] = 0 THEN Lost ELSE result'[r])
                       = IF r \in rs THEN Lost ELSE Answer[r]
  BY <1>1 DEF Answer
<1>4. Answer' = [r \in Requests |-> IF r \in rs THEN Lost ELSE Answer[r]]
  BY <1>3 DEF Answer
<1> QED BY <1>1, <1>2, <1>4 DEF Atomic!Lose

\* The rules of alerting are the same ones in the abstract specification.
LEMMA SameRules ==
  /\ \A at, evaluated : Atomic!IsNewer(at, evaluated) <=> IsNewer(at, evaluated)
  /\ \A rows, at, reading : Atomic!EvaluateAll(rows, at, reading) = EvaluateAll(rows, at, reading)
<1>1. \A at, evaluated : Atomic!IsNewer(at, evaluated) <=> IsNewer(at, evaluated)
  BY DEF Atomic!IsNewer, IsNewer, Atomic!Null, Null
<1>2. \A v, t : Atomic!NewDirections(v, t) = NewDirections(v, t)
  BY DEF Atomic!NewDirections, NewDirections, Atomic!Directions, Directions
<1>3. \A d, at, v, t : Atomic!NewAlert(d, at, v, t) = NewAlert(d, at, v, t)
  BY DEF Atomic!NewAlert, NewAlert, Atomic!Stored, Stored, Atomic!Null, Null
<1>4. \A rows : Atomic!OpenRows(rows) = OpenRows(rows)
  BY DEF Atomic!OpenRows, OpenRows
<1>5. \A rows : Atomic!FindOpen(rows) = FindOpen(rows)
  BY <1>4 DEF Atomic!FindOpen, FindOpen
<1>6. \A rows, at, v, t : Atomic!OpenNew(rows, at, v, t) = OpenNew(rows, at, v, t)
  <2> TAKE rows, at, v, t
  <2>1. Atomic!NewDirections(v, t) = NewDirections(v, t) BY <1>2
  <2>2. (CHOOSE d \in Atomic!NewDirections(v, t) : TRUE) = (CHOOSE d \in NewDirections(v, t) : TRUE)
    BY <2>1
  <2> QED BY <2>1, <2>2, <1>3 DEF Atomic!OpenNew, OpenNew
<1>7. \A m, rows, at, v : Atomic!EvaluateMetric(m, rows, at, v) = EvaluateMetric(m, rows, at, v)
  <2>1. \A d, v, t : Atomic!Continues(d, v, t) <=> Continues(d, v, t)
    BY DEF Atomic!Continues, Continues
  <2>2. \A row, at : /\ Atomic!Touched(row, at) = Touched(row, at)
                     /\ Atomic!Resolved(row, at) = Resolved(row, at)
    BY DEF Atomic!Touched, Touched, Atomic!Resolved, Resolved
  <2> TAKE m, rows, at, v
  <2> QED BY <2>1, <2>2, <1>4, <1>5, <1>6 DEF Atomic!EvaluateMetric, EvaluateMetric
<1> QED BY <1>1, <1>7 DEF Atomic!EvaluateAll, EvaluateAll

LEMMA StepRefines == IInv /\ [Next]_vars => [Atomic!Next]_(Atomic!vars)
<1> SUFFICES ASSUME IInv, [Next]_vars PROVE Atomic!Next \/ UNCHANGED Atomic!vars
  OBVIOUS
<1>t. pc \in [Requests -> Stages] BY DEF IInv, TypeOK
<1>s. \A id : Atomic!IsStored(id) <=> IsStored(id) BY DEF Atomic!IsStored, IsStored
<1> USE DEF database
<1>1. CASE RegisterDevice BY <1>1 DEF RegisterDevice, Atomic!vars, Answer
<1>2. CASE Crash
  <2>1. {r \in Requests : pc[r] \in InProgress /\ result[r] = 0} \in SUBSET Requests
    OBVIOUS
  <2> QED BY <1>2, <2>1, CrashLoses DEF Atomic!Next
<1>3. ASSUME NEW m \in Messages, InsertElsewhere(m) PROVE Atomic!Next
  <2>1. Atomic!StoreElsewhere(m)
    BY <1>3, <1>s DEF InsertElsewhere, Atomic!StoreElsewhere, Answer
  <2> QED BY <2>1 DEF Atomic!Next
<1>4. ASSUME NEW r \in Requests,
             Receive(r) \/ Handle(r) \/ DatabaseFails(r) \/ CommitUnacknowledged(r)
      PROVE  Atomic!Next \/ UNCHANGED Atomic!vars
  <2>1. CASE \/ Receive(r) \/ Checkout(r) \/ LockDevice(r) \/ FindNothing(r) \/ Insert(r)
             \/ InsertDuplicate(r) \/ Evaluate(r) \/ Respond(r)
    <3>1. /\ UNCHANGED <<result, lastEvaluated, measurements, alerts, body>>
          /\ pc[r] # "lost"
          /\ \E stage \in Stages \ {"lost"} : pc' = [pc EXCEPT ![r] = stage]
      BY <2>1 DEF Receive, Checkout, LockDevice, FindNothing, Insert, InsertDuplicate,
         Evaluate, Respond, Goto, Stages
    <3>2. UNCHANGED Answer BY <3>1, <1>t, AnswerKept
    <3> QED BY <3>1, <3>2 DEF Atomic!vars
  <2>2. CASE \/ CheckoutTimeout(r) \/ DeviceMissing(r) \/ DatabaseFails(r)
             \/ (Reread(r) /\ ~IsStored(body[r].id))
    <3>1. PICK status \in {500, 503} :
            Finish(r, status) /\ pc[r] \in Connected \cup {"checkout", "reread"}
      BY <2>2 DEF CheckoutTimeout, DeviceMissing, DatabaseFails, Reread, Connected
    <3>2. UNCHANGED <<lastEvaluated, measurements, alerts>>
      BY <2>2 DEF CheckoutTimeout, DeviceMissing, DatabaseFails, Reread
    <3>3. Atomic!Decide(r, status) BY <3>1, Undecided, FinishDecides
    <3>4. Atomic!Refuse(r, status) BY <3>2, <3>3 DEF Atomic!Refuse
    <3> QED BY <3>4 DEF Atomic!Next
  <2>3. CASE FindStored(r) \/ (Reread(r) /\ IsStored(body[r].id))
    <3>1. /\ Finish(r, 200) /\ IsStored(body[r].id)
          /\ pc[r] \in Connected \cup {"checkout", "reread"}
          /\ UNCHANGED <<lastEvaluated, measurements, alerts>>
      BY <2>3 DEF FindStored, Reread, Connected
    <3>2. Atomic!Decide(r, 200) BY <3>1, Undecided, FinishDecides
    <3>3. Atomic!AcknowledgeResend(r) BY <3>1, <3>2, <1>s DEF Atomic!AcknowledgeResend
    <3> QED BY <3>3 DEF Atomic!Next
  <2>4. CASE Commits(r)
    <3>1. PICK status \in {201, 503} : Finish(r, status) /\ pc[r] = "commit"
      BY <2>4 DEF Commits, Commit, CommitUnacknowledged
    <3>2. Atomic!Decide(r, status) BY <3>1, Undecided, FinishDecides DEF Connected
    <3>3. Atomic!Accept(r, status)
      BY <2>4, <3>1, <3>2, <1>s, SameRules, CommitIsAccept DEF Atomic!Accept
    <3> QED BY <3>3 DEF Atomic!Next
  <2> QED BY <1>4, <2>1, <2>2, <2>3, <2>4 DEF Handle, Commits
<1>5. CASE UNCHANGED vars BY <1>5 DEF vars, Atomic!vars, Answer
<1> QED BY <1>1, <1>2, <1>3, <1>4, <1>5 DEF Next

LEMMA InitRefines == Init => Atomic!Init
<1> SUFFICES ASSUME Init PROVE Atomic!Init
  OBVIOUS
<1>1. Answer = [r \in Requests |-> 0] BY DEF Init, Answer
<1>2. alerts = [m \in Metrics |-> <<>>] BY DEF Init, NoAlerts
<1> QED BY <1>1, <1>2 DEF Init, Atomic!Init, Atomic!Null, Null

\* The interleaved, failing transactions implement the atomic acceptances.
THEOREM AcceptRefinesAtomic == Spec => AcceptIsAtomic
<1> QED BY InitRefines, StepRefines, Invariance, PTL DEF Spec, AcceptIsAtomic, Atomic!Spec

----------------------------------------------------------------------------
(* Alert rows are the episodes of their history                             *)

\* Excess, InEpisode and Begins of any history, not only the current one.
ExcessOf(h, d, i) == IF d = "LOW" THEN Limits.lower - h[i] ELSE h[i] - Limits.upper

InEpisodeOf(h, d, i) ==
  \E j \in 1 .. i : /\ ExcessOf(h, d, j) > 0
                   /\ \A k \in j .. i : ExcessOf(h, d, k) > -Limits.hysteresis

BeginsIn(h, d, i) == InEpisodeOf(h, d, i) /\ (i = 1 \/ ~InEpisodeOf(h, d, i - 1))

\* What a row says of its history: where its episode began, how far it has gone,
\* and whether it is over.
RowHolds(h, row) ==
  /\ row.started \in 1 .. Len(h)
  /\ BeginsIn(h, row.direction, row.started)
  /\ row.trigger = Stored(h[row.started])
  /\ row.lastDetected \in row.started .. Len(h)
  /\ \A k \in row.started .. row.lastDetected : InEpisodeOf(h, row.direction, k)
  /\ row.status = "OPEN" => row.resolved = Null /\ row.lastDetected = Len(h)
  /\ row.status = "RESOLVED" =>
       /\ row.lastDetected < Len(h)
       /\ row.resolved = row.lastDetected + 1
       /\ ~InEpisodeOf(h, row.direction, row.lastDetected + 1)

\* Rows are in the order of their episodes, and no episode is without a row.
Ordered(rows) ==
  \A i, j \in DOMAIN rows : i < j => rows[i].started < rows[j].started

Complete(h, rows, n) ==
  \A d \in Directions, k \in 1 .. n : BeginsIn(h, d, k) =>
    \E i \in DOMAIN rows : rows[i].direction = d /\ rows[i].started = k

\* The inductive invariant: besides what the rows say, an episode that still
\* runs has its row open, which is what the next evaluation relies on.
RowsFollow(h, rows) ==
  /\ h \in Seq(Int) /\ rows \in Seq(Alert)
  /\ AtMostOneOpen(rows)
  /\ \A i \in DOMAIN rows : RowHolds(h, rows[i])
  /\ Ordered(rows)
  /\ Complete(h, rows, Len(h))
  /\ \A d \in Directions : InEpisodeOf(h, d, Len(h)) =>
       \E i \in OpenRows(rows) : rows[i].direction = d

EpisodeInv == RowsFollow(history, alertRows)

LEMMA LimitsAreValid ==
  /\ Limits \in Threshold /\ ValidThreshold(Limits)
  /\ Limits.lower \in Int /\ Limits.upper \in Int /\ Limits.hysteresis \in Int
  /\ 0 < Limits.hysteresis /\ Limits.lower < Limits.upper
<1>1. Limits \in Threshold /\ ValidThreshold(Limits)
  BY EpisodeAssumption, ThresholdsAreValid DEF Limits
<1> QED BY <1>1 DEF Threshold, ValidThreshold

\* A further reading leaves the episodes so far as they were, and continues one
\* unless it comes back by the hysteresis.
LEMMA EpisodeRecurrence ==
  ASSUME NEW h \in Seq(Int), NEW v \in Int, NEW d \in Directions
  PROVE  LET n == Len(h)
             g == Append(h, v)
             excess == ExcessOf(g, d, n + 1)
         IN  /\ excess = IF d = "LOW" THEN Limits.lower - v ELSE v - Limits.upper
             /\ excess \in Int
             /\ \A i \in 0 .. n : InEpisodeOf(g, d, i) <=> InEpisodeOf(h, d, i)
             /\ \A i \in 1 .. n : BeginsIn(g, d, i) <=> BeginsIn(h, d, i)
             /\ InEpisodeOf(g, d, n + 1) <=>
                  excess > 0 \/ (InEpisodeOf(h, d, n) /\ excess > -Limits.hysteresis)
             /\ BeginsIn(g, d, n + 1) <=> InEpisodeOf(g, d, n + 1) /\ ~InEpisodeOf(h, d, n)
<1> DEFINE n == Len(h)   g == Append(h, v)
           over(i) == ExcessOf(g, d, i)
<1>1. n \in Nat /\ \A i \in 1 .. n : g[i] = h[i] /\ h[i] \in Int
  OBVIOUS
<1>2. g[n + 1] = v
  OBVIOUS
<1>3. over(n + 1) = IF d = "LOW" THEN Limits.lower - v ELSE v - Limits.upper
  BY <1>2 DEF ExcessOf
<1>4. over(n + 1) \in Int
  BY <1>3, LimitsAreValid
<1>5. \A i \in 1 .. n : over(i) = ExcessOf(h, d, i)
  BY <1>1 DEF ExcessOf
<1> HIDE DEF over
<1>6. ASSUME NEW i \in 0 .. n PROVE InEpisodeOf(g, d, i) <=> InEpisodeOf(h, d, i)
  <2>1. \A j \in 1 .. i : j \in 1 .. n /\ \A k \in j .. i : k \in 1 .. n
    BY <1>1
  <2>2. InEpisodeOf(g, d, i) <=>
          \E j \in 1 .. i : over(j) > 0 /\ \A k \in j .. i : over(k) > -Limits.hysteresis
    BY DEF InEpisodeOf, over
  <2> QED BY <1>5, <2>1, <2>2 DEF InEpisodeOf
<1>7. ASSUME NEW i \in 1 .. n PROVE BeginsIn(g, d, i) <=> BeginsIn(h, d, i)
  <2>1. i \in 0 .. n /\ i - 1 \in 0 .. n
    BY <1>1
  <2> QED BY <1>6, <2>1 DEF BeginsIn
<1>8. InEpisodeOf(g, d, n + 1) <=>
        \E j \in 1 .. n + 1 : over(j) > 0 /\ \A k \in j .. n + 1 : over(k) > -Limits.hysteresis
  BY DEF InEpisodeOf, over
<1>9. InEpisodeOf(h, d, n) <=>
        \E j \in 1 .. n : over(j) > 0 /\ \A k \in j .. n : over(k) > -Limits.hysteresis
  <2>1. \A j \in 1 .. n : \A k \in j .. n : k \in 1 .. n
    BY <1>1
  <2> QED BY <1>5, <2>1 DEF InEpisodeOf
<1>10. ASSUME InEpisodeOf(g, d, n + 1), ~(over(n + 1) > 0)
       PROVE  InEpisodeOf(h, d, n) /\ over(n + 1) > -Limits.hysteresis
  <2>1. PICK j \in 1 .. n + 1 : over(j) > 0 /\ \A k \in j .. n + 1 : over(k) > -Limits.hysteresis
    BY <1>8, <1>10
  <2>2. j \in 1 .. n /\ n + 1 \in j .. n + 1 /\ \A k \in j .. n : k \in j .. n + 1
    BY <1>1, <1>10, <2>1
  <2> QED BY <1>9, <2>1, <2>2
<1>11. ASSUME over(n + 1) > 0 PROVE InEpisodeOf(g, d, n + 1)
  <2>1. \A k \in n + 1 .. n + 1 : over(k) > -Limits.hysteresis
    BY <1>1, <1>4, <1>11, LimitsAreValid
  <2>2. n + 1 \in 1 .. n + 1
    BY <1>1
  <2> QED BY <1>8, <1>11, <2>1, <2>2
<1>12. ASSUME InEpisodeOf(h, d, n), over(n + 1) > -Limits.hysteresis
       PROVE  InEpisodeOf(g, d, n + 1)
  <2>1. PICK j \in 1 .. n : over(j) > 0 /\ \A k \in j .. n : over(k) > -Limits.hysteresis
    BY <1>9, <1>12
  <2>2. j \in 1 .. n + 1 /\ \A k \in j .. n + 1 : k \in j .. n \/ k = n + 1
    BY <1>1
  <2> QED BY <1>8, <1>12, <2>1, <2>2
<1>13. BeginsIn(g, d, n + 1) <=> InEpisodeOf(g, d, n + 1) /\ ~InEpisodeOf(h, d, n)
  <2>1. n \in 0 .. n /\ (n + 1) - 1 = n
    BY <1>1
  <2>2. InEpisodeOf(g, d, (n + 1) - 1) <=> InEpisodeOf(h, d, n)
    BY <1>6, <2>1
  <2>3. n + 1 = 1 => ~InEpisodeOf(h, d, n)
    BY <1>1, <1>9
  <2> QED BY <2>2, <2>3 DEF BeginsIn
<1> QED BY <1>3, <1>4, <1>6, <1>7, <1>10, <1>11, <1>12, <1>13 DEF over

\* A resolved row says what it said after any further reading.
LEMMA ResolvedRowHolds ==
  ASSUME NEW h \in Seq(Int), NEW v \in Int, NEW row \in Alert,
         RowHolds(h, row), row.status = "RESOLVED"
  PROVE  RowHolds(Append(h, v), row)
<1> DEFINE n == Len(h)   g == Append(h, v)   d == row.direction
<1>1. /\ n \in Nat /\ Len(g) = n + 1 /\ \A i \in 1 .. n : g[i] = h[i]
      /\ d \in Directions /\ row.status # "OPEN"
  BY DEF Alert
<1>2. /\ row.started \in 1 .. n /\ row.lastDetected \in row.started .. n
      /\ row.lastDetected < n
  BY DEF RowHolds
<1>3. /\ \A i \in 0 .. n : InEpisodeOf(g, d, i) <=> InEpisodeOf(h, d, i)
      /\ \A i \in 1 .. n : BeginsIn(g, d, i) <=> BeginsIn(h, d, i)
  BY <1>1, EpisodeRecurrence
<1>4. /\ \A k \in row.started .. row.lastDetected : k \in 0 .. n
      /\ row.lastDetected + 1 \in 0 .. n /\ row.lastDetected < n + 1
      /\ row.started \in 1 .. n + 1 /\ row.lastDetected \in row.started .. n + 1
  BY <1>1, <1>2
<1> HIDE DEF n, g, d
<1> QED BY <1>1, <1>2, <1>3, <1>4 DEF RowHolds, n, g, d

\* The open row goes on with its episode ...
LEMMA TouchedRowHolds ==
  ASSUME NEW h \in Seq(Int), NEW v \in Int, NEW row \in Alert,
         RowHolds(h, row), row.status = "OPEN",
         InEpisodeOf(Append(h, v), row.direction, Len(h) + 1)
  PROVE  RowHolds(Append(h, v), Touched(row, Len(h) + 1))
<1> DEFINE n == Len(h)   g == Append(h, v)   d == row.direction   new == Touched(row, n + 1)
<1>1. /\ n \in Nat /\ Len(g) = n + 1 /\ \A i \in 1 .. n : g[i] = h[i]
      /\ d \in Directions
  BY DEF Alert
<1>2. /\ row.started \in 1 .. n /\ row.lastDetected = n /\ row.resolved = Null
  BY DEF RowHolds
<1>3. /\ \A i \in 0 .. n : InEpisodeOf(g, d, i) <=> InEpisodeOf(h, d, i)
      /\ \A i \in 1 .. n : BeginsIn(g, d, i) <=> BeginsIn(h, d, i)
  BY <1>1, EpisodeRecurrence
<1>4. /\ new.direction = d /\ new.status = "OPEN" /\ new.trigger = row.trigger
      /\ new.started = row.started /\ new.lastDetected = n + 1 /\ new.resolved = row.resolved
  BY DEF Alert, Touched
<1>5. \A k \in row.started .. n + 1 : k = n + 1 \/ (k \in 0 .. n /\ k \in row.started .. n)
  BY <1>1, <1>2
<1>6. \A k \in row.started .. n + 1 : InEpisodeOf(g, d, k)
  BY <1>2, <1>3, <1>5 DEF RowHolds
<1>7. row.started \in 1 .. n + 1 /\ n + 1 \in row.started .. n + 1
  BY <1>1, <1>2
<1>8. BeginsIn(g, d, row.started) /\ row.trigger = Stored(g[row.started])
  BY <1>1, <1>2, <1>3 DEF RowHolds
<1> HIDE DEF n, g, d, new
<1>9. RowHolds(g, new)
  BY <1>1, <1>2, <1>4, <1>6, <1>7, <1>8 DEF RowHolds
<1> QED BY <1>9 DEF n, g, new

\* ... or ends with it.
LEMMA ResolvingRowHolds ==
  ASSUME NEW h \in Seq(Int), NEW v \in Int, NEW row \in Alert,
         RowHolds(h, row), row.status = "OPEN",
         ~InEpisodeOf(Append(h, v), row.direction, Len(h) + 1)
  PROVE  RowHolds(Append(h, v), Resolved(row, Len(h) + 1))
<1> DEFINE n == Len(h)   g == Append(h, v)   d == row.direction   new == Resolved(row, n + 1)
<1>1. /\ n \in Nat /\ Len(g) = n + 1 /\ \A i \in 1 .. n : g[i] = h[i]
      /\ d \in Directions
  BY DEF Alert
<1>2. /\ row.started \in 1 .. n /\ row.lastDetected = n
  BY DEF RowHolds
<1>3. /\ \A i \in 0 .. n : InEpisodeOf(g, d, i) <=> InEpisodeOf(h, d, i)
      /\ \A i \in 1 .. n : BeginsIn(g, d, i) <=> BeginsIn(h, d, i)
  BY <1>1, EpisodeRecurrence
<1>4. /\ new.direction = d /\ new.status = "RESOLVED" /\ new.trigger = row.trigger
      /\ new.started = row.started /\ new.lastDetected = n /\ new.resolved = n + 1
  BY <1>2 DEF Alert, Resolved
<1>5. /\ \A k \in row.started .. n : k \in 0 .. n
      /\ row.started \in 1 .. n + 1 /\ n \in row.started .. n + 1 /\ n < n + 1
  BY <1>1, <1>2
<1>6. \A k \in row.started .. n : InEpisodeOf(g, d, k)
  BY <1>2, <1>3, <1>5 DEF RowHolds
<1>7. BeginsIn(g, d, row.started) /\ row.trigger = Stored(g[row.started])
  BY <1>1, <1>2, <1>3 DEF RowHolds
<1> HIDE DEF n, g, d, new
<1>8. RowHolds(g, new)
  BY <1>1, <1>4, <1>5, <1>6, <1>7 DEF RowHolds, n, g, d
<1> QED BY <1>8 DEF n, g, new

\* The row of a new alert holds for the episode that begins.
LEMMA NewRowHolds ==
  ASSUME NEW h \in Seq(Int), NEW v \in Int, NEW d \in Directions,
         BeginsIn(Append(h, v), d, Len(h) + 1)
  PROVE  RowHolds(Append(h, v), NewAlert(d, Len(h) + 1, v, Limits))
<1> DEFINE n == Len(h)   g == Append(h, v)   new == NewAlert(d, n + 1, v, Limits)
<1>1. n \in Nat /\ Len(g) = n + 1 /\ g[n + 1] = v
  OBVIOUS
<1>2. /\ new.direction = d /\ new.status = "OPEN" /\ new.trigger = Stored(v)
      /\ new.started = n + 1 /\ new.lastDetected = n + 1 /\ new.resolved = Null
  BY DEF NewAlert
<1>3. InEpisodeOf(g, d, n + 1)
  BY DEF BeginsIn
<1>4. /\ n + 1 \in 1 .. n + 1 /\ n + 1 \in n + 1 .. n + 1
      /\ \A k \in n + 1 .. n + 1 : k = n + 1
  BY <1>1
<1>5. BeginsIn(g, d, n + 1)
  OBVIOUS
<1> HIDE DEF n, g, new
<1>6. RowHolds(g, new)
  BY <1>1, <1>2, <1>3, <1>4, <1>5 DEF RowHolds
<1> QED BY <1>6 DEF n, g, new

\* With no row open and every past episode told, OpenNew tells the next one.
LEMMA OpenNewFollows ==
  ASSUME NEW h \in Seq(Int), NEW v \in Int, NEW rows \in Seq(Alert), OpenRows(rows) = {},
         \A i \in DOMAIN rows : RowHolds(Append(h, v), rows[i]) /\ rows[i].started <= Len(h),
         Ordered(rows), Complete(h, rows, Len(h)),
         \A d \in Directions :
           ~(InEpisodeOf(h, d, Len(h)) /\ ExcessOf(Append(h, v), d, Len(h) + 1) > -Limits.hysteresis)
  PROVE  RowsFollow(Append(h, v), OpenNew(rows, Len(h) + 1, v, Limits))
<1> DEFINE n == Len(h)   g == Append(h, v)   t == Limits
           excess(d) == ExcessOf(g, d, n + 1)
           new == OpenNew(rows, n + 1, v, t)
<1>1. /\ n \in Nat /\ Len(g) = n + 1 /\ g \in Seq(Int)
      /\ \A k \in 1 .. n + 1 : k = n + 1 \/ k \in 1 .. n
  OBVIOUS
<1>2. \A d \in Directions : excess(d) \in Int /\ (excess(d) > 0 => excess(d) > -Limits.hysteresis)
  <2>1. \A d \in Directions : excess(d) \in Int
    BY EpisodeRecurrence
  <2> HIDE DEF excess
  <2> QED BY <2>1, LimitsAreValid
<1>3. \A d \in Directions : InEpisodeOf(g, d, n + 1) <=> excess(d) > 0
  BY EpisodeRecurrence
<1>4. \A d \in Directions : BeginsIn(g, d, n + 1) <=> excess(d) > 0
  BY <1>2, <1>3, EpisodeRecurrence
<1>5. \A d \in Directions, k \in 1 .. n : BeginsIn(g, d, k) <=> BeginsIn(h, d, k)
  BY EpisodeRecurrence
<1>6. NewDirections(v, t) = {d \in Directions : excess(d) > 0}
  <2>1. \A d \in Directions : excess(d) = IF d = "LOW" THEN t.lower - v ELSE v - t.upper
    BY EpisodeRecurrence
  <2>2. \A d \in Directions :
          excess(d) > 0 <=> IF d = "LOW" THEN v < t.lower ELSE v > t.upper
    BY <2>1, LimitsAreValid
  <2> QED BY <2>2 DEF NewDirections
<1>7. \A d, e \in Directions : excess(d) > 0 /\ excess(e) > 0 => d = e
  <2>1. \A d \in Directions : excess(d) = IF d = "LOW" THEN t.lower - v ELSE v - t.upper
    BY EpisodeRecurrence
  <2> QED BY <2>1, LimitsAreValid DEF Directions
<1>8. CASE NewDirections(v, t) = {}
  <2>1. new = rows
    BY <1>8 DEF OpenNew
  <2>2. \A d \in Directions : ~(excess(d) > 0)
    BY <1>6, <1>8
  <2>3. AtMostOneOpen(rows)
    BY DEF AtMostOneOpen
  <2>4. Complete(g, rows, n + 1)
    BY <1>1, <1>4, <1>5, <2>2 DEF Complete
  <2>5. \A d \in Directions : ~InEpisodeOf(g, d, n + 1)
    BY <1>3, <2>2
  <2> HIDE DEF n, g, new, excess
  <2>6. RowsFollow(g, rows)
    BY <1>1, <2>3, <2>4, <2>5 DEF RowsFollow, g
  <2> QED BY <2>1, <2>6 DEF g, n, new
<1>9. CASE NewDirections(v, t) # {}
  <2> DEFINE d == CHOOSE x \in NewDirections(v, t) : TRUE
             alert == NewAlert(d, n + 1, v, t)
             m == Len(rows)
  <2>1. d \in Directions /\ excess(d) > 0
    BY <1>6, <1>9
  <2>2. new = Append(rows, alert)
    BY <1>9 DEF OpenNew
  <2>3. alert \in Alert
    <3> HIDE DEF d
    <3>1. n + 1 \in Nat /\ Metric \in Metrics
      BY <1>1, EpisodeAssumption
    <3> QED BY <2>1, <3>1, NewAlertType DEF Limits
  <2>4. RowHolds(g, alert)
    BY <1>4, <2>1, NewRowHolds
  <2>5. alert.status = "OPEN" /\ alert.direction = d /\ alert.started = n + 1
    BY DEF NewAlert
  <2> HIDE DEF d, alert
  <2>6. /\ m \in Nat /\ DOMAIN rows = 1 .. m /\ DOMAIN new = 1 .. m + 1
        /\ new \in Seq(Alert) /\ new[m + 1] = alert
        /\ \A i \in 1 .. m : new[i] = rows[i]
        /\ \A i \in 1 .. m + 1 : i = m + 1 \/ i \in 1 .. m
        /\ \A i \in 1 .. m : i \in 1 .. m + 1 /\ i < m + 1
        /\ m + 1 \in 1 .. m + 1
    <3> HIDE DEF new
    <3>1. m \in Nat /\ DOMAIN rows = 1 .. m
      OBVIOUS
    <3>2. /\ DOMAIN new = 1 .. m + 1 /\ new \in Seq(Alert) /\ new[m + 1] = alert
          /\ \A i \in 1 .. m : new[i] = rows[i]
      BY <2>2, <2>3
    <3> HIDE DEF m
    <3>3. /\ \A i \in 1 .. m + 1 : i = m + 1 \/ i \in 1 .. m
          /\ \A i \in 1 .. m : i \in 1 .. m + 1 /\ i < m + 1
          /\ m + 1 \in 1 .. m + 1
      BY <3>1
    <3> QED BY <3>1, <3>2, <3>3
  <2> HIDE DEF new, m
  <2>7. OpenRows(new) = {m + 1}
    <3>1. \A i \in 1 .. m : rows[i].status # "OPEN"
      BY <2>6 DEF OpenRows
    <3> QED BY <2>5, <2>6, <3>1 DEF OpenRows
  <2>8. AtMostOneOpen(new)
    BY <2>7 DEF AtMostOneOpen
  <2>9. \A i \in 1 .. m + 1 : RowHolds(g, new[i])
    BY <2>4, <2>6
  <2>10. Ordered(new)
    <3>1. \A i, j \in 1 .. m : i < j => new[i].started < new[j].started
      BY <2>6 DEF Ordered
    <3>2. \A i \in 1 .. m : new[i].started < new[m + 1].started
      <4> SUFFICES ASSUME NEW i \in 1 .. m PROVE new[i].started < new[m + 1].started
        OBVIOUS
      <4>1. rows[i].started <= n
        BY <2>6
      <4>2. rows[i] \in Alert
        BY <2>6
      <4>3. rows[i].started \in Nat
        BY <4>2 DEF Alert
      <4>4. rows[i].started < n + 1
        BY <1>1, <4>1, <4>3
      <4> QED BY <2>5, <2>6, <4>4
    <3>3. ASSUME NEW i \in 1 .. m + 1, NEW j \in 1 .. m + 1, i < j
          PROVE  new[i].started < new[j].started
      <4>1. i \in 1 .. m
        BY <2>6, <3>3
      <4>2. CASE j = m + 1
        BY <3>2, <4>1, <4>2
      <4>3. CASE j \in 1 .. m
        BY <3>1, <3>3, <4>1, <4>3
      <4> QED BY <2>6, <4>2, <4>3
    <3> QED BY <2>6, <3>3 DEF Ordered
  <2>11. Complete(g, new, n + 1)
    <3>1. ASSUME NEW e \in Directions, NEW k \in 1 .. n + 1, BeginsIn(g, e, k)
          PROVE  \E i \in 1 .. m + 1 : new[i].direction = e /\ new[i].started = k
      <4>1. CASE k = n + 1
        <5>1. e = d
          BY <1>4, <1>7, <2>1, <3>1, <4>1
        <5> QED BY <2>5, <2>6, <4>1, <5>1
      <4>2. CASE k \in 1 .. n
        <5>1. BeginsIn(h, e, k)
          BY <1>5, <3>1, <4>2
        <5>2. PICK i \in 1 .. m : rows[i].direction = e /\ rows[i].started = k
          BY <2>6, <4>2, <5>1 DEF Complete
        <5> QED BY <2>6, <5>2
      <4> QED BY <1>1, <4>1, <4>2
    <3> QED BY <2>6, <3>1 DEF Complete
  <2>12. ASSUME NEW e \in Directions, InEpisodeOf(g, e, n + 1)
         PROVE  \E i \in OpenRows(new) : new[i].direction = e
    <3>1. e = d
      BY <1>3, <1>7, <2>1, <2>12
    <3> QED BY <2>5, <2>6, <2>7, <3>1
  <2> HIDE DEF n, g, excess
  <2>13. RowsFollow(g, new)
    BY <1>1, <2>6, <2>8, <2>9, <2>10, <2>11, <2>12 DEF RowsFollow
  <2> QED BY <2>13 DEF g, n, new
<1> QED BY <1>8, <1>9

\* A direction the reading leaves no room for: the two limits lie apart.
LEMMA OneDirectionAtATime ==
  ASSUME NEW h \in Seq(Int), NEW v \in Int, NEW d \in Directions, NEW e \in Directions, d # e,
         ExcessOf(Append(h, v), d, Len(h) + 1) > -Limits.hysteresis
  PROVE  ~(ExcessOf(Append(h, v), e, Len(h) + 1) > 0)
<1> DEFINE excess(x) == ExcessOf(Append(h, v), x, Len(h) + 1)
<1>1. \A x \in Directions :
        excess(x) = IF x = "LOW" THEN Limits.lower - v ELSE v - Limits.upper
  BY EpisodeRecurrence
<1>2. Limits.hysteresis < Limits.upper - Limits.lower
  BY LimitsAreValid DEF ValidThreshold
<1> HIDE DEF excess
<1>3. excess(d) > -Limits.hysteresis => ~(excess(e) > 0)
  BY <1>1, <1>2, LimitsAreValid DEF Directions
<1> QED BY <1>3 DEF excess

\* A row tells an episode of the past, and an open one the episode still running.
LEMMA RowIsPast ==
  ASSUME NEW h, NEW rows, RowsFollow(h, rows), NEW i \in DOMAIN rows
  PROVE  /\ rows[i] \in Alert
         /\ rows[i].started \in Nat /\ rows[i].started <= Len(h)
         /\ rows[i].status = "OPEN" => InEpisodeOf(h, rows[i].direction, Len(h))
         /\ rows[i].status # "OPEN" => rows[i].status = "RESOLVED"
<1>1. h \in Seq(Int) /\ rows[i] \in Alert /\ RowHolds(h, rows[i])
  BY DEF RowsFollow
<1>2. Len(h) \in Nat
  BY <1>1
<1>3. rows[i].started \in 1 .. Len(h)
  BY <1>1 DEF RowHolds
<1>4. rows[i].status = "OPEN" => InEpisodeOf(h, rows[i].direction, Len(h))
  <2>1. Len(h) \in rows[i].started .. Len(h)
    BY <1>2, <1>3
  <2> QED BY <1>1, <2>1 DEF RowHolds
<1> QED BY <1>1, <1>2, <1>3, <1>4 DEF Alert

\* One evaluation keeps the rows the episodes of the history.
LEMMA RowsGoOn ==
  ASSUME NEW h, NEW rows, RowsFollow(h, rows), NEW v \in Int
  PROVE  RowsFollow(Append(h, v), EvaluateMetric(Metric, rows, Len(h) + 1, v))
<1> DEFINE n == Len(h)   g == Append(h, v)   t == Limits
           excess(d) == ExcessOf(g, d, n + 1)
           c == FindOpen(rows)
           new == EvaluateMetric(Metric, rows, n + 1, v)
<1>1. /\ h \in Seq(Int) /\ rows \in Seq(Alert) /\ AtMostOneOpen(rows)
      /\ \A i \in DOMAIN rows : RowHolds(h, rows[i])
      /\ Ordered(rows) /\ Complete(h, rows, n)
      /\ \A d \in Directions : InEpisodeOf(h, d, n) => \E i \in OpenRows(rows) : rows[i].direction = d
  BY DEF RowsFollow
<1>2. n \in Nat /\ Len(g) = n + 1 /\ g \in Seq(Int) /\ n + 1 \in Nat
  BY <1>1
<1>3. t = Thresholds[Metric] /\ Metric \in Metrics
  BY EpisodeAssumption DEF Limits
<1>4. CASE OpenRows(rows) = {}
  <2>1. new = OpenNew(rows, n + 1, v, t)
    BY <1>3, <1>4 DEF EvaluateMetric
  <2>2. \A i \in DOMAIN rows : RowHolds(g, rows[i]) /\ rows[i].started <= n
    BY <1>1, <1>4, RowIsPast, ResolvedRowHolds DEF OpenRows
  <2>3. \A d \in Directions : ~InEpisodeOf(h, d, n)
    BY <1>1, <1>4
  <2> HIDE DEF new
  <2> QED BY <1>1, <1>4, <2>1, <2>2, <2>3, OpenNewFollows DEF new
<1>5. CASE OpenRows(rows) # {}
  <2> DEFINE row == rows[c]   d == row.direction
  <2>1. c \in DOMAIN rows /\ c \in OpenRows(rows) /\ row.status = "OPEN"
    BY <1>5 DEF FindOpen, OpenRows
  <2>2. row \in Alert /\ d \in Directions /\ RowHolds(h, row) /\ InEpisodeOf(h, d, n)
    BY <1>1, <2>1, RowIsPast DEF Alert
  <2>3. \A i \in DOMAIN rows : i # c => RowHolds(g, rows[i])
    <3>1. \A i \in DOMAIN rows : i # c => rows[i].status # "OPEN"
      BY <1>1, <2>1 DEF AtMostOneOpen, OpenRows
    <3> QED BY <1>1, <3>1, RowIsPast, ResolvedRowHolds
  <2>4. \A e \in Directions : e # d => ~InEpisodeOf(h, e, n)
    <3>1. \A i \in OpenRows(rows) : i = c
      BY <1>1, <2>1 DEF AtMostOneOpen
    <3> QED BY <1>1, <3>1
  <2>5. Continues(d, v, t) <=> excess(d) > -Limits.hysteresis
    <3>1. excess(d) = IF d = "LOW" THEN t.lower - v ELSE v - t.upper
      BY <1>1, <2>2, EpisodeRecurrence
    <3> HIDE DEF excess, d
    <3> QED BY <3>1, LimitsAreValid DEF Continues
  <2>6. CASE Continues(d, v, t)
    <3> DEFINE touched == Touched(row, n + 1)
    <3>1. new = [rows EXCEPT ![c] = touched]
      BY <1>3, <1>5, <2>6 DEF EvaluateMetric
    <3>2. InEpisodeOf(g, d, n + 1)
      BY <1>1, <2>2, <2>5, <2>6, EpisodeRecurrence
    <3>3. RowHolds(g, touched)
      BY <1>1, <2>1, <2>2, <3>2, TouchedRowHolds
    <3>4. /\ touched \in Alert /\ touched.direction = d /\ touched.status = "OPEN"
          /\ touched.started = row.started
      BY <1>2, <2>1, <2>2 DEF Touched, Alert
    <3> HIDE DEF touched, new, row, c
    <3>5. /\ new \in Seq(Alert) /\ DOMAIN new = DOMAIN rows /\ new[c] = touched
          /\ \A i \in DOMAIN rows : i # c => new[i] = rows[i]
      BY <1>1, <2>1, <3>1, <3>4
    <3>6. OpenRows(new) = {c}
      BY <1>1, <2>1, <3>1, <3>4, ReplaceOpenRow
    <3> HIDE DEF d
    <3>7. AtMostOneOpen(new)
      BY <3>6 DEF AtMostOneOpen
    <3>8. \A i \in DOMAIN new : RowHolds(g, new[i])
      BY <2>3, <3>3, <3>5
    <3>9. \A i \in DOMAIN rows : new[i].started = rows[i].started
                                /\ new[i].direction = rows[i].direction
      BY <3>4, <3>5 DEF row, d
    <3>10. Ordered(new)
      BY <1>1, <3>5, <3>9 DEF Ordered
    <3>11. \A e \in Directions : e # d => ~InEpisodeOf(g, e, n + 1)
      <4> SUFFICES ASSUME NEW e \in Directions, e # d PROVE ~InEpisodeOf(g, e, n + 1)
        OBVIOUS
      <4>1. ~(excess(e) > 0)
        BY <1>1, <2>2, <2>5, <2>6, OneDirectionAtATime
      <4>2. ~InEpisodeOf(h, e, n)
        BY <2>4
      <4> QED BY <1>1, <4>1, <4>2, EpisodeRecurrence
    <3>12. Complete(g, new, n + 1)
      <4>1. \A e \in Directions : ~BeginsIn(g, e, n + 1)
        BY <1>1, <2>2, <3>11, EpisodeRecurrence
      <4>2. \A e \in Directions, k \in 1 .. n : BeginsIn(g, e, k) <=> BeginsIn(h, e, k)
        BY <1>1, EpisodeRecurrence
      <4>3. \A k \in 1 .. n + 1 : k = n + 1 \/ k \in 1 .. n
        BY <1>2
      <4>4. ASSUME NEW e \in Directions, NEW k \in 1 .. n + 1, BeginsIn(g, e, k)
            PROVE  \E i \in DOMAIN new : new[i].direction = e /\ new[i].started = k
        <5>1. k \in 1 .. n
          BY <4>1, <4>3, <4>4
        <5>2. BeginsIn(h, e, k)
          BY <4>2, <4>4, <5>1
        <5>3. PICK i \in DOMAIN rows : rows[i].direction = e /\ rows[i].started = k
          BY <1>1, <5>1, <5>2 DEF Complete
        <5> QED BY <3>5, <3>9, <5>3
      <4> HIDE DEF n
      <4> QED BY <4>4 DEF Complete
    <3>13. \A e \in Directions : InEpisodeOf(g, e, n + 1) =>
             \E i \in OpenRows(new) : new[i].direction = e
      BY <3>4, <3>5, <3>6, <3>11
    <3> HIDE DEF n, g
    <3>14. RowsFollow(g, new)
      BY <1>2, <3>5, <3>7, <3>8, <3>10, <3>12, <3>13 DEF RowsFollow
    <3> QED BY <3>14 DEF g, n, new
  <2>7. CASE ~Continues(d, v, t)
    <3> DEFINE resolved == Resolved(row, n + 1)
               base == [rows EXCEPT ![c] = resolved]
    <3>1. new = OpenNew(base, n + 1, v, t)
      BY <1>3, <1>5, <2>7 DEF EvaluateMetric
    <3>2. ~InEpisodeOf(g, d, n + 1)
      <4>1. excess(d) \in Int /\ ~(excess(d) > -Limits.hysteresis)
        BY <1>1, <2>2, <2>5, <2>7, EpisodeRecurrence
      <4>2. ~(excess(d) > 0)
        <5> HIDE DEF excess
        <5> QED BY <4>1, LimitsAreValid
      <4> QED BY <1>1, <2>2, <4>1, <4>2, EpisodeRecurrence
    <3>3. RowHolds(g, resolved)
      BY <1>1, <2>1, <2>2, <3>2, ResolvingRowHolds
    <3>4. /\ resolved \in Alert /\ resolved.direction = d /\ resolved.status # "OPEN"
          /\ resolved.started = row.started
      BY <1>2, <2>1, <2>2 DEF Resolved, Alert
    <3> HIDE DEF resolved
    <3>5. /\ base \in Seq(Alert) /\ DOMAIN base = DOMAIN rows /\ base[c] = resolved
          /\ \A i \in DOMAIN rows : i # c => base[i] = rows[i]
      BY <1>1, <2>1, <3>4
    <3>6. OpenRows(base) = {}
      BY <1>1, <2>1, <3>4, ReplaceOpenRow
    <3> HIDE DEF base
    <3>7. \A i \in DOMAIN base : RowHolds(g, base[i])
      BY <2>3, <3>3, <3>5
    <3>8. \A i \in DOMAIN rows : base[i].started = rows[i].started
                                /\ base[i].direction = rows[i].direction
      BY <3>4, <3>5
    <3>9. \A i \in DOMAIN base : base[i].started <= n
      BY <3>5, <3>8, RowIsPast
    <3>10. Ordered(base) /\ Complete(h, base, n)
      <4>1. Ordered(base)
        BY <1>1, <3>5, <3>8 DEF Ordered
      <4>2. ASSUME NEW e \in Directions, NEW k \in 1 .. n, BeginsIn(h, e, k)
            PROVE  \E i \in DOMAIN base : base[i].direction = e /\ base[i].started = k
        <5>1. PICK i \in DOMAIN rows : rows[i].direction = e /\ rows[i].started = k
          BY <1>1, <4>2 DEF Complete
        <5> QED BY <3>5, <3>8, <5>1
      <4>3. Complete(h, base, n)
        <5> HIDE DEF n
        <5> QED BY <4>2 DEF Complete
      <4> QED BY <4>1, <4>3
    <3>11. \A e \in Directions : ~(InEpisodeOf(h, e, n) /\ excess(e) > -Limits.hysteresis)
      BY <2>4, <2>5, <2>7
    <3> HIDE DEF new
    <3> QED BY <1>1, <3>1, <3>5, <3>6, <3>7, <3>9, <3>10, <3>11, OpenNewFollows DEF new
  <2> QED BY <2>6, <2>7
<1> QED BY <1>4, <1>5

\* The operators of any history, of the one there is.
LEMMA OfTheHistory ==
  /\ \A d, i : InEpisode(d, i) <=> InEpisodeOf(history, d, i)
  /\ \A d, i : Begins(d, i) <=> BeginsIn(history, d, i)
<1>1. \A d, i : Excess(d, i) = ExcessOf(history, d, i)
  BY DEF Excess, ExcessOf
<1>2. \A d, i : InEpisode(d, i) <=> InEpisodeOf(history, d, i)
  BY <1>1 DEF InEpisode, InEpisodeOf
<1> QED BY <1>2 DEF Begins, BeginsIn

\* A row tells the whole episode in which it started.
LEMMA RowIsEpisode ==
  ASSUME EpisodeInv, NEW i \in DOMAIN alertRows
  PROVE  LET row == alertRows[i]
         IN  /\ <<row.direction, row.started>> \in Beginnings
             /\ RowEpisode(row) = Episode(row.direction, row.started)
             /\ row.status = "OPEN" <=> row.resolved = Null
<1> DEFINE row == alertRows[i]   n == Len(history)   d == row.direction   s == row.started
           Reached(j) == /\ \A k \in s .. j : InEpisodeOf(history, d, k)
                         /\ j = n \/ ~InEpisodeOf(history, d, j + 1)
<1>1. /\ row \in Alert /\ RowHolds(history, row) /\ history \in Seq(Int)
      /\ d \in Directions /\ row.status \in {"OPEN", "RESOLVED"}
  <2>1. /\ alertRows \in Seq(Alert) /\ history \in Seq(Int)
        /\ \A j \in DOMAIN alertRows : RowHolds(history, alertRows[j])
    BY DEF EpisodeInv, RowsFollow
  <2>2. row \in Alert /\ RowHolds(history, row)
    BY <2>1
  <2> HIDE DEF row
  <2> QED BY <2>1, <2>2 DEF Alert
<1>2. n \in Nat /\ DOMAIN history = 1 .. n
  BY <1>1
<1>3. /\ s \in 1 .. n /\ BeginsIn(history, d, s)
      /\ row.trigger = Stored(history[s])
      /\ row.lastDetected \in s .. n
      /\ \A k \in s .. row.lastDetected : InEpisodeOf(history, d, k)
      /\ row.status = "OPEN" => row.resolved = Null /\ row.lastDetected = n
      /\ row.status = "RESOLVED" =>
           /\ row.lastDetected < n /\ row.resolved = row.lastDetected + 1
           /\ ~InEpisodeOf(history, d, row.lastDetected + 1)
  BY <1>1 DEF RowHolds
<1> HIDE DEF row, n, d, s
<1>4. <<d, s>> \in Beginnings
  BY <1>1, <1>2, <1>3, OfTheHistory DEF Beginnings
<1>5. Reached(row.lastDetected)
  BY <1>1, <1>3
<1>6. ASSUME NEW j \in s .. n, NEW k \in s .. n, Reached(j), Reached(k), j < k PROVE FALSE
  <2>1. j + 1 \in s .. k /\ j # n
    BY <1>2, <1>3, <1>6
  <2> QED BY <1>6, <2>1
<1>7. ASSUME NEW j \in s .. n, Reached(j) PROVE j = row.lastDetected
  <2>1. j < row.lastDetected \/ row.lastDetected < j \/ j = row.lastDetected
    BY <1>2, <1>3
  <2> QED BY <1>3, <1>5, <1>6, <1>7, <2>1
<1>8. Ends(d, s) = CHOOSE j \in s .. n : Reached(j)
  BY OfTheHistory DEF Ends, n
<1> HIDE DEF Reached
<1>9. Ends(d, s) = row.lastDetected
  BY <1>3, <1>5, <1>7, <1>8
<1>10. row.resolved = IF row.lastDetected = n THEN Null ELSE row.lastDetected + 1
  BY <1>1, <1>2, <1>3
<1>11. Episode(d, s) =
         [direction |-> d, started |-> s, lastDetected |-> row.lastDetected,
          resolved |-> row.resolved, trigger |-> row.trigger]
  BY <1>3, <1>9, <1>10 DEF Episode, n
<1>12. row.status = "OPEN" <=> row.resolved = Null
  <2>1. row.lastDetected + 1 # Null
    BY <1>2, <1>3 DEF Null
  <2> QED BY <1>1, <1>3, <2>1
<1> QED BY <1>4, <1>11, <1>12 DEF row, d, s, RowEpisode

LEMMA EpisodeInvImplies == EpisodeInv => AlertsAreEpisodes
<1> SUFFICES ASSUME EpisodeInv PROVE AlertsAreEpisodes
  OBVIOUS
<1> DEFINE m == Len(alertRows)
           row(i) == alertRows[i]
           f == [i \in 1 .. m |-> RowEpisode(row(i))]
<1>1. /\ alertRows \in Seq(Alert) /\ m \in Nat /\ DOMAIN alertRows = 1 .. m
      /\ history \in Seq(Int) /\ DOMAIN history = 1 .. Len(history)
  BY DEF EpisodeInv, RowsFollow
<1>2. \A i \in 1 .. m : f[i] = RowEpisode(row(i)) /\ row(i) \in Alert
  BY <1>1
<1>3. f = [i \in 1 .. m |-> f[i]]
  OBVIOUS
<1>4. \A i \in DOMAIN alertRows :
        /\ <<row(i).direction, row(i).started>> \in Beginnings
        /\ RowEpisode(row(i)) = Episode(row(i).direction, row(i).started)
        /\ row(i).status = "OPEN" <=> row(i).resolved = Null
  BY RowIsEpisode
<1> HIDE DEF f
<1>5. \A i \in 1 .. m : /\ <<row(i).direction, row(i).started>> \in Beginnings
                       /\ f[i] = Episode(row(i).direction, row(i).started)
  BY <1>1, <1>2, <1>4
<1>6. \A i, j \in 1 .. m : i < j => row(i).started < row(j).started
  BY <1>1 DEF EpisodeInv, RowsFollow, Ordered
<1>7. \A d \in Directions, k \in 1 .. Len(history) : BeginsIn(history, d, k) =>
        \E i \in 1 .. m : row(i).direction = d /\ row(i).started = k
  BY <1>1 DEF EpisodeInv, RowsFollow, Complete
<1> HIDE DEF row
<1>8. ASSUME NEW i \in 1 .. m PROVE f[i] \in Episodes
  <2> DEFINE p == <<row(i).direction, row(i).started>>
  <2>1. p[1] = row(i).direction /\ p[2] = row(i).started
    OBVIOUS
  <2>2. p \in Beginnings /\ f[i] = Episode(p[1], p[2])
    BY <1>5, <2>1
  <2> HIDE DEF p
  <2> QED BY <2>2 DEF Episodes
<1>9. ASSUME NEW e \in Episodes PROVE \E i \in 1 .. m : f[i] = e
  <2>1. PICK p \in Beginnings : e = Episode(p[1], p[2])
    BY DEF Episodes
  <2>2. /\ p[1] \in Directions /\ p[2] \in 1 .. Len(history)
        /\ BeginsIn(history, p[1], p[2])
    BY <1>1, <2>1, OfTheHistory DEF Beginnings
  <2>3. PICK i \in 1 .. m : row(i).direction = p[1] /\ row(i).started = p[2]
    BY <1>7, <2>2
  <2>4. f[i] = Episode(row(i).direction, row(i).started)
    BY <1>5
  <2> QED BY <2>1, <2>3, <2>4
<1>10. {RowEpisode(alertRows[i]) : i \in DOMAIN alertRows} = Episodes
  <2>1. \A i \in 1 .. m : f[i] = RowEpisode(alertRows[i])
    BY <1>2 DEF row
  <2> QED BY <1>1, <1>8, <1>9, <2>1
<1>11. \A i, j \in 1 .. m : f[i] = f[j] => i = j
  <2> SUFFICES ASSUME NEW i \in 1 .. m, NEW j \in 1 .. m, f[i] = f[j] PROVE i = j
    OBVIOUS
  <2>0. f[i] = f[j]
    OBVIOUS
  <2>1. row(i).started = row(j).started
    <3>1. RowEpisode(row(i)) = RowEpisode(row(j))
      BY <1>2, <2>0
    <3>2. RowEpisode(row(i)).started = row(i).started /\ RowEpisode(row(j)).started = row(j).started
      BY DEF RowEpisode
    <3> QED BY <3>1, <3>2
  <2>2. row(i).started \in Nat /\ row(j).started \in Nat
    BY <1>2 DEF Alert
  <2>3. ~(i < j) /\ ~(j < i)
    BY <1>6, <2>1, <2>2
  <2> QED BY <1>1, <2>3
<1>12. Cardinality(Episodes) = m
  <2>1. f \in [1 .. m -> Episodes]
    BY <1>3, <1>8
  <2>2. f \in Bijection(1 .. m, Episodes)
    BY <1>9, <1>11, <2>1 DEF Bijection, Injection, Surjection, IsInjective
  <2>3. IsFiniteSet(1 .. m) /\ Cardinality(1 .. m) = m
    BY <1>1, UpTo
  <2> QED BY <2>2, <2>3, FS_Bijection DEF ExistsBijection
<1>13. \A i \in DOMAIN alertRows : alertRows[i].status = "OPEN" <=> alertRows[i].resolved = Null
  BY <1>4 DEF row
<1> QED BY <1>10, <1>12, <1>13 DEF AlertsAreEpisodes

LEMMA EpisodesInit == EpisodeInit => EpisodeInv
<1> SUFFICES ASSUME EpisodeInit PROVE RowsFollow(<<>>, <<>>)
  BY DEF EpisodeInit, EpisodeInv
<1>1. \A d \in Directions : ~InEpisodeOf(<<>>, d, 0)
  BY DEF InEpisodeOf
<1> QED BY <1>1 DEF RowsFollow, AtMostOneOpen, OpenRows, Ordered, Complete

LEMMA EpisodesStep == EpisodeInv /\ [EpisodeNext]_episodeVars => EpisodeInv'
<1> SUFFICES ASSUME EpisodeInv, [EpisodeNext]_episodeVars
             PROVE  RowsFollow(history', alertRows')
  BY DEF EpisodeInv
<1>1. CASE UNCHANGED episodeVars
  BY <1>1 DEF episodeVars, EpisodeInv
<1>2. ASSUME NEW v \in Readings, EvaluateReading(v) PROVE RowsFollow(history', alertRows')
  <2>1. v \in Int
    BY EpisodeAssumption
  <2>2. /\ history' = Append(history, v)
        /\ alertRows' = EvaluateMetric(Metric, alertRows, Len(history) + 1, v)
    BY <1>2 DEF EvaluateReading
  <2>3. RowsFollow(Append(history, v), EvaluateMetric(Metric, alertRows, Len(history) + 1, v))
    BY <2>1, RowsGoOn DEF EpisodeInv
  <2> QED BY <2>2, <2>3
<1> QED BY <1>1, <1>2 DEF EpisodeNext

\* Whatever the thresholds and the readings, the alert rows are exactly the
\* maximal episodes of the history: AlertService keeps one open row, which is the
\* episode still running, and ends it at the first reading that has come back.
THEOREM AlertRowsAreEpisodes == EpisodeSpec => []AlertsAreEpisodes
<1> QED BY EpisodesInit, EpisodesStep, EpisodeInvImplies, PTL DEF EpisodeSpec

\* Queries only read: with them going on, evaluation is what it is without.
LEMMA QueriesOnlyRead == QuerySpec => EpisodeSpec
<1>1. QueryInit => EpisodeInit
  BY DEF QueryInit
<1>2. [QueryNext]_queryVars => [EpisodeNext]_episodeVars
  BY DEF QueryNext, EvaluateNext, CountAlerts, SelectAlerts, Answered, queryVars
<1> QED BY <1>1, <1>2, PTL DEF QuerySpec, EpisodeSpec

----------------------------------------------------------------------------
(* Alert histories                                                           *)

\* The number of rows found that a row comes after.
Preceding(rows, found, i) == {j \in found : Precedes(rows, j, i)}
Rank(rows, found, i) == Cardinality(Preceding(rows, found, i))

\* The newest first is a strict total order of the rows.
LEMMA PrecedesOrders ==
  ASSUME NEW rows \in Seq(Alert),
         NEW i \in DOMAIN rows, NEW j \in DOMAIN rows, NEW k \in DOMAIN rows
  PROVE  /\ ~Precedes(rows, i, i)
         /\ i # j => Precedes(rows, i, j) \/ Precedes(rows, j, i)
         /\ Precedes(rows, i, j) /\ Precedes(rows, j, k) => Precedes(rows, i, k)
         /\ Precedes(rows, i, j) => rows[i].started >= rows[j].started
         /\ ~Precedes(rows, i, j) => rows[i].started <= rows[j].started
<1>1. rows[i] \in Alert /\ rows[j] \in Alert /\ rows[k] \in Alert /\ i \in Nat /\ j \in Nat /\ k \in Nat
  OBVIOUS
<1>2. rows[i].started \in Nat /\ rows[j].started \in Nat /\ rows[k].started \in Nat
  BY <1>1 DEF Alert
<1> QED BY <1>1, <1>2 DEF Precedes, Before

\* The rows found have the ranks from 0, each once.
LEMMA RanksAreAll ==
  ASSUME NEW rows \in Seq(Alert), NEW found \in SUBSET DOMAIN rows
  PROVE  /\ IsFiniteSet(found) /\ Cardinality(found) \in Nat
         /\ \A i \in found : Rank(rows, found, i) \in 0 .. Cardinality(found) - 1
         /\ \A i, j \in found :
              Precedes(rows, i, j) => Rank(rows, found, i) < Rank(rows, found, j)
         /\ \A n \in 0 .. Cardinality(found) - 1 : \E i \in found : Rank(rows, found, i) = n
         /\ \A i, j \in found : Rank(rows, found, i) = Rank(rows, found, j) => i = j
<1> DEFINE before == [i \in found |-> Preceding(rows, found, i)]
           rank(i) == Rank(rows, found, i)
<1>1. IsFiniteSet(found)
  <2>1. Len(rows) \in Nat /\ DOMAIN rows = 1 .. Len(rows)
    OBVIOUS
  <2>2. IsFiniteSet(DOMAIN rows)
    BY <2>1, UpTo
  <2> QED BY <2>2, FS_Subset
<1>2. /\ before \in [found -> SUBSET found]
      /\ \A i, j \in found : j \in before[i] <=> Precedes(rows, j, i)
      /\ \A i \in found : Cardinality(before[i]) = rank(i)
  BY DEF Preceding, Rank
<1> HIDE DEF before, rank
<1>3. /\ \A i \in found : i \notin before[i]
      /\ \A i, j \in found : i # j => i \in before[j] \/ j \in before[i]
      /\ \A i, j, k \in found : i \in before[j] /\ j \in before[k] => i \in before[k]
  BY <1>2, PrecedesOrders
<1>4. /\ Cardinality(found) \in Nat
      /\ \A i \in found : Cardinality(before[i]) \in 0 .. (Cardinality(found) - 1)
      /\ \A i, j \in found : i \in before[j] => Cardinality(before[i]) < Cardinality(before[j])
      /\ \A n \in 0 .. (Cardinality(found) - 1) : \E i \in found : Cardinality(before[i]) = n
      /\ \A i, j \in found : Cardinality(before[i]) = Cardinality(before[j]) => i = j
  BY <1>1, <1>2, <1>3, OrderHasRanks
<1> QED BY <1>1, <1>2, <1>4 DEF rank

\* Newest selects as many of the rows found as there are, up to the limit, and
\* none that is older than one it leaves out.
LEMMA NewestIsNewest ==
  ASSUME NEW rows \in Seq(Alert), NEW found \in SUBSET DOMAIN rows
  PROVE  LET page == Newest(rows, found)
             shown == {page[n] : n \in DOMAIN page}
         IN  /\ page \in Seq(found)
             /\ shown \subseteq found
             /\ Cardinality(shown) = Len(page)
             /\ Cardinality(shown) < MaxAlerts => shown = found
             /\ \A i \in found \ shown, j \in shown : rows[i].started <= rows[j].started
<1> DEFINE page == Newest(rows, found)
           shown == {page[n] : n \in DOMAIN page}
           size == Cardinality(found)
           last == IF size < MaxAlerts THEN size ELSE MaxAlerts
           rank(i) == Rank(rows, found, i)
<1>1. /\ IsFiniteSet(found) /\ size \in Nat
      /\ \A i \in found : rank(i) \in 0 .. size - 1
      /\ \A i, j \in found : Precedes(rows, i, j) => rank(i) < rank(j)
      /\ \A n \in 0 .. size - 1 : \E i \in found : rank(i) = n
      /\ \A i, j \in found : rank(i) = rank(j) => i = j
  BY RanksAreAll
<1>2. MaxAlerts \in Nat \ {0}
  BY QueryAssumption
<1>3. last \in Nat /\ last <= size /\ (last < MaxAlerts => last = size)
  <2> HIDE DEF size
  <2> QED BY <1>1, <1>2
<1>4. page = [n \in 1 .. last |-> CHOOSE i \in found : rank(i) = n - 1]
  BY DEF Newest, Rank, Preceding
<1> HIDE DEF page, last, rank, size
<1>5. \A n \in 1 .. last : page[n] \in found /\ rank(page[n]) = n - 1
  <2> SUFFICES ASSUME NEW n \in 1 .. last
               PROVE  page[n] \in found /\ rank(page[n]) = n - 1
    OBVIOUS
  <2>1. n - 1 \in 0 .. size - 1
    BY <1>1, <1>3
  <2>2. \E i \in found : rank(i) = n - 1
    BY <1>1, <2>1
  <2>3. page[n] = CHOOSE i \in found : rank(i) = n - 1
    BY <1>4
  <2> QED BY <2>2, <2>3
<1>6. page \in [1 .. last -> found] /\ DOMAIN page = 1 .. last
  <2>1. DOMAIN page = 1 .. last
    BY <1>4
  <2>2. page = [n \in 1 .. last |-> page[n]]
    BY <1>4
  <2> QED BY <1>5, <2>1, <2>2
<1>7. page \in Seq(found) /\ Len(page) = last
  <2>1. page \in Seq(found)
    BY <1>3, <1>6
  <2>2. DOMAIN page = 1 .. Len(page) /\ Len(page) \in Nat
    BY <2>1
  <2> QED BY <1>3, <1>6, <2>1, <2>2
<1>8. shown \subseteq found
  BY <1>5, <1>6
<1>9. Cardinality(shown) = last
  <2>1. page \in Bijection(1 .. last, shown)
    <3>1. page \in [1 .. last -> shown]
      BY <1>6
    <3>2. \A m, n \in 1 .. last : page[m] = page[n] => m = n
      <4> SUFFICES ASSUME NEW m \in 1 .. last, NEW n \in 1 .. last, page[m] = page[n]
                   PROVE  m = n
        OBVIOUS
      <4>1. m - 1 = n - 1
        BY <1>5
      <4> QED BY <1>3, <4>1
    <3>3. \A x \in shown : \E n \in 1 .. last : page[n] = x
      BY <1>6
    <3> HIDE DEF shown
    <3> QED BY <3>1, <3>2, <3>3 DEF Bijection, Injection, Surjection, IsInjective
  <2>2. IsFiniteSet(1 .. last) /\ Cardinality(1 .. last) = last
    BY <1>3, UpTo
  <2> HIDE DEF shown
  <2> QED BY <2>1, <2>2, FS_Bijection DEF ExistsBijection
<1>10. \A i \in found : i \in shown <=> rank(i) < last
  <2> SUFFICES ASSUME NEW i \in found PROVE i \in shown <=> rank(i) < last
    OBVIOUS
  <2>1. rank(i) \in Nat
    BY <1>1
  <2>2. ASSUME rank(i) < last PROVE i \in shown
    <3>1. rank(i) + 1 \in 1 .. last /\ (rank(i) + 1) - 1 = rank(i)
      BY <1>3, <2>1, <2>2
    <3>2. page[rank(i) + 1] = i
      BY <1>1, <1>5, <3>1
    <3> QED BY <1>6, <3>1, <3>2
  <2>3. ASSUME i \in shown PROVE rank(i) < last
    <3>1. PICK n \in 1 .. last : page[n] = i
      BY <1>6, <2>3
    <3>2. rank(i) = n - 1
      BY <1>5, <3>1
    <3> QED BY <1>3, <3>2
  <2> QED BY <2>2, <2>3
<1> HIDE DEF shown
<1>11. Cardinality(shown) < MaxAlerts => shown = found
  <2> SUFFICES ASSUME Cardinality(shown) < MaxAlerts PROVE shown = found
    OBVIOUS
  <2>1. Cardinality(shown) = Cardinality(found)
    BY <1>3, <1>9 DEF size
  <2> QED BY <1>1, <1>8, <2>1, FS_Subset
<1>12. ASSUME NEW i \in found \ shown, NEW j \in shown
       PROVE  rows[i].started <= rows[j].started
  <2>1. j \in found
    BY <1>8
  <2>2. ~(rank(i) < last) /\ rank(j) < last
    BY <1>10, <2>1
  <2>3. rank(i) \in Nat /\ rank(j) \in Nat
    BY <1>1, <2>1
  <2>4. ~(rank(i) < rank(j))
    BY <1>3, <2>2, <2>3
  <2>5. ~Precedes(rows, i, j)
    BY <1>1, <2>1, <2>4
  <2> QED BY <2>1, <2>5, PrecedesOrders
<1> QED BY <1>7, <1>8, <1>9, <1>11, <1>12 DEF page, shown

\* Evaluation adds rows and changes the start of none.
LEMMA RowsKeepTheirStart ==
  ASSUME NEW rows \in Seq(Alert), AtMostOneOpen(rows), NEW at \in Nat, NEW v \in Int
  PROVE  LET new == EvaluateMetric(Metric, rows, at, v)
         IN  /\ DOMAIN rows \subseteq DOMAIN new
             /\ \A i \in DOMAIN rows : new[i].started = rows[i].started
<1> DEFINE t == Limits   c == FindOpen(rows)   row == rows[c]
           new == EvaluateMetric(Metric, rows, at, v)
<1>1. t = Thresholds[Metric]
  BY DEF Limits
<1>2. ASSUME NEW base \in Seq(Alert)
      PROVE  LET next == OpenNew(base, at, v, t)
             IN  DOMAIN base \subseteq DOMAIN next /\ \A i \in DOMAIN base : next[i] = base[i]
  <2> DEFINE alert == NewAlert(CHOOSE d \in NewDirections(v, t) : TRUE, at, v, t)
             next == Append(base, alert)
  <2> HIDE DEF alert
  <2>1. /\ DOMAIN base = 1 .. Len(base) /\ DOMAIN next = 1 .. Len(base) + 1
        /\ \A i \in 1 .. Len(base) : next[i] = base[i]
        /\ Len(base) \in Nat
    OBVIOUS
  <2>2. DOMAIN base \subseteq DOMAIN next /\ \A i \in DOMAIN base : next[i] = base[i]
    BY <2>1
  <2>3. OpenNew(base, at, v, t) = IF NewDirections(v, t) = {} THEN base ELSE next
    BY DEF OpenNew, alert
  <2> QED BY <2>2, <2>3
<1>3. CASE OpenRows(rows) = {}
  <2>1. new = OpenNew(rows, at, v, t)
    BY <1>1, <1>3 DEF EvaluateMetric
  <2> HIDE DEF new, t
  <2> QED BY <1>2, <2>1 DEF new
<1>4. CASE OpenRows(rows) # {}
  <2>1. c \in DOMAIN rows /\ row \in Alert
    BY <1>4 DEF FindOpen, OpenRows
  <2>2. ASSUME NEW other \in Alert, other.started = row.started
        PROVE  LET base == [rows EXCEPT ![c] = other]
               IN  /\ base \in Seq(Alert) /\ DOMAIN base = DOMAIN rows
                   /\ \A i \in DOMAIN rows : base[i].started = rows[i].started
    <3> HIDE DEF c
    <3> QED BY <2>1, <2>2
  <2>3. CASE Continues(row.direction, v, t)
    <3>1. new = [rows EXCEPT ![c] = Touched(row, at)]
      BY <1>1, <1>4, <2>3 DEF EvaluateMetric
    <3>2. Touched(row, at) \in Alert /\ Touched(row, at).started = row.started
      BY <2>1 DEF Touched, Alert
    <3> HIDE DEF new, row, c
    <3> QED BY <2>2, <3>1, <3>2 DEF new
  <2>4. CASE ~Continues(row.direction, v, t)
    <3> DEFINE base == [rows EXCEPT ![c] = Resolved(row, at)]
    <3>1. new = OpenNew(base, at, v, t)
      BY <1>1, <1>4, <2>4 DEF EvaluateMetric
    <3>2. Resolved(row, at) \in Alert /\ Resolved(row, at).started = row.started
      BY <2>1 DEF Resolved, Alert
    <3> HIDE DEF new, row, c
    <3>3. /\ base \in Seq(Alert) /\ DOMAIN base = DOMAIN rows
          /\ \A i \in DOMAIN rows : base[i].started = rows[i].started
      BY <2>2, <3>2
    <3> HIDE DEF base, t
    <3>4. DOMAIN base \subseteq DOMAIN new /\ \A i \in DOMAIN base : new[i] = base[i]
      BY <1>2, <3>1, <3>3
    <3>5. \A i \in DOMAIN rows : new[i].started = rows[i].started
      BY <3>3, <3>4
    <3> QED BY <3>3, <3>4, <3>5 DEF new
  <2> QED BY <2>3, <2>4
<1> QED BY <1>3, <1>4

\* So what was counted of all statuses is still found when it is selected.
LEMMA MatchingIsKept ==
  ASSUME NEW rows \in Seq(Alert), NEW new \in Seq(Alert), NEW p \in Period,
         DOMAIN rows \subseteq DOMAIN new,
         \A i \in DOMAIN rows : new[i].started = rows[i].started
  PROVE  /\ Cardinality(Matching(rows, p, "ALL")) <= Cardinality(Matching(new, p, "ALL"))
         /\ Cardinality(Matching(rows, p, "ALL")) \in Nat
         /\ Cardinality(Matching(new, p, "ALL")) \in Nat
<1>1. Matching(rows, p, "ALL") \in SUBSET Matching(new, p, "ALL")
  BY DEF Matching
<1>2. Matching(rows, p, "ALL") \in SUBSET DOMAIN rows /\ Matching(new, p, "ALL") \in SUBSET DOMAIN new
  BY DEF Matching
<1>3. /\ IsFiniteSet(Matching(new, p, "ALL"))
      /\ Cardinality(Matching(rows, p, "ALL")) \in Nat
      /\ Cardinality(Matching(new, p, "ALL")) \in Nat
  BY <1>2, RanksAreAll
<1> QED BY <1>1, <1>3, FS_Subset

Query == [step : {"idle", "counted", "selected"}, period : Period, filter : Filters,
          total : Nat, shown : Seq(Nat)]

\* Between the two statements no alert that was counted is lost.
QueryInv ==
  /\ EpisodeInv
  /\ query \in Query
  /\ query.step = "counted" /\ query.filter = "ALL" =>
       query.total <= Cardinality(Matching(alertRows, query.period, "ALL"))

\* What SelectAlerts makes of the query.
LEMMA SelectionIsNewest ==
  ASSUME QueryInv, SelectAlerts
  PROVE  LET matching == Matching(alertRows, query.period, query.filter)
         IN  /\ query.step = "counted" /\ alertRows \in Seq(Alert)
             /\ matching \in SUBSET DOMAIN alertRows
             /\ query' \in Query /\ query'.step = "selected"
             /\ query'.total = query.total /\ query'.shown = Newest(alertRows, matching)
<1> DEFINE matching == Matching(alertRows, query.period, query.filter)
           page == Newest(alertRows, matching)
<1>1. query.step = "counted" /\ query' = [query EXCEPT !.step = "selected", !.shown = page]
  BY DEF SelectAlerts
<1>2. alertRows \in Seq(Alert) /\ query \in Query
  BY DEF QueryInv, EpisodeInv, RowsFollow
<1>3. matching \in SUBSET DOMAIN alertRows
  BY DEF Matching
<1> HIDE DEF matching
<1>4. page \in Seq(matching)
  BY <1>2, <1>3, NewestIsNewest
<1>5. page \in Seq(Nat)
  <2>1. \A i \in matching : i \in Nat
    BY <1>2, <1>3
  <2> HIDE DEF page
  <2>2. Len(page) \in Nat /\ page \in [1 .. Len(page) -> matching]
    BY <1>4
  <2>3. page \in [1 .. Len(page) -> Nat]
    BY <2>1, <2>2
  <2> QED BY <2>2, <2>3
<1> HIDE DEF page
<1>6. query' \in Query /\ query'.step = "selected" /\ query'.total = query.total /\ query'.shown = page
  BY <1>1, <1>2, <1>5 DEF Query
<1> QED BY <1>1, <1>2, <1>3, <1>6 DEF matching, page

LEMMA QueriesInit == QueryInit => QueryInv
<1> SUFFICES ASSUME QueryInit PROVE QueryInv
  OBVIOUS
<1>1. EpisodeInv
  BY EpisodesInit DEF QueryInit
<1>2. query = NoQuery
  BY DEF QueryInit
<1>3. NoQuery \in Query /\ NoQuery.step # "counted"
  BY DEF NoQuery, Query, Period, Filters
<1> QED BY <1>1, <1>2, <1>3 DEF QueryInv

LEMMA QueriesStep == QueryInv /\ [QueryNext]_queryVars => QueryInv'
<1> SUFFICES ASSUME QueryInv, [QueryNext]_queryVars PROVE QueryInv'
  OBVIOUS
<1>1. EpisodeInv'
  <2>1. [EpisodeNext]_episodeVars
    BY DEF QueryNext, EvaluateNext, CountAlerts, SelectAlerts, Answered, queryVars
  <2> QED BY <2>1, EpisodesStep DEF QueryInv
<1>2. /\ alertRows \in Seq(Alert) /\ AtMostOneOpen(alertRows) /\ history \in Seq(Int)
      /\ query \in Query
  BY DEF QueryInv, EpisodeInv, RowsFollow
<1>3. CASE EvaluateNext
  <2>1. PICK v \in Readings : EvaluateReading(v) /\ query' = query
    BY <1>3 DEF EvaluateNext, EpisodeNext
  <2>2. v \in Int /\ Len(history) + 1 \in Nat
    BY <1>2, EpisodeAssumption
  <2>3. alertRows' = EvaluateMetric(Metric, alertRows, Len(history) + 1, v)
    BY <2>1 DEF EvaluateReading
  <2>4. /\ DOMAIN alertRows \subseteq DOMAIN alertRows'
        /\ \A i \in DOMAIN alertRows : alertRows'[i].started = alertRows[i].started
    BY <1>2, <2>2, <2>3, RowsKeepTheirStart
  <2>5. alertRows' \in Seq(Alert) /\ query.period \in Period /\ query.total \in Nat
    BY <1>1, <1>2 DEF EpisodeInv, RowsFollow, Query
  <2>6. LET old == Cardinality(Matching(alertRows, query.period, "ALL"))
            new == Cardinality(Matching(alertRows', query.period, "ALL"))
        IN  old \in Nat /\ new \in Nat /\ old <= new
    BY <1>2, <2>4, <2>5, MatchingIsKept
  <2>7. query.step = "counted" /\ query.filter = "ALL" =>
          query.total <= Cardinality(Matching(alertRows', query.period, "ALL"))
    BY <2>5, <2>6 DEF QueryInv
  <2> QED BY <1>1, <1>2, <2>1, <2>7 DEF QueryInv
<1>4. ASSUME NEW p \in AskedPeriods, NEW filter \in Filters, CountAlerts(p, filter)
      PROVE  QueryInv'
  <2> DEFINE total == Cardinality(Matching(alertRows, p, filter))
  <2>1. /\ query' = [query EXCEPT !.step = "counted", !.period = p, !.filter = filter,
                                  !.total = total]
        /\ alertRows' = alertRows
    BY <1>4 DEF CountAlerts, episodeVars
  <2>2. p \in Period
    BY AskedAssumption
  <2>3. Matching(alertRows, p, filter) \in SUBSET DOMAIN alertRows
    BY DEF Matching
  <2>4. total \in Nat
    BY <1>2, <2>3, RanksAreAll
  <2> HIDE DEF total
  <2>5. query' \in Query /\ query'.period = p /\ query'.filter = filter /\ query'.total = total
    BY <1>2, <2>1, <2>2, <2>4 DEF Query
  <2>6. query'.filter = "ALL" =>
          query'.total <= Cardinality(Matching(alertRows', query'.period, "ALL"))
    BY <2>1, <2>4, <2>5 DEF total
  <2> QED BY <1>1, <2>5, <2>6 DEF QueryInv
<1>5. CASE SelectAlerts
  BY <1>1, <1>5, SelectionIsNewest DEF QueryInv
<1>6. CASE Answered
  <2>1. query' \in Query /\ query'.step # "counted"
    BY <1>6 DEF Answered, NoQuery, Query, Period, Filters
  <2> QED BY <1>1, <2>1 DEF QueryInv
<1>7. CASE UNCHANGED queryVars
  BY <1>7, <1>1 DEF QueryInv, queryVars, episodeVars
<1> QED BY <1>3, <1>4, <1>5, <1>6, <1>7 DEF QueryNext

\* Whatever is evaluated between the two statements of an alert history, it shows
\* the newest matching alerts, and one that calls itself truncated lacks some.
THEOREM AlertHistoriesAreHonest == QuerySpec => AlertHistoryIsHonest
<1> DEFINE Honest ==
      SelectAlerts =>
        LET matching == Matching(alertRows, query.period, query.filter)
            shown == {query'.shown[n] : n \in DOMAIN query'.shown}
        IN  /\ shown \subseteq matching
            /\ \A i \in matching \ shown, j \in shown : alertRows[i].started <= alertRows[j].started
            /\ query.filter = "ALL" /\ Truncated' => shown # matching
            /\ Cardinality(shown) < MaxAlerts => shown = matching
<1>1. ASSUME QueryInv, SelectAlerts PROVE Honest
  <2> DEFINE matching == Matching(alertRows, query.period, query.filter)
             page == Newest(alertRows, matching)
             shown == {page[n] : n \in DOMAIN page}
  <2>1. /\ query.step = "counted" /\ alertRows \in Seq(Alert)
        /\ matching \in SUBSET DOMAIN alertRows
        /\ query'.total = query.total /\ query'.shown = page
    BY <1>1, SelectionIsNewest
  <2> HIDE DEF matching
  <2>2. /\ shown \subseteq matching /\ page \in Seq(matching)
        /\ Cardinality(shown) = Len(page)
        /\ Cardinality(shown) < MaxAlerts => shown = matching
        /\ \A i \in matching \ shown, j \in shown : alertRows[i].started <= alertRows[j].started
    BY <2>1, NewestIsNewest
  <2> HIDE DEF page
  <2>3. ASSUME query.filter = "ALL", query'.total > Len(query'.shown) PROVE shown # matching
    <3>1. query.total <= Cardinality(matching)
      BY <1>1, <2>1, <2>3 DEF QueryInv, matching
    <3>2. query.total \in Nat /\ Len(page) \in Nat
      BY <1>1, <2>2 DEF QueryInv, Query
    <3>3. Cardinality(matching) \in Nat
      BY <2>1, RanksAreAll
    <3>4. Cardinality(shown) < Cardinality(matching)
      <4> HIDE DEF shown
      <4> QED BY <2>1, <2>2, <2>3, <3>1, <3>2, <3>3
    <3> QED BY <3>3, <3>4
  <2> QED BY <2>1, <2>2, <2>3 DEF matching, Truncated
<1>2. QueryInv /\ [QueryNext]_queryVars => [Honest]_queryVars
  BY <1>1
<1> QED BY <1>2, QueriesInit, QueriesStep, PTL DEF QuerySpec, AlertHistoryIsHonest
----------------------------------------------------------------------------
(* Statistics                                                                *)

LEMMA ExtremesAre ==
  ASSUME NEW S \in SUBSET Int, IsFiniteSet(S), S # {}
  PROVE  /\ Sets!Min(S) \in S /\ \A x \in S : Sets!Min(S) <= x
         /\ Sets!Max(S) \in S /\ \A x \in S : x <= Sets!Max(S)
<1>1. (\E i \in S : \A j \in S : i <= j) /\ (\E i \in S : \A j \in S : j <= i)
  BY NumbersAreOrdered
<1>2. \E i \in S : \A j \in S : i >= j
  BY <1>1
<1> QED BY <1>1, <1>2 DEF Sets!Min, Sets!Max

\* The average of numbers is rounded to one between their bounds.
LEMMA RoundedBetween ==
  ASSUME NEW total \in Int, NEW n \in Nat \ {0}, NEW lo \in Int, NEW hi \in Int,
         n * lo <= total, total <= n * hi
  PROVE  RoundedQuotient(total, n) \in lo .. hi
<1> DEFINE magnitude(v) == (2 * v + n) \div (2 * n)
<1>1. ASSUME NEW v \in Int, NEW a \in Int, NEW b \in Int, n * a <= v, v <= n * b
      PROVE  magnitude(v) \in a .. b
  <2> DEFINE d == 2 * n   t == 2 * v + n
  <2>1. d \in Nat \ {0} /\ t \in Int /\ n * a \in Int /\ n * b \in Int
    OBVIOUS
  <2>2. d * a = 2 * (n * a) /\ d * (b + 1) = 2 * (n * b) + 2 * n
    OBVIOUS
  <2>3. d * a <= t /\ ~(d * (b + 1) <= t)
    <3> HIDE DEF d
    <3> QED BY <1>1, <2>1, <2>2
  <2> HIDE DEF d, t
  <2>4. b + 1 \in Int
    OBVIOUS
  <2>5. t \div d \in Int /\ a <= t \div d
    BY <2>1, <2>3, QuotientAtLeast
  <2>6. ~(b + 1 <= t \div d)
    BY <2>1, <2>3, <2>4, QuotientAtLeast
  <2>7. t \div d \in a .. b
    BY <2>5, <2>6
  <2> QED BY <2>7 DEF d, t
<1>2. RoundedQuotient(total, n) = IF total >= 0 THEN magnitude(total) ELSE -magnitude(-total)
  BY DEF RoundedQuotient
<1>3. magnitude(total) \in lo .. hi
  BY <1>1
<1>4. magnitude(-total) \in (-hi) .. (-lo)
  <2>1. /\ -total \in Int /\ -hi \in Int /\ -lo \in Int
        /\ n * (-hi) = -(n * hi) /\ n * (-lo) = -(n * lo)
        /\ n * hi \in Int /\ n * lo \in Int
    OBVIOUS
  <2>2. n * (-hi) <= -total /\ -total <= n * (-lo)
    BY <2>1
  <2> HIDE DEF magnitude
  <2> QED BY <1>1, <2>1, <2>2
<1> HIDE DEF magnitude
<1> QED BY <1>2, <1>3, <1>4

\* The aggregates of rows that there are: the extremes are of two of the rows, and
\* the average is between them.
LEMMA AggregateIs ==
  ASSUME NEW rows, IsFiniteSet(rows), rows # {}, NEW m, \A r \in rows : r.values[m] \in Int
  PROVE  LET a == Aggregate(rows, m)
         IN  /\ a.count = Cardinality(rows) /\ a.count \in Nat \ {0}
             /\ a.minimum \in Int /\ a.maximum \in Int
             /\ a.average \in a.minimum .. a.maximum
             /\ \E r \in rows : r.values[m] = a.minimum
             /\ \E r \in rows : r.values[m] = a.maximum
             /\ \A r \in rows : a.minimum <= r.values[m] /\ r.values[m] <= a.maximum
<1> DEFINE f == [r \in rows |-> r.values[m]]
           values == {r.values[m] : r \in rows}
           n == Cardinality(rows)
           lo == Sets!Min(values)
           hi == Sets!Max(values)
           total == SumFunctionOnSet(f, rows)
<1>1. Aggregate(rows, m) = [count |-> n, minimum |-> lo, maximum |-> hi,
                            average |-> RoundedQuotient(total, n)]
  BY DEF Aggregate, SumFunction
<1>2. n \in Nat \ {0}
  BY FS_CardinalityType, FS_EmptySet
<1>3. values \in SUBSET Int /\ IsFiniteSet(values) /\ values # {}
  <2>1. f \in Surjection(rows, values)
    BY DEF Surjection
  <2> QED BY <2>1, FS_Surjection
<1>4. /\ lo \in values /\ \A x \in values : lo <= x
      /\ hi \in values /\ \A x \in values : x <= hi
  <2> HIDE DEF values
  <2> QED BY <1>3, ExtremesAre
<1>5. /\ lo \in Int /\ hi \in Int
      /\ \A r \in rows : f[r] \in Int /\ lo <= f[r] /\ f[r] <= hi
  <2>1. \A r \in rows : f[r] = r.values[m] /\ f[r] \in values
    OBVIOUS
  <2> HIDE DEF f, values, lo, hi
  <2> QED BY <1>3, <1>4, <2>1
<1> HIDE DEF f, lo, hi
<1>6. total \in Int /\ n * lo <= total /\ total <= n * hi
  BY <1>5, SumOut, SumBetween
<1> HIDE DEF n, total
<1>7. RoundedQuotient(total, n) \in lo .. hi
  BY <1>2, <1>5, <1>6, RoundedBetween
<1>8. /\ \E r \in rows : r.values[m] = lo
      /\ \E r \in rows : r.values[m] = hi
      /\ \A r \in rows : lo <= r.values[m] /\ r.values[m] <= hi
  BY <1>4
<1> QED BY <1>1, <1>2, <1>5, <1>7, <1>8 DEF n

----------------------------------------------------------------------------
(* Series                                                                    *)

LEMMA Lengths ==
  ASSUME NEW g \in Granularities
  PROVE  Length(g) \in Nat \ {0} /\ Offset \in Nat
BY QueryAssumption DEF Length, Granularities

\* An instant is in a bucket exactly if it is between its ends.
LEMMA BucketIs ==
  ASSUME NEW t \in Int, NEW g \in Granularities
  PROVE  /\ BucketOf(t, g) \in Int
         /\ \A b \in Int : b <= BucketOf(t, g) <=> b * Length(g) - Offset <= t
<1>1. Length(g) \in Nat \ {0} /\ Offset \in Nat
  BY Lengths
<1>2. Local(t) \in Int /\ Local(t) = t + Offset /\ BucketOf(t, g) = Local(t) \div Length(g)
  BY <1>1 DEF Local, BucketOf
<1>3. \A b \in Int : b <= BucketOf(t, g) <=> Length(g) * b <= Local(t)
  BY <1>1, <1>2, QuotientAtLeast
<1>4. BucketOf(t, g) \in Int
  BY <1>1, <1>2, QuotientAtLeast
<1>5. \A b \in Int : Length(g) * b = b * Length(g) /\ b * Length(g) \in Int
  BY <1>1
<1> QED BY <1>1, <1>2, <1>3, <1>4, <1>5

\* _estimate_points counts the buckets that a period touches.
THEOREM EstimateCounts ==
  ASSUME NEW p, p.from \in Int, p.to \in Int, p.from < p.to, NEW g \in Granularities
  PROVE  Cardinality(TouchedBuckets(p, g)) = EstimatePoints(p, g) /\ EstimatePoints(p, g) \in Int
<1> DEFINE d == Length(g)
           first == BucketOf(p.from, g)
           last == BucketOf(p.to - 1, g)
<1>1. d \in Nat \ {0} /\ Offset \in Nat
  BY Lengths
<1>2. first \in Int /\ last \in Int
  BY BucketIs
<1>3. TouchedBuckets(p, g) = first .. last
  <2>1. ASSUME NEW t \in p.from .. (p.to - 1) PROVE BucketOf(t, g) \in first .. last
    <3>1. first * d - Offset <= p.from
      BY <1>2, BucketIs
    <3>2. first * d \in Int
      BY <1>1, <1>2
    <3>3. first <= BucketOf(t, g)
      <4> HIDE DEF first, d
      <4>1. first * d - Offset <= t
        BY <1>1, <3>1, <3>2
      <4> QED BY <1>2, <4>1, BucketIs DEF d
    <3>4. BucketOf(t, g) \in Int /\ BucketOf(t, g) * d - Offset <= t
      BY BucketIs
    <3>5. BucketOf(t, g) <= last
      <4>1. BucketOf(t, g) * d \in Int
        BY <1>1, <3>4
      <4>2. BucketOf(t, g) * d - Offset <= p.to - 1
        <5> HIDE DEF d
        <5> QED BY <1>1, <3>4, <4>1
      <4> QED BY <3>4, <4>2, BucketIs
    <3> HIDE DEF first, last
    <3> QED BY <3>3, <3>4, <3>5
  <2>2. ASSUME NEW b \in first .. last PROVE \E t \in p.from .. (p.to - 1) : BucketOf(t, g) = b
    <3>1. CASE b = first
      BY <3>1
    <3>2. CASE b # first
      <4> DEFINE t == b * d - Offset
      <4>1. b \in Int /\ ~(b <= first) /\ b <= last
        <5> HIDE DEF first, last
        <5> QED BY <1>2, <3>2
      <4>2. t \in Int
        BY <1>1, <4>1
      <4>3. ~(t <= p.from) /\ t <= p.to - 1
        BY <4>1, BucketIs
      <4>4. (b + 1) * d = b * d + d /\ b * d \in Int /\ b + 1 \in Int
        BY <1>1, <4>1
      <4>5. ~((b + 1) * d - Offset <= t)
        <5> HIDE DEF d
        <5> QED BY <1>1, <4>4
      <4>6. b <= BucketOf(t, g) /\ ~(b + 1 <= BucketOf(t, g)) /\ BucketOf(t, g) \in Int
        <5> HIDE DEF t
        <5>1. b * d - Offset <= t
          BY <4>2 DEF t
        <5> QED BY <4>1, <4>2, <4>4, <4>5, <5>1, BucketIs
      <4> HIDE DEF t
      <4> QED BY <4>1, <4>2, <4>3, <4>6
    <3> QED BY <3>1, <3>2
  <2>3. \A b \in TouchedBuckets(p, g) : b \in first .. last
    BY <2>1 DEF TouchedBuckets
  <2>4. \A b \in first .. last : b \in TouchedBuckets(p, g)
    BY <2>2 DEF TouchedBuckets
  <2> HIDE DEF first, last
  <2> QED BY <2>3, <2>4
<1>4. first <= last
  <2>1. first \in TouchedBuckets(p, g)
    BY DEF TouchedBuckets
  <2> HIDE DEF first, last
  <2> QED BY <1>3, <2>1
<1>5. EstimatePoints(p, g) = last - first + 1
  <2> DEFINE a == Local(p.to - 1)
  <2>1. a \in Int /\ a = p.to - 1 + Offset /\ last = a \div d
    BY <1>1 DEF Local, BucketOf
  <2> DEFINE x == Local(p.to) - first * d
             q == 1 - first
  <2>2. EstimatePoints(p, g) = (x + d - 1) \div d
    BY DEF EstimatePoints, CeilDiv
  <2>3. d * q = d - first * d /\ d * q \in Int /\ first * d \in Int /\ q \in Int
    <3> HIDE DEF d, first
    <3> QED BY <1>1, <1>2
  <2>4. x + d - 1 = a + d * q
    <3>1. x = (p.to + Offset) - first * d
      BY DEF Local
    <3> HIDE DEF x, q, a, first, d
    <3> QED BY <1>1, <2>1, <2>3, <3>1
  <2>5. (a + d * q) \div d = a \div d + q
    <3> HIDE DEF q, a, d
    <3> QED BY <1>1, <2>1, <2>3, QuotientShifts
  <2>6. EstimatePoints(p, g) = last + q
    <3> HIDE DEF x, q, a, last, d
    <3> QED BY <2>1, <2>2, <2>4, <2>5
  <2> HIDE DEF last, first
  <2> QED BY <1>2, <2>6
<1> HIDE DEF first, last
<1>6. Cardinality(first .. last) = last - first + 1
  BY <1>2, <1>4, FS_Interval
<1> QED BY <1>2, <1>3, <1>5, <1>6

\* The rows of a period in one bucket.
InBucket(rows, p, g, b) == {r \in Selected(rows, p) : BucketOf(r.at, g) = b}

\* A series has a point for each bucket that has a row, in ascending order.
PointsFollow(rows, p, g, order, size) ==
  /\ DOMAIN order = 1 .. size /\ DOMAIN Series(rows, p, g) = 1 .. size
  /\ \A n \in 1 .. size :
       /\ order[n] \in Int
       /\ \E r \in Selected(rows, p) : BucketOf(r.at, g) = order[n]
       /\ Series(rows, p, g)[n] =
            [from |-> order[n] * Length(g) - Offset, to |-> (order[n] + 1) * Length(g) - Offset,
             metrics |-> [m \in Measured |-> Aggregate(InBucket(rows, p, g, order[n]), m)]]
  /\ \A k, n \in 1 .. size : k < n => order[k] < order[n]
  /\ \A r \in Selected(rows, p) : \E n \in 1 .. size : order[n] = BucketOf(r.at, g)

LEMMA SeriesIs ==
  ASSUME NEW rows, IsFiniteSet(rows), \A r \in rows : r.at \in Int, NEW p, NEW g \in Granularities
  PROVE  \E size \in Nat : \E order : PointsFollow(rows, p, g, order, size)
<1> DEFINE inside == Selected(rows, p)
           buckets == {BucketOf(r.at, g) : r \in inside}
           order == Ascending(buckets)
           points == Series(rows, p, g)
           size == Cardinality(buckets)
           rank(b) == Cardinality({c \in buckets : c < b})
<1>1. IsFiniteSet(inside) /\ inside \subseteq rows
  <2>1. inside \in SUBSET rows
    BY DEF Selected
  <2> QED BY <2>1, FS_Subset
<1>2. buckets \in SUBSET Int /\ IsFiniteSet(buckets)
  <2> DEFINE f == [r \in inside |-> BucketOf(r.at, g)]
  <2>1. f \in Surjection(inside, buckets)
    BY DEF Surjection
  <2>2. IsFiniteSet(buckets)
    BY <1>1, <2>1, FS_Surjection
  <2>3. \A r \in inside : BucketOf(r.at, g) \in Int
    BY <1>1, BucketIs
  <2> QED BY <2>2, <2>3
<1>3. /\ size \in Nat
      /\ \A b \in buckets : rank(b) \in 0 .. (size - 1)
      /\ \A b, c \in buckets : b < c => rank(b) < rank(c)
      /\ \A n \in 0 .. (size - 1) : \E b \in buckets : rank(b) = n
      /\ \A b, c \in buckets : rank(b) = rank(c) => b = c
  <2> HIDE DEF buckets
  <2> QED BY <1>2, NumbersAreOrdered
<1>4. order = [n \in 1 .. size |-> CHOOSE b \in buckets : rank(b) = n - 1]
  BY DEF Ascending
<1>5. points = [n \in DOMAIN order |->
                  [from |-> order[n] * Length(g) - Offset,
                   to |-> (order[n] + 1) * Length(g) - Offset,
                   metrics |-> [m \in Measured |-> Aggregate(InBucket(rows, p, g, order[n]), m)]]]
  BY DEF Series, InBucket
<1>6. ASSUME NEW b \in buckets PROVE \E r \in inside : BucketOf(r.at, g) = b
  BY <1>6
<1>7. ASSUME NEW r \in inside PROVE BucketOf(r.at, g) \in buckets
  BY <1>7
<1> HIDE DEF inside, buckets, order, points, size, rank
<1>8. ASSUME NEW n \in 1 .. size PROVE order[n] \in buckets /\ rank(order[n]) = n - 1
  <2>1. n - 1 \in 0 .. (size - 1)
    BY <1>3
  <2>2. \E b \in buckets : rank(b) = n - 1
    BY <1>3, <2>1
  <2>3. order[n] = CHOOSE b \in buckets : rank(b) = n - 1
    BY <1>4
  <2> QED BY <2>2, <2>3
<1>9. ASSUME NEW k \in 1 .. size, NEW n \in 1 .. size, k < n PROVE order[k] < order[n]
  <2>1. order[n] \in buckets /\ order[k] \in buckets
    BY <1>8
  <2>2. rank(order[n]) = n - 1 /\ rank(order[k]) = k - 1
    BY <1>8
  <2>3. order[n] # order[k]
    BY <1>3, <1>9, <2>2
  <2>4. ~(order[n] < order[k])
    <3> SUFFICES ASSUME order[n] < order[k] PROVE FALSE
      OBVIOUS
    <3>1. rank(order[n]) < rank(order[k])
      BY <1>3, <2>1
    <3> QED BY <1>3, <1>9, <2>2, <3>1
  <2>5. order[n] \in Int /\ order[k] \in Int
    BY <1>2, <2>1
  <2> QED BY <2>3, <2>4, <2>5
<1>10. ASSUME NEW r \in inside PROVE \E n \in 1 .. size : order[n] = BucketOf(r.at, g)
  <2> DEFINE b == BucketOf(r.at, g)
  <2>1. b \in buckets
    BY <1>7
  <2> HIDE DEF b
  <2>2. rank(b) \in 0 .. (size - 1)
    BY <1>3, <2>1
  <2>3. rank(b) + 1 \in 1 .. size /\ (rank(b) + 1) - 1 = rank(b)
    BY <1>3, <2>2
  <2>4. order[rank(b) + 1] \in buckets /\ rank(order[rank(b) + 1]) = rank(b)
    BY <1>8, <2>3
  <2>5. order[rank(b) + 1] = b
    BY <1>3, <2>1, <2>4
  <2> QED BY <2>3, <2>5 DEF b
<1>11. DOMAIN order = 1 .. size /\ DOMAIN points = 1 .. size
  BY <1>4, <1>5
<1>12. ASSUME NEW n \in 1 .. size
       PROVE  /\ order[n] \in Int
              /\ \E r \in inside : BucketOf(r.at, g) = order[n]
              /\ points[n] = [from |-> order[n] * Length(g) - Offset,
                              to |-> (order[n] + 1) * Length(g) - Offset,
                              metrics |-> [m \in Measured |->
                                             Aggregate(InBucket(rows, p, g, order[n]), m)]]
  BY <1>2, <1>5, <1>6, <1>8, <1>11
<1>13. \A r \in inside : \E n \in 1 .. size : order[n] = BucketOf(r.at, g)
  BY <1>10
<1>14. \A k, n \in 1 .. size : k < n => order[k] < order[n]
  BY <1>9
<1>15. PointsFollow(rows, p, g, order, size)
  BY <1>11, <1>12, <1>13, <1>14 DEF PointsFollow, inside, points
<1> QED BY <1>3, <1>15

\* Of any rows with integers, the series of a period splits its statistics.
LEMMA SeriesSplits ==
  ASSUME NEW rows, IsFiniteSet(rows),
         \A r \in rows : r.at \in Int /\ r.values[Metric] \in Int,
         NEW p, p.from \in Int, p.to \in Int, ValidPeriod(p), NEW g \in Granularities
  PROVE  LET all == Statistics(rows, p)[Metric]
             points == Series(rows, p, g)
             parts == {points[n].metrics[Metric] : n \in DOMAIN points}
         IN  /\ AcceptsSeries(p, g) <=> Cardinality(TouchedBuckets(p, g)) <= MaxPoints
             /\ SumFunction([n \in DOMAIN points |-> points[n].metrics[Metric].count]) = all.count
             /\ all.count > 0 =>
                  /\ all.minimum = Sets!Min({s.minimum : s \in parts})
                  /\ all.maximum = Sets!Max({s.maximum : s \in parts})
                  /\ all.average \in all.minimum .. all.maximum
             /\ \A n \in DOMAIN points :
                  /\ points[n].metrics[Metric].count > 0
                  /\ points[n].from < p.to /\ p.from < points[n].to
                  /\ n > 1 => points[n - 1].to <= points[n].from
<1> DEFINE inside == Selected(rows, p)
           all == Statistics(rows, p)[Metric]
           points == Series(rows, p, g)
           parts == {points[n].metrics[Metric] : n \in DOMAIN points}
           d == Length(g)
<1>1. PICK size \in Nat : \E order : PointsFollow(rows, p, g, order, size)
  BY SeriesIs
<1>2. PICK order : PointsFollow(rows, p, g, order, size)
  BY <1>1
<1> DEFINE within(n) == InBucket(rows, p, g, order[n])
           part(n) == Aggregate(within(n), Metric)
<1>3. /\ DOMAIN order = 1 .. size /\ DOMAIN points = 1 .. size
      /\ \A n \in 1 .. size :
           /\ order[n] \in Int
           /\ \E r \in inside : BucketOf(r.at, g) = order[n]
           /\ points[n] = [from |-> order[n] * d - Offset, to |-> (order[n] + 1) * d - Offset,
                           metrics |-> [m \in Measured |-> Aggregate(within(n), m)]]
      /\ \A k, n \in 1 .. size : k < n => order[k] < order[n]
      /\ \A r \in inside : \E n \in 1 .. size : order[n] = BucketOf(r.at, g)
  BY <1>2 DEF PointsFollow
<1>4. d \in Nat \ {0} /\ Offset \in Nat /\ Measured = {Metric} /\ p.from < p.to
  BY Lengths, AskedAssumption DEF ValidPeriod
<1>5. all = Aggregate(inside, Metric)
  BY <1>4 DEF Statistics
<1>6. AcceptsSeries(p, g) <=> Cardinality(TouchedBuckets(p, g)) <= MaxPoints
  BY <1>4, EstimateCounts DEF AcceptsSeries
<1>7. /\ IsFiniteSet(inside)
      /\ \A r \in inside : /\ r.at \in Int /\ r.values[Metric] \in Int
                           /\ p.from <= r.at /\ r.at < p.to
  <2>1. inside \in SUBSET rows
    BY DEF Selected
  <2>2. IsFiniteSet(inside)
    BY <2>1, FS_Subset
  <2> QED BY <2>1, <2>2 DEF Selected, InPeriod
<1>8. \A n : \A r : r \in within(n) <=> r \in inside /\ BucketOf(r.at, g) = order[n]
  BY DEF InBucket
<1>9. \A n : within(n) \in SUBSET inside /\ IsFiniteSet(within(n))
  <2> TAKE n
  <2>1. within(n) \in SUBSET inside
    BY <1>8
  <2> QED BY <1>7, <2>1, FS_Subset
<1> HIDE DEF inside, all, points, d, within
<1>10. ASSUME NEW n \in 1 .. size
      PROVE  /\ points[n].metrics[Metric] = part(n)
             /\ points[n].from = order[n] * d - Offset
             /\ points[n].to = (order[n] + 1) * d - Offset
             /\ order[n] \in Int
  BY <1>3, <1>4
<1>11. ASSUME NEW n \in 1 .. size
      PROVE  /\ within(n) # {}
             /\ part(n).count = Cardinality(within(n)) /\ part(n).count \in Nat \ {0}
             /\ part(n).minimum \in Int /\ part(n).maximum \in Int
             /\ \E r \in within(n) : r.values[Metric] = part(n).minimum
             /\ \E r \in within(n) : r.values[Metric] = part(n).maximum
             /\ \A r \in within(n) : /\ part(n).minimum <= r.values[Metric]
                                     /\ r.values[Metric] <= part(n).maximum
  <2>1. within(n) # {}
    BY <1>3, <1>8
  <2>2. IsFiniteSet(within(n)) /\ \A r \in within(n) : r.values[Metric] \in Int
    BY <1>7, <1>9
  <2> QED BY <2>1, <2>2, AggregateIs
<1>12. SumFunction([n \in DOMAIN points |-> points[n].metrics[Metric].count]) = all.count
  <2> DEFINE f == [n \in DOMAIN points |-> points[n].metrics[Metric].count]
             key == [r \in inside |-> CHOOSE n \in 1 .. size : order[n] = BucketOf(r.at, g)]
  <2>1. \A n \in 1 .. size : f[n] = part(n).count
    BY <1>3, <1>10
  <2>2. ASSUME NEW r \in inside
        PROVE  key[r] \in 1 .. size /\ order[key[r]] = BucketOf(r.at, g)
    <3>1. key[r] = CHOOSE n \in 1 .. size : order[n] = BucketOf(r.at, g)
      OBVIOUS
    <3> HIDE DEF key
    <3> QED BY <1>3, <3>1
  <2>3. key \in [inside -> 1 .. size]
    BY <2>2
  <2>4. DOMAIN f = 1 .. size
    BY <1>3
  <2> HIDE DEF f, key, part
  <2>5. ASSUME NEW k \in 1 .. size, NEW n \in 1 .. size, order[k] = order[n] PROVE k = n
    <3>1. order[k] \in Int /\ order[n] \in Int
      BY <1>3
    <3>2. ASSUME k < n PROVE FALSE
      <4>1. order[k] < order[n]
        BY <1>3, <3>2
      <4> QED BY <2>5, <3>1, <4>1
    <3>3. ASSUME n < k PROVE FALSE
      <4>1. order[n] < order[k]
        BY <1>3, <3>3
      <4> QED BY <2>5, <3>1, <4>1
    <3> QED BY <1>3, <3>2, <3>3
  <2>6. \A n \in 1 .. size : {r \in inside : key[r] = n} = within(n)
    <3> TAKE n \in 1 .. size
    <3>1. \A r \in inside : key[r] = n <=> r \in within(n)
      BY <1>8, <2>2, <2>5
    <3> QED BY <1>9, <3>1
  <2>7. \A n \in 1 .. size : f[n] = Cardinality({r \in inside : key[r] = n})
    BY <1>11, <2>1, <2>6
  <2>8. SumFunctionOnSet(f, 1 .. size) = Cardinality(inside)
    BY <1>3, <1>7, <2>3, <2>7, UpTo, PartsCount
  <2>9. all.count = Cardinality(inside)
    BY <1>5, FS_EmptySet DEF Aggregate
  <2>10. SumFunction(f) = SumFunctionOnSet(f, 1 .. size)
    BY <2>4 DEF SumFunction
  <2> QED BY <2>8, <2>9, <2>10 DEF f
<1>13. ASSUME all.count > 0
       PROVE  /\ all.minimum = Sets!Min({s.minimum : s \in parts})
              /\ all.maximum = Sets!Max({s.maximum : s \in parts})
              /\ all.average \in all.minimum .. all.maximum
  <2>1. inside # {}
    BY <1>5, <1>13 DEF Aggregate
  <2>2. /\ all.minimum \in Int /\ all.maximum \in Int
        /\ all.average \in all.minimum .. all.maximum
        /\ \E r \in inside : r.values[Metric] = all.minimum
        /\ \E r \in inside : r.values[Metric] = all.maximum
        /\ \A r \in inside : all.minimum <= r.values[Metric] /\ r.values[Metric] <= all.maximum
    BY <1>5, <1>7, <2>1, AggregateIs
  <2> DEFINE minima == {s.minimum : s \in parts}
             maxima == {s.maximum : s \in parts}
  <2>3. /\ minima = {part(n).minimum : n \in 1 .. size}
        /\ maxima = {part(n).maximum : n \in 1 .. size}
    <3>1. \A n \in 1 .. size : points[n].metrics[Metric] = part(n)
      BY <1>10
    <3> HIDE DEF part
    <3>2. parts = {part(n) : n \in 1 .. size}
      <4>1. DOMAIN points = 1 .. size
        BY <1>3
      <4>2. parts = {points[n].metrics[Metric] : n \in 1 .. size}
        BY <4>1, Zenon
      <4> HIDE DEF parts
      <4>3. \A x : x \in parts <=> \E n \in 1 .. size : x = part(n)
        BY <3>1, <4>2
      <4> QED BY <4>3
    <3> HIDE DEF parts
    <3> QED BY <3>2
  <2> HIDE DEF minima, maxima, part
  <2>4. \A r \in inside : \E n \in 1 .. size : r \in within(n)
    BY <1>3, <1>8
  <2>5. all.minimum \in minima /\ \A x \in minima : x \in Int /\ all.minimum <= x
    <3>1. ASSUME NEW n \in 1 .. size PROVE part(n).minimum \in Int /\ all.minimum <= part(n).minimum
      <4>1. PICK r \in within(n) : r.values[Metric] = part(n).minimum
        BY <1>11
      <4> QED BY <1>9, <1>11, <2>2, <4>1
    <3>2. PICK r \in inside : r.values[Metric] = all.minimum
      BY <2>2
    <3>3. PICK n \in 1 .. size : r \in within(n)
      BY <2>4
    <3>4. part(n).minimum = all.minimum
      BY <1>11, <2>2, <3>1, <3>2, <3>3
    <3> QED BY <2>3, <3>1, <3>4
  <2>6. all.maximum \in maxima /\ \A x \in maxima : x \in Int /\ x <= all.maximum
    <3>1. ASSUME NEW n \in 1 .. size PROVE part(n).maximum \in Int /\ part(n).maximum <= all.maximum
      <4>1. PICK r \in within(n) : r.values[Metric] = part(n).maximum
        BY <1>11
      <4> QED BY <1>9, <1>11, <2>2, <4>1
    <3>2. PICK r \in inside : r.values[Metric] = all.maximum
      BY <2>2
    <3>3. PICK n \in 1 .. size : r \in within(n)
      BY <2>4
    <3>4. part(n).maximum = all.maximum
      BY <1>11, <2>2, <3>1, <3>2, <3>3
    <3> QED BY <2>3, <3>1, <3>4
  <2>7. Sets!Min(minima) = all.minimum
    <3>1. \A x \in minima : (\A y \in minima : x <= y) <=> x = all.minimum
      BY <2>2, <2>5
    <3> QED BY <2>5, <3>1 DEF Sets!Min
  <2>8. Sets!Max(maxima) = all.maximum
    <3>1. \A x \in maxima : (\A y \in maxima : x >= y) <=> x = all.maximum
      BY <2>2, <2>6
    <3> QED BY <2>6, <3>1 DEF Sets!Max
  <2> QED BY <2>2, <2>7, <2>8 DEF minima, maxima
<1>14. ASSUME NEW n \in DOMAIN points
       PROVE  /\ points[n].metrics[Metric].count > 0
              /\ points[n].from < p.to /\ p.from < points[n].to
              /\ n > 1 => points[n - 1].to <= points[n].from
  <2>1. n \in 1 .. size
    BY <1>3
  <2>2. points[n].metrics[Metric].count > 0
    <3> HIDE DEF part
    <3> QED BY <1>10, <1>11, <2>1
  <2>3. points[n].from < p.to /\ p.from < points[n].to
    <3>1. PICK r \in inside : BucketOf(r.at, g) = order[n]
      BY <1>3, <2>1
    <3>2. r.at \in Int /\ p.from <= r.at /\ r.at < p.to
      BY <1>7
    <3>3. order[n] \in Int /\ order[n] + 1 \in Int
      BY <1>10, <2>1
    <3>4. order[n] * d - Offset <= r.at /\ ~((order[n] + 1) * d - Offset <= r.at)
      BY <3>1, <3>2, <3>3, BucketIs DEF d
    <3>5. order[n] * d \in Int /\ (order[n] + 1) * d \in Int
      BY <1>4, <3>3
    <3> QED BY <1>4, <1>10, <2>1, <3>2, <3>4, <3>5
  <2>4. ASSUME n > 1 PROVE points[n - 1].to <= points[n].from
    <3>1. n - 1 \in 1 .. size /\ n - 1 < n
      BY <2>1, <2>4
    <3>2. order[n - 1] < order[n] /\ order[n - 1] \in Int /\ order[n] \in Int
      BY <1>3, <2>1, <3>1
    <3>3. (order[n - 1] + 1) * d <= order[n] * d
      BY <1>4, <3>2
    <3>4. (order[n - 1] + 1) * d \in Int /\ order[n] * d \in Int
      BY <1>4, <3>2
    <3> QED BY <1>4, <1>10, <2>1, <3>1, <3>3, <3>4
  <2> QED BY <2>2, <2>3, <2>4
<1> QED BY <1>6, <1>12, <1>13, <1>14 DEF all, points


\* The measurements are a finite set of rows with integers.
LEMMA MeasurementsAreRows ==
  ASSUME EpisodeInv
  PROVE  /\ IsFiniteSet(Measurements)
         /\ \A r \in Measurements : r.at \in Int /\ r.values[Metric] \in Int
<1> DEFINE row(i) == [id |-> i, at |-> i, values |-> [m \in Measured |-> Stored(history[i]) \div Scale]]
           rowOf == [i \in DOMAIN history |-> row(i)]
<1>1. history \in Seq(Int)
  BY DEF EpisodeInv, RowsFollow
<1>2. IsFiniteSet(DOMAIN history) /\ DOMAIN history \in SUBSET Int
  <2>1. DOMAIN history = 1 .. Len(history) /\ Len(history) \in Nat
    BY <1>1
  <2> QED BY <2>1, FS_Interval
<1>3. IsFiniteSet(Measurements)
  <2>1. rowOf \in Surjection(DOMAIN history, Measurements)
    BY DEF Surjection, Measurements
  <2> QED BY <1>2, <2>1, FS_Surjection
<1>4. ASSUME NEW i \in DOMAIN history PROVE row(i).at \in Int /\ row(i).values[Metric] \in Int
  <2>1. Stored(history[i]) \in Int
    BY <1>1, StoredIsInt
  <2>2. Stored(history[i]) \div Scale \in Int
    <3> DEFINE v == Stored(history[i])
    <3> HIDE DEF v
    <3> QED BY <2>1, ScaleAssumption
  <2>3. row(i).at = i /\ row(i).values[Metric] = Stored(history[i]) \div Scale
    BY AskedAssumption
  <2> HIDE DEF row
  <2> QED BY <1>2, <2>2, <2>3
<1>5. \A r \in Measurements : \E i \in DOMAIN history : r = row(i)
  BY DEF Measurements
<1> HIDE DEF row
<1> QED BY <1>3, <1>4, <1>5

LEMMA EpisodeInvSplitsSeries == EpisodeInv => SeriesAgreesWithStatistics
<1> SUFFICES ASSUME EpisodeInv PROVE SeriesAgreesWithStatistics
  OBVIOUS
<1>1. ASSUME NEW p \in AllPeriods PROVE p.from \in Int /\ p.to \in Int
  <2>1. Len(history) + 1 \in Int
    BY DEF EpisodeInv, RowsFollow
  <2> QED BY <2>1 DEF AllPeriods
<1>2. IsFiniteSet(Measurements) /\ \A r \in Measurements : r.at \in Int /\ r.values[Metric] \in Int
  BY MeasurementsAreRows
<1> HIDE DEF Measurements
<1> QED BY <1>1, <1>2, SeriesSplits DEF SeriesAgreesWithStatistics

\* Series and statistics of any period agree, whatever was measured: the buckets of
\* get_measurement_series split the rows get_measurement_statistics aggregates, and
\* _estimate_points counts the buckets there can be.
THEOREM SeriesAlwaysAgree == QuerySpec => []SeriesAgreesWithStatistics
<1>1. EpisodeSpec => []EpisodeInv
  BY EpisodesInit, EpisodesStep, PTL DEF EpisodeSpec
<1> QED BY <1>1, QueriesOnlyRead, EpisodeInvSplitsSeries, PTL
=============================================================================
