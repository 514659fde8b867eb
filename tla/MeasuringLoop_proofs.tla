------------------------ MODULE MeasuringLoop_proofs ------------------------
(***************************************************************************)
(* The device's clock and its measurements, for every width of millis(),    *)
(* every interval and every uptime: what a valid time is worth, when the     *)
(* clock is synchronised again, when the sensor is retried, that no old       *)
(* value is measured and that measurements keep to their grid.                *)
(***************************************************************************)
EXTENDS MeasuringLoop, Arithmetic_proofs

USE WordAssumption, ClockAssumption

-----------------------------------------------------------------------------
(* The clock                                                                 *)

(* Where the last synchronisation is: at the counter value it was made at. *)
SyncedAt == clock.synced => syncedOn \in 0..uptime /\ clock.at = MillisAt(syncedOn)

IInv == TypeOK /\ SyncedAt

ClockType == [synced : BOOLEAN, inProgress : BOOLEAN, requestedAt : Stamp,
              at : Stamp, epoch : Nat, emitted : Nat]

(* Values the clock takes. *)
LEMMA Seconds ==
    ASSUME NEW t \in Nat
    PROVE  t \div Second \in Nat
BY QuotientIsNat

LEMMA TimesAreNat ==
    ASSUME TypeOK
    PROVE  /\ now \in Stamp /\ trueSecond \in Nat
           /\ SystemTimes \subseteq Nat \cup {NoTime}
           /\ Candidate \in Nat /\ UtcNow \in Nat /\ UtcNow >= clock.emitted
<1>1. /\ uptime \in Nat /\ clock.epoch \in Nat /\ clock.emitted \in Nat
      /\ clock.at \in Stamp
  BY DEF TypeOK
<1>2. now \in Stamp BY <1>1, StampFacts DEF now
<1>3. Age \in Nat
  <2>1. Age \in Stamp BY <1>1, <1>2, StampFacts DEF Age
  <2> QED BY <2>1 DEF Stamp
<1>4. Age \div Second \in Nat /\ uptime \div Second \in Nat BY <1>1, <1>3, Seconds
<1>5. trueSecond - Skew \in Nat /\ trueSecond \in Nat BY <1>4 DEF trueSecond
<1>6. SystemTimes \subseteq Nat \cup {NoTime} BY <1>5 DEF SystemTimes
<1>7. Candidate \in Nat BY <1>1, <1>4 DEF Candidate
<1> QED BY <1>1, <1>2, <1>5, <1>6, <1>7 DEF UtcNow

(* What an accepted or a rejected SNTP answer does to the clock. *)
LEMMA SynchronizeKeeps ==
    ASSUME IInv, NEW seconds \in SystemTimes, Synchronize(seconds)
    PROVE  /\ clock' \in ClockType /\ syncedOn' \in 0..never
           /\ clock'.emitted = clock.emitted
           /\ clock'.synced => syncedOn' \in 0..uptime /\ clock'.at = MillisAt(syncedOn')
<1> USE DEF IInv, ClockType
<1>1. TypeOK /\ clock \in ClockType /\ uptime \in 0..MaxUptime /\ syncedOn \in 0..never
  BY DEF TypeOK
<1>2. CASE seconds = NoTime
  <2>1. clock' = [clock EXCEPT !.inProgress = FALSE] /\ syncedOn' = syncedOn
    BY <1>2 DEF Synchronize
  <2> QED BY <1>1, <2>1 DEF SyncedAt
<1>3. CASE seconds # NoTime
  <2>1. /\ clock' = [clock EXCEPT !.synced = TRUE, !.at = now, !.epoch = seconds,
                                  !.inProgress = FALSE]
        /\ syncedOn' = uptime
    BY <1>3 DEF Synchronize
  <2>2. seconds \in Nat /\ now \in Stamp BY <1>1, <1>3, TimesAreNat
  <2>3. uptime \in 0..uptime /\ uptime \in 0..never BY <1>1 DEF never
  <2> QED BY <1>1, <2>1, <2>2, <2>3 DEF now
<1> QED BY <1>2, <1>3
-----------------------------------------------------------------------------
LEMMA Intervals == /\ DisplayInterval \in Stamp /\ DisplayInterval \in Nat
                   /\ RetryInterval \in Nat /\ MaxUptime \in Nat
<1>1. Word \in Nat \ {0} BY StampFacts
<1>2. Word \div 2 <= Word BY <1>1, Division, 2 \in Nat \ {0}
<1>3. Word \div 2 \in Int BY <1>1, Division, 2 \in Nat \ {0}
<1> QED BY <1>1, <1>2, <1>3 DEF Stamp, Half

LEMMA InitHolds == Init => IInv
<1>1. 0 \in Stamp /\ DisplayInterval \in Stamp /\ never \in 0..never /\ 0 \in 0..MaxUptime
  BY StampFacts, Intervals DEF Stamp, never
<1> SUFFICES ASSUME Init PROVE TypeOK /\ SyncedAt
  BY DEF IInv
<1>2. clock \in ClockType /\ ~clock.synced BY <1>1 DEF Init, ClockType
<1> QED BY <1>1, <1>2 DEF Init, TypeOK, SyncedAt, ClockType, never

LEMMA StepKeeps == IInv /\ [Next]_vars => IInv'
<1> SUFFICES ASSUME IInv, [Next]_vars PROVE IInv'
  OBVIOUS
<1>1. /\ TypeOK /\ clock \in ClockType /\ uptime \in 0..MaxUptime /\ syncedOn \in 0..never
      /\ overdue \in 0..never /\ nextAttempt \in Stamp /\ nextDisplay \in Stamp
  BY DEF IInv, TypeOK, ClockType
<1>2. /\ now \in Stamp /\ Later(now, RetryInterval) \in Stamp
      /\ Later(now, DisplayInterval) \in Stamp
      /\ uptime \in 0..never /\ never \in 0..never
  <2>1. now \in Stamp BY <1>1, TimesAreNat
  <2>2. Later(now, RetryInterval) \in Stamp /\ Later(now, DisplayInterval) \in Stamp
    BY <2>1, StampFacts, Intervals
  <2>3. MaxUptime \in Nat BY Intervals
  <2>4. uptime \in 0..never /\ never \in 0..never BY <1>1, <2>3 DEF never
  <2> QED BY <2>1, <2>2, <2>4
(* Steps that leave the clock, the time and syncedOn alone. *)
<1>3. ASSUME UNCHANGED <<uptime, clock, syncedOn>>, TypeOK' PROVE IInv'
  BY <1>3 DEF IInv, SyncedAt
<1>4. CASE UNCHANGED vars BY <1>4 DEF vars, IInv, TypeOK, SyncedAt
<1>5. CASE LinkChanges BY <1>1, <1>3, <1>5 DEF LinkChanges, TypeOK
<1>6. CASE SntpAnswers BY <1>1, <1>3, <1>6 DEF SntpAnswers, TypeOK
<1>7. CASE UpdateWifi BY <1>1, <1>2, <1>3, <1>7 DEF UpdateWifi, ConnectedDue, TypeOK
<1>8. CASE UpdateClock
  <2>1. /\ clock' \in ClockType /\ syncedOn' \in 0..never
        /\ clock'.synced => syncedOn' \in 0..uptime /\ clock'.at = MillisAt(syncedOn')
    <3>1. CASE notified
      <4>1. PICK seconds \in SystemTimes : Synchronize(seconds)
        BY <1>8, <3>1 DEF UpdateClock
      <4> QED BY <4>1, SynchronizeKeeps
    <3>2. CASE ~notified
      <4>1. clock' = [clock EXCEPT !.inProgress = StillWaiting] /\ syncedOn' = syncedOn
            /\ StillWaiting \in BOOLEAN
        BY <1>8, <3>2 DEF UpdateClock, StillWaiting, ClockType, TypeOK, IInv
      <4>2. clock.synced => syncedOn \in 0..uptime /\ clock.at = MillisAt(syncedOn)
        BY DEF IInv, SyncedAt
      <4> QED BY <1>1, <4>1, <4>2 DEF ClockType
    <3> QED BY <3>1, <3>2
  <2>2. TypeOK' BY <1>1, <1>8, <2>1 DEF UpdateClock, TypeOK, ClockType, never
  <2>3. uptime' = uptime BY <1>8 DEF UpdateClock
  <2> QED BY <2>1, <2>2, <2>3 DEF IInv, SyncedAt
<1>9. CASE RequestSynchronization
  <2>1. /\ clock' \in ClockType /\ clock'.synced = clock.synced /\ clock'.at = clock.at
    BY <1>1, <1>2, <1>9 DEF RequestSynchronization, ClockType
  <2>2. TypeOK' BY <1>1, <1>2, <1>9, <2>1 DEF RequestSynchronization, TypeOK, ClockType, never
  <2> QED BY <1>9, <2>1, <2>2 DEF RequestSynchronization, IInv, SyncedAt
<1>10. CASE NoRequest
  <2>1. overdue' \in 0..never BY <1>1, <1>2, <1>10 DEF NoRequest
  <2> QED BY <1>1, <1>3, <1>10, <2>1 DEF NoRequest, TypeOK, never
<1>11. CASE Measure
  <2>1. /\ clock' \in ClockType /\ clock'.synced = clock.synced /\ clock'.at = clock.at
    BY <1>1, <1>11, TimesAreNat DEF Measure, ClockType
  <2>2. TypeOK' BY <1>1, <1>11, <2>1 DEF Measure, TypeOK, ClockType, never
  <2> QED BY <1>11, <2>1, <2>2 DEF Measure, IInv, SyncedAt
<1>12. CASE NoMeasurement BY <1>1, <1>3, <1>12 DEF NoMeasurement, TypeOK
<1>13. CASE UpdateDisplay BY <1>1, <1>2, <1>3, <1>13 DEF UpdateDisplay, TypeOK
<1>14. CASE NextLoop
  <2>1. uptime' \in 0..MaxUptime /\ uptime <= uptime' /\ UNCHANGED <<clock, syncedOn>>
    BY <1>1, <1>14 DEF NextLoop
  <2>2. TypeOK' BY <1>1, <1>14, <2>1 DEF NextLoop, TypeOK, never
  <2> QED BY <1>1, <2>1, <2>2 DEF IInv, SyncedAt
<1> QED BY <1>4, <1>5, <1>6, <1>7, <1>8, <1>9, <1>10, <1>11, <1>12, <1>13, <1>14
        DEF Next, Loop

LEMMA Invariant == Spec => []IInv
BY InitHolds, StepKeeps, PTL DEF Spec

(* The clock's variables keep their types: no time before 2021 is taken over, *)
(* and seconds never become negative (ClockService::update, utc_now).          *)
THEOREM ClockTypes == Spec => []TypeOK
<1>1. IInv => TypeOK BY DEF IInv
<1> QED BY <1>1, Invariant, PTL

(* docs/detailed-design/device.md: time counts as valid for no longer than    *)
(* the validity period, for every width of millis() and every interval, until *)
(* the age of the last synchronisation wraps (is_time_valid).                  *)
THEOREM ValidForOneWrap == Spec => []ValidMeansRecentForOneWrap
<1>1. IInv => ValidMeansRecentForOneWrap
  <2> SUFFICES ASSUME IInv, uptime - syncedOn < Word, IsTimeValid
               PROVE  uptime - syncedOn <= Validity
    BY DEF ValidMeansRecentForOneWrap, ValidMeansRecent
  <2>1. /\ syncedOn \in 0..uptime /\ uptime \in Nat /\ clock.at = MillisAt(syncedOn)
        /\ Age <= Validity
    BY DEF IInv, TypeOK, SyncedAt, IsTimeValid
  <2>2. Age = uptime - syncedOn BY <2>1, ElapsedIsExact DEF Age, now
  <2> QED BY <2>1, <2>2
<1> QED BY <1>1, Invariant, PTL

(* A later measurement never has an earlier measured_at, whatever SNTP says   *)
(* and however millis() wraps (last_emitted_epoch_seconds_).                   *)
THEOREM NeverGoesBack == Spec => MeasuredAtNeverGoesBack
<1>1. IInv /\ [Next]_vars => [clock'.emitted >= clock.emitted]_vars
  <2> SUFFICES ASSUME IInv, Next PROVE clock'.emitted >= clock.emitted
    OBVIOUS
  <2>1. clock \in ClockType /\ clock.emitted \in Nat /\ TypeOK
    BY DEF IInv, TypeOK, ClockType
  <2>2. CASE clock' = clock BY <2>1, <2>2
  <2>3. CASE UpdateClock
    <3>1. CASE notified
      <4>1. PICK seconds \in SystemTimes : Synchronize(seconds)
        BY <2>3, <3>1 DEF UpdateClock
      <4> QED BY <2>1, <4>1, SynchronizeKeeps
    <3>2. CASE ~notified BY <2>1, <2>3, <3>2 DEF UpdateClock, ClockType
    <3> QED BY <3>1, <3>2
  <2>4. CASE RequestSynchronization BY <2>1, <2>4 DEF RequestSynchronization, ClockType
  <2>5. CASE Measure
    <3>1. clock'.emitted = UtcNow BY <2>1, <2>5 DEF Measure, ClockType
    <3> QED BY <2>1, <3>1, TimesAreNat
  <2> QED BY <2>2, <2>3, <2>4, <2>5
          DEF Next, Loop, LinkChanges, SntpAnswers, UpdateWifi, NoRequest, NoMeasurement,
              UpdateDisplay, NextLoop
<1> QED BY <1>1, Invariant, PTL DEF Spec, MeasuredAtNeverGoesBack
-----------------------------------------------------------------------------
(* Synchronising in time.  In the first half of the counter's range every    *)
(* counter value is the uptime it stands for.                                 *)

(* A request in progress is no older than what is overdue, and an attempt to *)
(* come is an interval after it at the latest.                                *)
ResyncInv ==
    uptime < Half =>
        /\ overdue # never => overdue \in 0..uptime
        /\ clock.inProgress =>
             /\ clock.requestedAt <= uptime
             /\ overdue # never => clock.requestedAt <= overdue
             /\ step \notin {"wifi", "clock"} => uptime - clock.requestedAt < RetryInterval
        /\ nextAttempt <= uptime + RetryInterval
        /\ overdue # never /\ nextAttempt > uptime => nextAttempt <= overdue + RetryInterval
        /\ ResyncInTime

LEMMA FirstHalf ==
    ASSUME NEW u \in Nat, u < Half
    PROVE  /\ MillisAt(u) = u
           /\ \A t \in 0..u : Elapsed(u, t) = u - t
           /\ \A t \in 0..(u + RetryInterval) : DeadlineReached(u, t) <=> t <= u
           /\ Later(u, RetryInterval) = u + RetryInterval
<1>1. Word \in Nat \ {0} /\ Half \in Nat \ {0} /\ Word = 2 * Half /\ RetryInterval \in 1..(Half - 1)
  BY Halves
<1>2. MillisAt(u) = u
  BY <1>1 DEF MillisAt
<1>3. \A t \in 0..u : Elapsed(u, t) = u - t
  BY <1>1 DEF Elapsed
<1>4. ASSUME NEW t \in 0..(u + RetryInterval) PROVE DeadlineReached(u, t) <=> t <= u
  <2>1. CASE t <= u
    BY <1>1, <2>1 DEF DeadlineReached, Elapsed
  <2>2. CASE ~(t <= u)
    BY <1>1, <2>2 DEF DeadlineReached, Elapsed
  <2> QED BY <2>1, <2>2
<1>5. Later(u, RetryInterval) = u + RetryInterval
  BY <1>1 DEF Later
<1> QED BY <1>2, <1>3, <1>4, <1>5

LEMMA ResyncInit == Init => ResyncInv
<1>1. SUFFICES ASSUME Init PROVE ResyncInv
  OBVIOUS
<1>2. /\ uptime = 0 /\ overdue = never /\ ~clock.inProgress /\ nextAttempt = 0
      /\ RetryInterval \in Nat
  BY <1>1, Intervals DEF Init
<1> QED BY <1>2 DEF ResyncInv, ResyncInTime

LEMMA ResyncStep == IInv /\ ResyncInv /\ [Next]_vars => ResyncInv'
<1> SUFFICES ASSUME IInv, ResyncInv, [Next]_vars, (uptime < Half)'
             PROVE  ResyncInv'
  BY DEF ResyncInv
<1>1. /\ uptime \in Nat /\ clock \in ClockType /\ nextAttempt \in Nat /\ clock.requestedAt \in Nat
      /\ RetryInterval \in Nat \ {0} /\ uptime # never /\ overdue \in 0..never
  BY Intervals, Halves DEF IInv, TypeOK, ClockType, Stamp, never
<1>2. uptime < Half /\ uptime <= uptime'
  <2>1. CASE NextLoop
    <3>1. PICK d \in 1..LongestLoop : uptime' = uptime + d
      BY <2>1 DEF NextLoop
    <3> QED BY <1>1, <3>1, Halves
  <2>2. CASE uptime' = uptime
    BY <1>1, <2>2
  <2> QED BY <2>1, <2>2 DEF Next, Loop, LinkChanges, SntpAnswers, UpdateWifi, UpdateClock,
             RequestSynchronization, NoRequest, Measure, NoMeasurement, UpdateDisplay, vars
<1>3. /\ overdue # never => overdue \in 0..uptime
      /\ clock.inProgress =>
           /\ clock.requestedAt <= uptime
           /\ overdue # never => clock.requestedAt <= overdue
           /\ step \notin {"wifi", "clock"} => uptime - clock.requestedAt < RetryInterval
      /\ nextAttempt <= uptime + RetryInterval
      /\ overdue # never /\ nextAttempt > uptime => nextAttempt <= overdue + RetryInterval
      /\ ResyncInTime
  BY <1>2 DEF ResyncInv
<1>4. /\ now = uptime /\ \A t \in 0..uptime : Elapsed(now, t) = uptime - t
      /\ \A t \in 0..(uptime + RetryInterval) : DeadlineReached(now, t) <=> t <= uptime
      /\ Later(now, RetryInterval) = uptime + RetryInterval
  BY <1>1, <1>2, FirstHalf DEF now
(* Steps that leave the requests alone and do not come to measure. *)
<1>5. ASSUME /\ UNCHANGED <<uptime, nextAttempt, overdue>>
             /\ clock'.inProgress => clock.inProgress
             /\ clock'.inProgress => clock'.requestedAt = clock.requestedAt
             /\ step' = step \/ step' # "measure"
             /\ step' \notin {"wifi", "clock"} /\ clock'.inProgress
                  => step \notin {"wifi", "clock"} \/ uptime - clock.requestedAt < RetryInterval
      PROVE  ResyncInv'
  <2>1. ResyncInTime'
    BY <1>3, <1>5 DEF ResyncInTime, never
  <2> QED BY <1>3, <1>5, <2>1 DEF ResyncInv, never
<1>6. CASE UNCHANGED vars
  BY <1>5, <1>6 DEF vars
<1>7. CASE LinkChanges \/ SntpAnswers \/ NoMeasurement
  BY <1>5, <1>7 DEF LinkChanges, SntpAnswers, NoMeasurement
<1>8. CASE UpdateWifi
  <2>1. /\ UNCHANGED <<uptime, clock, overdue>> /\ step' = "clock"
        /\ nextAttempt' = uptime \/ nextAttempt' = nextAttempt
    BY <1>4, <1>8 DEF UpdateWifi, ConnectedDue
  <2>2. ResyncInTime'
    BY <2>1 DEF ResyncInTime
  <2> QED BY <1>1, <1>3, <2>1, <2>2 DEF ResyncInv, never
<1>9. CASE UpdateClock
  <2>1. UNCHANGED <<uptime, nextAttempt, overdue>> /\ step' = "request"
    BY <1>9 DEF UpdateClock
  <2>2. CASE notified
    <3>1. PICK seconds \in SystemTimes : Synchronize(seconds)
      BY <1>9, <2>2 DEF UpdateClock
    <3>2. ~clock'.inProgress
      BY <1>1, <3>1 DEF Synchronize, ClockType
    <3> QED BY <1>5, <2>1, <3>2
  <2>3. CASE ~notified
    <3>1. clock'.inProgress = StillWaiting /\ clock'.requestedAt = clock.requestedAt
      BY <1>1, <1>9, <2>3 DEF UpdateClock, ClockType
    <3>2. ASSUME StillWaiting
          PROVE  clock.inProgress /\ uptime - clock.requestedAt < RetryInterval
      <4>1. clock.inProgress /\ Elapsed(now, clock.requestedAt) < RetryInterval
        BY <3>2 DEF StillWaiting
      <4>2. clock.requestedAt \in 0..uptime
        BY <1>1, <1>3, <4>1
      <4> QED BY <1>4, <4>1, <4>2
    <3> QED BY <1>5, <2>1, <3>1, <3>2
  <2> QED BY <2>2, <2>3
<1>10. CASE RequestSynchronization
  <2>1. /\ uptime' = uptime /\ overdue' = never /\ nextAttempt' = uptime + RetryInterval
        /\ step' = "measure" /\ clock'.requestedAt = uptime
    BY <1>1, <1>4, <1>10 DEF RequestSynchronization, ClockType
  <2>2. never' = never
    BY DEF never
  <2> QED BY <1>1, <2>1, <2>2 DEF ResyncInv, ResyncInTime
<1>11. CASE NoRequest
  <2>1. /\ UNCHANGED <<uptime, nextAttempt, clock>> /\ step = "request" /\ step' = "measure"
        /\ ~MayRequest /\ never' = never
        /\ overdue' = IF ~Needed(connected) THEN never
                      ELSE IF overdue = never THEN uptime ELSE overdue
    BY <1>11 DEF NoRequest, never
  <2>2. ASSUME Needed(connected) PROVE clock.inProgress \/ nextAttempt > uptime
    <3>1. ShouldResynchronize
      <4>1. CASE clock.synced
        <5>1. syncedOn \in 0..uptime /\ clock.at = MillisAt(syncedOn)
          BY <4>1 DEF IInv, SyncedAt
        <5>2. syncedOn # never /\ MillisAt(syncedOn) = syncedOn
          <6>1. uptime \in 0..MaxUptime /\ MaxUptime \in Nat /\ Half \in Nat
            BY Intervals, Halves DEF IInv, TypeOK
          <6>2. syncedOn \in Nat /\ syncedOn < Half
            BY <1>2, <5>1, <6>1
          <6>3. syncedOn # never
            BY <5>1, <6>1 DEF never
          <6> QED BY <6>2, <6>3, FirstHalf
        <5>3. Age = uptime - syncedOn /\ uptime - syncedOn >= ResyncInterval
          BY <1>4, <2>2, <5>1, <5>2 DEF Age, Needed
        <5> QED BY <5>3 DEF ShouldResynchronize
      <4> QED BY <4>1 DEF ShouldResynchronize
    <3>2. connected
      BY <2>2 DEF Needed
    <3>3. clock.inProgress \/ ~DeadlineReached(now, nextAttempt)
      BY <2>1, <3>1, <3>2 DEF MayRequest
    <3> QED BY <1>1, <1>3, <1>4, <3>3
  <2>3. CASE ~Needed(connected)
    BY <1>3, <2>1, <2>3 DEF ResyncInv, ResyncInTime
  <2>4. CASE Needed(connected) /\ overdue = never
    <3>1. overdue' = uptime
      BY <2>1, <2>4
    <3>2. ResyncInTime'
      BY <1>1, <2>1, <3>1 DEF ResyncInTime
    <3> QED BY <1>1, <1>3, <2>1, <3>1, <3>2 DEF ResyncInv
  <2>5. CASE Needed(connected) /\ overdue # never
    <3>1. overdue' = overdue
      BY <2>1, <2>5
    <3>2. uptime - overdue < RetryInterval
      <4>1. CASE clock.inProgress
        <5>1. /\ clock.requestedAt <= overdue /\ overdue \in 0..uptime
              /\ uptime - clock.requestedAt < RetryInterval
          BY <1>3, <2>1, <2>5, <4>1
        <5> QED BY <1>1, <5>1
      <4>2. CASE nextAttempt > uptime
        BY <1>1, <1>3, <2>5, <4>2
      <4> QED BY <2>2, <2>5, <4>1, <4>2
    <3>3. ResyncInTime'
      BY <2>1, <3>1, <3>2 DEF ResyncInTime
    <3> QED BY <1>3, <2>1, <3>1, <3>3 DEF ResyncInv
  <2> QED BY <2>3, <2>4, <2>5
<1>12. CASE Measure
  <2>1. /\ clock'.inProgress = clock.inProgress /\ clock'.requestedAt = clock.requestedAt
        /\ step = "measure" /\ step' = "display" /\ UNCHANGED <<uptime, nextAttempt, overdue>>
    BY <1>1, <1>12 DEF Measure, ClockType
  <2> QED BY <1>5, <2>1
<1>13. CASE UpdateDisplay
  BY <1>5, <1>13 DEF UpdateDisplay
<1>14. CASE NextLoop
  <2>1. /\ UNCHANGED <<nextAttempt, clock, overdue>> /\ step' = "wifi" /\ uptime' \in Nat
        /\ never' = never
    BY <1>1, <1>14 DEF NextLoop, never
  <2>2. ResyncInTime'
    BY <2>1 DEF ResyncInTime
  <2>3. overdue # never => overdue \in 0..uptime'
    BY <1>1, <1>2, <1>3, <2>1
  <2>4. clock.inProgress => clock.requestedAt <= uptime'
    BY <1>1, <1>2, <1>3, <2>1
  <2>5. /\ nextAttempt <= uptime' + RetryInterval
        /\ nextAttempt > uptime' => nextAttempt > uptime
    <3>1. /\ nextAttempt \in Nat /\ uptime \in Nat /\ uptime' \in Nat /\ RetryInterval \in Nat
          /\ uptime <= uptime' /\ nextAttempt <= uptime + RetryInterval
      BY <1>1, <1>2, <1>3, <2>1
    <3>2. \A u, v, i, n \in Nat :
            u <= v /\ n <= u + i => n <= v + i /\ (n > v => n > u)
      OBVIOUS
    <3> QED BY <3>1, <3>2
  <2> QED BY <1>3, <2>1, <2>2, <2>3, <2>4, <2>5 DEF ResyncInv
<1> QED BY <1>6, <1>7, <1>8, <1>9, <1>10, <1>11, <1>12, <1>13, <1>14 DEF Next, Loop

(* In the first 24.8 days, for all intervals: a connected device that needs a *)
(* synchronisation asks for it within the retry interval, whatever the link   *)
(* and the answers do (AppController::update_clock).                           *)
THEOREM ResyncAlwaysInTimeAtFirst == Spec => []ResyncInTimeAtFirst
<1>1. ResyncInv => ResyncInTimeAtFirst
  BY DEF ResyncInv, ResyncInTimeAtFirst
<1>2. Spec => []ResyncInv
  BY ResyncInit, ResyncStep, Invariant, PTL DEF Spec
<1> QED BY <1>1, <1>2, PTL

-----------------------------------------------------------------------------
(* What a measured_at is worth *)

(* The quotient of a sum is that of the parts, or one more. *)
LEMMA QuotientsAdd ==
    ASSUME NEW w \in Nat \ {0}, NEW s \in Nat, NEW t \in Nat, s <= t
    PROVE  /\ s \div w \in Nat /\ t \div w \in Nat /\ (t - s) \div w \in Nat
           /\ s \div w + (t - s) \div w <= t \div w
           /\ t \div w <= s \div w + (t - s) \div w + 1
<1> DEFINE a == s \div w   u == s % w
           b == t \div w   v == t % w
           c == (t - s) \div w   x == (t - s) % w
<1>1. t - s \in Nat
  OBVIOUS
<1>2. a \in Nat /\ u \in 0..(w - 1) /\ s = w * a + u
  BY Division, QuotientIsNat
<1>3. b \in Nat /\ v \in 0..(w - 1) /\ t = w * b + v
  BY Division, QuotientIsNat
<1>4. c \in Nat /\ x \in 0..(w - 1) /\ t - s = w * c + x
  BY <1>1, Division, QuotientIsNat
<1> HIDE DEF a, u, b, v, c, x
<1> DEFINE d == b - a - c
<1>5. d \in Int /\ w * d = u + x - v
  <2>1. w * (b - a - c) = w * b - w * a - w * c /\ w * b \in Int /\ w * a \in Int /\ w * c \in Int
    BY <1>2, <1>3, <1>4
  <2> QED BY <1>2, <1>3, <1>4, <2>1
<1>6. d = b - a - c
  OBVIOUS
<1> HIDE DEF d
<1>7. ~(d <= -1)
  <2>1. SUFFICES ASSUME d <= -1 PROVE FALSE
    OBVIOUS
  <2>2. w * d <= w * (-1)
    BY <1>5, <2>1
  <2> QED BY <1>2, <1>3, <1>4, <1>5, <2>2
<1>8. ~(d >= 2)
  <2>1. SUFFICES ASSUME d >= 2 PROVE FALSE
    OBVIOUS
  <2>2. w * d >= w * 2
    BY <1>5, <2>1
  <2> QED BY <1>2, <1>3, <1>4, <1>5, <2>2
<1>9. a + c <= b /\ b <= a + c + 1
  BY <1>2, <1>3, <1>4, <1>5, <1>6, <1>7, <1>8
<1> QED BY <1>2, <1>3, <1>4, <1>9 DEF a, b, c

(* The clock was set within the skew of the true time, and no measurement is *)
(* ahead of it by more.                                                       *)
AccuracyInv ==
    /\ clock.synced => /\ clock.epoch >= syncedOn \div Second
                       /\ clock.epoch <= syncedOn \div Second + 2 * Skew
    /\ clock.emitted <= trueSecond + Skew

LEMMA UtcNowIsAccurate ==
    ASSUME IInv, AccuracyInv, IsTimeValid
    PROVE  /\ UtcNow \in Nat /\ UtcNow <= trueSecond + Skew
           /\ uptime - syncedOn < Word => UtcNow >= trueSecond - Skew - 1
<1> DEFINE a == syncedOn \div Second   b == uptime \div Second
           c == (uptime - syncedOn) \div Second   e == Age \div Second
<1>1. /\ uptime \in Nat /\ syncedOn \in 0..uptime /\ clock.at = MillisAt(syncedOn)
      /\ clock.epoch \in Nat /\ clock.emitted \in Nat
  BY DEF IInv, TypeOK, SyncedAt, IsTimeValid
<1>2. Second \in Nat \ {0} /\ Skew \in Nat
  OBVIOUS
<1>3. a \in Nat /\ b \in Nat /\ c \in Nat /\ a + c <= b /\ b <= a + c + 1
  <2>1. syncedOn \in Nat /\ uptime \in Nat /\ syncedOn <= uptime
    BY <1>1
  <2> QED BY <1>2, <2>1, QuotientsAdd
<1>4. Age \in Nat /\ Age <= uptime - syncedOn
  <2>1. syncedOn \in Nat /\ uptime \in Nat /\ syncedOn <= uptime
    BY <1>1
  <2>2. Age = Elapsed(MillisAt(uptime), MillisAt(syncedOn))
    BY <1>1 DEF Age, now
  <2> QED BY <2>1, <2>2, ElapsedIsAtMost
<1>5. e \in Nat /\ e <= c
  <2> DEFINE g == uptime - syncedOn
  <2>1. g \in Nat /\ Age <= g
    BY <1>1, <1>4
  <2> HIDE DEF g
  <2>2. Age \div Second \in Nat /\ (g - Age) \div Second \in Nat /\ g \div Second \in Nat
        /\ Age \div Second + (g - Age) \div Second <= g \div Second
    BY <1>2, <1>4, <2>1, QuotientsAdd
  <2>3. Age \div Second <= g \div Second
    BY <2>2
  <2> QED BY <2>2, <2>3 DEF g
<1>6. uptime - syncedOn < Word => e = c
  BY <1>1, ElapsedIsExact DEF Age, now
<1>7. /\ clock.epoch >= a /\ clock.epoch <= a + 2 * Skew
      /\ clock.emitted <= b + 2 * Skew /\ trueSecond = b + Skew
  <2>1. clock.synced /\ trueSecond = Skew + b
    BY DEF IsTimeValid, trueSecond
  <2> HIDE DEF a, b
  <2>2. clock.emitted <= Skew + b + Skew
    BY <2>1 DEF AccuracyInv
  <2>3. clock.epoch >= a /\ clock.epoch <= a + 2 * Skew
    BY <2>1 DEF AccuracyInv, a
  <2> QED BY <1>1, <1>2, <1>3, <2>1, <2>2, <2>3
<1>8. Candidate = clock.epoch + e
  BY DEF Candidate
<1> HIDE DEF a, b, c, e
<1>9. Candidate \in Nat /\ Candidate <= b + 2 * Skew
  BY <1>1, <1>2, <1>3, <1>5, <1>7, <1>8
<1>10. UtcNow \in Nat /\ UtcNow >= Candidate /\ UtcNow <= b + 2 * Skew
  BY <1>1, <1>2, <1>3, <1>7, <1>9 DEF UtcNow
<1>11. uptime - syncedOn < Word => UtcNow >= trueSecond - Skew - 1
  BY <1>1, <1>2, <1>3, <1>6, <1>7, <1>8, <1>9, <1>10
<1> QED BY <1>2, <1>3, <1>7, <1>10, <1>11

LEMMA AccuracyInit == Init => AccuracyInv
<1>1. SUFFICES ASSUME Init PROVE AccuracyInv
  OBVIOUS
<1>2. ~clock.synced /\ clock.emitted = 0 /\ uptime = 0
  BY <1>1 DEF Init
<1>3. trueSecond \in Nat /\ Skew \in Nat
  BY <1>1, InitHolds, TimesAreNat DEF IInv
<1> QED BY <1>2, <1>3 DEF AccuracyInv

LEMMA AccuracyStep == IInv /\ AccuracyInv /\ [Next]_vars => AccuracyInv'
<1> SUFFICES ASSUME IInv, AccuracyInv, [Next]_vars PROVE AccuracyInv'
  OBVIOUS
<1>1. /\ uptime \in Nat /\ clock \in ClockType /\ clock.emitted \in Nat /\ Skew \in Nat
      /\ trueSecond \in Nat /\ clock.emitted <= trueSecond + Skew
  BY TimesAreNat DEF IInv, TypeOK, ClockType, AccuracyInv
<1>2. ASSUME /\ UNCHANGED <<uptime, syncedOn>>
             /\ clock'.synced => clock.synced
             /\ clock'.epoch = clock.epoch /\ clock'.emitted = clock.emitted
      PROVE  AccuracyInv'
  BY <1>2 DEF AccuracyInv, trueSecond
<1>3. CASE \/ UNCHANGED vars \/ LinkChanges \/ SntpAnswers \/ UpdateWifi \/ NoRequest
           \/ NoMeasurement \/ UpdateDisplay
  BY <1>2, <1>3 DEF vars, LinkChanges, SntpAnswers, UpdateWifi, NoRequest, NoMeasurement,
                    UpdateDisplay
<1>4. CASE UpdateClock
  <2>1. uptime' = uptime /\ trueSecond' = trueSecond
    BY <1>4 DEF UpdateClock, trueSecond
  <2>2. CASE notified
    <3>1. PICK seconds \in SystemTimes : Synchronize(seconds)
      BY <1>4, <2>2 DEF UpdateClock
    <3>2. CASE seconds = NoTime
      <4>1. clock' = [clock EXCEPT !.inProgress = FALSE] /\ syncedOn' = syncedOn
        BY <3>1, <3>2 DEF Synchronize
      <4> QED BY <1>1, <1>2, <2>1, <4>1 DEF ClockType
    <3>3. CASE seconds # NoTime
      <4>1. /\ clock'.epoch = seconds /\ clock'.emitted = clock.emitted /\ syncedOn' = uptime
        BY <1>1, <3>1, <3>3 DEF Synchronize, ClockType
      <4>2. trueSecond = uptime \div Second + Skew /\ uptime \div Second \in Nat
        BY <1>1, Seconds DEF trueSecond
      <4>3. /\ seconds >= trueSecond - Skew /\ seconds <= trueSecond + Skew
        BY <1>1, <3>3 DEF SystemTimes
      <4>4. /\ seconds >= uptime \div Second /\ seconds <= uptime \div Second + 2 * Skew
        <5> DEFINE b == uptime \div Second
        <5>1. b \in Nat /\ trueSecond = b + Skew
          BY <4>2
        <5> HIDE DEF b
        <5>2. seconds \in Int
          BY <1>1, <3>3, TimesAreNat DEF IInv
        <5>3. seconds >= b /\ seconds <= b + 2 * Skew
          BY <1>1, <4>3, <5>1, <5>2
        <5> QED BY <5>3 DEF b
      <4> QED BY <1>1, <2>1, <4>1, <4>4 DEF AccuracyInv
    <3> QED BY <3>2, <3>3
  <2>3. CASE ~notified
    <3>1. clock' = [clock EXCEPT !.inProgress = StillWaiting] /\ syncedOn' = syncedOn
      BY <1>4, <2>3 DEF UpdateClock
    <3> QED BY <1>1, <1>2, <2>1, <3>1 DEF ClockType
  <2> QED BY <2>2, <2>3
<1>5. CASE RequestSynchronization
  <2>1. /\ clock'.synced = clock.synced /\ clock'.epoch = clock.epoch
        /\ clock'.emitted = clock.emitted /\ UNCHANGED <<uptime, syncedOn>>
    BY <1>1, <1>5 DEF RequestSynchronization, ClockType
  <2> QED BY <1>2, <2>1
<1>6. CASE Measure
  <2>1. /\ clock'.synced = clock.synced /\ clock'.epoch = clock.epoch /\ clock'.emitted = UtcNow
        /\ UNCHANGED <<uptime, syncedOn>> /\ IsTimeValid
    BY <1>1, <1>6 DEF Measure, ClockType
  <2>2. UtcNow <= trueSecond + Skew
    BY <2>1, UtcNowIsAccurate
  <2> QED BY <2>1, <2>2 DEF AccuracyInv, trueSecond
<1>7. CASE NextLoop
  <2>1. PICK d \in 1..LongestLoop : uptime' = uptime + d
    BY <1>7 DEF NextLoop
  <2>2. uptime' \in Nat /\ uptime <= uptime' /\ UNCHANGED <<clock, syncedOn>>
    BY <1>1, <1>7, <2>1 DEF NextLoop
  <2>3. uptime \div Second <= uptime' \div Second
    <3>1. Second \in Nat \ {0}
      OBVIOUS
    <3>2. /\ uptime \div Second \in Nat /\ uptime' \div Second \in Nat
          /\ (uptime' - uptime) \div Second \in Nat
          /\ uptime \div Second + (uptime' - uptime) \div Second <= uptime' \div Second
      BY <1>1, <2>2, <3>1, QuotientsAdd
    <3> QED BY <3>2
  <2>4. uptime \div Second \in Nat /\ uptime' \div Second \in Nat
    BY <1>1, <2>2, Seconds
  <2>5. trueSecond' = Skew + uptime' \div Second /\ trueSecond = Skew + uptime \div Second
    BY DEF trueSecond
  <2>6. clock.emitted <= trueSecond' + Skew
    <3> DEFINE b == uptime \div Second   c == uptime' \div Second
    <3>1. b \in Nat /\ c \in Nat /\ b <= c /\ trueSecond' = Skew + c /\ trueSecond = Skew + b
      BY <2>3, <2>4, <2>5
    <3> HIDE DEF b, c
    <3> QED BY <1>1, <3>1
  <2> QED BY <2>2, <2>6 DEF AccuracyInv
<1> QED BY <1>3, <1>4, <1>5, <1>6, <1>7 DEF Next, Loop

(* For any skew, second and interval, until the age of the synchronisation    *)
(* wraps: a measured_at is within the skew of the true time and at most a      *)
(* second of rounding too early (ClockService::utc_now).                       *)
THEOREM MeasuredAtAlwaysAccurate == Spec => MeasuredAtIsAccurate
<1>1. IInv /\ AccuracyInv /\ [Next]_vars
        => [Measure /\ uptime - syncedOn < Word =>
              clock'.emitted \in (trueSecond - Skew - 1)..(trueSecond + Skew)]_vars
  <2> SUFFICES ASSUME IInv, AccuracyInv, Measure, uptime - syncedOn < Word
               PROVE  clock'.emitted \in (trueSecond - Skew - 1)..(trueSecond + Skew)
    OBVIOUS
  <2>1. clock'.emitted = UtcNow /\ IsTimeValid
    BY DEF Measure, IInv, TypeOK
  <2>2. trueSecond \in Nat /\ Skew \in Nat
    BY TimesAreNat DEF IInv
  <2> QED BY <2>1, <2>2, UtcNowIsAccurate
<1>2. Spec => []AccuracyInv
  BY AccuracyInit, AccuracyStep, Invariant, PTL DEF Spec
<1> QED BY <1>1, <1>2, Invariant, PTL DEF Spec, MeasuredAtIsAccurate

-----------------------------------------------------------------------------
USE MeasuringAssumption

(* The clock of the composition is DeviceClock: its theorems carry over.      *)
THEOREM MeasuringImplementsClock == MeasuringSpec => Spec
<1>1. MeasuringInit => Init
  BY DEF MeasuringInit
<1>2. [MeasuringNext]_measuringVars => [Next]_vars
  BY DEF MeasuringNext, measuringVars, Next, Loop, OtherSteps, TakeMeasurement,
         MissMeasurement, AwaitMeasurement
<1> QED BY <1>1, <1>2, PTL DEF MeasuringSpec, Spec

-----------------------------------------------------------------------------
(* The counter and the intervals. *)
LEMMA Widths ==
    /\ Word \in Nat \ {0} /\ Half \in Nat /\ Word = 2 * Half
    /\ LongestLoop \in 1..(Half - 1) /\ MaxAge \in Nat /\ MaxAge + LongestLoop < Word
    /\ SensorRetryInterval \in 1..(Half - 1) /\ MeasurementInterval \in 1..(Half - 1)
    /\ MaxUptime \in Nat
BY Halves

-----------------------------------------------------------------------------
(* The sensor                                                                *)

SensorType ==
    /\ uptime \in Nat
    /\ sensor \in [ready : BOOLEAN, has : BOOLEAN, initializedAt : Stamp, readAt : Stamp]
    /\ sensor.has => sensor.ready
    /\ uptime <= MaxUptime
    /\ sensor.has <=> triedOn = never

(* The last sign of a sensor that is ready: a reading, or its initialisation. *)
HeardOn == IF sensor.has THEN readOn ELSE triedOn

(* In the loop that is recent; before update_sensor it is older by the        *)
(* longest loop, still less than a wrap.                                      *)
SignIsRecent ==
    sensor.ready =>
        /\ HeardOn \in 0..uptime /\ Reference = MillisAt(HeardOn)
        /\ uptime - HeardOn <= MaxAge + LongestLoop
        /\ step # "wifi" => uptime - HeardOn <= MaxAge

(* Without a sensor the next attempt is an interval after the last one. *)
AttemptIsSet ==
    ~sensor.ready =>
        /\ triedOn \in 0..uptime
        /\ nextSensorAttempt = MillisAt(triedOn + SensorRetryInterval)
        /\ uptime - triedOn < SensorRetryInterval + LongestLoop
        /\ step # "wifi" => uptime - triedOn < SensorRetryInterval

SensorInv == SensorType /\ SignIsRecent /\ AttemptIsSet

LEMMA SensorInit == MeasuringInit => SensorInv
<1> SUFFICES ASSUME MeasuringInit PROVE SensorInv
  OBVIOUS
<1>1. uptime = 0 /\ ~sensor.has /\ sensor.initializedAt = 0 /\ triedOn = 0 /\ SensorType
  <2>1. 0 \in Stamp /\ uptime = 0 /\ triedOn = 0 /\ uptime <= MaxUptime /\ triedOn # never
    BY Widths DEF Stamp, MeasuringInit, Init, never
  <2>2. CASE sensor = Unavailable
    BY <2>1, <2>2 DEF Unavailable, SensorType
  <2>3. CASE sensor = [Unavailable EXCEPT !.ready = TRUE]
    BY <2>1, <2>3 DEF Unavailable, SensorType
  <2> QED BY <2>2, <2>3 DEF MeasuringInit
<1>2. SignIsRecent
  <2>1. MillisAt(0) = 0
    BY Widths DEF MillisAt
  <2> QED BY <1>1, <2>1, Widths DEF SignIsRecent, HeardOn, Reference
<1>3. MillisAt(SensorRetryInterval) = SensorRetryInterval
  BY Widths DEF MillisAt
<1>4. AttemptIsSet
  BY <1>1, <1>3, Widths DEF AttemptIsSet, MeasuringInit, Init, Unavailable
<1> QED BY <1>1, <1>2, <1>4 DEF SensorInv

LEMMA SensorDueIsExact ==
    ASSUME SensorInv, ~sensor.ready
    PROVE  SensorDue <=> triedOn + SensorRetryInterval <= uptime
<1> DEFINE due == triedOn + SensorRetryInterval
<1>1. /\ uptime \in Nat /\ due \in Nat /\ nextSensorAttempt = MillisAt(due)
      /\ uptime - due < Half /\ due - uptime < Half
  BY Widths DEF SensorInv, SensorType, AttemptIsSet
<1> HIDE DEF due
<1>2. SensorDue <=> due <= uptime
  BY <1>1, DeadlineIsExact DEF SensorDue, now
<1> QED BY <1>2 DEF due

LEMMA AgeIsExact ==
    ASSUME SensorInv, sensor.ready
    PROVE  Expired <=> uptime - HeardOn > MaxAge
<1>1. /\ uptime \in Nat /\ HeardOn \in Nat /\ HeardOn <= uptime
      /\ uptime - HeardOn < Word /\ Reference = MillisAt(HeardOn)
  BY Widths DEF SensorInv, SensorType, SignIsRecent
<1>2. Elapsed(now, Reference) = uptime - HeardOn
  BY <1>1, ElapsedIsExact DEF now
<1> QED BY <1>2 DEF Expired

LEMMA SensorStep == SensorInv /\ [MeasuringNext]_measuringVars => SensorInv'
<1> SUFFICES ASSUME SensorInv, [MeasuringNext]_measuringVars PROVE SensorInv'
  OBVIOUS
<1>1. /\ uptime \in Nat /\ now \in Stamp /\ 0 \in Stamp
      /\ uptime <= MaxUptime /\ uptime # never
  <2>1. uptime \in Nat /\ uptime <= MaxUptime
    BY DEF SensorInv, SensorType
  <2>2. 0 \in Stamp
    BY Widths DEF Stamp
  <2>3. uptime # never
    BY <2>1, Widths DEF never
  <2> QED BY <2>1, <2>2, <2>3, StampFacts DEF now
<1>2. ASSUME UpdateWifi, UpdateSensor PROVE SensorInv'
  <2>1. uptime' = uptime /\ step' = "clock" /\ step = "wifi"
    BY <1>2 DEF UpdateWifi
  <2>2. CASE ReadSensor
    <3>1. SensorType'
      BY <1>1, <2>1, <2>2 DEF SensorInv, SensorType, ReadSensor, never
    <3>2. /\ sensor'.ready /\ sensor'.has /\ sensor'.readAt = MillisAt(uptime)
          /\ readOn' = uptime
      BY <2>2 DEF SensorInv, SensorType, ReadSensor, now
    <3> QED BY <1>1, <2>1, <3>1, <3>2, Widths
            DEF SensorInv, SignIsRecent, HeardOn, Reference, AttemptIsSet
  <2>3. CASE KeepReading
    <3>1. /\ sensor' = sensor /\ readOn' = readOn /\ triedOn' = triedOn
          /\ nextSensorAttempt' = nextSensorAttempt /\ sensor.ready /\ ~Expired
      BY <2>3 DEF KeepReading, sensorVars
    <3>2. /\ ~(uptime - HeardOn > MaxAge) /\ HeardOn \in 0..uptime
          /\ Reference = MillisAt(HeardOn)
      BY <3>1, AgeIsExact DEF SensorInv, SignIsRecent
    <3>3. HeardOn' = HeardOn /\ Reference' = Reference
      BY <3>1 DEF HeardOn, Reference
    <3>4. SensorType' /\ AttemptIsSet'
      BY <2>1, <3>1 DEF SensorInv, SensorType, AttemptIsSet, never
    <3>5. uptime - HeardOn <= MaxAge
      BY <1>1, <3>2, Widths
    <3> QED BY <1>1, <2>1, <3>2, <3>3, <3>4, <3>5, Widths DEF SensorInv, SignIsRecent
  <2>4. CASE LoseSensor
    <3>1. /\ sensor' = Unavailable
          /\ triedOn' = uptime /\ nextSensorAttempt' = Later(now, SensorRetryInterval)
      BY <2>4 DEF LoseSensor
    <3>2. SensorType' /\ ~sensor'.ready
      BY <1>1, <2>1, <3>1 DEF SensorInv, SensorType, Unavailable, never
    <3>3. nextSensorAttempt' = MillisAt(uptime + SensorRetryInterval)
      BY <1>1, <3>1, LaterIsExact, Widths DEF now
    <3> QED BY <1>1, <2>1, <3>1, <3>2, <3>3, Widths DEF SensorInv, SignIsRecent, AttemptIsSet
  <2>5. CASE RetrySensor
    <3>1. /\ sensor' \in {Initialized, Unavailable}
          /\ triedOn' = uptime /\ nextSensorAttempt' = Later(now, SensorRetryInterval)
      BY <2>5 DEF RetrySensor
    <3>2. /\ SensorType' /\ ~sensor'.has
          /\ sensor'.ready => sensor'.initializedAt = MillisAt(uptime)
      <4>1. CASE sensor' = Initialized
        BY <1>1, <2>1, <3>1, <4>1 DEF SensorType, Initialized, never, now
      <4>2. CASE sensor' = Unavailable
        BY <1>1, <2>1, <3>1, <4>2 DEF SensorType, Unavailable, never
      <4> QED BY <3>1, <4>1, <4>2
    <3>3. nextSensorAttempt' = MillisAt(uptime + SensorRetryInterval)
      BY <1>1, <3>1, LaterIsExact, Widths DEF now
    <3>4. SignIsRecent'
      BY <1>1, <2>1, <3>1, <3>2, Widths DEF SignIsRecent, HeardOn, Reference
    <3> QED BY <1>1, <2>1, <3>1, <3>2, <3>3, <3>4, Widths DEF SensorInv, AttemptIsSet
  <2>6. CASE WaitForSensor
    <3>1. UNCHANGED sensorVars /\ ~sensor.ready /\ ~SensorDue
      BY <2>6 DEF WaitForSensor
    <3>2. triedOn \in Nat /\ ~(triedOn + SensorRetryInterval <= uptime)
      BY <3>1, SensorDueIsExact DEF SensorInv, AttemptIsSet
    <3>3. uptime - triedOn < SensorRetryInterval
      BY <1>1, <3>2, Widths
    <3> QED BY <2>1, <3>1, <3>3
            DEF SensorInv, SensorType, SignIsRecent, AttemptIsSet, sensorVars, never
  <2> QED BY <1>2, <2>2, <2>3, <2>4, <2>5, <2>6 DEF UpdateSensor
<1>3. ASSUME NextLoop, UNCHANGED sensorVars PROVE SensorInv'
  <2>1. PICK d \in 1..LongestLoop : uptime + d <= MaxUptime /\ uptime' = uptime + d
    BY <1>3 DEF NextLoop
  <2>2. step = "delay" /\ step' = "wifi"
    BY <1>3 DEF NextLoop
  <2>3. /\ sensor' = sensor /\ triedOn' = triedOn /\ nextSensorAttempt' = nextSensorAttempt
        /\ HeardOn' = HeardOn /\ Reference' = Reference
    BY <1>3 DEF sensorVars, HeardOn, Reference
  <2>4. SensorType'
    BY <1>1, <2>1, <2>3, Widths DEF SensorInv, SensorType, never
  <2>5. SignIsRecent'
    BY <1>1, <2>1, <2>2, <2>3, Widths DEF SensorInv, SignIsRecent
  <2>6. AttemptIsSet'
    BY <1>1, <2>1, <2>2, <2>3, Widths DEF SensorInv, AttemptIsSet
  <2> QED BY <2>4, <2>5, <2>6 DEF SensorInv
<1>4. ASSUME /\ UNCHANGED <<uptime, sensorVars>>
             /\ step' = step \/ (step # "wifi" /\ step' # "wifi")
      PROVE  SensorInv'
  <2>1. HeardOn' = HeardOn /\ Reference' = Reference
    BY <1>4 DEF sensorVars, HeardOn, Reference
  <2> QED BY <1>4, <2>1 DEF SensorInv, SensorType, SignIsRecent, AttemptIsSet, sensorVars, never
<1>5. ASSUME TakeMeasurement \/ MissMeasurement \/ AwaitMeasurement PROVE SensorInv'
  BY <1>4, <1>5 DEF TakeMeasurement, MissMeasurement, AwaitMeasurement, Measure, NoMeasurement,
                    sensorVars
<1>6. ASSUME OtherSteps, UNCHANGED sensorVars PROVE SensorInv'
  BY <1>3, <1>4, <1>6 DEF OtherSteps, LinkChanges, SntpAnswers, UpdateClock,
       RequestSynchronization, NoRequest, UpdateDisplay
<1>7. CASE UNCHANGED measuringVars
  BY <1>4, <1>7 DEF measuringVars, vars
<1> QED BY <1>2, <1>5, <1>6, <1>7 DEF MeasuringNext

LEMMA SensorAlways == MeasuringSpec => []SensorInv
BY SensorInit, SensorStep, PTL DEF MeasuringSpec

(* The 32-bit age of a reading is never in doubt: no measurement is made of a *)
(* value older than the maximum age (SensorReader::latest).                    *)
THEOREM ReadingAlwaysFresh == MeasuringSpec => ReadingIsFresh
<1>1. SensorInv /\ [MeasuringNext]_measuringVars
        => [TakeMeasurement => readOn \in (uptime - MaxAge)..uptime]_measuringVars
  <2> SUFFICES ASSUME SensorInv, TakeMeasurement
               PROVE  readOn \in (uptime - MaxAge)..uptime
    OBVIOUS
  <2>1. sensor.ready /\ sensor.has /\ ~Expired
    BY DEF TakeMeasurement, HasLatest
  <2>2. HeardOn = readOn /\ ~(uptime - HeardOn > MaxAge)
    BY <2>1, AgeIsExact DEF HeardOn
  <2>3. HeardOn \in 0..uptime /\ uptime \in Nat
    BY <2>1 DEF SensorInv, SensorType, SignIsRecent
  <2> QED BY <2>2, <2>3, Widths
<1> QED BY <1>1, SensorAlways, PTL DEF MeasuringSpec, ReadingIsFresh

(* A sensor that says nothing is given up after the maximum age, and one that  *)
(* is not available is tried again every interval, at any uptime.              *)
THEOREM SensorAlwaysRetriedInTime == MeasuringSpec => []SensorRetriedInTime
<1>1. SensorInv => SensorRetriedInTime
  <2> SUFFICES ASSUME SensorInv, step = "clock"
               PROVE  IF sensor.ready THEN Quiet <= MaxAge ELSE Quiet < SensorRetryInterval
    BY DEF SensorRetriedInTime
  <2>1. CASE sensor.ready
    BY <2>1 DEF SensorInv, SensorType, SignIsRecent, HeardOn, Quiet
  <2>2. CASE ~sensor.ready
    <3>1. triedOn # never
      BY <2>2 DEF SensorInv, SensorType
    <3> QED BY <2>2, <3>1 DEF SensorInv, AttemptIsSet, Quiet
  <2> QED BY <2>1, <2>2
<1> QED BY <1>1, SensorAlways, PTL

(* And no more often, also after 49.7 days. *)
THEOREM SensorRetriesAlwaysSpaced == MeasuringSpec => SensorRetriesAreSpaced
<1>1. SensorInv /\ [MeasuringNext]_measuringVars
        => [RetrySensor => uptime - triedOn >= SensorRetryInterval]_measuringVars
  <2> SUFFICES ASSUME SensorInv, RetrySensor PROVE uptime - triedOn >= SensorRetryInterval
    OBVIOUS
  <2>1. triedOn + SensorRetryInterval <= uptime
    BY SensorDueIsExact DEF RetrySensor
  <2>2. triedOn \in Nat /\ uptime \in Nat
    BY DEF RetrySensor, SensorInv, SensorType, AttemptIsSet
  <2> QED BY <2>1, <2>2, Widths
<1> QED BY <1>1, SensorAlways, PTL DEF MeasuringSpec, SensorRetriesAreSpaced

-----------------------------------------------------------------------------
(* The grid of measurements                                                  *)

(* The next measurement is at a multiple k of the interval, and not so long   *)
(* ago that it could look like one to come.                                    *)
OnGrid(k) ==
    LET due == k * MeasurementInterval
    IN  /\ nextMeasurement = MillisAt(due)
        /\ due - uptime <= MeasurementInterval
        /\ step \in {"display", "delay"} => uptime < due
        /\ uptime - due < LongestLoop

GridInv == uptime \in Nat /\ \E k \in Nat : OnGrid(k)

(* Facts of products that the solvers do not find. *)
LEMMA Multiples ==
    ASSUME NEW k \in Nat, NEW j \in Nat
    PROVE  /\ k * MeasurementInterval \in Nat /\ j * MeasurementInterval \in Nat
           /\ k * MeasurementInterval + j * MeasurementInterval = (k + j) * MeasurementInterval
<1> DEFINE i == MeasurementInterval
<1>1. i \in Nat
  BY Widths
<1> HIDE DEF i
<1>2. k * i \in Nat /\ j * i \in Nat /\ k * i + j * i = (k + j) * i
  BY <1>1
<1> QED BY <1>2 DEF i

(* The first of the following deadlines not reached is the first on the grid  *)
(* after now.                                                                  *)
LEMMA CaughtUpIsNext ==
    ASSUME NEW k \in Nat, uptime \in Nat, nextMeasurement = MillisAt(k * MeasurementInterval),
           k * MeasurementInterval <= uptime, uptime - k * MeasurementInterval < LongestLoop
    PROVE  \E n \in Nat : /\ CaughtUp = MillisAt(n * MeasurementInterval)
                         /\ uptime < n * MeasurementInterval
                         /\ n * MeasurementInterval - uptime <= MeasurementInterval
<1> DEFINE i == MeasurementInterval
           due == k * i
           lag == uptime - due
           q == lag \div i
           r == lag % i
           following(n) == Later(nextMeasurement, n * MeasurementInterval)
           Right(n) == /\ ~DeadlineReached(now, following(n))
                       /\ \A j \in 1..(n - 1) : DeadlineReached(now, following(j))
<1>1. /\ i \in 1..(Half - 1) /\ due \in Nat /\ due <= uptime /\ lag \in 0..(LongestLoop - 1)
  <2>1. due \in Nat
    BY Multiples
  <2> HIDE DEF due
  <2>2. due <= uptime /\ uptime - due < LongestLoop
    BY DEF due
  <2> QED BY <2>1, <2>2, Widths
<1>2. /\ q \in Int /\ r \in 0..(i - 1) /\ lag = i * q + r
  <2>1. lag \in Nat /\ i \in Nat \ {0}
    BY <1>1, Widths
  <2> HIDE DEF lag, i
  <2> QED BY <2>1, Division
<1> HIDE DEF i, due, lag, q, r
<1>3. q \in Nat /\ q < LongestLoop
  <2>1. CASE q <= -1
    <3>1. i * q <= i * (-1)
      BY <1>1, <1>2, <2>1, Widths
    <3> QED BY <1>1, <1>2, <3>1, Widths
  <2>2. CASE q >= LongestLoop
    <3>1. i * q >= 1 * LongestLoop
      <4>1. i * q >= i * LongestLoop
        BY <1>1, <1>2, <2>2, Widths
      <4>2. i * LongestLoop >= 1 * LongestLoop
        BY <1>1, Widths
      <4>3. i * q \in Int /\ i * LongestLoop \in Int
        BY <1>1, <1>2, Widths
      <4> QED BY <4>1, <4>2, <4>3, Widths
    <3> QED BY <1>1, <1>2, <3>1, Widths
  <2> QED BY <1>2, <2>1, <2>2, Widths
<1>4. ASSUME NEW n \in Nat
      PROVE  following(n) = MillisAt(due + n * i) /\ n * i \in Nat
  <2>1. n * i \in Nat
    BY Multiples DEF i
  <2>2. nextMeasurement = MillisAt(due)
    BY DEF due, i
  <2> QED BY <1>1, <2>1, <2>2, LaterIsExact DEF i
<1> HIDE DEF following
<1>5. Right(q + 1)
  <2>1. (q + 1) * i = i * q + i
    BY <1>1, <1>2, Widths
  <2> DEFINE t == due + (q + 1) * i
  <2>2. t \in Nat /\ uptime < t /\ t - uptime <= i
    <3>1. uptime = due + lag /\ i * q \in Int
      BY <1>1, <1>2, Widths DEF lag
    <3>2. t = due + i * q + i
      BY <1>1, <1>2, <2>1, <3>1, Widths
    <3> HIDE DEF t
    <3> QED BY <1>1, <1>2, <3>1, <3>2, Widths
  <2>3. ~DeadlineReached(now, following(q + 1))
    <3>1. following(q + 1) = MillisAt(t)
      BY <1>3, <1>4
    <3> HIDE DEF t
    <3>3. uptime - t < Half /\ t - uptime < Half
      BY <1>1, <2>2, Widths
    <3>4. ~DeadlineReached(MillisAt(uptime), MillisAt(t))
      BY <2>2, <3>3, DeadlineIsExact
    <3> QED BY <3>1, <3>4 DEF now
  <2>4. ASSUME NEW j \in 1..q PROVE DeadlineReached(now, following(j))
    <3>1. j * i <= q * i /\ j * i \in Nat /\ q * i = i * q
      <4>1. j \in Nat /\ i \in Nat /\ q \in Nat /\ j <= q
        BY <1>1, <1>3, Widths
      <4>2. (q - j) * i >= 0 /\ (q - j) * i = q * i - j * i
        BY <4>1
      <4>3. j * i \in Nat /\ q * i \in Nat /\ q * i = i * q
        BY <4>1
      <4> QED BY <4>2, <4>3
    <3>2. due + j * i \in Nat /\ due + j * i <= uptime /\ uptime - (due + j * i) < Half
      <4>1. uptime = due + lag
        BY <1>1 DEF lag
      <4> QED BY <1>1, <1>2, <3>1, <4>1, Widths
    <3> DEFINE s == due + j * i
    <3>3. following(j) = MillisAt(s)
      BY <1>4
    <3>4. s \in Nat /\ s <= uptime /\ uptime - s < Half /\ uptime \in Nat
      BY <3>2
    <3> HIDE DEF s
    <3>5. s - uptime < Half
      BY <3>4, Widths
    <3>6. DeadlineReached(MillisAt(uptime), MillisAt(s))
      BY <3>4, <3>5, DeadlineIsExact
    <3> QED BY <3>3, <3>6 DEF now
  <2>5. \A j \in 1..((q + 1) - 1) : DeadlineReached(now, following(j))
    BY <1>3, <2>4
  <2> QED BY <2>3, <2>5
<1>6. q + 1 \in 1..(LongestLoop + 1)
  BY <1>3, Widths
<1> DEFINE steps == CHOOSE n \in 1..(LongestLoop + 1) : Right(n)
<1>7. steps \in 1..(LongestLoop + 1) /\ Right(steps)
  <2> HIDE DEF Right
  <2> QED BY <1>5, <1>6
<1>8. CaughtUp = following(steps)
  BY DEF CaughtUp, following
<1> HIDE DEF steps, Right
<1>9. steps = q + 1
  <2>1. CASE steps < q + 1
    BY <1>3, <1>5, <1>7, <2>1, Widths DEF Right
  <2>2. CASE steps > q + 1
    BY <1>3, <1>5, <1>7, <2>2, Widths DEF Right
  <2> QED BY <1>3, <1>7, <2>1, <2>2, Widths
<1>10. following(q + 1) = MillisAt(due + (q + 1) * i)
  BY <1>3, <1>4
<1>11. due + (q + 1) * i = (k + (q + 1)) * i /\ k + (q + 1) \in Nat
  BY <1>3, Multiples DEF due, i
<1> DEFINE n == k + (q + 1)
<1>12. CaughtUp = MillisAt(n * i) /\ n \in Nat
  BY <1>8, <1>9, <1>10, <1>11
<1>13. n * i = due + i * q + i /\ i * q \in Int
  <2>1. (q + 1) * i = i * q + i
    BY <1>1, <1>2, Widths
  <2>2. i * q \in Int
    BY <1>1, <1>2, Widths
  <2> QED BY <1>1, <1>11, <2>1, <2>2
<1> HIDE DEF n
<1>14. uptime < n * i /\ n * i - uptime <= i
  <2> DEFINE t == n * i
  <2>1. t = due + i * q + i /\ uptime = due + lag
    BY <1>1, <1>13 DEF lag
  <2> HIDE DEF t
  <2>2. uptime < t /\ t - uptime <= i
    BY <1>1, <1>2, <1>13, <2>1, Widths
  <2> QED BY <2>2 DEF t
<1> QED BY <1>12, <1>14 DEF i

LEMMA MultipleOfInterval ==
    ASSUME NEW k \in Nat
    PROVE  (k * MeasurementInterval) % MeasurementInterval = 0
<1> DEFINE i == MeasurementInterval
           t == k * i
           q == t \div i
           r == t % i
<1>1. i \in Nat \ {0} /\ t \in Nat
  BY Widths, Multiples
<1>2. q \in Int /\ r \in 0..(i - 1) /\ t = i * q + r
  <2> HIDE DEF t, i
  <2> QED BY <1>1, Division
<1> HIDE DEF q, r
<1> DEFINE d == k - q
<1>3. d \in Int /\ i * d = r
  <2>1. i * (k - q) = i * k - i * q /\ i * k = t /\ i * q \in Int
    BY <1>1, <1>2
  <2> HIDE DEF t, i
  <2> QED BY <1>1, <1>2, <2>1
<1> HIDE DEF t, d, i
<1>4. r = 0
  <2>1. CASE d >= 1
    <3>1. i * d >= i * 1 BY <1>1, <1>3, <2>1
    <3> QED BY <1>1, <1>2, <1>3, <3>1
  <2>2. CASE d <= -1
    <3>1. i * d <= i * (-1) BY <1>1, <1>3, <2>2
    <3> QED BY <1>1, <1>2, <1>3, <3>1
  <2>3. CASE d = 0
    BY <1>1, <1>3, <2>3
  <2> QED BY <1>3, <2>1, <2>2, <2>3
<1> QED BY <1>4 DEF r, t, i

LEMMA GridInit == MeasuringInit => GridInv
<1> SUFFICES ASSUME MeasuringInit PROVE GridInv
  OBVIOUS
<1>1. 1 * MeasurementInterval = MeasurementInterval
  BY Widths
<1>2. MillisAt(MeasurementInterval) = MeasurementInterval
  BY Widths DEF MillisAt
<1>3. OnGrid(1)
  BY <1>1, <1>2, Widths DEF OnGrid, MeasuringInit, Init
<1> QED BY <1>3 DEF GridInv, MeasuringInit, Init

LEMMA MeasurementDueIsExact ==
    ASSUME NEW k \in Nat, uptime \in Nat, OnGrid(k)
    PROVE  MeasurementDue <=> k * MeasurementInterval <= uptime
<1> DEFINE due == k * MeasurementInterval
<1>1. /\ due \in Nat /\ nextMeasurement = MillisAt(due)
      /\ due - uptime < Half /\ uptime - due < Half
  <2>1. due \in Nat
    BY Multiples
  <2>2. /\ nextMeasurement = MillisAt(due)
        /\ due - uptime <= MeasurementInterval /\ uptime - due < LongestLoop
    BY DEF OnGrid
  <2> HIDE DEF due
  <2> QED BY <2>1, <2>2, Widths
<1> HIDE DEF due
<1>2. MeasurementDue <=> due <= uptime
  BY <1>1, DeadlineIsExact DEF MeasurementDue, now
<1> QED BY <1>2 DEF due

LEMMA GridStep == GridInv /\ [MeasuringNext]_measuringVars => GridInv'
<1> SUFFICES ASSUME GridInv, [MeasuringNext]_measuringVars PROVE GridInv'
  OBVIOUS
<1>1. PICK k \in Nat : OnGrid(k)
  BY DEF GridInv
<1> DEFINE due == k * MeasurementInterval
<1>2. uptime \in Nat /\ due \in Nat
  BY Multiples DEF GridInv
<1>3. ASSUME /\ UNCHANGED <<uptime, nextMeasurement>>
             /\ step' = step \/ step = "display" \/ step' \notin {"display", "delay"}
      PROVE  GridInv'
  BY <1>1, <1>2, <1>3 DEF OnGrid, GridInv
<1>4. ASSUME NextLoop, UNCHANGED nextMeasurement PROVE GridInv'
  <2>1. PICK d \in 1..LongestLoop : uptime' = uptime + d
    BY <1>4 DEF NextLoop
  <2>2. step = "delay" /\ step' = "wifi"
    BY <1>4 DEF NextLoop
  <2>3. /\ nextMeasurement' = MillisAt(due)
        /\ due - uptime <= MeasurementInterval /\ uptime < due
    BY <1>1, <1>4, <2>2 DEF OnGrid
  <2>4. due - uptime' <= MeasurementInterval /\ uptime' - due < LongestLoop
    <3> HIDE DEF due
    <3> QED BY <1>2, <2>1, <2>3, Widths
  <2>5. OnGrid(k)'
    BY <2>2, <2>3, <2>4 DEF OnGrid
  <2> QED BY <1>2, <2>1, <2>5, Widths DEF GridInv
<1>5. ASSUME MeasurementDue, nextMeasurement' = CaughtUp, uptime' = uptime
      PROVE  GridInv'
  <2>1. /\ due <= uptime /\ uptime - due < LongestLoop /\ nextMeasurement = MillisAt(due)
    BY <1>1, <1>2, <1>5, MeasurementDueIsExact DEF OnGrid
  <2>2. PICK n \in Nat : /\ CaughtUp = MillisAt(n * MeasurementInterval)
                        /\ uptime < n * MeasurementInterval
                        /\ n * MeasurementInterval - uptime <= MeasurementInterval
    BY <1>2, <2>1, CaughtUpIsNext
  <2> DEFINE next == n * MeasurementInterval
  <2>3. next \in Nat
    BY Multiples
  <2>4. uptime' - next < LongestLoop
    <3>1. uptime < next
      BY <2>2
    <3> HIDE DEF next
    <3> QED BY <1>2, <1>5, <2>3, <3>1, Widths
  <2>5. OnGrid(n)'
    BY <1>5, <2>2, <2>4 DEF OnGrid
  <2> QED BY <1>2, <1>5, <2>5 DEF GridInv
<1>6. ASSUME TakeMeasurement \/ MissMeasurement PROVE GridInv'
  BY <1>5, <1>6 DEF TakeMeasurement, MissMeasurement, Measure, NoMeasurement
<1>7. ASSUME AwaitMeasurement PROVE GridInv'
  <2>1. /\ uptime' = uptime /\ nextMeasurement' = nextMeasurement /\ step' = "display"
        /\ ~(due <= uptime)
    BY <1>1, <1>2, <1>7, MeasurementDueIsExact DEF AwaitMeasurement, NoMeasurement
  <2>2. uptime < due
    <3> HIDE DEF due
    <3> QED BY <1>2, <2>1
  <2>3. OnGrid(k)'
    BY <1>1, <2>1, <2>2 DEF OnGrid
  <2> QED BY <1>2, <2>1, <2>3 DEF GridInv
<1>8. ASSUME UpdateWifi \/ OtherSteps, UNCHANGED nextMeasurement PROVE GridInv'
  BY <1>3, <1>4, <1>8 DEF UpdateWifi, OtherSteps, LinkChanges, SntpAnswers, UpdateClock,
       RequestSynchronization, NoRequest, UpdateDisplay
<1>9. CASE UNCHANGED measuringVars
  BY <1>3, <1>9 DEF measuringVars, vars
<1> QED BY <1>6, <1>7, <1>8, <1>9 DEF MeasuringNext

(* Whatever the loop's delays and however the counter wraps, measurements are *)
(* due at the multiples of their interval, and none is due twice.             *)
THEOREM MeasurementsAlwaysKeepTime == MeasuringSpec => []MeasurementsKeepTime
<1>1. GridInv => MeasurementsKeepTime
  <2> SUFFICES ASSUME GridInv, step = "display"
               PROVE  \E due \in (uptime + 1)..(uptime + MeasurementInterval) :
                        due % MeasurementInterval = 0 /\ nextMeasurement = MillisAt(due)
    BY DEF MeasurementsKeepTime
  <2>1. PICK k \in Nat : OnGrid(k)
    BY DEF GridInv
  <2> DEFINE t == k * MeasurementInterval
  <2>2. /\ uptime \in Nat /\ t \in Nat /\ nextMeasurement = MillisAt(t)
        /\ t - uptime <= MeasurementInterval /\ uptime < t
    BY <2>1, Multiples DEF OnGrid, GridInv
  <2>3. t % MeasurementInterval = 0
    BY MultipleOfInterval
  <2> HIDE DEF t
  <2>4. t \in (uptime + 1)..(uptime + MeasurementInterval)
    BY <2>2, Widths
  <2> QED BY <2>2, <2>3, <2>4
<1>2. MeasuringSpec => []GridInv
  BY GridInit, GridStep, PTL DEF MeasuringSpec
<1> QED BY <1>1, <1>2, PTL
=============================================================================
