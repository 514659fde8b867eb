------------------------- MODULE SendingLoop_proofs -------------------------
(***************************************************************************)
(* For every width of millis() and every interval: connection attempts end,  *)
(* are spaced and are made, and so are attempts to send a measurement.        *)
(***************************************************************************)
EXTENDS SendingLoop, Arithmetic_proofs

USE WordAssumption, WifiAssumption, SendingAssumption

-----------------------------------------------------------------------------
(* Connection attempts (WifiSupervisor)                                      *)

LEMMA Widths ==
    /\ Word \in Nat \ {0} /\ Half \in Nat \ {0} /\ Word = 2 * Half
    /\ ConnectionTimeout \in 1..(Half - 1) /\ RetryInterval \in 1..(Half - 1)
    /\ DisplayInterval \in 1..(Half - 1) /\ LongestLoop \in 1..(Half - 1)
    /\ MaxUptime \in Nat /\ LongestSend \in Nat
<1>1. LongestSend \in 0..LongestLoop
  BY SendingAssumption
<1> QED BY <1>1, Halves

(* The times the supervisor keeps, as uptimes. *)
TimesAreUptimes ==
    /\ uptime \in 0..MaxUptime /\ idle \in 0..uptime \cup {never}
    /\ gaveUp \in 0..uptime \cup {never}
    /\ startedOn \in 0..uptime /\ startedAt = MillisAt(startedOn)

(* An attempt under way is younger than its timeout and a loop. *)
AttemptIsYoung ==
    connecting => /\ uptime - startedOn < ConnectionTimeout + LongestLoop
                  /\ step # "wifi" => uptime - startedOn < ConnectionTimeout

(* idle is since when there is neither link nor attempt; the deadline is then  *)
(* at most an interval after it, and otherwise at most one after now.          *)
IdleIsKnown == idle # never => ~link /\ ~connecting
DeadlineIsNear ==
    \E t \in 0..(IF idle = never THEN uptime ELSE idle) + RetryInterval :
        nextAttempt = MillisAt(t)

(* After an attempt timed out the deadline is an interval later. *)
GaveUpSetsDeadline ==
    gaveUp # never => ~connected /\ nextAttempt = MillisAt(gaveUp + RetryInterval)

WifiInv == /\ TimesAreUptimes /\ AttemptIsYoung /\ IdleIsKnown /\ DeadlineIsNear
           /\ GaveUpSetsDeadline /\ RetriesInTimeAtFirst

LEMMA WifiInit == Init => WifiInv
<1> SUFFICES ASSUME Init PROVE WifiInv
  OBVIOUS
<1>1. MillisAt(0) = 0 /\ never # 0 /\ never \in Nat
  BY Widths DEF MillisAt, never
<1>2. TimesAreUptimes /\ AttemptIsYoung /\ IdleIsKnown
  BY <1>1, Widths DEF Init, TimesAreUptimes, AttemptIsYoung, IdleIsKnown
<1>3. DeadlineIsNear
  <2>1. 0 \in 0..(uptime + RetryInterval)
    BY Widths DEF Init
  <2> QED BY <1>1, <2>1 DEF Init, DeadlineIsNear
<1>4. GaveUpSetsDeadline /\ RetriesInTimeAtFirst
  BY DEF Init, GaveUpSetsDeadline, RetriesInTimeAtFirst, RetriesInTime
<1> QED BY <1>2, <1>3, <1>4 DEF WifiInv

(* While connecting the timeout is measured right. *)
LEMMA TimeoutIsExact ==
    ASSUME WifiInv, connecting
    PROVE  AttemptLasts <=> uptime - startedOn < ConnectionTimeout
<1>1. uptime - startedOn < Word /\ startedOn \in 0..uptime /\ uptime \in Nat
  BY Widths DEF WifiInv, TimesAreUptimes, AttemptIsYoung
<1>2. Elapsed(now, startedAt) = uptime - startedOn
  BY <1>1, ElapsedIsExact DEF now, WifiInv, TimesAreUptimes
<1> QED BY <1>2 DEF AttemptLasts

(* The deadline of an attempt after one that timed out is never reached early. *)
LEMMA RetryIsNotEarly ==
    ASSUME WifiInv, gaveUp # never, DeadlineReached(now, AttemptDue)
    PROVE  uptime - gaveUp >= RetryInterval
<1>1. /\ gaveUp \in Nat /\ uptime \in Nat /\ gaveUp <= uptime /\ RetryInterval \in Nat
      /\ AttemptDue = MillisAt(gaveUp + RetryInterval)
  BY Widths DEF WifiInv, TimesAreUptimes, GaveUpSetsDeadline, AttemptDue
<1>2. CASE uptime < gaveUp + RetryInterval
  <2>1. gaveUp + RetryInterval - uptime < Half /\ uptime - (gaveUp + RetryInterval) < Half
    BY <1>1, <1>2, Widths
  <2>2. gaveUp + RetryInterval \in Nat
    BY <1>1
  <2> QED BY <1>1, <1>2, <2>1, <2>2, DeadlineIsExact DEF now
<1> QED BY <1>1, <1>2

(* Below half the range a deadline that is not reached is in the future. *)
LEMMA WaitIsShort ==
    ASSUME WifiInv, ~connecting, ~DeadlineReached(now, AttemptDue), uptime < Half,
           idle # never
    PROVE  uptime - idle < RetryInterval
<1>1. uptime \in Nat /\ idle \in 0..uptime
  BY Widths DEF WifiInv, TimesAreUptimes
<1>2. PICK t \in 0..(idle + RetryInterval) : nextAttempt = MillisAt(t)
  BY DEF WifiInv, DeadlineIsNear
<1>3. ~connected
  <2>1. Elapsed(now, now) = 0
    BY <1>1, Widths DEF Elapsed, now, MillisAt
  <2> QED BY <2>1, Widths DEF AttemptDue, DeadlineReached
<1>4. CASE t <= uptime
  <2>1. Elapsed(now, AttemptDue) = uptime - t
    BY <1>1, <1>2, <1>3, <1>4, Widths, ElapsedIsExact DEF AttemptDue, now
  <2> QED BY <1>1, <1>2, <1>4, <2>1, Widths DEF DeadlineReached
<1> QED BY <1>1, <1>2, <1>4, Widths

LEMMA WifiStep == WifiInv /\ [Next]_vars => WifiInv'
<1> SUFFICES ASSUME WifiInv, [Next]_vars PROVE WifiInv'
  OBVIOUS
<1>1. /\ uptime \in 0..MaxUptime /\ never = MaxUptime + 1 /\ never \in Nat
      /\ idle \in 0..uptime \cup {never} /\ gaveUp \in 0..uptime \cup {never}
      /\ startedOn \in 0..uptime /\ startedAt = MillisAt(startedOn)
  BY Widths DEF WifiInv, TimesAreUptimes, never
<1>2. now = MillisAt(uptime) /\ uptime # never
  BY <1>1 DEF now
<1>3. PICK t \in 0..((IF idle = never THEN uptime ELSE idle) + RetryInterval) :
        nextAttempt = MillisAt(t)
  BY DEF WifiInv, DeadlineIsNear
<1>4. Later(now, RetryInterval) = MillisAt(uptime + RetryInterval)
  BY <1>1, <1>2, Widths, LaterIsExact
(* What AttemptDue was, as an uptime. *)
<1>5. \E d \in 0..(uptime + RetryInterval) : AttemptDue = MillisAt(d)
  <2>1. uptime \in 0..(uptime + RetryInterval) /\ t \in 0..(uptime + RetryInterval)
    BY <1>1, <1>3, Widths
  <2> QED BY <1>2, <1>3, <2>1 DEF AttemptDue
<1>6. CASE UNCHANGED vars
  BY <1>6 DEF vars, WifiInv, TimesAreUptimes, AttemptIsYoung, IdleIsKnown,
     DeadlineIsNear, GaveUpSetsDeadline, RetriesInTimeAtFirst, RetriesInTime
<1>7. CASE LinkChanges
  <2> USE <1>7 DEF LinkChanges, IdleFrom, WifiInv
  <2>1. TimesAreUptimes'
    BY <1>1 DEF TimesAreUptimes, never
  <2>2. AttemptIsYoung' /\ IdleIsKnown'
    BY <1>1 DEF AttemptIsYoung, IdleIsKnown, never
  <2>3. DeadlineIsNear'
    <3>1. /\ idle' = never => uptime' = uptime
          /\ idle' # never => idle' \in {idle, uptime} /\ (idle' = idle => idle # never)
          /\ idle' # never /\ idle # never => idle' = idle
      BY <1>1
    <3>2. t \in 0..((IF idle' = never THEN uptime' ELSE idle') + RetryInterval)
      BY <1>1, <1>2, <1>3, <3>1, Widths
    <3>3. nextAttempt' = MillisAt(t) /\ never' = never
      BY <1>3 DEF never
    <3> QED BY <3>2, <3>3 DEF DeadlineIsNear
  <2>4. GaveUpSetsDeadline'
    BY DEF GaveUpSetsDeadline, never
  <2>5. RetriesInTimeAtFirst'
    BY <1>1, Widths DEF RetriesInTimeAtFirst, RetriesInTime, never
  <2> QED BY <2>1, <2>2, <2>3, <2>4, <2>5
<1>8. CASE SeeLink
  <2> USE <1>8 DEF SeeLink, WifiInv
  <2>1. TimesAreUptimes' /\ AttemptIsYoung' /\ IdleIsKnown' /\ GaveUpSetsDeadline'
    BY <1>1 DEF TimesAreUptimes, AttemptIsYoung, IdleIsKnown, GaveUpSetsDeadline, never
  <2>2. DeadlineIsNear'
    <3>1. t \in 0..(uptime' + RetryInterval) /\ nextAttempt' = MillisAt(t)
      BY <1>1, <1>3, Widths
    <3> QED BY <3>1 DEF DeadlineIsNear, never
  <2>3. RetriesInTimeAtFirst'
    BY DEF RetriesInTimeAtFirst, RetriesInTime, never
  <2> QED BY <2>1, <2>2, <2>3
<1>9. CASE WaitForLink
  <2> USE <1>9 DEF WaitForLink, SeeNoLink, WifiInv
  <2>1. idle = never
    BY DEF IdleIsKnown
  <2>2. TimesAreUptimes' /\ IdleIsKnown'
    BY <1>1, <2>1 DEF TimesAreUptimes, IdleIsKnown, never
  <2>3. AttemptIsYoung'
    BY <1>1, TimeoutIsExact, Widths DEF AttemptIsYoung
  <2>4. DeadlineIsNear'
    BY <1>5, <2>1 DEF DeadlineIsNear, never
  <2>5. GaveUpSetsDeadline'
    BY <1>1 DEF GaveUpSetsDeadline, AttemptDue, never
  <2>6. RetriesInTimeAtFirst'
    BY <2>1 DEF RetriesInTimeAtFirst, RetriesInTime, never
  <2> QED BY <2>2, <2>3, <2>4, <2>5, <2>6
<1>10. CASE GiveUp
  <2> USE <1>10 DEF GiveUp, SeeNoLink, WifiInv
  <2>1. TimesAreUptimes' /\ IdleIsKnown' /\ AttemptIsYoung'
    BY <1>1 DEF TimesAreUptimes, IdleIsKnown, AttemptIsYoung, never
  <2>2. DeadlineIsNear'
    <3>1. uptime + RetryInterval \in 0..(idle' + RetryInterval)
      BY <1>1, Widths
    <3> QED BY <1>2, <1>4, <3>1 DEF DeadlineIsNear, never
  <2>3. GaveUpSetsDeadline'
    BY <1>4 DEF GaveUpSetsDeadline, never
  <2>4. RetriesInTimeAtFirst'
    BY <1>1, Widths DEF RetriesInTimeAtFirst, RetriesInTime, never
  <2> QED BY <2>1, <2>2, <2>3, <2>4
<1>11. CASE WaitForRetry
  <2> USE <1>11 DEF WaitForRetry, SeeNoLink, WifiInv
  <2>1. ~connected /\ AttemptDue = nextAttempt
    <3>1. Elapsed(now, now) = 0
      BY <1>1, Widths DEF Elapsed, now, MillisAt
    <3> QED BY <3>1, Widths DEF AttemptDue, DeadlineReached
  <2>2. TimesAreUptimes' /\ IdleIsKnown' /\ AttemptIsYoung'
    BY <1>1 DEF TimesAreUptimes, IdleIsKnown, AttemptIsYoung, never
  <2>3. DeadlineIsNear' /\ GaveUpSetsDeadline'
    BY <2>1 DEF DeadlineIsNear, GaveUpSetsDeadline, never
  <2>4. RetriesInTimeAtFirst'
    BY <1>1, WaitIsShort DEF RetriesInTimeAtFirst, RetriesInTime, never
  <2> QED BY <2>2, <2>3, <2>4
<1>12. CASE StartWifi
  <2> USE <1>12 DEF StartWifi, SeeNoLink, WifiInv
  <2>1. TimesAreUptimes' /\ IdleIsKnown'
    BY <1>1, <1>2 DEF TimesAreUptimes, IdleIsKnown, never
  <2>2. AttemptIsYoung'
    <3>1. uptime' - startedOn' = 0
      BY <1>1
    <3> QED BY <3>1, Widths DEF AttemptIsYoung
  <2>3. DeadlineIsNear'
    BY <1>5 DEF DeadlineIsNear, never
  <2>4. GaveUpSetsDeadline'
    BY DEF GaveUpSetsDeadline, AttemptDue, never
  <2>5. RetriesInTimeAtFirst'
    BY DEF RetriesInTimeAtFirst, RetriesInTime, never
  <2> QED BY <2>1, <2>2, <2>3, <2>4, <2>5
<1>13. CASE UpdateDisplay
  <2> USE <1>13 DEF UpdateDisplay, WifiInv
  <2>1. TimesAreUptimes' /\ IdleIsKnown' /\ AttemptIsYoung'
    BY <1>1 DEF TimesAreUptimes, IdleIsKnown, AttemptIsYoung, never
  <2>2. DeadlineIsNear' /\ GaveUpSetsDeadline'
    BY DEF DeadlineIsNear, GaveUpSetsDeadline, never
  <2>3. RetriesInTimeAtFirst'
    BY DEF RetriesInTimeAtFirst, RetriesInTime
  <2> QED BY <2>1, <2>2, <2>3
<1>14. CASE NextLoop
  <2> USE <1>14 DEF NextLoop, WifiInv
  <2>1. /\ uptime' \in uptime..(uptime + LongestLoop) /\ uptime' <= MaxUptime
        /\ never' = never
    BY <1>1, Widths DEF never
  <2>2. TimesAreUptimes' /\ IdleIsKnown'
    BY <1>1, <2>1 DEF TimesAreUptimes, IdleIsKnown
  <2>3. AttemptIsYoung'
    BY <1>1, <2>1, Widths DEF AttemptIsYoung
  <2>4. DeadlineIsNear'
    <3>1. t \in 0..((IF idle' = never THEN uptime' ELSE idle') + RetryInterval)
      BY <1>1, <1>3, <2>1, Widths
    <3> QED BY <1>3, <2>1, <3>1 DEF DeadlineIsNear
  <2>5. GaveUpSetsDeadline' /\ RetriesInTimeAtFirst'
    BY <2>1 DEF GaveUpSetsDeadline, RetriesInTimeAtFirst, RetriesInTime
  <2> QED BY <2>2, <2>3, <2>4, <2>5
<1> QED BY <1>6, <1>7, <1>8, <1>9, <1>10, <1>11, <1>12, <1>13, <1>14 DEF Next, Loop

LEMMA WifiInvariant == Spec => []WifiInv
BY WifiInit, WifiStep, PTL DEF Spec

(* At any uptime an attempt that is under way after update_wifi is younger    *)
(* than its timeout (update_wifi).                                            *)
THEOREM AttemptsAlwaysEnd == Spec => []AttemptsEnd
<1>1. WifiInv => AttemptsEnd
  BY DEF WifiInv, AttemptIsYoung, AttemptsEnd
<1> QED BY <1>1, WifiInvariant, PTL

(* Below 24.8 days a lost link is retried within the interval, whichever      *)
(* function noticed the loss (update_wifi, update_display).                    *)
THEOREM RetriesAlwaysInTimeAtFirst == Spec => []RetriesInTimeAtFirst
<1>1. WifiInv => RetriesInTimeAtFirst
  BY DEF WifiInv
<1> QED BY <1>1, WifiInvariant, PTL

(* At any uptime the attempt after one that timed out waits for the interval, *)
(* unless the loop saw a link meanwhile (next_wifi_attempt_ms_).               *)
THEOREM RetriesAlwaysSpaced == Spec => RetriesAreSpaced
<1>1. WifiInv /\ [Next]_vars =>
        [StartWifi /\ gaveUp # never => uptime - gaveUp >= RetryInterval]_vars
  BY RetryIsNotEarly DEF StartWifi
<1> QED BY <1>1, WifiInvariant, PTL DEF Spec, RetriesAreSpaced

(* The supervisor of the composition is WifiSupervisor: what holds of it      *)
(* carries over.                                                              *)
THEOREM SendingImplementsWifi == SendingSpec => Spec
<1>1. SendingInit => Init
  BY DEF SendingInit
<1>2. [SendingNext]_loopVars => [Next]_vars
  BY DEF SendingNext, loopVars, UpdateWifi, Next, Loop
<1> QED BY <1>1, <1>2, PTL DEF SendingSpec, Spec

-----------------------------------------------------------------------------
(* Attempts to send (SendingLoop)                                            *)

(* The longest wait is a time. *)
LEMMA WaitIsNat ==
    ASSUME NEW n \in 1..MaxRetryCount, NEW after \in Nat, Doubled(n) \in Nat
    PROVE  LongestWait(n, after) \in Nat
<1>1. Doubled(n) \div JitterPart \in Nat
  <2>1. JitterPart \in Nat \ {0}
    OBVIOUS
  <2> QED BY <2>1, QuotientIsNat
<1>2. MaxInterval \in Nat
  BY Widths
<1> QED BY <1>1, <1>2 DEF LongestWait, Lesser, Greater

(* The interval chosen after the n-th failure lies between the doubled one     *)
(* and the longest, and below half the range.                                 *)
LEMMA IntervalIsBounded ==
    ASSUME NEW n \in 1..MaxRetryCount, NEW i \in Intervals(n), NEW after \in RetryAfters
    PROVE  /\ Greater(i, after) \in Nat /\ Greater(i, after) < Half
           /\ Doubled(n) \in Nat /\ after \in Nat
           /\ Greater(Doubled(n), after) <= Greater(i, after)
           /\ Greater(i, after) <= LongestWait(n, after)
<1> DEFINE m == Multiplied(n)   b == BaseInterval(n)   j == b \div JitterPart
<1>1. m \in 1..(Word - 1)
  OBVIOUS
<1>2. m % Word = m
  BY <1>1, Widths
<1> HIDE DEF m
<1>3. b = Lesser(m, MaxInterval) /\ Doubled(n) = b
  BY <1>2 DEF BaseInterval, Doubled, m
<1>4. /\ MaxInterval \in Nat /\ MaxInterval < Half /\ Half \in Nat
      /\ after \in Nat /\ after < Half
  BY Widths
<1>5. b \in Nat /\ b <= MaxInterval
  BY <1>1, <1>3, <1>4, Widths DEF Lesser
<1> HIDE DEF b
<1>6. j \in Nat
  <2>1. JitterPart \in Nat \ {0}
    OBVIOUS
  <2> QED BY <1>5, <2>1, QuotientIsNat DEF j
<1>7. JitterLimit(n) = Lesser(j, MaxInterval - b)
  BY DEF JitterLimit, b, j
<1> HIDE DEF j
<1>8. i \in b..(b + JitterLimit(n))
  BY DEF Intervals, b
<1>9. i \in Nat /\ b <= i /\ i <= Lesser(b + j, MaxInterval)
  BY <1>4, <1>5, <1>6, <1>7, <1>8 DEF Lesser
<1>10. LongestWait(n, after) = Greater(Lesser(b + j, MaxInterval), after)
  BY <1>3 DEF LongestWait, b, j
<1> QED BY <1>3, <1>4, <1>5, <1>6, <1>9, <1>10 DEF Lesser, Greater

(* The state of the schedule. *)
ScheduleType ==
    /\ uptime \in Nat /\ took \in Nat /\ uptime + took <= MaxUptime
    /\ step # "delay" => took = 0
    /\ retryCount \in Nat /\ retryAfter \in Nat

(* What has not been tried was due when it came. *)
NewIsDue ==
    pending /\ failedAt = never => \E t \in 0..uptime : nextSend = MillisAt(t)

(* What failed is due an interval after its failure. *)
FailedIsScheduled ==
    failedAt # never =>
        /\ failedAt \in 0..(uptime + took)
        /\ \E d \in Nat : /\ nextSend = MillisAt(failedAt + d) /\ d < Half
                          /\ Greater(Doubled(retryCount), retryAfter) <= d
                          /\ d <= LongestWait(retryCount, retryAfter)
        /\ {Greater(Doubled(retryCount), retryAfter), LongestWait(retryCount, retryAfter)}
             \subseteq Nat

SendInv == ScheduleType /\ NewIsDue /\ FailedIsScheduled

LEMMA SendInit == SendingInit => SendInv
<1> SUFFICES ASSUME SendingInit PROVE SendInv
  OBVIOUS
<1> QED BY Widths DEF SendingInit, Init, SendInv, ScheduleType, NewIsDue, FailedIsScheduled

(* Steps that leave the measurement and its schedule alone. *)
LEMMA ScheduleKept ==
    ASSUME SendInv, ScheduleType', uptime' \in Nat, uptime + took <= uptime' + took',
           uptime <= uptime',
           UNCHANGED <<pending, retryCount, nextSend, failedAt, retryAfter>>
    PROVE  SendInv'
<1>1. uptime \in Nat /\ took \in Nat /\ took' \in Nat /\ never' = never
  BY DEF SendInv, ScheduleType, never
<1>2. NewIsDue'
  <2>1. \A t \in 0..uptime : t \in 0..uptime'
    BY <1>1
  <2> QED BY <1>1, <2>1 DEF SendInv, NewIsDue
<1>3. FailedIsScheduled'
  <2>1. \A t \in 0..(uptime + took) : t \in 0..(uptime' + took')
    BY <1>1
  <2> QED BY <1>1, <2>1 DEF SendInv, FailedIsScheduled
<1> QED BY <1>2, <1>3 DEF SendInv

LEMMA ReplaceKeeps ==
    ASSUME SendInv, UpdateWifi, Replace
    PROVE  SendInv'
<1>1. uptime' = uptime /\ step = "wifi" /\ step' = "display" /\ took' = took /\ never' = never
  BY DEF UpdateWifi, SeeLink, WaitForLink, GiveUp, WaitForRetry, StartWifi, SeeNoLink,
     Replace, never
<1>2. ScheduleType'
  BY <1>1, Widths DEF SendInv, ScheduleType, Replace
<1>3. uptime \in 0..uptime' /\ nextSend' = MillisAt(uptime)
  BY <1>1 DEF SendInv, ScheduleType, Replace, now
<1>4. NewIsDue' /\ FailedIsScheduled'
  BY <1>1, <1>3 DEF NewIsDue, FailedIsScheduled, Replace
<1> QED BY <1>2, <1>4 DEF SendInv

LEMMA SendKeeps ==
    ASSUME SendInv, UpdateDisplay, Send
    PROVE  SendInv'
<1>1. /\ uptime' = uptime /\ step = "display" /\ step' = "delay" /\ never' = never
      /\ took = 0 /\ took' \in 0..LongestSend /\ uptime + took' <= MaxUptime
  BY DEF UpdateDisplay, Send, SendInv, ScheduleType, never
<1>2. took' \in Nat /\ uptime \in Nat /\ uptime + took' \in Nat
  <2>1. uptime \in Nat
    BY DEF SendInv, ScheduleType
  <2>2. took' \in Nat
    <3>1. 0..LongestSend \subseteq Nat
      BY Widths
    <3> QED BY <1>1, <3>1
  <2>3. \A a, b \in Nat : a + b \in Nat
    OBVIOUS
  <2> QED BY <2>1, <2>2, <2>3, Zenon
<1>3. CASE Settle
  <2>1. ScheduleType'
    BY <1>1, <1>2, <1>3 DEF SendInv, ScheduleType, Settle
  <2>2. NewIsDue' /\ FailedIsScheduled'
    BY <1>1, <1>3 DEF NewIsDue, FailedIsScheduled, Settle
  <2> QED BY <2>1, <2>2 DEF SendInv
<1>4. CASE Retry
  <2>1. PICK after \in RetryAfters, interval \in Intervals(retryCount + 1) :
          /\ retryCount < MaxRetryCount /\ retryCount' = retryCount + 1
          /\ nextSend' = Later(MillisAt(uptime + took'), Greater(interval, after))
          /\ failedAt' = uptime + took' /\ retryAfter' = after
    BY <1>4 DEF Retry
  <2> DEFINE n == retryCount + 1   d == Greater(interval, after)
  <2>2. n \in 1..MaxRetryCount
    BY <2>1 DEF SendInv, ScheduleType
  <2>3. /\ d \in Nat /\ d < Half /\ Doubled(n) \in Nat /\ after \in Nat
        /\ Greater(Doubled(n), after) <= d /\ d <= LongestWait(n, after)
    BY <2>1, <2>2, IntervalIsBounded
  <2>4. nextSend' = MillisAt(failedAt' + d)
    BY <1>2, <2>1, <2>3, LaterIsExact
  <2>5. retryCount' = n /\ retryAfter' = after /\ n \in Nat
    BY <2>1, <2>2
  <2>6. Greater(Doubled(n), after) \in Nat /\ LongestWait(n, after) \in Nat
    BY <2>2, <2>3, WaitIsNat DEF Greater
  <2>7. ScheduleType'
    BY <1>1, <1>2, <2>3, <2>5 DEF ScheduleType
  <2> HIDE DEF n, d
  <2>8. FailedIsScheduled'
    <3>1. failedAt' \in 0..(uptime' + took')
      BY <1>1, <1>2, <2>1
    <3> QED BY <2>3, <2>4, <2>5, <2>6, <3>1 DEF FailedIsScheduled
  <2>9. NewIsDue'
    <3>1. failedAt' # never
      <4>1. never = MaxUptime + 1 /\ MaxUptime \in Nat
        BY Widths DEF never
      <4>2. failedAt' = uptime + took' /\ never' = never
        BY <1>1, <2>1
      <4>3. uptime + took' \in Nat /\ uptime + took' <= MaxUptime
        BY <1>1, <1>2
      <4>4. failedAt' <= MaxUptime
        BY <4>2, <4>3
      <4> QED BY <4>1, <4>2, <4>3, <4>4
    <3> QED BY <1>1, <3>1 DEF NewIsDue
  <2> QED BY <2>7, <2>8, <2>9 DEF SendInv
<1> QED BY <1>3, <1>4 DEF Send

LEMMA SendStep == SendInv /\ [SendingNext]_loopVars => SendInv'
<1> SUFFICES ASSUME SendInv, [SendingNext]_loopVars PROVE SendInv'
  OBVIOUS
<1>1. uptime \in Nat /\ took \in Nat /\ ScheduleType
  BY DEF SendInv, ScheduleType
<1>2. CASE UNCHANGED loopVars
  <2>1. ScheduleType' /\ uptime' = uptime /\ took' = took
    BY <1>1, <1>2 DEF loopVars, vars, sendingVars, ScheduleType
  <2> QED BY <1>1, <1>2, <2>1, ScheduleKept DEF loopVars, sendingVars
<1>3. CASE UpdateWifi /\ UNCHANGED sendingVars
  <2>1. uptime' = uptime /\ step = "wifi" /\ step' = "display"
    BY <1>3 DEF UpdateWifi, SeeLink, WaitForLink, GiveUp, WaitForRetry, StartWifi, SeeNoLink
  <2>2. ScheduleType'
    BY <1>1, <1>3, <2>1 DEF ScheduleType, sendingVars
  <2> QED BY <1>1, <1>3, <2>1, <2>2, ScheduleKept DEF sendingVars
<1>4. CASE UpdateDisplay /\ Hold
  <2>1. uptime' = uptime /\ took' = took
    BY <1>4 DEF UpdateDisplay, Hold, sendingVars
  <2>2. ScheduleType'
    BY <1>1, <1>4, <2>1 DEF ScheduleType, Hold, sendingVars, UpdateDisplay
  <2> QED BY <1>1, <1>4, <2>1, <2>2, ScheduleKept DEF Hold, sendingVars
<1>5. CASE /\ NextLoop /\ uptime' - uptime >= took /\ took' = 0
           /\ UNCHANGED <<pending, retryCount, nextSend, failedAt, retryAfter>>
  <2>1. uptime' \in Nat /\ uptime <= uptime' /\ uptime' <= MaxUptime
    BY <1>1, <1>5, Widths DEF NextLoop
  <2>2. ScheduleType'
    BY <1>1, <1>5, <2>1 DEF ScheduleType
  <2>3. uptime + took <= uptime' + took'
    BY <1>1, <1>5, <2>1
  <2> QED BY <1>5, <2>1, <2>2, <2>3, ScheduleKept
<1>6. CASE LinkChanges /\ UNCHANGED sendingVars
  <2>1. uptime' = uptime /\ step' = step
    BY <1>6 DEF LinkChanges
  <2>2. ScheduleType'
    BY <1>1, <1>6, <2>1 DEF ScheduleType, sendingVars
  <2> QED BY <1>1, <1>6, <2>1, <2>2, ScheduleKept DEF sendingVars
<1> QED BY <1>2, <1>3, <1>4, <1>5, <1>6, ReplaceKeeps, SendKeeps DEF SendingNext

LEMMA SendInvariant == SendingSpec => []SendInv
BY SendInit, SendStep, PTL DEF SendingSpec

(* At any uptime a failed measurement is not sent again before its doubled    *)
(* interval is over, nor before the server wants it (apply_result, is_due).    *)
THEOREM SendsAlwaysSpaced == SendingSpec => SendsAreSpaced
<1>1. SendInv /\ [SendingNext]_loopVars =>
        [Send /\ failedAt # never =>
           uptime - failedAt >= Greater(Doubled(retryCount), retryAfter)]_loopVars
  <2> SUFFICES ASSUME SendInv, SendingNext, Send, failedAt # never
               PROVE  uptime - failedAt >= Greater(Doubled(retryCount), retryAfter)
    OBVIOUS
  <2>1. IsDue /\ pending /\ retryCount \in Nat /\ (~pending' \/ retryCount' = retryCount + 1)
    BY DEF Send, IsDue, Settle, Retry, SendInv, ScheduleType
  <2>2. UpdateDisplay
    <3>1. ~(pending' = pending /\ retryCount' = retryCount)
      <4>1. retryCount + 1 # retryCount
        BY <2>1
      <4> QED BY <2>1, <4>1, Zenon
    <3>2. ~Replace
      BY <2>1 DEF Replace
    <3> QED BY <3>1, <3>2 DEF SendingNext, sendingVars
  <2>3. took = 0 /\ uptime \in Nat
    BY <2>2 DEF UpdateDisplay, SendInv, ScheduleType
  <2> DEFINE least == Greater(Doubled(retryCount), retryAfter)
  <2>4. PICK d \in Nat : nextSend = MillisAt(failedAt + d) /\ d < Half /\ least <= d
    BY DEF SendInv, FailedIsScheduled
  <2>5. failedAt \in 0..uptime /\ least \in Nat
    BY <2>3 DEF SendInv, FailedIsScheduled
  <2> HIDE DEF least
  <2>6. ~(uptime < failedAt + d)
    <3>1. failedAt \in Nat /\ failedAt + d \in Nat
      BY <2>5
    <3>2. uptime < failedAt + d =>
            failedAt + d - uptime < Half /\ uptime - (failedAt + d) < Half
      BY <2>3, <2>4, <2>5, Widths
    <3>3. DeadlineReached(MillisAt(uptime), MillisAt(failedAt + d))
      BY <2>1, <2>4 DEF IsDue, now
    <3> QED BY <2>3, <3>1, <3>2, <3>3, DeadlineIsExact
  <2>7. uptime - failedAt >= least
    BY <2>3, <2>4, <2>5, <2>6
  <2> QED BY <2>7 DEF least
<1> QED BY <1>1, SendInvariant, PTL DEF SendingSpec, SendsAreSpaced

(* Below half the range a measurement waits for no more than the longest       *)
(* interval, and one that has not been tried does not wait (is_due).           *)
THEOREM WaitsAlwaysInTimeAtFirst == SendingSpec => []WaitsInTimeAtFirst
<1>1. SendInv => WaitsInTimeAtFirst
  <2> SUFFICES ASSUME SendInv, step = "display", pending, ~IsDue, uptime < Half
               PROVE  /\ failedAt # never
                      /\ uptime - failedAt < LongestWait(retryCount, retryAfter)
    BY DEF WaitsInTimeAtFirst
  <2>1. uptime \in Nat /\ took = 0
    BY DEF SendInv, ScheduleType
  <2>2. ASSUME NEW t \in 0..uptime, nextSend = MillisAt(t)
        PROVE  FALSE
    <3>1. Elapsed(now, nextSend) = uptime - t
      BY <2>1, <2>2, Widths, ElapsedIsExact DEF now
    <3> QED BY <2>1, <2>2, <3>1, Widths DEF IsDue, DeadlineReached
  <2>3. failedAt # never
    BY <2>2 DEF SendInv, NewIsDue
  <2> DEFINE longest == LongestWait(retryCount, retryAfter)
  <2>4. PICK d \in Nat : nextSend = MillisAt(failedAt + d) /\ d <= longest
    BY <2>3 DEF SendInv, FailedIsScheduled
  <2>5. failedAt \in 0..uptime /\ longest \in Nat
    BY <2>1, <2>3 DEF SendInv, FailedIsScheduled
  <2> HIDE DEF longest
  <2>6. uptime < failedAt + d
    <3>1. failedAt + d \in Nat
      BY <2>5
    <3> QED BY <2>1, <2>2, <2>4, <3>1
  <2>7. uptime - failedAt < longest
    BY <2>1, <2>4, <2>5, <2>6
  <2> QED BY <2>3, <2>7 DEF longest
<1> QED BY <1>1, SendInvariant, PTL
=============================================================================
