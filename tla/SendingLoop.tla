---------------------------- MODULE SendingLoop ----------------------------
(***************************************************************************)
(* The schedule of sending: the loop of WifiSupervisor with RetryController, *)
(* whose one pending measurement is replaced by a newer one at any time.      *)
(* send blocks the loop, so a result comes later than the loop's now_ms, and  *)
(* update_display still uses that.  What a measurement is, and what becomes    *)
(* of it, is DeviceDelivery.                                                   *)
(***************************************************************************)
EXTENDS WifiSupervisor

CONSTANTS MaxRetryCount, InitialInterval, MaxInterval,
          JitterPart,        \* jitter is up to one part in this many, 5 in the code
          RetryAfters,       \* retry_after_milliseconds of the answers, 0 without one
          LongestSend        \* the longest time send takes

(* The initial interval times the multiplier of the n-th failure, 1U << (n - 1). *)
Multiplied(n) == InitialInterval * 2^(n - 1)

ASSUME SendingAssumption ==
    /\ {MaxRetryCount, InitialInterval, JitterPart} \subseteq Nat \ {0}
    /\ MaxInterval \in InitialInterval..(Half - 1)
    /\ RetryAfters \subseteq 0..(Half - 1)
    /\ LongestSend \in 0..LongestLoop
    /\ \A n \in 1..MaxRetryCount : Multiplied(n) \in 1..(Word - 1)

VARIABLES
    pending, retryCount, nextSend,  \* pending_ has a value, retry_count_, next_attempt_ms_
    took,                           \* the time send has taken in this loop
    failedAt, retryAfter            \* observation, see below

sendingVars == <<pending, retryCount, nextSend, took, failedAt, retryAfter>>
loopVars == <<vars, sendingVars>>

(* failedAt: the uptime of the last failed attempt of the pending measurement, *)
(* never if there is none.  retryAfter: what the server asked for then.        *)
SendingInit == /\ Init
               /\ pending = FALSE /\ retryCount = 0 /\ nextSend = 0 /\ took = 0
               /\ failedAt = never /\ retryAfter = 0

-----------------------------------------------------------------------------
(* RetryController::replace, called by update_measurement after update_wifi *)

ReplaceOnly == /\ pending' = TRUE /\ retryCount' = 0
               /\ failedAt' = never /\ retryAfter' = 0
               /\ UNCHANGED <<nextSend, took>>

Replace == /\ pending' = TRUE /\ retryCount' = 0 /\ nextSend' = now
           /\ failedAt' = never /\ retryAfter' = 0
           /\ UNCHANGED took

UpdateWifi == SeeLink \/ WaitForLink \/ GiveUp \/ WaitForRetry \/ StartWifi

-----------------------------------------------------------------------------
(* send_pending, before update_display; the time is valid *)

IsDue == pending /\ DeadlineReached(now, nextSend)

Lesser(a, b) == IF a <= b THEN a ELSE b
Greater(a, b) == IF a >= b THEN a ELSE b

(* The intervals RetryController may choose after the n-th failure. *)
BaseInterval(n) == Lesser(Multiplied(n) % Word, MaxInterval)
JitterLimit(n) == Lesser(BaseInterval(n) \div JitterPart, MaxInterval - BaseInterval(n))
Intervals(n) == BaseInterval(n)..(BaseInterval(n) + JitterLimit(n))

(* apply_result for an attempt of the length took': settled, the measurement   *)
(* is dropped; otherwise it is tried again, at most MaxRetryCount times.        *)
Settle == /\ pending' = FALSE /\ failedAt' = never /\ retryAfter' = 0
          /\ UNCHANGED <<retryCount, nextSend>>

RetryFromLoopStart == \E after \in RetryAfters, interval \in Intervals(retryCount + 1) :
    /\ retryCount < MaxRetryCount /\ retryCount' = retryCount + 1
    /\ nextSend' = Later(now, Greater(interval, after))
    /\ failedAt' = uptime + took' /\ retryAfter' = after
    /\ UNCHANGED pending

Retry == \E after \in RetryAfters, interval \in Intervals(retryCount + 1) :
    /\ retryCount < MaxRetryCount /\ retryCount' = retryCount + 1
    /\ nextSend' = Later(MillisAt(uptime + took'), Greater(interval, after))
    /\ failedAt' = uptime + took' /\ retryAfter' = after
    /\ UNCHANGED pending

Send == /\ connected /\ IsDue
        /\ took' \in 0..LongestSend /\ uptime + took' <= MaxUptime
        /\ Settle \/ Retry

(* No link, no valid time, or not due. *)
Hold == UNCHANGED sendingVars

-----------------------------------------------------------------------------

SendingNext == \/ UpdateWifi /\ (Replace \/ UNCHANGED sendingVars)
               \/ UpdateDisplay /\ (Send \/ Hold)
               \/ NextLoop /\ uptime' - uptime >= took /\ took' = 0
                    /\ UNCHANGED <<pending, retryCount, nextSend, failedAt, retryAfter>>
               \/ LinkChanges /\ UNCHANGED sendingVars

SendingSpec == SendingInit /\ [][SendingNext]_loopVars

-----------------------------------------------------------------------------
(* Properties *)

Doubled(n) == Lesser(Multiplied(n), MaxInterval)

(* docs/detailed-design/device.md:81-89: after its n-th failure a measurement  *)
(* is not sent again before the initial interval, doubled each time up to the   *)
(* maximum, is over, nor before the server wants it, counted from when the      *)
(* failure was known, at any uptime (apply_result, send_pending).               *)
SendsAreSpaced ==
    [][Send /\ failedAt # never =>
         uptime - failedAt >= Greater(Doubled(retryCount), retryAfter)]_loopVars

(* And with a link it waits no longer than that and a jitter of one part; one   *)
(* that has not been tried does not wait: the schedule of the one it replaced   *)
(* is forgotten.  Below half the range of millis(), see WifiSupervisor.         *)
LongestWait(n, after) ==
    Greater(Lesser(Doubled(n) + Doubled(n) \div JitterPart, MaxInterval), after)

WaitsInTimeAtFirst ==
    step = "display" /\ pending /\ ~IsDue /\ uptime < Half =>
        failedAt # never /\ uptime - failedAt < LongestWait(retryCount, retryAfter)
=============================================================================
