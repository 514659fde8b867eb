---------------------------- MODULE DeviceClock ----------------------------
(***************************************************************************)
(* The device's UTC clock: SNTP results, the age of the last one, when the  *)
(* loop asks for the next, and the measured_at it stamps on a measurement.  *)
(* SNTP answers in its own task between any two steps of the loop.  One     *)
(* unit of uptime is a millisecond and Second units are a second; the true  *)
(* UTC second is Skew plus the seconds of uptime.                           *)
(***************************************************************************)
EXTENDS Millis, Integers

CONSTANTS RetryInterval, ResyncInterval, Validity, DisplayInterval,
          Second,
          Skew,              \* the error of a synchronised clock, in seconds
          LongestLoop,       \* the longest time one loop takes
          MaxUptime          \* bound: the runs end here

ASSUME ClockAssumption ==
    /\ {ResyncInterval, Validity} \subseteq 1..(Word - 1)
    /\ {RetryInterval, DisplayInterval} \subseteq 1..(Half - 1)
    /\ {Second, LongestLoop} \subseteq Nat \ {0} /\ {Skew, MaxUptime} \subseteq Nat

VARIABLES uptime, step,
          link,              \* WiFi.status() == WL_CONNECTED
          connected,         \* status_.wifi_connected
          notified,          \* time_synchronized, set by the SNTP task
          asked,             \* configTime has started SNTP
          clock,             \* the members of ClockService
          nextAttempt,       \* next_clock_attempt_ms_
          nextDisplay,
          syncedOn, overdue  \* observation, see below

vars == <<uptime, step, link, connected, notified, asked, clock, nextAttempt,
          nextDisplay, syncedOn, overdue>>

now == MillisAt(uptime)
never == MaxUptime + 1
trueSecond == Skew + uptime \div Second

(* What time(nullptr) may say after an answer; NoTime is before 2021. *)
NoTime == -1
SystemTimes == {NoTime} \cup (trueSecond - Skew)..(trueSecond + Skew)

Age == Elapsed(now, clock.at)

\* Mutated form of IsTimeValid: it ends when the counter is past a later value.
IsTimeValidByEnd == clock.synced /\ now <= Later(clock.at, Validity)

IsTimeValid == clock.synced /\ Age <= Validity
ShouldResynchronize == ~clock.synced \/ Age >= ResyncInterval

(* syncedOn: the uptime of the last synchronisation.  overdue: since when the *)
(* connected device needs a synchronisation and has not asked for one.        *)
Needed(isConnected) ==
    isConnected /\ (syncedOn # never => uptime - syncedOn >= ResyncInterval)

Init == /\ uptime = 0 /\ step = "wifi" /\ link = FALSE /\ connected = FALSE
        /\ notified = FALSE /\ asked = FALSE
        /\ clock = [synced |-> FALSE, inProgress |-> FALSE, requestedAt |-> 0,
                    at |-> 0, epoch |-> 0, emitted |-> 0]
        /\ nextAttempt = 0 /\ nextDisplay = DisplayInterval
        /\ syncedOn = never /\ overdue = never

LinkChanges == /\ link' = ~link
               /\ UNCHANGED <<uptime, step, connected, notified, asked, clock,
                              nextAttempt, nextDisplay, syncedOn, overdue>>

SntpAnswers == /\ asked /\ link /\ notified' = TRUE
               /\ UNCHANGED <<uptime, step, link, connected, asked, clock,
                              nextAttempt, nextDisplay, syncedOn, overdue>>

(* update_wifi, of which the clock sees the connection and its attempt time *)
ConnectedDue == IF link /\ ~connected THEN now ELSE nextAttempt

UpdateWifi == /\ step = "wifi" /\ step' = "clock"
              /\ connected' = link /\ nextAttempt' = ConnectedDue
              /\ UNCHANGED <<uptime, link, notified, asked, clock, nextDisplay,
                             syncedOn, overdue>>

(* ClockService::update *)
StillWaitingForever == clock.inProgress
StillWaiting == clock.inProgress /\ Elapsed(now, clock.requestedAt) < RetryInterval

Synchronize(seconds) ==
    IF seconds = NoTime
    THEN clock' = [clock EXCEPT !.inProgress = FALSE] /\ UNCHANGED syncedOn
    ELSE /\ clock' = [clock EXCEPT !.synced = TRUE, !.at = now, !.epoch = seconds,
                                   !.inProgress = FALSE]
         /\ syncedOn' = uptime

UpdateClock ==
    /\ step = "clock" /\ step' = "request"
    /\ IF notified
       THEN \E seconds \in SystemTimes : Synchronize(seconds)
       ELSE clock' = [clock EXCEPT !.inProgress = StillWaiting] /\ UNCHANGED syncedOn
    /\ notified' = FALSE
    /\ UNCHANGED <<uptime, link, connected, asked, nextAttempt, nextDisplay, overdue>>

MayRequest == /\ connected /\ ShouldResynchronize /\ ~clock.inProgress
              /\ DeadlineReached(now, nextAttempt)

(* ClockService::request_synchronization, which forgets an answer that came  *)
(* since UpdateClock                                                          *)
RequestSynchronization ==
    /\ step = "request" /\ step' = "measure" /\ MayRequest
    /\ notified' = FALSE /\ asked' = TRUE
    /\ clock' = [clock EXCEPT !.inProgress = TRUE, !.requestedAt = now]
    /\ nextAttempt' = Later(now, RetryInterval)
    /\ overdue' = never
    /\ UNCHANGED <<uptime, link, connected, nextDisplay, syncedOn>>

NoRequest == /\ step = "request" /\ step' = "measure" /\ ~MayRequest
             /\ overdue' = IF ~Needed(connected) THEN never
                           ELSE IF overdue = never THEN uptime ELSE overdue
             /\ UNCHANGED <<uptime, link, connected, notified, asked, clock,
                            nextAttempt, nextDisplay, syncedOn>>

(* ClockService::utc_now *)
CandidateStale == clock.epoch + Elapsed(now, clock.requestedAt) \div Second
Candidate == clock.epoch + Age \div Second
UtcNowUnclamped == Candidate
UtcNow == IF Candidate >= clock.emitted THEN Candidate ELSE clock.emitted

Measure == /\ step = "measure" /\ IsTimeValid
           /\ clock' = [clock EXCEPT !.emitted = UtcNow] /\ step' = "display"
           /\ UNCHANGED <<uptime, link, connected, notified, asked, nextAttempt,
                          nextDisplay, syncedOn, overdue>>

(* not due, no valid reading, or time not valid *)
NoMeasurement == /\ step = "measure" /\ step' = "display"
                 /\ UNCHANGED <<uptime, link, connected, notified, asked, clock,
                                nextAttempt, nextDisplay, syncedOn, overdue>>

UpdateDisplay ==
    /\ step = "display" /\ step' = "delay"
    /\ IF DeadlineReached(now, nextDisplay)
       THEN nextDisplay' = Later(now, DisplayInterval) /\ connected' = link
       ELSE UNCHANGED <<nextDisplay, connected>>
    /\ UNCHANGED <<uptime, link, notified, asked, clock, nextAttempt, syncedOn, overdue>>

NextLoop == /\ step = "delay" /\ step' = "wifi"
            /\ \E d \in 1..LongestLoop :
                 uptime + d <= MaxUptime /\ uptime' = uptime + d
            /\ UNCHANGED <<link, connected, notified, asked, clock, nextAttempt,
                           nextDisplay, syncedOn, overdue>>

Loop == UpdateWifi \/ UpdateClock \/ RequestSynchronization \/ NoRequest
        \/ Measure \/ NoMeasurement \/ UpdateDisplay \/ NextLoop

Next == LinkChanges \/ SntpAnswers \/ Loop

Spec == Init /\ [][Next]_vars

-----------------------------------------------------------------------------
(* Properties *)

(* The variables keep their types. *)
TypeOK ==
    /\ uptime \in 0..MaxUptime
    /\ step \in {"wifi", "clock", "request", "measure", "display", "delay"}
    /\ {link, connected, notified, asked} \subseteq BOOLEAN
    /\ clock \in [synced : BOOLEAN, inProgress : BOOLEAN, requestedAt : Stamp,
                  at : Stamp, epoch : Nat, emitted : Nat]
    /\ {nextAttempt, nextDisplay} \subseteq Stamp
    /\ {syncedOn, overdue} \subseteq 0..never

(* docs/detailed-design/device.md: time counts as valid for the validity      *)
(* period after a synchronisation and no longer (is_time_valid).              *)
ValidMeansRecent == IsTimeValid => uptime - syncedOn <= Validity

(* The same as long as the last synchronisation is no more than the range of  *)
(* millis() ago, 49.7 days, also when the counter has wrapped since.           *)
ValidMeansRecentForOneWrap == uptime - syncedOn < Word => ValidMeansRecent

(* A measured_at is within the skew of the true time, and at most one second  *)
(* of rounding too early, also when the clock was set back and the last one    *)
(* emitted is used instead (utc_now), unless the last synchronisation is a     *)
(* wrap of millis() ago.                                                       *)
MeasuredAtIsAccurate ==
    [][Measure /\ uptime - syncedOn < Word =>
         clock'.emitted \in (trueSecond - Skew - 1)..(trueSecond + Skew)]_vars

(* A later measurement never has an earlier measured_at, whatever SNTP says   *)
(* in between (last_emitted_epoch_seconds_).                                   *)
MeasuredAtNeverGoesBack == [][clock'.emitted >= clock.emitted]_vars

(* docs/detailed-design/device.md:60: a connected device whose last            *)
(* synchronisation is too old, or that has none, asks for one and asks again   *)
(* within the retry interval, whatever happened to the link and to earlier     *)
(* requests (update_clock, next_clock_attempt_ms_).                            *)
ResyncInTime ==
    step = "measure" /\ overdue # never => uptime - overdue < RetryInterval

(* The same in the first 24.8 days.  Later the deadline may be so old that it  *)
(* looks like one to come: update_wifi renews it when it finds the connection, *)
(* not when update_display found it first.                                     *)
ResyncInTimeAtFirst == uptime < Half => ResyncInTime
=============================================================================
