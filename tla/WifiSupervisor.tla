--------------------------- MODULE WifiSupervisor ---------------------------
(***************************************************************************)
(* The Wi-Fi part of the device loop: update_wifi starts, times out and     *)
(* repeats connection attempts, and update_display, which runs in the same  *)
(* loop a little later, writes the same status_.wifi_connected from its own *)
(* reading of WiFi.status().  The link changes at any time between the two. *)
(***************************************************************************)
EXTENDS Millis

CONSTANTS ConnectionTimeout, RetryInterval, DisplayInterval,
          LongestLoop,       \* the longest time one loop takes
          MaxUptime          \* bound: the runs end here

ASSUME WifiAssumption ==
    /\ {ConnectionTimeout, RetryInterval, DisplayInterval, LongestLoop} \subseteq 1..(Half - 1)
    /\ MaxUptime \in Nat

VARIABLES uptime,            \* milliseconds since boot, not wrapped
          step,              \* the next function of the loop
          link,              \* WiFi.status() == WL_CONNECTED
          connected,         \* status_.wifi_connected
          connecting,        \* wifi_connecting_
          startedAt, nextAttempt, nextDisplay,
          idle, gaveUp, startedOn   \* observation, see below

vars == <<uptime, step, link, connected, connecting, startedAt, nextAttempt,
          nextDisplay, idle, gaveUp, startedOn>>

now == MillisAt(uptime)

(* idle: since when the link is down with no attempt under way, and never    *)
(* when it is not.  gaveUp: when the last attempt timed out, and never if the *)
(* loop has seen a link since.  startedOn: the uptime of the last start.       *)
never == MaxUptime + 1

Init == /\ uptime = 0 /\ step = "wifi" /\ link = FALSE
        /\ connected = FALSE /\ connecting = TRUE
        /\ startedAt = 0 /\ nextAttempt = 0 /\ nextDisplay = DisplayInterval
        /\ idle = never /\ gaveUp = never /\ startedOn = 0

IdleFrom(isLink, isConnecting) ==
    IF isLink \/ isConnecting THEN never ELSE IF idle = never THEN uptime ELSE idle

LinkChanges == /\ link' = ~link
               /\ idle' = IdleFrom(~link, connecting)
               /\ UNCHANGED <<uptime, step, connected, connecting, startedAt,
                              nextAttempt, nextDisplay, gaveUp, startedOn>>

(* update_wifi with the link up *)
SeeLink == /\ step = "wifi" /\ link
           /\ connected' = TRUE /\ connecting' = FALSE /\ gaveUp' = never
           /\ step' = "display" /\ idle' = never
           /\ UNCHANGED <<uptime, link, startedAt, startedOn, nextAttempt, nextDisplay>>

(* A link that status_.wifi_connected still shows was lost: retry at once. *)
AttemptDueLater == IF connected THEN Later(now, RetryInterval) ELSE nextAttempt
AttemptDue == IF connected THEN now ELSE nextAttempt

AttemptLastsOnceMore == Elapsed(now, startedAt) <= ConnectionTimeout
AttemptLasts == Elapsed(now, startedAt) < ConnectionTimeout

SeeNoLink == step = "wifi" /\ ~link /\ connected' = FALSE /\ step' = "display"

WaitForLink == /\ SeeNoLink /\ connecting /\ AttemptLasts
               /\ nextAttempt' = AttemptDue
               /\ UNCHANGED <<uptime, link, connecting, startedAt, startedOn, nextDisplay,
                              idle, gaveUp>>

GiveUp == /\ SeeNoLink /\ connecting /\ ~AttemptLasts
          /\ connecting' = FALSE /\ nextAttempt' = Later(now, RetryInterval)
          /\ idle' = uptime /\ gaveUp' = uptime
          /\ UNCHANGED <<uptime, link, startedAt, startedOn, nextDisplay>>

WaitForRetry == /\ SeeNoLink /\ ~connecting /\ ~DeadlineReached(now, AttemptDue)
                /\ nextAttempt' = AttemptDue
                /\ UNCHANGED <<uptime, link, connecting, startedAt, startedOn, nextDisplay,
                               idle, gaveUp>>

StartWifi == /\ SeeNoLink /\ ~connecting /\ DeadlineReached(now, AttemptDue)
             /\ nextAttempt' = AttemptDue
             /\ connecting' = TRUE /\ startedAt' = now /\ startedOn' = uptime
             /\ idle' = never
             /\ UNCHANGED <<uptime, link, nextDisplay, gaveUp>>

UpdateDisplay ==
    /\ step = "display"
    /\ IF DeadlineReached(now, nextDisplay)
       THEN /\ nextDisplay' = Later(now, DisplayInterval) /\ connected' = link
            /\ gaveUp' = IF link THEN never ELSE gaveUp
       ELSE UNCHANGED <<nextDisplay, connected, gaveUp>>
    /\ step' = "delay"
    /\ UNCHANGED <<uptime, link, connecting, startedAt, startedOn, nextAttempt, idle>>

NextLoop == /\ step = "delay"
            /\ \E d \in 1..LongestLoop :
                 uptime + d <= MaxUptime /\ uptime' = uptime + d
            /\ step' = "wifi"
            /\ UNCHANGED <<link, connected, connecting, startedAt, nextAttempt,
                           nextDisplay, idle, gaveUp, startedOn>>

Loop == SeeLink \/ WaitForLink \/ GiveUp \/ WaitForRetry \/ StartWifi
        \/ UpdateDisplay \/ NextLoop

Next == LinkChanges \/ Loop

Spec == Init /\ [][Next]_vars

-----------------------------------------------------------------------------
(* Properties *)

(* docs/detailed-design/device.md: a device without Wi-Fi goes on retrying.  *)
(* Below half the range of millis(), 24.8 days, a link that has been down with *)
(* no attempt under way for the retry interval has a new attempt once          *)
(* update_wifi has run, whichever of update_wifi and update_display noticed the *)
(* loss. Beyond it an old deadline can look like one in the future             *)
(* (deadline_reached, update_wifi, update_display).                            *)
RetriesInTime == step = "display" /\ idle # never => uptime - idle < RetryInterval
RetriesInTimeAtFirst == uptime < Half => RetriesInTime

(* At any uptime an attempt that is still under way when update_wifi has run  *)
(* is younger than its timeout: wifi_started_at_ms_ is compared as a difference *)
(* (update_wifi).                                                             *)
AttemptsEnd ==
    connecting /\ step = "display" => uptime - startedOn < ConnectionTimeout

(* After an attempt timed out no other starts before the retry interval is    *)
(* over, unless the loop saw a link meanwhile (next_wifi_attempt_ms_).           *)
RetriesAreSpaced ==
    [][StartWifi /\ gaveUp # never => uptime - gaveUp >= RetryInterval]_vars
=============================================================================
