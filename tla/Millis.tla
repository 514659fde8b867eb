------------------------------- MODULE Millis -------------------------------
(***************************************************************************)
(* Arithmetic on millis(), the 32-bit millisecond counter of the device,   *)
(* which wraps after 49.7 days.  Word stands for 2^32.                      *)
(***************************************************************************)
EXTENDS Naturals

CONSTANT Word

ASSUME WordAssumption == Word \in Nat /\ \E h \in 1..Word : Word = 2 * h

Stamp == 0..(Word - 1)
Half == Word \div 2

(* now - then in uint32_t *)
Elapsed(now, then) == IF now >= then THEN now - then ELSE now + Word - then

(* static_cast<int32_t>(now - deadline) >= 0 *)
DeadlineReached(now, deadline) == Elapsed(now, deadline) < Half

(* at + interval in uint32_t *)
Later(at, interval) == (at + interval) % Word

(* millis() after the device has been running for some time *)
MillisAt(uptime) == uptime % Word
=============================================================================
