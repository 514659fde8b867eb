--------------------------- MODULE LoginAttempts ---------------------------
(***************************************************************************)
(* LoginRateLimiter and its use in POST /login.  A failed login counts for  *)
(* its address and for its user name; a key with MaxAttempts failures in a  *)
(* window is locked, and a login with a locked key is refused before the    *)
(* password is looked at, which changes nothing.  A handler runs from the   *)
(* check to the record without an await.                                    *)
(***************************************************************************)
EXTENDS Naturals, Sequences, FiniteSets, Functions

CONSTANTS Addresses, Users,
          Window, MaxAttempts, LockTime, MaxKeys,
          MaxClock,          \* bound: the runs end here
          MaxTries           \* bound: on the failures of a key between two successes

ASSUME AttemptsAssumption ==
    /\ Addresses \cap Users = {}
    /\ {Window, MaxAttempts, LockTime, MaxKeys} \subseteq Nat \ {0} /\ {MaxClock, MaxTries} \subseteq Nat

VARIABLES clock,
          states,            \* _states: a function of the keys it holds
          tries,             \* observation: the times of the failures of each key
                             \* since it last succeeded
          forgotten          \* observation: how many of them the table held when it
                             \* last dropped the key for want of room, or before

limiterVars == <<clock, states, tries, forgotten>>

Keys == Addresses \cup Users
NoLock == 0
Fresh == [failures |-> <<>>, lockedUntil |-> NoLock, updatedAt |-> 0]

LimiterInit ==
    /\ clock = 1 /\ states = <<>>
    /\ tries = [k \in Keys |-> <<>>] /\ forgotten = [k \in Keys |-> 0]

InWindow(at) == clock - at < Window

(* _trim_failures: from the left, up to the first failure in the window *)
Stale(failures) == {i \in DOMAIN failures : \A j \in 1..i : ~InWindow(failures[j])}
Trimmed(failures) == SubSeq(failures, Cardinality(Stale(failures)) + 1, Len(failures))

IsLocked(k) == k \in DOMAIN states /\ states[k].lockedUntil > clock

(* retry_after finds neither key locked *)
MayVerify(address, user) == ~IsLocked(address) /\ ~IsLocked(user)

(* _purge_expired *)
Renewed(state) == [state EXCEPT
    !.failures = Trimmed(@), !.lockedUntil = IF @ <= clock THEN NoLock ELSE @]
IsOver(state) == state.failures = <<>> /\ state.lockedUntil = NoLock
Purged == LET renewed == [k \in DOMAIN states |-> Renewed(states[k])]
          IN  Restrict(renewed, {k \in DOMAIN states : ~IsOver(renewed[k])})

\* Mutated form of Failed: the lock comes one failure late.
FailedLate(state) ==
    LET failures == Append(Trimmed(state.failures), clock)
    IN  [failures    |-> failures,
         lockedUntil |-> IF Len(failures) > MaxAttempts THEN clock + LockTime
                         ELSE state.lockedUntil,
         updatedAt   |-> clock]

(* One more failure of a key *)
Failed(state) ==
    LET failures == Append(Trimmed(state.failures), clock)
    IN  [failures    |-> failures,
         lockedUntil |-> IF Len(failures) >= MaxAttempts THEN clock + LockTime
                         ELSE state.lockedUntil,
         updatedAt   |-> clock]

Counted(table, keys) ==
    [k \in DOMAIN table \cup keys |->
        IF k \notin keys THEN table[k]
        ELSE Failed(IF k \in DOMAIN table THEN table[k] ELSE Fresh)]

\* Mutated form of Evictions: the keys are not sorted by their last update.
EvictionsUnsorted(table) ==
    LET keys == DOMAIN table
    IN  IF Cardinality(keys) <= MaxKeys THEN {{}}
        ELSE {dropped \in SUBSET keys :
                Cardinality(dropped) = Cardinality(keys) - MaxKeys}

(* _enforce_capacity: the keys it may drop, those longest not updated.  Those *)
(* that are over are gone already: what it drops counts, a lock included.     *)
Evictions(table) ==
    LET keys == DOMAIN table
    IN  IF Cardinality(keys) <= MaxKeys THEN {{}}
        ELSE {dropped \in SUBSET keys :
                /\ Cardinality(dropped) = Cardinality(keys) - MaxKeys
                /\ \A d \in dropped, k \in keys \ dropped :
                     table[d].updatedAt <= table[k].updatedAt}

RecordFailure(address, user) ==
    LET table == Counted(Purged, {address, user})
    IN  \E dropped \in Evictions(table) :
          /\ states' = Restrict(table, DOMAIN table \ dropped)
          /\ tries' = [k \in Keys |-> IF k \in {address, user} THEN Append(tries[k], clock)
                                      ELSE tries[k]]
          /\ forgotten' = [k \in Keys |-> IF k \in dropped THEN Len(tries'[k])
                                          ELSE forgotten[k]]

(* clear *)
ClearBoth(address, user) ==
    /\ states' = Restrict(states, DOMAIN states \ {address, user})
    /\ tries' = [k \in Keys |-> IF k \in {address, user} THEN <<>> ELSE tries[k]]
    /\ forgotten' = [k \in Keys |-> IF k \in {address, user} THEN 0 ELSE forgotten[k]]

\* Mutated form of PasswordWrong: the user name's lock is not looked at.
PasswordWrongByAddress(address, user) ==
    /\ ~IsLocked(address)
    /\ Len(tries[address]) < MaxTries /\ Len(tries[user]) < MaxTries
    /\ RecordFailure(address, user) /\ UNCHANGED clock

PasswordWrong(address, user) ==
    /\ MayVerify(address, user)
    /\ Len(tries[address]) < MaxTries /\ Len(tries[user]) < MaxTries
    /\ RecordFailure(address, user) /\ UNCHANGED clock

PasswordRight(address, user) ==
    MayVerify(address, user) /\ ClearBoth(address, user) /\ UNCHANGED clock

ClockTicks ==
    clock < MaxClock /\ clock' = clock + 1 /\ UNCHANGED <<states, tries, forgotten>>

LimiterNext == \/ ClockTicks
        \/ \E address \in Addresses, user \in Users :
             PasswordWrong(address, user) \/ PasswordRight(address, user)

LimiterSpec == LimiterInit /\ [][LimiterNext]_limiterVars

-----------------------------------------------------------------------------
(* Properties *)

(* The failures of k since it last succeeded or was dropped for want of room *)
Remembered(k) == SubSeq(tries[k], forgotten[k] + 1, Len(tries[k]))

(* MaxAttempts failures within a window, the last less than a lock ago *)
Exhausts(failures) ==
    \E i \in DOMAIN failures :
        LET last == i + MaxAttempts - 1
        IN  /\ last \in DOMAIN failures
            /\ failures[last] - failures[i] < Window
            /\ clock - failures[last] < LockTime

(* In a table of at most MaxKeys keys a key is locked exactly for the lock     *)
(* time after its MaxAttempts-th failure within a window, counted since it     *)
(* last succeeded or was dropped for want of room, whatever the trimming and   *)
(* purging of other logins and the successes of the other key did meanwhile    *)
(* (record_failure, _purge_expired, clear).                                    *)
LockedWhenExhausted ==
    /\ Cardinality(DOMAIN states) <= MaxKeys
    /\ \A k \in Keys : IsLocked(k) <=> Exhausts(Remembered(k))

(* With a lock as long as the window no window holds more than MaxAttempts     *)
(* failures of a key but those before the key was last dropped for want of     *)
(* room (default settings: 15 minutes both).                                   *)
FailuresAreRare ==
    LockTime >= Window =>
        \A k \in Keys :
            Cardinality({i \in DOMAIN Remembered(k) : InWindow(Remembered(k)[i])}) <= MaxAttempts

(* A failure of k that still counts: it is in the window, or k is locked by it *)
LastFailure(k) == Remembered(k)[Len(Remembered(k))]
StillCounts(k) ==
    /\ Remembered(k) # <<>>
    /\ InWindow(LastFailure(k)) \/ Exhausts(Remembered(k))

(* A key is dropped for want of room only when MaxKeys other keys have failures *)
(* that still count, none of them older than its own: the table never gives up *)
(* a key for one that is over, nor the newer one of two (_purge_expired before *)
(* _enforce_capacity, and its order).                                          *)
DroppedForNewer ==
    [][\A k \in Keys : forgotten'[k] > forgotten[k] =>
          \E others \in SUBSET (Keys \ {k}) :
             /\ Cardinality(others) = MaxKeys
             /\ \A o \in others : /\ StillCounts(o)'
                                  /\ LastFailure(o)' >= tries'[k][Len(tries'[k])]]_limiterVars

(* docs/detailed-design/ui-grafana.md:86: a key with MaxAttempts failures in a *)
(* window is locked for the lock time, and a full table drops expired keys.    *)
(* The code does not keep this: a key that is locked is not updated, so it is  *)
(* among the first that _enforce_capacity drops, and its lock with it.         *)
LocksAreKept == \A k \in Keys : Exhausts(tries[k]) => IsLocked(k)
=============================================================================
