---------------------------- MODULE BeaconDetect ----------------------------
(* The limit on beacon detection: the beacon thread asks the cloud for the  *)
(* customer's preference, with a growing delay after each failure; RPC      *)
(* threads set the limit; m_limit caches what the Bluetooth manager keeps.  *)
(* No lock orders the threads: a read of the limit and the store of its     *)
(* value are two steps.                                                     *)
EXTENDS Integers

CONSTANTS
    MaxDelay,    \* 10080 minutes, after which the thread gives up
    Minute,      \* seconds in a minute
    Caller,      \* RPC threads
    CallsFail,   \* whether calls of the Bluetooth manager may fail
    ClockMoves   \* whether the clock may be set back

ASSUME DelayAssumption == MaxDelay \in Nat \ {0} /\ Minute \in Nat \ {0}
ASSUME OptionAssumption == CallsFail \in BOOLEAN /\ ClockMoves \in BOOLEAN

VARIABLES
    pc,         \* where the beacon thread is
    t1, t2,     \* t1, t2
    delay,      \* timeToSleep, in minutes
    left,       \* rand_t, in seconds
    terminate,  \* bTerminateBeaconDetect
    behind,     \* the clock is before start_t
    limit,      \* what the Bluetooth manager keeps
    m_limit,    \* what the tile manager caches
    found,      \* the limit the beacon thread has read and not yet stored
    call,       \* setLimitBeaconDetection on each RPC thread
    slept,      \* history: seconds slept since the last attempt
    late,       \* history: attempts begun after the quit
    missed      \* history: an update overlapped another, or a read failed

backoff == <<t1, t2, delay, left>>
limits == <<limit, m_limit, found, call, missed>>
vars == <<pc, backoff, terminate, behind, limits, slept, late>>

\* Seconds; the longest delay is less than two MaxDelay, and a quarter.
MaxSleep == 3 * MaxDelay * Minute

Call == [at : {"idle", "persisted", "confirmed"}, value : BOOLEAN]

TypeOK ==
    /\ pc \in {"start", "top", "attempt", "sleep", "read", "store", "done"}
    /\ t1 \in 0 .. 2 * MaxDelay
    /\ t2 \in 0 .. 2 * MaxDelay
    /\ delay \in 0 .. 2 * MaxDelay
    /\ left \in 0 .. MaxSleep
    /\ terminate \in BOOLEAN
    /\ behind \in BOOLEAN
    /\ limit \in BOOLEAN
    /\ m_limit \in BOOLEAN
    /\ found \in BOOLEAN
    /\ call \in [Caller -> Call]
    /\ slept \in 0 .. MaxSleep
    /\ late \in Nat
    /\ missed \in BOOLEAN

\* m_limit is not initialised by any constructor.
Init ==
    /\ pc = "start"
    /\ t1 = 0 /\ t2 = 1 /\ delay = 0 /\ left = 0
    /\ terminate = FALSE
    /\ behind = FALSE
    /\ limit \in BOOLEAN
    /\ m_limit \in BOOLEAN
    /\ found = FALSE
    /\ call = [c \in Caller |-> [at |-> "idle", value |-> FALSE]]
    /\ slept = 0
    /\ late = 0
    /\ missed = FALSE

-----------------------------------------------------------------------------
(* Beacon thread *)

\* getRandomTimeInSec: a quarter less, and a quarter more only if rand()
\* returns its maximum.
RandomTimes(d) == {(d - d \div 4) * Minute, (d + d \div 4) * Minute}

\* Only a box that has just started, or has its BLE radio on, asks.
Start ==
    /\ pc = "start"
    /\ pc' \in {"top", "read"}
    /\ UNCHANGED <<backoff, terminate, behind, limits, slept, late>>

GiveUp ==
    /\ pc = "top"
    /\ delay >= MaxDelay
    /\ pc' = "read"
    /\ UNCHANGED <<backoff, terminate, behind, limits, slept, late>>

\* Mutant: the loop does not look at its bound.
AskUnbounded ==
    /\ pc = "top"
    /\ ~behind
    /\ pc' = "attempt"
    /\ late' = IF terminate THEN late + 1 ELSE late
    /\ UNCHANGED <<backoff, terminate, behind, limits, slept>>

\* rand_t is 0 at first and -1 after each sleep: time always seems to be
\* over, unless the clock was set back.
Ask ==
    /\ pc = "top"
    /\ delay < MaxDelay
    /\ ~behind
    /\ pc' = "attempt"
    /\ late' = IF terminate THEN late + 1 ELSE late
    /\ UNCHANGED <<backoff, terminate, behind, limits, slept>>

\* The same delay once more.
SleepAgain ==
    /\ pc = "top"
    /\ delay < MaxDelay
    /\ behind
    /\ left' \in RandomTimes(delay)
    /\ pc' = "sleep"
    /\ UNCHANGED <<t1, t2, delay, terminate, behind, limits, slept, late>>

\* Updates whose value has left the Bluetooth manager and is not cached yet.
Pending == {c \in Caller : call[c].at # "idle"}
BeaconPending == pc = "store"

\* The cloud's preference is made the limit.
AttemptSucceeds ==
    /\ pc = "attempt"
    /\ limit' \in BOOLEAN
    /\ missed' = (missed \/ (limit' # limit /\ Pending # {}))
    /\ pc' = "read"
    /\ UNCHANGED <<backoff, terminate, behind, m_limit, found, call, slept, late>>

\* Mutant: the sleep is as long as the delay before this one.
AttemptFailsEager ==
    /\ pc = "attempt"
    /\ delay' = t1 + t2
    /\ t1' = t2
    /\ t2' = delay'
    /\ left' \in RandomTimes(delay)
    /\ slept' = 0
    /\ pc' = "sleep"
    /\ UNCHANGED <<terminate, behind, limits, late>>

\* Mutant: the delay does not grow.
AttemptFailsFlat ==
    /\ pc = "attempt"
    /\ delay' = t1 + t2
    /\ left' \in RandomTimes(delay')
    /\ slept' = 0
    /\ pc' = "sleep"
    /\ UNCHANGED <<t1, t2, terminate, behind, limits, late>>

\* No MAC, no URL, no answer, no OK, or the limit could not be set.
AttemptFails ==
    /\ pc = "attempt"
    /\ delay' = t1 + t2
    /\ t1' = t2
    /\ t2' = delay'
    /\ left' \in RandomTimes(delay')
    /\ slept' = 0
    /\ pc' = "sleep"
    /\ UNCHANGED <<terminate, behind, limits, late>>

SleepSecond ==
    /\ pc = "sleep"
    /\ left > 0
    /\ ~terminate
    /\ left' = left - 1
    /\ slept' = IF slept < MaxSleep THEN slept + 1 ELSE slept
    /\ UNCHANGED <<pc, t1, t2, delay, terminate, behind, limits, late>>

\* Mutant: the quit only ends the sleep.
SleepQuitIgnored ==
    /\ pc = "sleep"
    /\ terminate
    /\ pc' = "top"
    /\ UNCHANGED <<backoff, terminate, behind, limits, slept, late>>

\* Looked at before each second and after the last.
SleepQuit ==
    /\ pc = "sleep"
    /\ terminate
    /\ pc' = "read"
    /\ UNCHANGED <<backoff, terminate, behind, limits, slept, late>>

SleepOver ==
    /\ pc = "sleep"
    /\ left = 0
    /\ ~terminate
    /\ pc' = "top"
    /\ UNCHANGED <<backoff, terminate, behind, limits, slept, late>>

\* update_beaconDetectionLimit, which is always told that all went well.
ReadLimit ==
    /\ pc = "read"
    /\ \/ found' = limit /\ pc' = "store" /\ UNCHANGED missed
       \/ CallsFail /\ pc' = "done" /\ missed' = TRUE /\ UNCHANGED found
    /\ UNCHANGED <<backoff, terminate, behind, limit, m_limit, call, slept, late>>

\* Mutant: the thread asks again when it has stored the limit.
StoreFoundAgain ==
    /\ pc = "store"
    /\ m_limit' = found
    /\ pc' = "top"
    /\ UNCHANGED <<backoff, terminate, behind, limit, found, call, missed, slept, late>>

StoreFound ==
    /\ pc = "store"
    /\ m_limit' = found
    /\ pc' = "done"
    /\ UNCHANGED <<backoff, terminate, behind, limit, found, call, missed, slept, late>>

BeaconNext ==
    \/ Start \/ GiveUp \/ Ask \/ SleepAgain \/ AttemptSucceeds \/ AttemptFails
    \/ SleepSecond \/ SleepQuit \/ SleepOver \/ ReadLimit \/ StoreFound

-----------------------------------------------------------------------------
(* RPC threads, main thread, clock *)

\* setLimitBeaconDetection: the Bluetooth manager first.
PersistLimit(c) ==
    /\ call[c].at = "idle"
    /\ limit' \in BOOLEAN
    /\ call' = [call EXCEPT ![c] = [at |-> "persisted", value |-> limit']]
    /\ missed' = (missed \/ (limit' # limit /\ (BeaconPending \/ Pending # {})))
    /\ UNCHANGED <<pc, backoff, terminate, behind, m_limit, found, slept, late>>

\* The value that is read back is only logged.
ReadBack(c) ==
    /\ call[c].at = "persisted"
    /\ \/ call' = [call EXCEPT ![c].at = "confirmed"] /\ UNCHANGED missed
       \/ CallsFail /\ call' = [call EXCEPT ![c].at = "idle"] /\ missed' = TRUE
    /\ UNCHANGED <<pc, backoff, terminate, behind, limit, m_limit, found, slept, late>>

\* Mutant: a limit that is lifted stays in the cache.
CacheLimitForGood(c) ==
    /\ call[c].at = "confirmed"
    /\ m_limit' = (m_limit \/ call[c].value)
    /\ call' = [call EXCEPT ![c].at = "idle"]
    /\ UNCHANGED <<pc, backoff, terminate, behind, limit, found, missed, slept, late>>

CacheLimit(c) ==
    /\ call[c].at = "confirmed"
    /\ m_limit' = call[c].value
    /\ call' = [call EXCEPT ![c].at = "idle"]
    /\ UNCHANGED <<pc, backoff, terminate, behind, limit, found, missed, slept, late>>

CallerNext == \E c \in Caller : PersistLimit(c) \/ ReadBack(c) \/ CacheLimit(c)

Quit ==
    /\ terminate' = TRUE
    /\ UNCHANGED <<pc, backoff, behind, limits, slept, late>>

ClockChanges ==
    /\ ClockMoves
    /\ behind' = ~behind
    /\ UNCHANGED <<pc, backoff, terminate, limits, slept, late>>

Next == BeaconNext \/ CallerNext \/ Quit \/ ClockChanges

Spec == Init /\ [][Next]_vars

\* The thread runs, its sleeps end, and the cloud and the Bluetooth manager
\* answer or fail.
FairSpec == Spec /\ WF_vars(BeaconNext)

-----------------------------------------------------------------------------
(* Properties *)

\* The cloud is not asked again before three quarters of the delay were
\* slept, whatever the clock says (btrLeMgr_utils.cpp:224, where the elapsed
\* time is compared with a rand_t that the sleep has counted down to -1).
NoEagerRetry == [][pc' = "attempt" /\ pc # "attempt" => 4 * slept >= 3 * delay * Minute]_vars

\* Once the process quits, at most one more request to the cloud is begun:
\* the one between the checks of the sleep and the next attempt.
OneLateAttempt == late <= 1

\* When the beacon thread is done and no set is under way, the cache that
\* the ring obeys is the limit the main loop obeys, unless updates overlapped
\* or a read failed (btrLeMgrBase.cpp:82-83, 100-108).
AgreesUnlessMissed == (pc = "done" /\ Pending = {} /\ ~missed) => m_limit = limit

\* The cache and the limit always agree in the end.  Not so: of two updates
\* that overlap, the one that is persisted first may be cached last.
AgreesInTheEnd == (pc = "done" /\ Pending = {}) => m_limit = limit

\* As a thread of the process (BeaconThread).
Thread == INSTANCE BeaconThread WITH
    at <- IF pc = "done" THEN "done"
          ELSE IF pc \in {"read", "store"} THEN "storing" ELSE "working"

\* The thread keeps the promise that Lifecycle relies on: it stores once,
\* and ends after a quit.
IsBeaconThread == Thread!ThreadSpec

\* Without a quit it ends by itself, if the clock is not kept behind.
BackoffEnds == <>[]~behind => <>(pc = "done")
=============================================================================
