-------------------------- MODULE BeaconDetectProofs --------------------------
(* Proofs about BeaconDetect, for every bound on the delay, every length of  *)
(* a minute and every set of callers.  Each theorem has its invariant, one   *)
(* step per action that can disturb it.                                      *)
EXTENDS BeaconDetect, TLAPS

\* The steps of the beacon thread that are not steps of the others.
LEMMA NextCases ==
    [Next]_vars =>
      \/ Start \/ GiveUp \/ Ask \/ SleepAgain \/ AttemptSucceeds \/ AttemptFails
      \/ SleepSecond \/ SleepQuit \/ SleepOver \/ ReadLimit \/ StoreFound
      \/ \E c \in Caller : PersistLimit(c) \/ ReadBack(c) \/ CacheLimit(c)
      \/ Quit \/ ClockChanges \/ UNCHANGED vars
  BY DEF Next, BeaconNext, CallerNext

-----------------------------------------------------------------------------
(* Times *)

\* Products are compared by their factors.
LEMMA ProductMonotone ==
    ASSUME NEW a \in Nat, NEW b \in Nat, NEW n \in Nat, a <= b
    PROVE  a * n <= b * n
<1>1. b * n = a * n + (b - a) * n
  OBVIOUS
<1>2. (b - a) \in Nat
  OBVIOUS
<1>3. (b - a) * n >= 0
  BY <1>2
<1>4. a * n \in Int /\ b * n \in Int /\ (b - a) * n \in Int
  BY <1>2
<1> QED
  BY <1>1, <1>3, <1>4

\* The least a delay of d minutes sleeps, in minutes.
Least(d) == d - d \div 4

LEMMA LeastBounds ==
    ASSUME NEW d \in Nat
    PROVE  /\ Least(d) \in Nat
           /\ 4 * Least(d) >= 3 * d
           /\ d + d \div 4 \in Nat
           /\ d + d \div 4 >= Least(d)
           /\ d <= 2 * MaxDelay => d + d \div 4 <= 3 * MaxDelay
  BY DelayAssumption DEF Least

\* A random time is at least the least sleep and at most MaxSleep.
LEMMA RandomTimeBounds ==
    ASSUME NEW d \in 0 .. 2 * MaxDelay, NEW r \in RandomTimes(d)
    PROVE  r \in 0 .. MaxSleep /\ r >= Least(d) * Minute
<1>1. /\ d \in Nat /\ d <= 2 * MaxDelay /\ Minute \in Nat /\ 3 * MaxDelay \in Nat
      /\ MaxSleep = (3 * MaxDelay) * Minute
  BY DelayAssumption DEF MaxSleep
<1>2. PICK k \in Nat : r = k * Minute /\ k >= Least(d) /\ k <= 3 * MaxDelay
  <2>1. Least(d) <= 3 * MaxDelay
    BY <1>1, LeastBounds, DelayAssumption
  <2> QED
    BY <1>1, <2>1, LeastBounds DEF RandomTimes, Least
<1>3. k * Minute >= Least(d) * Minute
  BY <1>1, <1>2, LeastBounds, ProductMonotone
<1>4. k * Minute <= (3 * MaxDelay) * Minute
  BY <1>1, <1>2, ProductMonotone
<1>5. k * Minute \in Nat /\ (3 * MaxDelay) * Minute \in Nat
  BY <1>1, <1>2
<1> QED
  BY <1>1, <1>2, <1>3, <1>4, <1>5

-----------------------------------------------------------------------------
(* Types and the back-off *)

\* The delays are those of a Fibonacci sequence that is cut at MaxDelay: the
\* next one is at most twice the last.
BackoffInv ==
    /\ TypeOK
    /\ t1 <= t2
    /\ delay = t2 \/ (delay = 0 /\ t2 = 1)
    /\ pc = "attempt" => delay < MaxDelay

LEMMA BackoffInit == Init => BackoffInv
<1> SUFFICES ASSUME Init PROVE BackoffInv
  OBVIOUS
<1>1. MaxSleep \in Nat
  BY DelayAssumption DEF MaxSleep
<1>2. call \in [Caller -> Call]
  BY DEF Init, Call
<1>3. 0 \in 0 .. 2 * MaxDelay /\ 1 \in 0 .. 2 * MaxDelay /\ 0 \in 0 .. MaxSleep
  BY <1>1, DelayAssumption
<1>4. TypeOK
  BY <1>2, <1>3 DEF Init, TypeOK
<1> QED
  BY <1>4 DEF Init, BackoffInv

\* A call of an RPC thread stays a call.
LEMMA CallTypes ==
    ASSUME TypeOK, NEW c \in Caller, PersistLimit(c) \/ ReadBack(c) \/ CacheLimit(c)
    PROVE  call' \in [Caller -> Call] /\ limit' \in BOOLEAN /\ m_limit' \in BOOLEAN
             /\ missed' \in BOOLEAN
<1>1. call[c] \in Call
  BY DEF TypeOK
<1>2. CASE PersistLimit(c)
  <2>1. limit' \in BOOLEAN /\ m_limit' = m_limit /\ missed' \in BOOLEAN
    BY <1>2 DEF PersistLimit, TypeOK
  <2>2. [at |-> "persisted", value |-> limit'] \in Call
    BY <2>1 DEF Call
  <2> QED
    BY <1>2, <2>1, <2>2 DEF PersistLimit, TypeOK
<1>3. CASE ReadBack(c)
  <2>1. [call[c] EXCEPT !.at = "confirmed"] \in Call /\ [call[c] EXCEPT !.at = "idle"] \in Call
    BY <1>1 DEF Call
  <2> QED
    BY <1>3, <2>1 DEF ReadBack, TypeOK
<1>4. CASE CacheLimit(c)
  <2>1. [call[c] EXCEPT !.at = "idle"] \in Call /\ call[c].value \in BOOLEAN
    BY <1>1 DEF Call
  <2> QED
    BY <1>4, <2>1 DEF CacheLimit, TypeOK
<1> QED
  BY <1>2, <1>3, <1>4

LEMMA BackoffStep == BackoffInv /\ [Next]_vars => BackoffInv'
<1> SUFFICES ASSUME BackoffInv, [Next]_vars PROVE BackoffInv'
  OBVIOUS
<1> USE DEF backoff, limits
<1>0. TypeOK
  BY DEF BackoffInv
<1>1. MaxSleep \in Nat /\ MaxDelay \in Nat
  BY DelayAssumption DEF MaxSleep
<1>2. CASE Start \/ GiveUp \/ SleepQuit \/ SleepOver
  BY <1>2 DEF BackoffInv, TypeOK, Start, GiveUp, SleepQuit, SleepOver
<1>3. CASE Ask
  BY <1>3 DEF BackoffInv, TypeOK, Ask
<1>4. CASE SleepAgain
  <2>1. left' \in 0 .. MaxSleep
    BY <1>0, <1>4, RandomTimeBounds DEF SleepAgain, TypeOK
  <2> QED
    BY <1>4, <2>1 DEF BackoffInv, TypeOK, SleepAgain
<1>5. CASE AttemptSucceeds
  <2>1. missed' \in BOOLEAN
    BY <1>0, <1>5 DEF AttemptSucceeds, TypeOK
  <2> QED
    BY <1>5, <2>1 DEF BackoffInv, TypeOK, AttemptSucceeds
<1>6. CASE AttemptFails
  <2>1. delay' \in 0 .. 2 * MaxDelay /\ t1' <= t2' /\ delay' = t2' /\ t1' = t2
    BY <1>6, DelayAssumption DEF BackoffInv, TypeOK, AttemptFails
  <2>2. left' \in 0 .. MaxSleep
    BY <1>6, <2>1, RandomTimeBounds DEF AttemptFails
  <2>3. TypeOK'
    BY <1>0, <1>1, <1>6, <2>1, <2>2 DEF TypeOK, AttemptFails
  <2> QED
    BY <1>6, <2>1, <2>3 DEF BackoffInv, AttemptFails
<1>7. CASE SleepSecond
  <2>1. left' \in 0 .. MaxSleep /\ slept' \in 0 .. MaxSleep
    BY <1>0, <1>1, <1>7 DEF SleepSecond, TypeOK
  <2> QED
    BY <1>7, <2>1 DEF BackoffInv, TypeOK, SleepSecond
<1>8. CASE ReadLimit
  BY <1>8 DEF BackoffInv, TypeOK, ReadLimit
<1>9. CASE StoreFound
  BY <1>9 DEF BackoffInv, TypeOK, StoreFound
<1>10. CASE \E c \in Caller : PersistLimit(c) \/ ReadBack(c) \/ CacheLimit(c)
  <2>1. PICK c \in Caller : PersistLimit(c) \/ ReadBack(c) \/ CacheLimit(c)
    BY <1>10
  <2>2. call' \in [Caller -> Call] /\ limit' \in BOOLEAN /\ m_limit' \in BOOLEAN
          /\ missed' \in BOOLEAN
    BY <1>0, <2>1, CallTypes
  <2>3. UNCHANGED <<pc, t1, t2, delay, left, terminate, behind, found, slept, late>>
    BY <2>1 DEF PersistLimit, ReadBack, CacheLimit
  <2> QED
    BY <2>2, <2>3 DEF BackoffInv, TypeOK
<1>11. CASE Quit \/ ClockChanges
  BY <1>11 DEF BackoffInv, TypeOK, Quit, ClockChanges
<1>12. CASE UNCHANGED vars
  BY <1>12 DEF BackoffInv, TypeOK, vars
<1> QED
  BY <1>2, <1>3, <1>4, <1>5, <1>6, <1>7, <1>8, <1>9, <1>10, <1>11, <1>12, NextCases

\* The delays and the sleeps stay in their bounds, whatever MaxDelay is: the
\* loop of update_beaconDetection ends before they can grow past them.
THEOREM TypeCorrect == Spec => []TypeOK
<1>1. BackoffInv => TypeOK
  BY DEF BackoffInv
<1> QED
  BY <1>1, BackoffInit, BackoffStep, PTL DEF Spec

-----------------------------------------------------------------------------
(* The cloud is left alone *)

\* What was slept and what is left to sleep make up the least sleep.
RetryInv ==
    /\ BackoffInv
    /\ pc = "start" => delay = 0
    /\ pc = "sleep" => slept + left >= Least(delay) * Minute
    /\ pc = "top" => slept >= Least(delay) * Minute

LEMMA LeastSleep ==
    ASSUME TypeOK
    PROVE  Least(delay) * Minute \in Nat /\ Least(delay) * Minute <= MaxSleep
<1>1. delay \in Nat /\ delay <= 2 * MaxDelay /\ Minute \in Nat /\ 3 * MaxDelay \in Nat
        /\ MaxSleep = (3 * MaxDelay) * Minute
  BY DelayAssumption DEF TypeOK, MaxSleep
<1>2. Least(delay) \in Nat /\ Least(delay) <= 3 * MaxDelay
  BY <1>1, LeastBounds, DelayAssumption
<1> QED
  BY <1>1, <1>2, ProductMonotone

LEMMA RetryStep == RetryInv /\ [Next]_vars => RetryInv'
<1> SUFFICES ASSUME RetryInv, [Next]_vars PROVE RetryInv'
  OBVIOUS
<1> USE DEF backoff, limits
<1>0. BackoffInv /\ BackoffInv' /\ TypeOK /\ TypeOK'
  BY BackoffStep DEF RetryInv, BackoffInv
<1>1. Least(delay) * Minute \in Nat /\ Least(delay) * Minute <= MaxSleep
  BY <1>0, LeastSleep
<1>2. CASE Start
  <2>1. Least(0) = 0 /\ 0 * Minute = 0
    BY DelayAssumption DEF Least
  <2>2. delay' = 0 /\ slept' \in Nat /\ pc' \in {"top", "read"}
    BY <1>0, <1>2 DEF RetryInv, Start, TypeOK
  <2>3. slept' >= Least(delay') * Minute
    BY <2>1, <2>2
  <2> QED
    BY <1>0, <2>2, <2>3 DEF RetryInv
<1>3. CASE GiveUp \/ Ask \/ AttemptSucceeds \/ SleepQuit \/ ReadLimit \/ StoreFound
  BY <1>0, <1>3 DEF RetryInv, GiveUp, Ask, AttemptSucceeds, SleepQuit, ReadLimit, StoreFound
<1>4. CASE SleepAgain
  <2>1. left' >= Least(delay) * Minute
    BY <1>0, <1>4, RandomTimeBounds DEF SleepAgain, TypeOK
  <2> QED
    BY <1>0, <1>1, <1>4, <2>1 DEF RetryInv, SleepAgain, TypeOK
<1>5. CASE AttemptFails
  <2>1. left' >= Least(delay') * Minute /\ slept' = 0 /\ pc' = "sleep" /\ left' \in Nat
    BY <1>0, <1>5, RandomTimeBounds DEF AttemptFails, TypeOK
  <2>2. slept' + left' >= Least(delay') * Minute
    BY <2>1
  <2> QED
    BY <1>0, <2>1, <2>2 DEF RetryInv
<1>6. CASE SleepSecond
  <2> DEFINE least == Least(delay) * Minute
  <2>1. slept + left >= least /\ least \in Nat /\ least <= MaxSleep
    BY <1>1, <1>6 DEF RetryInv, SleepSecond
  <2>2. slept \in Nat /\ left \in Nat /\ left > 0 /\ left' = left - 1 /\ MaxSleep \in Nat
          /\ slept' = IF slept < MaxSleep THEN slept + 1 ELSE slept
    BY <1>0, <1>6, DelayAssumption DEF SleepSecond, TypeOK, MaxSleep
  <2> HIDE DEF least
  <2>3. slept' + left' >= least
    BY <2>1, <2>2
  <2>4. slept' + left' >= Least(delay) * Minute
    BY <2>3 DEF least
  <2> QED
    BY <1>0, <1>6, <2>4 DEF RetryInv, SleepSecond
<1>7. CASE SleepOver
  BY <1>0, <1>1, <1>7 DEF RetryInv, SleepOver, TypeOK
<1>8. CASE \E c \in Caller : PersistLimit(c) \/ ReadBack(c) \/ CacheLimit(c)
  BY <1>0, <1>8 DEF RetryInv, PersistLimit, ReadBack, CacheLimit
<1>9. CASE Quit \/ ClockChanges \/ UNCHANGED vars
  BY <1>0, <1>9 DEF RetryInv, Quit, ClockChanges, vars
<1> QED
  BY <1>2, <1>3, <1>4, <1>5, <1>6, <1>7, <1>8, <1>9, NextCases

\* The cloud is not asked again before three quarters of the delay were
\* slept, whatever is done to the clock and however long the delays grow.
THEOREM RetryCorrect == Spec => NoEagerRetry
<1>1. Init => RetryInv
  BY BackoffInit DEF Init, RetryInv
<1>2. RetryInv /\ [Next]_vars
        => [pc' = "attempt" /\ pc # "attempt" => 4 * slept >= 3 * delay * Minute]_vars
  <2> SUFFICES ASSUME RetryInv, [Next]_vars, pc' = "attempt", pc # "attempt"
               PROVE  4 * slept >= 3 * delay * Minute
    OBVIOUS
  <2>1. Ask
    BY NextCases DEF Start, GiveUp, SleepAgain, AttemptSucceeds, AttemptFails, SleepSecond,
       SleepQuit, SleepOver, ReadLimit, StoreFound, PersistLimit, ReadBack, CacheLimit, Quit,
       ClockChanges, vars
  <2>2. TypeOK /\ slept >= Least(delay) * Minute
    BY <2>1 DEF RetryInv, BackoffInv, Ask
  <2>3. delay \in Nat /\ slept \in Nat /\ Minute \in Nat /\ Least(delay) \in Nat
          /\ 3 * delay <= 4 * Least(delay)
    BY <2>2, LeastBounds, DelayAssumption DEF TypeOK
  <2>4. (3 * delay) * Minute <= (4 * Least(delay)) * Minute
    BY <2>3, ProductMonotone
  <2>5. (4 * Least(delay)) * Minute = 4 * (Least(delay) * Minute)
    BY <2>3
  <2>6. Least(delay) * Minute \in Nat /\ (3 * delay) * Minute \in Nat
    BY <2>3
  <2>7. 4 * slept >= 4 * (Least(delay) * Minute)
    BY <2>2, <2>3, <2>6
  <2> QED
    BY <2>3, <2>4, <2>5, <2>6, <2>7
<1> QED
  BY <1>1, <1>2, RetryStep, PTL DEF Spec, NoEagerRetry

\* Before the quit no attempt is late, and after a late one the loop is left:
\* the thread is in it, in its sleep or beyond it.
LateInv ==
    /\ late \in {0, 1}
    /\ late = 1 => terminate /\ pc \in {"attempt", "sleep", "read", "store", "done"}

\* However often and whenever the process is told to quit, one more request
\* is all the cloud sees.
THEOREM LateCorrect == Spec => []OneLateAttempt
<1>1. Init => LateInv
  BY DEF Init, LateInv
<1>2. LateInv /\ [Next]_vars => LateInv'
  <2> SUFFICES ASSUME LateInv, [Next]_vars PROVE LateInv'
    OBVIOUS
  <2> USE DEF LateInv, backoff, limits
  <2>1. CASE Ask
    BY <2>1 DEF Ask
  <2>2. CASE Start \/ GiveUp \/ SleepAgain
    BY <2>2 DEF Start, GiveUp, SleepAgain
  <2>3. CASE AttemptSucceeds \/ AttemptFails \/ ReadLimit \/ StoreFound
    BY <2>3 DEF AttemptSucceeds, AttemptFails, ReadLimit, StoreFound
  <2>4. CASE SleepSecond \/ SleepQuit \/ SleepOver
    BY <2>4 DEF SleepSecond, SleepQuit, SleepOver
  <2>5. CASE \E c \in Caller : PersistLimit(c) \/ ReadBack(c) \/ CacheLimit(c)
    BY <2>5 DEF PersistLimit, ReadBack, CacheLimit
  <2>6. CASE Quit \/ ClockChanges \/ UNCHANGED vars
    BY <2>6 DEF Quit, ClockChanges, vars
  <2> QED
    BY <2>1, <2>2, <2>3, <2>4, <2>5, <2>6, NextCases
<1>3. LateInv => OneLateAttempt
  BY DEF LateInv, OneLateAttempt
<1> QED
  BY <1>1, <1>2, <1>3, PTL DEF Spec

-----------------------------------------------------------------------------
(* The limit and its cache *)

\* While no update was missed: whoever is about to store has the limit in
\* his hands, and when nobody is, the cache has it.
AgreeInv ==
    /\ TypeOK
    /\ ~missed =>
         /\ \A c \in Pending : call[c].value = limit
         /\ pc = "store" => found = limit
         /\ pc = "done" /\ Pending = {} => m_limit = limit

\* A set of one RPC thread leaves the calls of the others alone.
LEMMA AgreeCallerStep ==
    ASSUME AgreeInv, TypeOK', NEW c \in Caller, PersistLimit(c) \/ ReadBack(c) \/ CacheLimit(c)
    PROVE  AgreeInv'
<1> SUFFICES ASSUME ~missed'
             PROVE  /\ \A d \in Pending' : call'[d].value = limit'
                    /\ pc' = "store" => found' = limit'
                    /\ pc' = "done" /\ Pending' = {} => m_limit' = limit'
  BY DEF AgreeInv
<1> USE DEF backoff, limits
<1>0. call \in [Caller -> Call] /\ TypeOK
  BY DEF AgreeInv, TypeOK
<1>1. CASE PersistLimit(c)
  <2>1. ~missed /\ (limit' = limit \/ (pc # "store" /\ Pending = {}))
    BY <1>1 DEF PersistLimit, BeaconPending
  <2>2. call'[c].value = limit' /\ c \in Pending'
    BY <1>0, <1>1 DEF PersistLimit, Pending
  <2>3. \A d \in Caller \ {c} : call'[d] = call[d]
    BY <1>0, <1>1 DEF PersistLimit
  <2>4. \A d \in Pending' : call'[d].value = limit'
    BY <2>1, <2>2, <2>3 DEF AgreeInv, Pending
  <2>5. pc' = pc /\ found' = found
    BY <1>1 DEF PersistLimit
  <2> QED
    BY <2>1, <2>2, <2>4, <2>5 DEF AgreeInv
<1>2. CASE ReadBack(c)
  <2>1. missed' = missed /\ call' = [call EXCEPT ![c].at = "confirmed"] /\ c \in Pending
    BY <1>2 DEF ReadBack, Pending
  <2>2. call'[c].value = call[c].value /\ call'[c].at = "confirmed"
    BY <1>0, <2>1 DEF Call
  <2>3. \A d \in Caller \ {c} : call'[d] = call[d]
    BY <1>0, <2>1
  <2>4. Pending' = Pending /\ \A d \in Caller : call'[d].value = call[d].value
    BY <2>1, <2>2, <2>3 DEF Pending
  <2>5. UNCHANGED <<pc, found, limit, m_limit>>
    BY <1>2 DEF ReadBack
  <2>6. \A d \in Pending' : call'[d].value = limit'
    BY <2>1, <2>4, <2>5 DEF AgreeInv, Pending
  <2> QED
    BY <2>1, <2>4, <2>5, <2>6 DEF AgreeInv
<1>3. CASE CacheLimit(c)
  <2>1. missed' = missed /\ m_limit' = call[c].value /\ c \in Pending
    BY <1>3 DEF CacheLimit, Pending
  <2>2. call[c].value = limit
    BY <2>1 DEF AgreeInv
  <2>3. \A d \in Pending' : d \in Pending /\ call'[d] = call[d]
    BY <1>0, <1>3 DEF CacheLimit, Pending
  <2>4. UNCHANGED <<pc, found, limit>>
    BY <1>3 DEF CacheLimit
  <2>5. \A d \in Pending' : call'[d].value = limit'
    BY <2>1, <2>3, <2>4 DEF AgreeInv
  <2> QED
    BY <2>1, <2>2, <2>4, <2>5 DEF AgreeInv
<1> QED
  BY <1>1, <1>2, <1>3

\* The steps of the beacon thread leave the calls alone.
LEMMA AgreeStep == AgreeInv /\ TypeOK' /\ [Next]_vars => AgreeInv'
<1> SUFFICES ASSUME AgreeInv, TypeOK', [Next]_vars PROVE AgreeInv'
  OBVIOUS
<1> USE DEF backoff, limits
<1>1. CASE Start \/ GiveUp \/ Ask \/ SleepAgain \/ AttemptFails \/ SleepSecond
             \/ SleepQuit \/ SleepOver
  <2>1. UNCHANGED limits /\ pc' # "store" /\ pc' # "done"
    BY <1>1 DEF Start, GiveUp, Ask, SleepAgain, AttemptFails, SleepSecond, SleepQuit, SleepOver
  <2> QED
    BY <2>1 DEF AgreeInv, Pending
<1>2. CASE AttemptSucceeds
  BY <1>2 DEF AgreeInv, Pending, AttemptSucceeds
<1>3. CASE ReadLimit
  BY <1>3 DEF AgreeInv, Pending, ReadLimit
<1>4. CASE StoreFound
  BY <1>4 DEF AgreeInv, Pending, StoreFound
<1>5. CASE \E c \in Caller : PersistLimit(c) \/ ReadBack(c) \/ CacheLimit(c)
  BY <1>5, AgreeCallerStep
<1>6. CASE Quit \/ ClockChanges \/ UNCHANGED vars
  BY <1>6 DEF AgreeInv, Pending, Quit, ClockChanges, vars
<1> QED
  BY <1>1, <1>2, <1>3, <1>4, <1>5, <1>6, NextCases

\* Whatever number of RPC threads set the limit: updates that do not overlap
\* leave the cache with the limit.
THEOREM AgreeCorrect == Spec => []AgreesUnlessMissed
<1>1. Init => AgreeInv
  BY BackoffInit DEF Init, AgreeInv, BackoffInv, Pending
<1>2. AgreeInv => AgreesUnlessMissed
  BY DEF AgreeInv, AgreesUnlessMissed
<1>3. Spec => []TypeOK
  BY TypeCorrect
<1> QED
  BY <1>1, <1>2, <1>3, AgreeStep, PTL DEF Spec

-----------------------------------------------------------------------------
(* The thread of the process *)

\* BeaconDetect is a BeaconThread, safety only: what Lifecycle relies on.
THEOREM ThreadRefined ==
    Spec => Thread!ThreadInit /\ [][Thread!ThreadNext]_(Thread!threadVars)
<1> USE DEF Thread!threadVars
<1>1. Init => Thread!ThreadInit
  BY DEF Init, Thread!ThreadInit
<1>2. [Next]_vars => [Thread!ThreadNext]_(Thread!threadVars)
  <2> SUFFICES ASSUME [Next]_vars PROVE [Thread!ThreadNext]_(Thread!threadVars)
    OBVIOUS
  <2> USE DEF Thread!ThreadNext, backoff, limits
  <2>1. CASE Start \/ Ask \/ SleepAgain \/ AttemptFails \/ SleepSecond \/ SleepOver
    BY <2>1 DEF Start, Ask, SleepAgain, AttemptFails, SleepSecond, SleepOver, Thread!StopWorking
  <2>2. CASE GiveUp \/ AttemptSucceeds \/ SleepQuit
    BY <2>2 DEF GiveUp, AttemptSucceeds, SleepQuit, Thread!StopWorking
  <2>3. CASE ReadLimit \/ StoreFound
    BY <2>3 DEF ReadLimit, StoreFound, Thread!StoreLimit
  <2>4. CASE \E c \in Caller : PersistLimit(c) \/ ReadBack(c) \/ CacheLimit(c)
    BY <2>4 DEF PersistLimit, ReadBack, CacheLimit
  <2>5. CASE Quit
    BY <2>5 DEF Quit, Thread!QuitBeacon
  <2>6. CASE ClockChanges \/ UNCHANGED vars
    BY <2>6 DEF ClockChanges, vars
  <2> QED
    BY <2>1, <2>2, <2>3, <2>4, <2>5, <2>6, NextCases
<1> QED
  BY <1>1, <1>2, PTL DEF Spec
=============================================================================
