------------------------- MODULE ScanControlProofs -------------------------
(* Theorems about ScanControl, for all times and every period of the limit. *)
EXTENDS ScanControl, TLAPS

\* The steps of the system, one by one.
LEMMA NextCases ==
    ASSUME Next
    PROVE  \/ Top \/ Arm \/ Turn \/ Pause \/ Resume \/ Beat
           \/ LimitStopped \/ Leave \/ Quit \/ QuitStopped
           \/ \E c \in Caller : DiscoveryCall(c)
           \/ RingBegin \/ RingRung \/ RingEnd
           \/ Heard \/ SetLimit \/ Terminate \/ RadioChanges \/ Tick
  BY DEF Next, MainNext, RingNext, Caller

\* Every way to change a call keeps its type.
LEMMA CallSteps ==
    ASSUME TypeOK, NEW c \in Caller, NEW ok \in BOOLEAN,
           NEW of \in {"start", "stop"},
           NEW where \in {"check", "stopCheck", "stopCall", "offCheck", "startCall"}
    PROVE  /\ Go(c, where) => call' \in [Caller -> Call]
           /\ Return(c, ok) => call' \in [Caller -> Call]
           /\ StopReturns(c, ok) => call' \in [Caller -> Call]
           /\ Begin(c, of) => call' \in [Caller -> Call]
<1>1. call[c] \in Call
  BY DEF TypeOK
<1>2. /\ [call[c] EXCEPT !.at = where] \in Call
      /\ [call[c] EXCEPT !.at = "offCheck"] \in Call
      /\ [call[c] EXCEPT !.at = "returned", !.ok = ok] \in Call
      /\ [call[c] EXCEPT !.of = of, !.at = IF of = "start" THEN "check" ELSE "stopCheck"] \in Call
  BY <1>1 DEF Call
<1>3. Go(c, where) => call' \in [Caller -> Call]
  BY <1>2 DEF Go, TypeOK
<1>4. Return(c, ok) => call' \in [Caller -> Call]
  BY <1>2 DEF Return, TypeOK
<1>5. Go(c, "offCheck") => call' \in [Caller -> Call]
  BY <1>2 DEF Go, TypeOK
<1>6. Begin(c, of) => call' \in [Caller -> Call]
  BY <1>2 DEF Begin, TypeOK
<1> QED
  BY <1>3, <1>4, <1>5, <1>6 DEF StopReturns

\* The flags, time stamps and calls of scan control are well typed.
THEOREM TypeCorrect == Spec => []TypeOK
<1>1. Init => TypeOK
  <2> SUFFICES ASSUME Init PROVE TypeOK
    OBVIOUS
  <2>1. call \in [Caller -> Call]
    BY DEF Init, Call
  <2>2. counter \in 0 .. LimitTurns - 1 /\ quiet \in 0 .. MaxRuntime
          /\ paused \in 0 .. MaxDowntime
    BY TimeAssumption DEF Init
  <2> QED
    BY <2>1, <2>2 DEF Init, TypeOK
<1>2. TypeOK /\ [Next]_vars => TypeOK'
  <2> SUFFICES ASSUME TypeOK, [Next]_vars PROVE TypeOK'
    OBVIOUS
  <2> USE DEF external, flags, ages
  <2>0. 0 \in 0 .. LimitTurns - 1 /\ 0 \in 0 .. MaxRuntime /\ 0 \in 0 .. MaxDowntime
    BY TimeAssumption
  <2>1. CASE Top
    <3>1. isLimited' \in BOOLEAN
      BY <2>1 DEF Top, Reading, TypeOK
    <3>2. call' \in [Caller -> Call]
      BY <2>1, CallSteps, TRUE \in BOOLEAN DEF Top, TypeOK, Caller
    <3> QED
      BY <2>1, <3>1, <3>2 DEF Top, TypeOK
  <2>2. CASE Arm
    BY <2>0, <2>2 DEF Arm, TypeOK
  <2>3. CASE Turn
    <3>1. call' \in [Caller -> Call]
      BY <2>3, CallSteps, TRUE \in BOOLEAN DEF Turn, TypeOK, Caller
    <3> QED
      BY <2>3, <3>1 DEF Turn, TypeOK
  <2>4. CASE Pause
    BY <2>0, <2>4 DEF Pause, TypeOK
  <2>5. CASE Resume
    BY <2>0, <2>5 DEF Resume, TypeOK
  <2>6. CASE Beat
    <3>1. isLimited' \in BOOLEAN
      BY <2>6 DEF Beat, Reading, TypeOK
    <3>2. call' \in [Caller -> Call]
      BY <2>6, CallSteps, TRUE \in BOOLEAN DEF Beat, TypeOK, Caller
    <3>3. counter' \in 0 .. LimitTurns - 1
      BY <2>6, TimeAssumption DEF Beat, TypeOK
    <3> QED
      BY <2>6, <3>1, <3>2, <3>3 DEF Beat, TypeOK
  <2>7. CASE LimitStopped \/ Leave \/ QuitStopped
    BY <2>7 DEF LimitStopped, Leave, QuitStopped, TypeOK
  <2>8. CASE Quit
    <3>1. call' \in [Caller -> Call]
      BY <2>8, CallSteps, TRUE \in BOOLEAN DEF Quit, Caller
    <3> QED
      BY <2>8, <3>1 DEF Quit, TypeOK
  <2>9. ASSUME NEW c \in Caller, DiscoveryCall(c) PROVE TypeOK'
    <3>1. call' \in [Caller -> Call]
      BY <2>9, CallSteps, TRUE \in BOOLEAN, FALSE \in BOOLEAN
         DEF DiscoveryCall, StopCheck, StartCheck, OffCheck, StopCall, StartCall
    <3>2. radio' \in {"off", "le", "other"}
      BY <2>9 DEF DiscoveryCall, StopCall, StartCall, TypeOK
    <3> QED
      BY <2>9, <3>1, <3>2 DEF DiscoveryCall, TypeOK
  <2>10. CASE RingBegin \/ RingRung
    <3>1. call' \in [Caller -> Call]
      BY <2>10, CallSteps, TRUE \in BOOLEAN DEF RingBegin, RingRung, Caller
    <3> QED
      BY <2>10, <3>1 DEF RingBegin, RingRung, TypeOK
  <2>11. CASE RingEnd
    BY <2>11 DEF RingEnd, TypeOK
  <2>12. CASE Heard
    BY <2>0, <2>12 DEF Heard, TypeOK
  <2>13. CASE SetLimit \/ Terminate \/ RadioChanges
    BY <2>13 DEF SetLimit, Terminate, RadioChanges, TypeOK
  <2>14. CASE Tick
    BY <2>14, TimeAssumption DEF Tick, Older, TypeOK
  <2>15. CASE UNCHANGED vars
    BY <2>15 DEF vars, TypeOK
  <2> QED
    BY <2>1, <2>2, <2>3, <2>4, <2>5, <2>6, <2>7, <2>8, <2>9, <2>10, <2>11,
       <2>12, <2>13, <2>14, <2>15, NextCases
<1> QED
  BY <1>1, <1>2, PTL DEF Spec

-----------------------------------------------------------------------------
(* The loop always has a timer, whatever fails. *)

\* While the main thread pauses or resumes, one of the flags is set as well.
TimerInv ==
    mainPc \in {"loop", "pausing", "resuming", "beat"} => timer \/ countdown

\* run_periodic_maintenance never clears both flags.
THEOREM NeverAbandonedCorrect == Spec => []NeverAbandoned
<1>1. Init => TimerInv
  BY DEF Init, TimerInv
<1>2. TypeOK /\ TimerInv /\ [Next]_vars => TimerInv'
  <2> SUFFICES ASSUME TypeOK, TimerInv, [Next]_vars PROVE TimerInv'
    OBVIOUS
  <2> USE DEF TimerInv, flags, external
  <2>1. CASE Pause \/ Resume
    BY <2>1, Zenon DEF Pause, Resume
  <2>2. CASE Next /\ ~Pause /\ ~Resume
    BY <2>2, NextCases DEF Top, Arm, Turn, Beat, LimitStopped, Leave, Quit,
       QuitStopped, DiscoveryCall, RingBegin, RingRung, RingEnd, Heard,
       SetLimit, Terminate, RadioChanges, Tick
  <2>3. CASE UNCHANGED vars
    BY <2>3 DEF vars
  <2> QED
    BY <2>1, <2>2, <2>3
<1>3. TimerInv => NeverAbandoned
  BY DEF TimerInv, NeverAbandoned
<1> QED
  BY <1>1, <1>2, <1>3, TypeCorrect, PTL DEF Spec

-----------------------------------------------------------------------------
(* When nothing fails and doRingATile is not used, the main thread alone    *)
(* decides about our discovery.                                             *)

\* doRingATile is not under way.
RingIdle == ringPc = "idle" /\ call["rpc"].at = "returned"

\* The call that belongs to the place the main thread is at.
CallMatches ==
    /\ mainPc \in {"start", "resuming"} => call["main"].of = "start"
    /\ mainPc \in {"pausing", "limitStop", "quitStop", "done"}
          => call["main"].of = "stop"
    /\ mainPc \in {"top", "loop", "beat", "done"} => call["main"].at = "returned"

\* The places only a start gets to.
StartPlaces ==
    call["main"].at \in {"check", "offCheck", "startCall"}
        => call["main"].of = "start"

\* There is a discovery of ours only if the last call has not stopped it.
LeIsOurs ==
    radio = "le" =>
        \/ call["main"].at \in {"check", "stopCheck", "stopCall"}
        \/ call["main"].at = "returned" /\ call["main"].of = "start" /\ call["main"].ok

\* Without the timer, the last call has not started a discovery.
UntimedNotStarted ==
    /\ mainPc = "pausing" => timer
    /\ mainPc \in {"loop", "beat"} /\ ~timer
          => ~(call["main"].of = "start" /\ call["main"].ok)

ScanInv == RingIdle /\ CallMatches /\ StartPlaces /\ LeIsOurs /\ UntimedNotStarted

\* Where a call of the main thread may be when it is under way.
LEMMA CallUnderWay ==
    ASSUME ~CallsFail, ~Rings, TypeOK, ScanInv,
           NEW c \in Caller, DiscoveryCall(c)
    PROVE  ScanInv'
<1>1. c = "main" /\ call["main"].at # "returned"
  BY DEF DiscoveryCall, StopCheck, StartCheck, OffCheck, StopCall, StartCall,
         ScanInv, RingIdle, Caller
<1>2. mainPc \in {"start", "pausing", "resuming", "limitStop", "quitStop"}
  BY <1>1 DEF ScanInv, CallMatches, TypeOK
<1>3. call["main"] \in Call /\ call["rpc"] \in Call
  BY DEF TypeOK, Caller
<1>4. call' = [call EXCEPT !["main"] = call'["main"]]
        /\ call'["main"].of = call["main"].of
  BY <1>1, <1>3 DEF DiscoveryCall, StopCheck, StartCheck, OffCheck, StopCall,
     StartCall, Go, Return, StopReturns, TypeOK, Caller, Call
<1>5. UNCHANGED <<mainPc, timer, ringPc>>
  BY DEF DiscoveryCall, flags
<1>6. RingIdle'
  BY <1>3, <1>4, <1>5 DEF ScanInv, RingIdle, TypeOK, Caller
<1>7. CallMatches'
  BY <1>1, <1>2, <1>4, <1>5 DEF ScanInv, CallMatches
<1>8. UntimedNotStarted'
  BY <1>2, <1>5 DEF ScanInv, UntimedNotStarted
<1>9. LeIsOurs' /\ StartPlaces'
  <2> USE <1>1, <1>3 DEF ScanInv, LeIsOurs, StartPlaces, Go, Return, StopReturns, TypeOK,
                         Caller, Call
  <2>1. CASE StopCheck("main") /\ UNCHANGED radio
    BY <2>1 DEF StopCheck
  <2>2. CASE StartCheck("main") /\ UNCHANGED radio
    BY <2>2 DEF StartCheck
  <2>3. CASE OffCheck("main") /\ UNCHANGED radio
    BY <2>3 DEF OffCheck
  <2>4. CASE StopCall("main")
    BY <2>4 DEF StopCall
  <2>5. CASE StartCall("main")
    BY <2>5 DEF StartCall
  <2> QED
    BY <2>1, <2>2, <2>3, <2>4, <2>5 DEF DiscoveryCall
<1> QED
  BY <1>6, <1>7, <1>8, <1>9 DEF ScanInv

\* If no call fails and nobody rings, discovery is ours only while the timer
\* runs or a call is under way.
LEMMA ScanInvariant ==
    ASSUME ~CallsFail, ~Rings
    PROVE  Spec => []ScanInv
<1>1. Init => ScanInv
  BY DEF Init, ScanInv, RingIdle, CallMatches, StartPlaces, LeIsOurs,
     UntimedNotStarted, Caller
<1>2. TypeOK /\ ScanInv /\ [Next]_vars => ScanInv'
  <2> SUFFICES ASSUME TypeOK, ScanInv, [Next]_vars PROVE ScanInv'
    OBVIOUS
  <2> USE DEF RingIdle, CallMatches, StartPlaces, LeIsOurs, UntimedNotStarted,
              external, flags, ages
  <2>0. call \in [Caller -> Call] /\ "main" \in Caller /\ "rpc" \in Caller
    BY DEF TypeOK, Caller
  <2>1. ASSUME NEW c \in Caller, DiscoveryCall(c) PROVE ScanInv'
    BY <2>1, CallUnderWay
  <2>b. /\ Begin("main", "start") => /\ call'["main"].of = "start"
                                     /\ call'["main"].at = "check"
                                     /\ call'["rpc"] = call["rpc"]
        /\ Begin("main", "stop") => /\ call'["main"].of = "stop"
                                    /\ call'["main"].at = "stopCheck"
                                    /\ call'["rpc"] = call["rpc"]
    BY <2>0 DEF Begin, Call
  <2>2. CASE Top
    BY <2>b, <2>2 DEF Top, ScanInv
  <2>3. CASE Turn
    BY <2>b, <2>3 DEF Turn, RuntimeOver, DowntimeOver, ScanInv
  <2>4. CASE Beat
    BY <2>b, <2>4 DEF Beat, ScanInv
  <2>5. CASE Quit
    BY <2>b, <2>5 DEF Quit, ScanInv
  <2>6. CASE Arm
    BY <2>6 DEF Arm, Returned, ScanInv
  <2>7. CASE Pause
    BY <2>7 DEF Pause, Returned, ScanInv
  <2>8. CASE Resume
    BY <2>8, Zenon DEF Resume, Returned, ScanInv
  <2>9. CASE LimitStopped \/ Leave \/ QuitStopped
    BY <2>9 DEF LimitStopped, Leave, QuitStopped, Returned, ScanInv
  <2>10. CASE RingBegin \/ RingRung \/ RingEnd
    BY <2>10 DEF RingBegin, RingRung, RingEnd, ScanInv
  <2>11. CASE Heard \/ SetLimit \/ Terminate \/ RadioChanges \/ Tick
    BY <2>11 DEF Heard, SetLimit, Terminate, RadioChanges, Tick, ScanInv
  <2>12. CASE UNCHANGED vars
    BY <2>12 DEF vars, ScanInv
  <2> QED
    BY <2>1, <2>2, <2>3, <2>4, <2>5, <2>6, <2>7, <2>8, <2>9, <2>10, <2>11,
       <2>12, NextCases
<1> QED
  BY <1>1, <1>2, TypeCorrect, PTL DEF Spec

\* Between pause and resumption there is no discovery of ours
\* (run_periodic_maintenance), if nothing fails and nobody rings.
THEOREM PausedIsOffCorrect ==
    ASSUME ~CallsFail, ~Rings
    PROVE  Spec => []PausedIsOff
<1>1. ScanInv => PausedIsOff
  BY DEF ScanInv, PausedIsOff, CallMatches, LeIsOurs, UntimedNotStarted
<1> QED
  BY <1>1, ScanInvariant, PTL

\* None is left on after the end of main.
THEOREM DoneIsOffCorrect ==
    ASSUME ~CallsFail, ~Rings
    PROVE  Spec => []DoneIsOff
<1>1. ScanInv => DoneIsOff
  BY DEF ScanInv, DoneIsOff, CallMatches, LeIsOurs
<1> QED
  BY <1>1, ScanInvariant, PTL
=============================================================================
