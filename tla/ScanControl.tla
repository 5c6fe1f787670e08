---------------------------- MODULE ScanControl ----------------------------
(* Who scans for tiles, and when: the loop of the main thread pauses and    *)
(* resumes the LE discovery of the Bluetooth manager, doRingATile stops and *)
(* starts it on an RPC thread, and other programs use the same radio.       *)
(* Every call of the Bluetooth manager is a step of its own.  Time passes   *)
(* in ticks; an age stops growing when nothing tells it apart.              *)
EXTENDS Naturals

CONSTANTS
    MaxRuntime,   \* LE_SCAN_MAX_RUNTIME
    MaxDowntime,  \* LE_SCAN_MAX_DOWNTIME
    LimitTurns,   \* the limit is read on every LimitTurns-th turn
    CallsFail,    \* whether calls of the Bluetooth manager may fail
    Rings         \* whether doRingATile is called

ASSUME TimeAssumption ==
    MaxRuntime \in Nat /\ MaxDowntime \in Nat /\ LimitTurns \in Nat \ {0}
ASSUME OptionAssumption == CallsFail \in BOOLEAN /\ Rings \in BOOLEAN

Caller == {"main", "rpc"}

\* A call of startLeDeviceDiscovery or stopLeDeviceDiscovery: where it is,
\* and what it returned.
Call == [of : {"start", "stop"},
         at : {"check", "stopCheck", "stopCall", "offCheck", "startCall", "returned"},
         ok : BOOLEAN]

VARIABLES
    radio,      \* discovery of the Bluetooth manager: off, ours or another
    limit,      \* whether beacon detection is limited
    isLimited,  \* what the main thread last read of it
    exit,       \* gbExitBTRLeMgr
    mainPc,     \* where the main thread is
    counter,    \* turns of the inner loop
    timer,      \* m_scan_timer_active
    countdown,  \* m_scan_resume_countdown_active
    quiet,      \* age of m_last_discovery_timestamp
    paused,     \* age of m_scan_stoppage_timestamp
    ringPc,     \* where doRingATile is
    call        \* what each thread has last called

external == <<radio, limit, exit>>
flags == <<timer, countdown>>
ages == <<quiet, paused>>
vars == <<external, isLimited, mainPc, counter, flags, ages, ringPc, call>>

TypeOK ==
    /\ radio \in {"off", "le", "other"}
    /\ limit \in BOOLEAN
    /\ isLimited \in BOOLEAN
    /\ exit \in BOOLEAN
    /\ mainPc \in {"top", "start", "loop", "pausing", "resuming", "beat",
                   "limitStop", "quitStop", "done"}
    /\ counter \in 0 .. LimitTurns - 1
    /\ timer \in BOOLEAN
    /\ countdown \in BOOLEAN
    /\ quiet \in 0 .. MaxRuntime
    /\ paused \in 0 .. MaxDowntime
    /\ ringPc \in {"idle", "stopping", "starting"}
    /\ call \in [Caller -> Call]

Init ==
    /\ radio \in {"off", "other"}
    /\ limit \in BOOLEAN
    /\ isLimited = FALSE
    /\ exit = FALSE
    /\ mainPc = "top"
    /\ counter = 0
    /\ timer = FALSE
    /\ countdown = FALSE
    /\ quiet = 0
    /\ paused = 0
    /\ ringPc = "idle"
    /\ call = [c \in Caller |-> [of |-> "stop", at |-> "returned", ok |-> TRUE]]

-----------------------------------------------------------------------------
(* startLeDeviceDiscovery and stopLeDeviceDiscovery *)

Go(c, where) == call' = [call EXCEPT ![c].at = where]
Return(c, ok) == call' = [call EXCEPT ![c].at = "returned", ![c].ok = ok]

\* A stop within a start returns to it.
StopReturns(c, ok) ==
    IF call[c].of = "start" THEN Go(c, "offCheck") ELSE Return(c, ok)

Begin(c, of) ==
    call' = [call EXCEPT ![c].of = of,
                         ![c].at = IF of = "start" THEN "check" ELSE "stopCheck"]

Returned(c, of) == call[c].of = of /\ call[c].at = "returned"

\* Mutant: a discovery of another program is taken for ours.
StopCheckSwapped(c) ==
    /\ call[c].at = "stopCheck"
    /\ \/ radio = "other" /\ Go(c, "stopCall")
       \/ radio = "off" /\ StopReturns(c, TRUE)
       \/ radio = "le" /\ StopReturns(c, FALSE)
       \/ CallsFail /\ \E garbage \in BOOLEAN : StopReturns(c, garbage)

\* If the status cannot be had, an uninitialised variable is compared.
StopCheck(c) ==
    /\ call[c].at = "stopCheck"
    /\ \/ radio = "le" /\ Go(c, "stopCall")
       \/ radio = "off" /\ StopReturns(c, TRUE)
       \/ radio = "other" /\ StopReturns(c, FALSE)
       \/ CallsFail /\ \E garbage \in BOOLEAN : StopReturns(c, garbage)

StopCall(c) ==
    /\ call[c].at = "stopCall"
    /\ \/ radio = "le" /\ radio' = "off" /\ StopReturns(c, TRUE)
       \/ radio # "le" /\ radio' = radio /\ \E ok \in BOOLEAN : StopReturns(c, ok)
       \/ CallsFail /\ radio' = radio /\ StopReturns(c, FALSE)

StartCheck(c) ==
    /\ call[c].at = "check"
    /\ \/ radio = "le" /\ Go(c, "stopCheck")
       \/ (radio # "le" \/ CallsFail) /\ Go(c, "offCheck")

OffCheck(c) ==
    /\ call[c].at = "offCheck"
    /\ \/ radio = "off" /\ Go(c, "startCall")
       \/ (radio # "off" \/ CallsFail) /\ Return(c, FALSE)

StartCall(c) ==
    /\ call[c].at = "startCall"
    /\ \/ radio = "off" /\ radio' = "le" /\ Return(c, TRUE)
       \/ (radio # "off" \/ CallsFail) /\ radio' = radio /\ Return(c, FALSE)

DiscoveryCall(c) ==
    /\ \/ (StopCheck(c) \/ StartCheck(c) \/ OffCheck(c)) /\ UNCHANGED radio
       \/ StopCall(c)
       \/ StartCall(c)
    /\ UNCHANGED <<limit, exit, isLimited, mainPc, counter, flags, ages, ringPc>>

-----------------------------------------------------------------------------
(* Main thread *)

\* getLimitBeaconDetection leaves the variable alone if it fails.
Reading == IF CallsFail THEN {limit, isLimited} ELSE {limit}

\* The outer loop: scan unless limited.
Top ==
    /\ mainPc = "top"
    /\ ~exit
    /\ isLimited' \in Reading
    /\ IF isLimited' THEN UNCHANGED <<mainPc, call>>
       ELSE mainPc' = "start" /\ Begin("main", "start")
    /\ UNCHANGED <<external, counter, flags, ages, ringPc>>

\* Mutant: the timer is started only if the scan was.
ArmIfStarted ==
    /\ mainPc = "start"
    /\ Returned("main", "start")
    /\ mainPc' = "loop"
    /\ counter' = 0
    /\ timer' = call["main"].ok
    /\ quiet' = 0
    /\ UNCHANGED <<external, isLimited, countdown, paused, ringPc, call>>

\* The result of leScanStart is ignored.
Arm ==
    /\ mainPc = "start"
    /\ Returned("main", "start")
    /\ mainPc' = "loop"
    /\ counter' = 0
    /\ timer' = TRUE
    /\ quiet' = 0
    /\ UNCHANGED <<external, isLimited, countdown, paused, ringPc, call>>

RuntimeOver == timer /\ quiet >= MaxRuntime
DowntimeOver == ~timer /\ countdown /\ paused >= MaxDowntime

\* run_periodic_maintenance
Turn ==
    /\ mainPc = "loop"
    /\ ~exit
    /\ \/ RuntimeOver /\ mainPc' = "pausing" /\ Begin("main", "stop")
       \/ DowntimeOver /\ mainPc' = "resuming" /\ Begin("main", "start")
       \/ ~RuntimeOver /\ ~DowntimeOver /\ mainPc' = "beat" /\ UNCHANGED call
    /\ UNCHANGED <<external, isLimited, counter, flags, ages, ringPc>>

\* Mutant: the timer ends although the scan could not be stopped.
PauseUnchecked ==
    /\ mainPc = "pausing"
    /\ Returned("main", "stop")
    /\ timer' = FALSE
    /\ IF call["main"].ok
       THEN countdown' = TRUE /\ paused' = 0 /\ UNCHANGED quiet
       ELSE quiet' = 0 /\ UNCHANGED <<countdown, paused>>
    /\ mainPc' = "beat"
    /\ UNCHANGED <<external, isLimited, counter, ringPc, call>>

Pause ==
    /\ mainPc = "pausing"
    /\ Returned("main", "stop")
    /\ IF call["main"].ok
       THEN timer' = FALSE /\ countdown' = TRUE /\ paused' = 0 /\ UNCHANGED quiet
       ELSE quiet' = 0 /\ UNCHANGED <<flags, paused>>
    /\ mainPc' = "beat"
    /\ UNCHANGED <<external, isLimited, counter, ringPc, call>>

\* Mutant: the timer is not started again.
ResumeUntimed ==
    /\ mainPc = "resuming"
    /\ Returned("main", "start")
    /\ IF call["main"].ok THEN quiet' = 0 /\ UNCHANGED <<flags, paused>>
       ELSE paused' = 0 /\ UNCHANGED <<flags, quiet>>
    /\ mainPc' = "beat"
    /\ UNCHANGED <<external, isLimited, counter, ringPc, call>>

Resume ==
    /\ mainPc = "resuming"
    /\ Returned("main", "start")
    /\ IF call["main"].ok
       THEN quiet' = 0 /\ timer' = TRUE /\ countdown' = FALSE /\ UNCHANGED paused
       ELSE paused' = 0 /\ UNCHANGED <<flags, quiet>>
    /\ mainPc' = "beat"
    /\ UNCHANGED <<external, isLimited, counter, ringPc, call>>

\* Mutant: the counter goes one too far.
BeatLate ==
    /\ mainPc = "beat"
    /\ counter' = (counter + 1) % (LimitTurns + 1)
    /\ isLimited' \in (IF counter' = 0 THEN Reading ELSE {FALSE})
    /\ IF isLimited' THEN mainPc' = "limitStop" /\ Begin("main", "stop")
       ELSE mainPc' = "loop" /\ UNCHANGED call
    /\ UNCHANGED <<external, flags, ages, ringPc>>

\* Mutant: the loop is left without stopping the scan.
BeatWithoutStop ==
    /\ mainPc = "beat"
    /\ counter' = (counter + 1) % LimitTurns
    /\ isLimited' \in (IF counter' = 0 THEN Reading ELSE {FALSE})
    /\ mainPc' = IF isLimited' THEN "top" ELSE "loop"
    /\ UNCHANGED <<external, flags, ages, ringPc, call>>

\* The limit is read on some turns only; isLimited is FALSE in this loop.
Beat ==
    /\ mainPc = "beat"
    /\ counter' = (counter + 1) % LimitTurns
    /\ isLimited' \in (IF counter' = 0 THEN Reading ELSE {FALSE})
    /\ IF isLimited' THEN mainPc' = "limitStop" /\ Begin("main", "stop")
       ELSE mainPc' = "loop" /\ UNCHANGED call
    /\ UNCHANGED <<external, flags, ages, ringPc>>

LimitStopped ==
    /\ mainPc = "limitStop"
    /\ Returned("main", "stop")
    /\ mainPc' = "top"
    /\ UNCHANGED <<external, isLimited, counter, flags, ages, ringPc, call>>

\* Mutant: the inner loop is left for a limit only.
LeaveIfLimited ==
    /\ mainPc = "loop"
    /\ exit /\ isLimited
    /\ mainPc' = "top"
    /\ UNCHANGED <<external, isLimited, counter, flags, ages, ringPc, call>>

Leave ==
    /\ mainPc = "loop"
    /\ exit
    /\ mainPc' = "top"
    /\ UNCHANGED <<external, isLimited, counter, flags, ages, ringPc, call>>

\* Mutant: the scan is not stopped at the end.
QuitScanning ==
    /\ mainPc = "top"
    /\ exit
    /\ mainPc' = "done"
    /\ UNCHANGED <<external, isLimited, counter, flags, ages, ringPc, call>>

Quit ==
    /\ mainPc = "top"
    /\ exit
    /\ mainPc' = "quitStop"
    /\ Begin("main", "stop")
    /\ UNCHANGED <<external, isLimited, counter, flags, ages, ringPc>>

QuitStopped ==
    /\ mainPc = "quitStop"
    /\ Returned("main", "stop")
    /\ mainPc' = "done"
    /\ UNCHANGED <<external, isLimited, counter, flags, ages, ringPc, call>>

MainNext == Top \/ Arm \/ Turn \/ Pause \/ Resume \/ Beat \/ LimitStopped
                \/ Leave \/ Quit \/ QuitStopped \/ DiscoveryCall("main")

-----------------------------------------------------------------------------
(* doRingATile on an RPC thread: no discovery while it rings *)

RingBegin ==
    /\ Rings
    /\ ringPc = "idle"
    /\ ringPc' = "stopping"
    /\ Begin("rpc", "stop")
    /\ UNCHANGED <<external, isLimited, mainPc, counter, flags, ages>>

RingRung ==
    /\ ringPc = "stopping"
    /\ Returned("rpc", "stop")
    /\ ringPc' = "starting"
    /\ Begin("rpc", "start")
    /\ UNCHANGED <<external, isLimited, mainPc, counter, flags, ages>>

RingEnd ==
    /\ ringPc = "starting"
    /\ Returned("rpc", "start")
    /\ ringPc' = "idle"
    /\ UNCHANGED <<external, isLimited, mainPc, counter, flags, ages, call>>

RingNext == RingRung \/ RingEnd \/ DiscoveryCall("rpc")

-----------------------------------------------------------------------------
(* Listener, cloud, signal, other programs, clock *)

\* The listener hears a tile.
Heard ==
    /\ quiet' = 0
    /\ UNCHANGED <<external, isLimited, mainPc, counter, flags, paused, ringPc, call>>

SetLimit ==
    /\ limit' \in BOOLEAN
    /\ UNCHANGED <<radio, exit, isLimited, mainPc, counter, flags, ages, ringPc, call>>

\* SIGTERM
Terminate ==
    /\ exit' = TRUE
    /\ UNCHANGED <<radio, limit, isLimited, mainPc, counter, flags, ages, ringPc, call>>

\* A discovery of another program starts or ends, or ours ends by itself.
RadioChanges ==
    /\ \/ radio = "off" /\ radio' = "other"
       \/ radio # "off" /\ radio' = "off"
    /\ UNCHANGED <<limit, exit, isLimited, mainPc, counter, flags, ages, ringPc, call>>

Older(age, max) == IF age < max THEN age + 1 ELSE max

Tick ==
    /\ quiet' = Older(quiet, MaxRuntime)
    /\ paused' = Older(paused, MaxDowntime)
    /\ UNCHANGED <<external, isLimited, mainPc, counter, flags, ringPc, call>>

Next == MainNext \/ RingBegin \/ RingNext \/ Heard \/ SetLimit \/ Terminate
            \/ RadioChanges \/ Tick

Spec == Init /\ [][Next]_vars

\* The threads run, the calls of the Bluetooth manager return, and time
\* passes.  Nothing is assumed of tiles, cloud and other programs.
FairSpec == Spec /\ WF_vars(MainNext) /\ WF_vars(RingNext) /\ WF_vars(Tick)

-----------------------------------------------------------------------------
(* Properties *)

\* The inner loop never runs without a timer that will stop or resume the
\* scan, whatever calls fail (the two flags of run_periodic_maintenance).
NeverAbandoned == mainPc \in {"loop", "beat"} => timer \/ countdown

\* "scanning is disabled for LE_SCAN_MAX_DOWNTIME" (btrTileMgr.cpp:2151):
\* between pause and resumption there is no discovery of ours.
PausedIsOff ==
    (mainPc \in {"loop", "beat"} /\ ~timer) => radio # "le"

\* "Stop Le Discovery" (btrLeMgr.cpp:191): none is left on after the end.
DoneIsOff == mainPc = "done" => radio # "le"

\* Scanning is "re-enabled again" (btrTileMgr.cpp:2151), though the result
\* of the first start is ignored, if from some time on nobody else uses the
\* radio and tiles are heard in a discovery only.
ScanResumes ==
    (/\ <>[](radio # "other") /\ <>[]~limit /\ []~exit
     /\ <>[][Heard => radio # "off"]_vars) => []<>(radio = "le")

\* "LE scan is allowed to run until there are no new discovery events"
\* (btrTileMgr.cpp:2150): then it is stopped.
ScanPauses == <>[][~Heard]_vars => []<>(radio # "le")

\* A limit on beacon detection that stays ends the scan for good.
LimitStopsScan == <>[]limit => <>[](radio # "le")

\* After SIGTERM the main thread leaves its loops.
ExitIsReached == exit ~> mainPc = "done"
=============================================================================
