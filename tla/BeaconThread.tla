---------------------------- MODULE BeaconThread ----------------------------
(* What the beacon detection thread promises the rest of the process: it    *)
(* works for as long as it likes, stores the limit in the tile manager once *)
(* and ends; after a quit it stops working.  BeaconDetect implements it,    *)
(* Lifecycle relies on it.                                                  *)
VARIABLES
    at,         \* what the thread does
    terminate   \* bTerminateBeaconDetect

threadVars == <<at, terminate>>

ThreadTypeOK ==
    /\ at \in {"working", "storing", "done"}
    /\ terminate \in BOOLEAN

ThreadInit == at = "working" /\ terminate = FALSE

StopWorking == at = "working" /\ at' = "storing" /\ UNCHANGED terminate

StoreLimit == at = "storing" /\ at' = "done" /\ UNCHANGED terminate

\* quitBeaconDetection
QuitBeacon == terminate' = TRUE /\ UNCHANGED at

ThreadNext == StopWorking \/ StoreLimit \/ QuitBeacon

\* A thread that was told to quit stops working; the store returns.
ThreadFairness ==
    /\ WF_threadVars(terminate /\ StopWorking)
    /\ WF_threadVars(StoreLimit)

ThreadSpec == ThreadInit /\ [][ThreadNext]_threadVars /\ ThreadFairness
=============================================================================
