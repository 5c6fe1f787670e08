----------------------------- MODULE Lifecycle -----------------------------
(* Start and shutdown: main makes the tile manager and its threads, waits   *)
(* for SIGTERM, stops the threads and releases what it made, while RPC      *)
(* calls ask for the same tile manager and the Bluetooth manager calls back.*)
(* Threads wait on condition variables: a notification wakes who sleeps,    *)
(* and is lost on everybody else.                                           *)
EXTENDS Naturals, FiniteSets

CONSTANTS
    Caller,          \* RPC threads
    MaxCalls,        \* calls that arrive in all
    MaxEvents,       \* events that wait in one queue
    MaxManagers,     \* tile managers that can be made
    TermWaits,       \* whether leaving the bus waits for calls under way
    StrayCallbacks   \* whether callbacks come when there is no interface

ASSUME BoundAssumption ==
    MaxCalls \in Nat /\ MaxEvents \in Nat \ {0} /\ MaxManagers \in Nat \ {0}
ASSUME OptionAssumption ==
    TermWaits \in BOOLEAN /\ StrayCallbacks \in BOOLEAN
ASSUME CallerAssumption ==
    IsFiniteSet(Caller) /\ "main" \notin Caller /\ "processor" \notin Caller

Manager == 1 .. MaxManagers
None == 0
Thread == Caller \cup {"main"}

VARIABLES
    mainPc,      \* where main is
    exit,        \* gbExitBTRLeMgr
    bus,         \* whether RPC calls arrive
    calls,       \* calls that have arrived
    early,       \* and those that came before main had its tile manager
    get,         \* getInstance on each thread, and what it has
    use,         \* what each RPC thread does with the tile manager
    instance,    \* BtrTileMgr::instance
    ifInstance,  \* BtrMgrIf::m_instance
    made,        \* tile managers made so far
    ifMade,      \* interfaces made so far
    ifOf,        \* m_pBtrMgrIfce of each tile manager
    gone,        \* tile managers that were deleted
    ifGone,      \* interfaces that were deleted
    feature,     \* m_isTileRingFeatureEnabled
    callback,    \* whether the Bluetooth manager calls back
    crashed,     \* a callback has used the null m_instance
    events,      \* length of m_queue of each interface
    lsPc,        \* where the listener of main's tile manager is
    quitThread,  \* its m_bQuitThread
    requests,    \* length of m_request_queue
    mutex,       \* who holds m_request_mutex
    run,         \* m_run_request_processor
    procPc,      \* where each request processor is
    at,          \* the beacon thread
    terminate    \* and its quit flag (BeaconThread)

Beacon == INSTANCE BeaconThread

objects == <<instance, ifInstance, made, ifMade, ifOf, gone, ifGone, feature, callback>>
listener == <<events, lsPc, quitThread>>
processor == <<requests, mutex, run, procPc>>
rpc == <<bus, calls, early, use>>
vars == <<mainPc, exit, rpc, get, objects, crashed, listener, processor, at, terminate>>

Getting == [at : {"no", "check", "ifCheck", "ifNew", "ifAssign", "make",
                  "assign", "feature", "return"},
            iface : Manager \cup {None}, manager : Manager \cup {None}]

TypeOK ==
    /\ mainPc \in {"register", "get", "beacon", "listen", "loop", "quitFlag",
                   "quitEvent", "quitBeacon", "joinListener", "joinBeacon", "term",
                   "lockRun", "clearRun", "notify", "joinProcessor", "releaseIf",
                   "forget", "done"}
    /\ exit \in BOOLEAN /\ bus \in BOOLEAN
    /\ calls \in 0 .. MaxCalls /\ early \in 0 .. calls
    /\ get \in [Thread -> Getting]
    /\ use \in [Caller -> {"no", "queue", "notify"}]
    /\ instance \in Manager \cup {None}
    /\ ifInstance \in Manager \cup {None}
    /\ made \in 0 .. MaxManagers
    /\ ifMade \in 0 .. MaxManagers
    /\ ifOf \in [Manager -> Manager \cup {None}]
    /\ gone \subseteq Manager /\ ifGone \subseteq Manager
    /\ feature \in BOOLEAN /\ callback \in BOOLEAN /\ crashed \in BOOLEAN
    /\ events \in [Manager -> Nat]
    /\ lsPc \in {"no", "top", "pop", "asleep", "handle", "stuck", "done"}
    /\ quitThread \in BOOLEAN
    /\ requests \in [Manager -> Nat]
    /\ mutex \in [Manager -> Thread \cup {"processor", "nobody"}]
    /\ run \in [Manager -> BOOLEAN]
    /\ procPc \in [Manager -> {"no", "top", "lock", "test", "park", "asleep", "work", "done"}]
    /\ Beacon!ThreadTypeOK

Init ==
    /\ mainPc = "register" /\ exit = FALSE
    /\ bus = FALSE /\ calls = 0 /\ early = 0 /\ use = [c \in Caller |-> "no"]
    /\ get = [t \in Thread |-> [at |-> "no", iface |-> None, manager |-> None]]
    /\ instance = None /\ ifInstance = None /\ made = 0 /\ ifMade = 0
    /\ ifOf = [m \in Manager |-> None] /\ gone = {} /\ ifGone = {}
    /\ feature = FALSE /\ callback = FALSE /\ crashed = FALSE
    /\ events = [m \in Manager |-> 0] /\ lsPc = "no" /\ quitThread = FALSE
    /\ requests = [m \in Manager |-> 0] /\ mutex = [m \in Manager |-> "nobody"]
    /\ run = [m \in Manager |-> TRUE] /\ procPc = [m \in Manager |-> "no"]
    /\ Beacon!ThreadInit

-----------------------------------------------------------------------------
(* getInstance of the tile manager and, in its constructor, of the interface *)

Go(t, where) == get' = [get EXCEPT ![t].at = where]

\* Mutant: whoever asks makes a new one.
GetCheckMissing(t) ==
    /\ get[t].at = "check"
    /\ Go(t, "ifCheck")
    /\ UNCHANGED objects

GetCheck(t) ==
    /\ get[t].at = "check"
    /\ Go(t, IF instance = None THEN "ifCheck" ELSE "return")
    /\ UNCHANGED objects

GetIfCheck(t) ==
    /\ get[t].at = "ifCheck"
    /\ get' = [get EXCEPT ![t].at = IF ifInstance = None THEN "ifNew" ELSE "make",
                          ![t].iface = ifInstance]
    /\ UNCHANGED objects

\* BtrMgrIf's constructor registers the callback; BTRMGR_Init may fail.
GetIfNew(t) ==
    /\ get[t].at = "ifNew"
    /\ ifMade < MaxManagers
    /\ ifMade' = ifMade + 1
    /\ get' = [get EXCEPT ![t].at = "ifAssign", ![t].iface = ifMade']
    /\ callback' \in {callback, TRUE}
    /\ UNCHANGED <<instance, ifInstance, made, ifOf, gone, ifGone, feature>>

GetIfAssign(t) ==
    /\ get[t].at = "ifAssign"
    /\ ifInstance' = get[t].iface
    /\ Go(t, "make")
    /\ UNCHANGED <<instance, made, ifMade, ifOf, gone, ifGone, feature, callback>>

\* The constructor starts the request processor.
GetMake(t) ==
    /\ get[t].at = "make"
    /\ made < MaxManagers
    /\ made' = made + 1
    /\ ifOf' = [ifOf EXCEPT ![made'] = get[t].iface]
    /\ procPc' = [procPc EXCEPT ![made'] = "top"]
    /\ get' = [get EXCEPT ![t].at = "assign", ![t].manager = made']
    /\ UNCHANGED <<instance, ifInstance, ifMade, gone, ifGone, feature, callback>>

GetAssign(t) ==
    /\ get[t].at = "assign"
    /\ instance' = get[t].manager
    /\ Go(t, "feature")
    /\ UNCHANGED <<ifInstance, made, ifMade, ifOf, gone, ifGone, feature, callback>>

\* checkRfcFeatureOfTileRing
GetFeature(t) ==
    /\ get[t].at = "feature"
    /\ feature' \in {feature, TRUE}
    /\ Go(t, "return")
    /\ UNCHANGED <<instance, ifInstance, made, ifMade, ifOf, gone, ifGone, callback>>

GetStep(t) ==
    /\ \/ GetMake(t)
       \/ /\ GetCheck(t) \/ GetIfCheck(t) \/ GetIfNew(t) \/ GetIfAssign(t)
             \/ GetAssign(t) \/ GetFeature(t)
          /\ UNCHANGED procPc
    /\ UNCHANGED <<mainPc, exit, rpc, crashed, listener, requests, mutex, run, at, terminate>>

-----------------------------------------------------------------------------
(* main *)

MainGoes(from, to) == mainPc = from /\ mainPc' = to

\* btrLeMgr_BeginIARMMode: calls arrive before there is a tile manager.
Register ==
    /\ MainGoes("register", "get")
    /\ bus' = TRUE
    /\ Go("main", "check")
    /\ UNCHANGED <<exit, calls, early, use, objects, crashed, listener, processor, at, terminate>>

\* The static is read once more when getInstance returns.
MainHas ==
    /\ get["main"].at = "return"
    /\ MainGoes("get", "beacon")
    /\ get' = [get EXCEPT !["main"].at = "no", !["main"].manager = instance]
    /\ UNCHANGED <<exit, rpc, objects, crashed, listener, processor, at, terminate>>

Mine == get["main"].manager

StartBeacon ==
    /\ MainGoes("beacon", "listen")
    /\ UNCHANGED <<exit, rpc, get, objects, crashed, listener, processor, at, terminate>>

StartListener ==
    /\ MainGoes("listen", "loop")
    /\ lsPc' = "top"
    /\ UNCHANGED <<exit, rpc, get, objects, crashed, events, quitThread, processor, at, terminate>>

\* The loops of main are left (ScanControl), the scan is stopped.
LeaveLoop ==
    /\ MainGoes("loop", "quitFlag")
    /\ exit
    /\ UNCHANGED <<exit, rpc, get, objects, crashed, listener, processor, at, terminate>>

\* eventListenerQuit: the flag, then an event that wakes the listener.
QuitFlag ==
    /\ MainGoes("quitFlag", "quitEvent")
    /\ quitThread' = TRUE
    /\ UNCHANGED <<exit, rpc, get, objects, crashed, events, lsPc, processor, at, terminate>>

\* pushEvent, with its notification of the one listener.
Pushed(i) ==
    /\ events' = [events EXCEPT ![i] = @ + 1]
    /\ lsPc' = IF lsPc = "asleep" /\ i = ifOf[Mine] THEN "pop" ELSE lsPc

\* shutdownIfce posts to the interface of the static.
QuitEvent ==
    /\ MainGoes("quitEvent", "quitBeacon")
    /\ Pushed(ifInstance)
    /\ UNCHANGED <<exit, rpc, get, objects, crashed, quitThread, processor, at, terminate>>

QuitBeacon ==
    /\ MainGoes("quitBeacon", "joinListener")
    /\ Beacon!QuitBeacon
    /\ UNCHANGED <<exit, rpc, get, objects, crashed, listener, processor>>

JoinListener ==
    /\ MainGoes("joinListener", "joinBeacon")
    /\ lsPc = "done"
    /\ UNCHANGED <<exit, rpc, get, objects, crashed, listener, processor, at, terminate>>

\* Mutant: the beacon thread is not waited for.
JoinBeaconForgotten ==
    /\ MainGoes("joinBeacon", "term")
    /\ UNCHANGED <<exit, rpc, get, objects, crashed, listener, processor, at, terminate>>

JoinBeacon ==
    /\ MainGoes("joinBeacon", "term")
    /\ at = "done"
    /\ UNCHANGED <<exit, rpc, get, objects, crashed, listener, processor, at, terminate>>

Calling == {c \in Caller : get[c].at # "no" \/ use[c] # "no"}

\* btrLeMgr_TermIARMMode
Term ==
    /\ MainGoes("term", "lockRun")
    /\ TermWaits => Calling = {}
    /\ bus' = FALSE
    /\ UNCHANGED <<exit, calls, early, use, get, objects, crashed, listener, processor, at, terminate>>

\* Mutant: the flag is cleared without the mutex.
LockRunSkipped ==
    /\ MainGoes("lockRun", "clearRun")
    /\ UNCHANGED <<exit, rpc, get, objects, crashed, listener, processor, at, terminate>>

\* releaseInstance and the destructor: the flag is cleared under the mutex.
LockRun ==
    /\ MainGoes("lockRun", "clearRun")
    /\ mutex[instance] = "nobody"
    /\ mutex' = [mutex EXCEPT ![instance] = "main"]
    /\ UNCHANGED <<exit, rpc, get, objects, crashed, listener, requests, run, procPc, at, terminate>>

ClearRun ==
    /\ MainGoes("clearRun", "notify")
    /\ run' = [run EXCEPT ![instance] = FALSE]
    /\ mutex' = [mutex EXCEPT ![instance] = "nobody"]
    /\ UNCHANGED <<exit, rpc, get, objects, crashed, listener, requests, procPc, at, terminate>>

\* notify_all on m_request_q_cond.
Woken(m) == procPc' = [procPc EXCEPT ![m] = IF @ = "asleep" THEN "lock" ELSE @]

NotifyProcessor ==
    /\ MainGoes("notify", "joinProcessor")
    /\ Woken(instance)
    /\ UNCHANGED <<exit, rpc, get, objects, crashed, listener, requests, mutex, run, at, terminate>>

\* The tile manager is gone when its processor is joined.
JoinProcessor ==
    /\ MainGoes("joinProcessor", "releaseIf")
    /\ procPc[instance] = "done"
    /\ gone' = gone \cup {instance}
    /\ UNCHANGED <<exit, rpc, get, instance, ifInstance, made, ifMade, ifOf, ifGone, feature,
                   callback, crashed, listener, processor, at, terminate>>

\* The base class releases the interface; the callback stays registered.
ReleaseIf ==
    /\ MainGoes("releaseIf", "forget")
    /\ ifGone' = ifGone \cup ({ifInstance} \ {None})
    /\ ifInstance' = None
    /\ UNCHANGED <<exit, rpc, get, instance, made, ifMade, ifOf, gone, feature, callback,
                   crashed, listener, processor, at, terminate>>

Forget ==
    /\ MainGoes("forget", "done")
    /\ instance' = None
    /\ UNCHANGED <<exit, rpc, get, ifInstance, made, ifMade, ifOf, gone, ifGone, feature,
                   callback, crashed, listener, processor, at, terminate>>

MainNext ==
    \/ Register \/ GetStep("main") \/ MainHas \/ StartBeacon \/ StartListener \/ LeaveLoop
    \/ QuitFlag \/ QuitEvent \/ QuitBeacon \/ JoinListener \/ JoinBeacon \/ Term
    \/ LockRun \/ ClearRun \/ NotifyProcessor \/ JoinProcessor \/ ReleaseIf \/ Forget

-----------------------------------------------------------------------------
(* Listener, request processors, beacon thread *)

\* The loop of receiver_LeEventQ, and an event that has been dealt with.
ListenerTop ==
    /\ lsPc \in {"top", "handle"}
    /\ lsPc' = IF quitThread THEN "done" ELSE "pop"
    /\ UNCHANGED events

\* Mutant: popEvent takes from an empty queue.
PopUnchecked ==
    /\ lsPc = "pop"
    /\ lsPc' = "handle" /\ events' = [events EXCEPT ![ifOf[Mine]] = @ - 1]

Pop ==
    /\ lsPc = "pop"
    /\ IF events[ifOf[Mine]] = 0
       THEN lsPc' = "asleep" /\ UNCHANGED events
       ELSE lsPc' = "handle" /\ events' = [events EXCEPT ![ifOf[Mine]] = @ - 1]

\* The uuid of a tile without service data was read: the listener locks
\* m_mtxMap twice and never comes back (TileRing, TileMap).
HandleOldTile ==
    /\ lsPc = "handle"
    /\ lsPc' = "stuck"
    /\ UNCHANGED events

ListenerNext ==
    /\ ListenerTop \/ Pop \/ HandleOldTile
    /\ UNCHANGED <<mainPc, exit, rpc, get, objects, crashed, quitThread, processor, at, terminate>>

ProcessorGoes(m, from, to) == procPc[m] = from /\ procPc' = [procPc EXCEPT ![m] = to]

ProcessorTop(m) ==
    /\ ProcessorGoes(m, "top", IF run[m] THEN "lock" ELSE "done")
    /\ UNCHANGED <<requests, mutex, run>>

ProcessorLock(m) ==
    /\ mutex[m] = "nobody"
    /\ ProcessorGoes(m, "lock", "test")
    /\ mutex' = [mutex EXCEPT ![m] = "processor"]
    /\ UNCHANGED <<requests, run>>

\* The predicate of the wait, and what follows it under the mutex.
ProcessorTake(m) ==
    /\ run[m] /\ requests[m] > 0
    /\ ProcessorGoes(m, "test", "work")
    /\ requests' = [requests EXCEPT ![m] = @ - 1]
    /\ mutex' = [mutex EXCEPT ![m] = "nobody"]
    /\ UNCHANGED run

ProcessorQuits(m) ==
    /\ ~run[m]
    /\ ProcessorGoes(m, "test", "top")
    /\ mutex' = [mutex EXCEPT ![m] = "nobody"]
    /\ UNCHANGED <<requests, run>>

ProcessorWaits(m) ==
    /\ run[m] /\ requests[m] = 0
    /\ ProcessorGoes(m, "test", "park")
    /\ UNCHANGED <<requests, mutex, run>>

\* To wait is to sleep and give the mutex back in one.
ProcessorParks(m) ==
    /\ ProcessorGoes(m, "park", "asleep")
    /\ mutex' = [mutex EXCEPT ![m] = "nobody"]
    /\ UNCHANGED <<requests, run>>

\* processTileCmdRequest_stage2 (TileRing)
ProcessorWorks(m) ==
    /\ ProcessorGoes(m, "work", "top")
    /\ UNCHANGED <<requests, mutex, run>>

ProcessorNext(m) ==
    /\ \/ ProcessorTop(m) \/ ProcessorLock(m) \/ ProcessorTake(m) \/ ProcessorQuits(m)
       \/ ProcessorWaits(m) \/ ProcessorParks(m) \/ ProcessorWorks(m)
    /\ UNCHANGED <<mainPc, exit, rpc, get, objects, crashed, listener, at, terminate>>

BeaconRuns == mainPc \notin {"register", "get", "beacon"}

BeaconNext ==
    /\ BeaconRuns
    /\ Beacon!StopWorking \/ Beacon!StoreLimit
    /\ UNCHANGED <<mainPc, exit, rpc, get, objects, crashed, listener, processor>>

-----------------------------------------------------------------------------
(* RPC calls, callbacks, SIGTERM, wake-ups for no reason *)

\* leMgr_tileCmdRequest; it stands for every call that uses the tile manager.
CallArrives(c) ==
    /\ bus /\ calls < MaxCalls
    /\ c \notin Calling
    /\ calls' = calls + 1
    /\ early' = IF mainPc \in {"register", "get"} THEN early + 1 ELSE early
    /\ Go(c, "check")
    /\ UNCHANGED <<mainPc, exit, bus, use, objects, crashed, listener, processor, at, terminate>>

CallHas(c) ==
    /\ get[c].at = "return"
    /\ get' = [get EXCEPT ![c].at = "no", ![c].manager = instance]
    /\ use' = [use EXCEPT ![c] = IF feature THEN "queue" ELSE "no"]
    /\ UNCHANGED <<mainPc, exit, bus, calls, early, objects, crashed, listener, processor, at, terminate>>

\* Mutant: the request is queued without the mutex.
CallQueuesUnlocked(c) ==
    /\ use[c] = "queue"
    /\ requests' = [requests EXCEPT ![get[c].manager] = @ + 1]
    /\ use' = [use EXCEPT ![c] = "notify"]
    /\ UNCHANGED <<mainPc, exit, bus, calls, early, get, objects, crashed, listener, mutex, run,
                   procPc, at, terminate>>

\* Under the mutex, which is given back before the notification.
CallQueues(c) ==
    /\ use[c] = "queue"
    /\ mutex[get[c].manager] = "nobody"
    /\ requests' = [requests EXCEPT ![get[c].manager] = @ + 1]
    /\ use' = [use EXCEPT ![c] = "notify"]
    /\ UNCHANGED <<mainPc, exit, bus, calls, early, get, objects, crashed, listener, mutex, run,
                   procPc, at, terminate>>

CallNotifies(c) ==
    /\ use[c] = "notify"
    /\ Woken(get[c].manager)
    /\ use' = [use EXCEPT ![c] = "no"]
    /\ UNCHANGED <<mainPc, exit, bus, calls, early, get, objects, crashed, listener, requests, mutex,
                   run, at, terminate>>

CallNext(c) == GetStep(c) \/ CallHas(c) \/ CallQueues(c) \/ CallNotifies(c)

\* eventCallback, on a thread of the Bluetooth manager's library.
Callback ==
    /\ callback
    /\ IF ifInstance = None
       THEN StrayCallbacks /\ crashed' = TRUE /\ UNCHANGED <<events, lsPc>>
       ELSE events[ifInstance] < MaxEvents /\ Pushed(ifInstance) /\ UNCHANGED crashed
    /\ UNCHANGED <<mainPc, exit, rpc, get, objects, quitThread, processor, at, terminate>>

\* SIGTERM, once its handler is there.
Terminate ==
    /\ mainPc \notin {"register", "get", "beacon", "listen"}
    /\ exit' = TRUE
    /\ UNCHANGED <<mainPc, rpc, get, objects, crashed, listener, processor, at, terminate>>

Spurious ==
    /\ \/ lsPc = "asleep" /\ lsPc' = "pop" /\ UNCHANGED procPc
       \/ \E m \in Manager : ProcessorGoes(m, "asleep", "lock") /\ UNCHANGED lsPc
    /\ UNCHANGED <<mainPc, exit, rpc, get, objects, crashed, events, quitThread, requests,
                   mutex, run, at, terminate>>

Next ==
    /\ ~crashed
    /\ \/ MainNext \/ ListenerNext \/ BeaconNext \/ Callback \/ Terminate \/ Spurious
       \/ \E m \in Manager : ProcessorNext(m)
       \/ \E c \in Caller : CallArrives(c) \/ CallNext(c)

Spec == Init /\ [][Next]_vars

\* The threads run, what they call returns, and the beacon thread keeps its
\* promise.  A stuck listener holds m_mtxMap, on which any thread may then
\* wait, so nothing is assumed of them any more.  Nothing is assumed of callers,
\* callbacks and SIGTERM; wake-ups for no reason end at some time.
Runs == lsPc # "stuck"

FairSpec ==
    /\ Spec
    /\ WF_vars(Runs /\ MainNext)
    /\ WF_vars(ListenerNext)
    /\ WF_vars(terminate /\ BeaconNext)
    /\ \A m \in Manager : WF_vars(Runs /\ ProcessorNext(m))
    /\ \A c \in Caller : WF_vars(Runs /\ CallNext(c))
    /\ <>[][~Spurious]_vars

-----------------------------------------------------------------------------
(* Properties *)

\* Who may still touch a tile manager or an interface.
Users(m) == {c \in Caller : use[c] # "no" /\ get[c].manager = m}
ThreadsEnded(m) ==
    /\ procPc[m] \in {"no", "done"}
    /\ m = Mine => lsPc \in {"no", "done"} /\ at = "done"

\* "Is all memory at every layer released gracefully" (btrLeMgr.cpp:198):
\* nothing is deleted before the threads that use it have ended.  A second tile
\* manager, which only an early call can make, keeps a thread that goes on.
NothingOnReleased ==
    early = 0 =>
        /\ \A m \in gone : ThreadsEnded(m) /\ Users(m) = {}
        /\ \A i \in ifGone : \A m \in Manager : ifOf[m] = i => ThreadsEnded(m)

\* The singletons of btrTileMgr.cpp:1358 and btrMgrIf.cpp:372 are checked and
\* assigned without a lock, and calls are let in before main makes its own.
\* Main makes at most one of each and an early call at most one more: with no
\* early call there is one tile manager and one interface, and a call that
\* comes later makes none.
OneManager ==
    mainPc # "done" => made <= 1 + early /\ ifMade <= 1 + early

\* The singletons are single ("Bad idea to have a singleton class",
\* btrTileMgr.cpp:1356).  Not so: an early call makes another one.
Singletons == made <= 1 /\ ifMade <= 1

\* After SIGTERM the process ends, unless an event locked the listener up.  An
\* early call may leave main with another interface than its listener waits at.
ProcessEnds == exit ~> (mainPc = "done" \/ ~Runs \/ early > 0)

\* A request that is queued is taken while the process runs.
RequestsTaken == \A m \in Manager : requests[m] > 0 ~> (requests[m] = 0 \/ exit \/ ~Runs)

\* No callback finds the interface missing.  Not so: it is registered before
\* the static is assigned, and still when it is released.
CallbackHasInterface == ~crashed
=============================================================================
