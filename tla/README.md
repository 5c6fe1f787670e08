# Verification of the Bluetooth LE application manager

TLA+ models of `btrLeAppMgr` (`src/`), TLC runs that check them on small
instances, and TLAPS proofs for all values of the constants. The program finds
Tile trackers around a set-top box, tells the cloud about them, and rings one
when the cloud asks for it.

Abbreviations: T = `src/src/btrTileMgr.cpp`, I = `src/src/btrmgrif/btrMgrIf.cpp`,
B = `src/src/btrLeMgrBase.cpp`, M = `src/src/btrLeMgr.cpp`,
U = `src/src/btrLeMgr_utils.cpp`, R = `src/rpc/lemgr_iarm_int_if.cpp`.

## 1. Inventory

| part | state | operations | interacts with |
|---|---|---|---|
| Ring requests (T) | `m_stRingAttributes`, `m_request_queue`, `m_request_mutex` | `processTileCmdRequest`, `checkTileCmdRequest`, `request_processor`, `processTileCmdRequest_stage2`, the ring part of `receiver_LeEventQ`, `write_TOA_CMD_*`, `send_*_Notification` | RPC threads queue, the request processor dispatches, the event listener follows up; both look into the tile map |
| Bluetooth interface (I) | `m_queue`, `m_mutex`, `m_condition` | `eventCallback`, `pushEvent`, `popEvent`, `writeValue`, `doConnectLeDevice`, `doDisconnectLeDevice`, `start`/`stopLeDeviceDiscovery`, `shutdownIfce` | called back by the Bluetooth manager's thread, read by the listener |
| Tile map (T) | `m_LeDevMap`, `m_mtxMap` | add, delete, `updateTimestamp_`, `updateTileUUID_`, `updateTileServiceData_LeDevMap`, throttle, lookups, `scrub_unreachable_devices` | listener (adds), request processor (looks up, records uuids), main thread (scrubs) |
| Discovery list (B) | `m_LeDevList` | add, clear, look up | listener only |
| Scan control (M, T, I) | `m_scan_timer_active`, `m_scan_resume_countdown_active`, two time stamps | main loop, `run_periodic_maintenance`, `leScanStart`, `leScanStop` | main thread; time stamp written by the listener; `doRingATile` starts and stops discovery on an RPC thread |
| Beacon detection limit (B, U, R) | `m_limit` | set, get, `updateLimitBeaconDetection` (back-off) | RPC threads, a thread of its own, read by the request processor |
| Start and shutdown (M, R) | singletons, quit flags | `getInstance`, `releaseInstance`, `eventListenerQuit`, `quitBeaconDetection` | all threads |
| Cloud notification (T, U) | the staging URLs, libcurl's global state | `notifyTileInfoCloud`, `populateStagingDiscoveryRingURL`, `send_*_Notification`, `do_webpa_notify`, `setCustomerPreference` | the listener, `doRingATile` on RPC threads, the beacon thread; a file anybody may write |

Threads: the main thread, the event listener, the request processor, the beacon
detection thread, RPC (IARM) threads, and the Bluetooth manager's callback
thread.

### What is hard, and what makes each part correct

* **Ring requests.** One record is shared by three kinds of threads. The mutex is
  released around every Bluetooth call, and the outcome of the call is applied
  afterwards, sometimes after a re-check (T 230, 341, 362), sometimes without the
  mutex (T 1764, 1933, 2007, 2011). Correct means: a follow-up is applied only to
  the session it belongs to; a bound device has its whole request, whichever
  thread overwrites or empties the record; a state that waits for the tile is one
  the tile was told about; the rung device is the requested tile; a request is
  refused only while another one is being rung; every request is dealt with.
* **Tile map.** Entries are looked at, released and used again, while the main
  thread scrubs; time stamps decide about scrubbing.
* **Scan control.** Two threads start and stop discovery; results are ignored.
* **Beacon detection limit.** Three kinds of threads read and write two copies of
  one bit without a lock. Correct means: the cloud is left alone between two
  attempts, a quit is heeded, and updates that do not overlap leave both copies
  equal.
* **Start and shutdown.** Threads wait for events that must still come, and objects
  are deleted that other threads use. Correct means: there is one tile manager,
  nothing is released before its users have ended, no wake-up is lost, and
  SIGTERM ends the process.
* **Cloud notification.** A file is looked for and read later, the URL and the URI
  are chosen apart, and curl is started and given back by every thread for all.

`PROJECT.json` lists every hazard at its line.

## 2. Modules

| module | models |
|---|---|
| `RingProtocol` | abstract specification: what ringing one tile promises, without threads, queues and locks |
| `TileRing` | ring requests: RPC threads, request processor, event listener, event queue, Bluetooth links, and as much of the tile map, the discovery list and the limit as the ring looks at |
| `TileMap` | the tile map: what the listener adds, refreshes and tells the cloud, scrubbing, time |
| `ScanControl` | the loop of the main thread, pause and resumption of discovery, `doRingATile`, other users of the radio |
| `TileTable` | abstract specification: what the threads that ring a tile may expect of the tile map |
| `BeaconThread` | abstract specification: what the rest of the process may expect of the beacon detection thread |
| `BeaconDetect` | the back-off of that thread, and the limit with its cache |
| `Lifecycle` | start and shutdown: main, its threads, RPC calls, callbacks; the beacon thread is a `BeaconThread` |
| `Codec` | lengths of what is copied, hex-decoded and base64-encoded |
| `CloudNotify` | what is told to the cloud, where it goes, and libcurl's global state |
| `MCTileRing`, `MCTileMap`, `MCScanControl`, `MCBeaconDetect`, `MCLifecycle`, `MCCloudNotify` | instances for TLC |
| `TileRingProofs`, `RingOrderProofs`, `TileMapProofs`, `ScanControlProofs`, `BeaconDetectProofs`, `LifecycleProofs`, `CloudNotifyProofs` | theorems |

`TileRing` sees the tile map as a set of devices of which any may be scrubbed at
any time, discovery as an event that may come at any time, the limit as a bit
that may change at any time, and a notification as one step. `TileMap`,
`ScanControl`, `BeaconDetect` and `CloudNotify` model why, when and how.
`Lifecycle` knows of the ring only that it takes a request from the queue.
`BeaconDetect` implements `BeaconThread` (run `beacon`, theorem `ThreadRefined`), and
`Lifecycle` is built on `BeaconThread` alone. `TileMap` and `TileRing` meet in `TileTable`:
an entry is entered with the hashed id it is found by, may get a uuid while it is
there, and leaves with both. `TileMap` implements it with all its threads and time
stamps (`IsTileTable`, run `map`, theorem `TableRefined`), and every step of `TileRing`
that touches the map, those of its surroundings included, is a step of it
(`SeesTileTable`, run `ring_progress`, theorem `TableSeen`). What `TileRing` narrows is the
hashed id: a device has one there, while in `TileMap` it may enter with another one
each time.

### TileRing

`attr` is `m_stRingAttributes`. `procPc` and `lsPc` say where the request
processor and the listener are; a value other than `"pop"` is a place where the
thread has released, or waits for, a mutex. A listener step that runs wholly
under `m_request_mutex` (R) is one action guarded by `RequestMutexFree`; the
processor holds R exactly at `"lookup"` and `"dispatch"`. A step without that
guard is one the code takes without R; those are the data races of
`write_TOA_CMD_*` and `checkTileCmdRequest`.

| code | actions |
|---|---|
| `processTileCmdRequest` | `CheckRequest` (parse and refuse, reads `attr` without R), `PushRequest` |
| `request_processor`, `stage2` | `Fill` (pop and overwrite the attributes), `LookupFound`, `LookupNone`, `DispatchOpen` (under R), `ConnectStarts` (without it), `ConnectSucceeds`, `ConnectFails`, `DispatchSend`, `DispatchNone` |
| `write_TOA_CMD_READY` | `ReadyWrite`, `ReadySet`, `ReadyWriteFails`, `ReadyFailReturn` |
| `receiver_LeEventQ` | `OnDiscoveryStarted`, `OnUpdate...`, `OnConnected...`, `ReadId`, `OnConnectFailed`, `OnDisconnected`, `OnNotify...` |
| `write_TOA_CMD_OPEN_CHANNEL` and its re-check | `OpenWrite`, `OpenWriteFails`, `OpenReturn` |
| `write_TOA_CMD_PLAY` and its re-check | `PlayWrite`, `PlaySet`, `PlayWriteFails`, `PlayFailReturn` |
| end of the ring | `OnNotifyPlay`, `Disconnect`, `DisconnectReturn` |
| `eventCallback` | `LinkUp`, `LinkFails`, `LinkDown`, `Reply`, `Advertise`, `DiscoveryStarts` |
| other threads | `Scrub`, `SetLimit` |

History variables: `lsToken` (the session the listener handles an event for),
`wire` (the last command a tile got), `told` and `answered` (the sessions whose
RAND_T and whose command response were passed on to `notifyTileInfoCloud`; the code
moves on whether or not the cloud takes them, T 1891-1895). No guard of the code's
actions reads them. `WireMatches` says of a state that waits for the tile that the
command it waits for an answer to is the last one the tile got, of this session,
unless the loss of the link waits in the event queue, by which the session ends.

Abstractions.

* The number of a request stands for its `session_token` and `rand_a`; 0 is
  their absence. Commands and masks are present or absent.
* Strings are compared as values. `strcasecmp` and the prefix comparison at
  T 1644 are equality, except that an empty uuid matches (as it does there).
* A request that does not parse changes nothing and is left out, as is a SEND
  without `tile_uuid` (T 1635 dereferences a null pointer). The ring feature is
  assumed to be enabled.
* An assignment of the whole record is one step although two threads may race
  on it: torn records are not modelled. The uninitialised flags and
  `ring_state` take any value of `BootRing` and of BOOLEAN; an uninitialised
  `devId` is taken to be no device.
* `popEvent` and the code up to the first release of a mutex are one step:
  nothing another thread does in between is visible to it.
* The lookup returns any matching entry: the order of the map is that of
  Bluetooth addresses.
* Time: the 30 s of T 222 may or may not be over.
* Events that only write a time stamp (OP_READY, DISCONNECT_FAILED,
  DISCOVERY_COMPLETE) are left out; CONNECT_FAILED is kept, as it ought to end
  a ring. OUT_OF_RANGE is never pushed.
* A notification of a tile has at least 15 characters (T 1857, 1864 throw on
  shorter ones).
* A device advertises service data always or never, and four characters of it
  at least (`TileMap` has shorter ones).

`Orderly = TRUE` restricts the cloud: it sends an OPEN when nothing is bound and
no thread is busy, and a SEND for the bound tile after it got the random number.
Tiles, links, discovery and the scrubber stay free.

### TileMap

`entry` is `m_LeDevMap`. Devices are numbers in the order of the map, which the
iterator of the scrub depends on. `lsPc` says which method the listener calls
next; every method locks `m_mtxMap` for itself only, so it is one action, and
other threads run between two of them.

| code | actions |
|---|---|
| `receiver_LeEventQ`, DISCOVERY_UPDATE (T 126-207) | `Hear`, then the branch it chose |
| new tile: `notifyTileInfoCloud`, `add_LeDevPropToMap`, `updateTimestamp_LeDevMap` | `Alert`, `Add`, `Stamp` |
| known tile with service data (T 161-182) | `Compare`, `Stamp`, `Record` |
| known tile without (T 186-205) | `Throttle`, `Renotify`, `Stamp`, `Seen` |
| `updateTileUUID_LeDevMap` (request processor) | `Name` |
| uuid of a tile without service data (T 253-266) | `ReadOldTile` |
| `scrub_unreachable_devices` in `run_periodic_maintenance` (main thread, T 2184) | `Scrub` |
| the loops of `main` around it (M 159-187) | `EnterLoop`, `LeaveLoop`, `QuitLoops` |

`main` says whether the main thread is in its inner loop, in which alone it scrubs:
it enters it when it finds no beacon limit, scrubs at once, looks for a limit
again after some turns, and leaves both loops for good after SIGTERM. Under a
limit nothing is scrubbed. `cloud` (what the cloud was last offered, and whether it
took it) is a history variable.

Abstractions.

* A time stamp is its age in ticks, which stops growing where nothing tells it
  apart (`ScrubLimit + 1`, `NotifyInterval`). A stamp in the future has the age
  `Future` and never gets older. `m_lastSeenTimestamp` of a new entry is not
  initialised: its age is any of `FreshAges`.
* `operator []` on a device that is gone inserts a null pointer, which is
  dereferenced at once: `lsPc = "crashed"`, and nothing happens any more.
* `it--` on the iterator that `erase` returned is undefined if the first entry
  was erased; then any later stale entries may be left (`Removals`). In all
  other cases every stale entry goes.
* The hashed id is a function of the service data (`HashOf`), of four characters
  or more. `substr(4)` of shorter data (`Short`) throws, which nobody catches
  (T 141, 171): `TooShort`, `lsPc = "aborted"`, and nothing happens any more. Known
  devices are compared first, so it takes changed data there.
* A tile that is neither known nor has service data is connected to for its
  uuid. `TileRing` has that path; its end is `ReadOldTile`: the listener locks
  `m_mtxMap` twice (T 264, 992), `lsPc = "locked"`, and whoever needs the map waits
  with it. Its discovery list is left out: any tile may be one.

### ScanControl

`radio` is the status of discovery the Bluetooth manager reports: off, LE
(ours), or another one. `call[c]` is the call of `startLeDeviceDiscovery` or
`stopLeDeviceDiscovery` that thread `c` has made last: each status check and each
command in it is a step, as two threads and other programs use the one radio.

| code | actions |
|---|---|
| `startLeDeviceDiscovery`, `stopLeDeviceDiscovery` (I 625-675) | `StartCheck`, `OffCheck`, `StartCall`, `StopCheck`, `StopCall` |
| `main`, loops (M 159-192) | `Top`, `Arm`, `Turn`, `Beat`, `LimitStopped`, `Leave`, `Quit`, `QuitStopped` |
| `run_periodic_maintenance` (T 2141-2186) | `Turn`, `Pause`, `Resume` |
| `doRingATile` (T 1377-1465), discovery only | `RingBegin`, `RingRung`, `RingEnd` |
| listener, RPC, SIGTERM, others | `Heard`, `SetLimit`, `Terminate`, `RadioChanges`, `Tick` |

Abstractions.

* `quiet` and `paused` are the ages of `m_last_discovery_timestamp` and
  `m_scan_stoppage_timestamp`. The first is written by the listener and read by
  the main thread without a mutex; a write of the word is taken to be atomic.
* The counter of the inner loop is kept modulo `LimitTurns` (4 in the code; 256
  is a multiple of it, so the wrap of the `unsigned char` changes nothing).
* With `CallsFail`, any call may fail. A failed status call leaves the status of
  a stop uninitialised (I 652, 667), so that it returns any result.
* The limit is read straight from the Bluetooth manager; a failing read leaves
  `isLimited` as it was.
* Scrubbing, the other half of `run_periodic_maintenance`, is `Scrub` of
  `TileMap`: what it shares with the scan is the loop it runs in, of which `TileMap`
  keeps no more than whether main is in it.
* The signal handler may run `Terminate` at any time.

### BeaconDetect

| code | actions |
|---|---|
| `updateLimitBeaconDetection` (U 186-253) | `Start`, `Ask`, `SleepAgain`, `AttemptSucceeds`, `AttemptFails`, `SleepSecond`, `SleepQuit`, `SleepOver`, `GiveUp` |
| `update_beaconDetectionLimit` (B 78-84) | `ReadLimit`, `StoreFound` |
| `setLimitBeaconDetection` (B 96-112) | `PersistLimit`, `ReadBack`, `CacheLimit` |
| `quitBeaconDetection`, the clock | `Quit`, `ClockChanges` |

`slept` (seconds slept since the last attempt), `late` (attempts begun after the
quit) and `missed` are history variables. `missed` becomes TRUE when the limit
changes while another update is between its read or write of the Bluetooth
manager and its store, or when a read fails: then no order of the stores is
right.

Abstractions.

* `rand_t` counts down from 0 or more and ends at -1, and the elapsed time is
  compared with it (U 224): as long as the clock is not before `start_t`, the
  comparison holds. `behind` says that it is.
* `rand() / RAND_MAX` is 0 unless `rand()` returns its maximum: the random time is
  a quarter less than the delay, or a quarter more.
* `setCustomerPreference` succeeds or fails; if it succeeds the limit is what the
  cloud said. A minute has `Minute` seconds, the bound of the loop is `MaxDelay`.
* `m_limit` is not initialised by any constructor: any value.

### Lifecycle

| code | actions |
|---|---|
| `BtrTileMgr::getInstance`, `BtrMgrIf::getInstance` and the constructors | `GetCheck`, `GetIfCheck`, `GetIfNew`, `GetIfAssign`, `GetMake`, `GetAssign`, `GetFeature`, for main and for every RPC thread |
| `main` (M 137-212) | `Register`, `MainHas`, `StartBeacon`, `StartListener`, `LeaveLoop`, `QuitFlag`, `QuitEvent`, `QuitBeacon`, `JoinListener`, `JoinBeacon`, `Term` |
| `releaseInstance` and the destructors | `LockRun`, `ClearRun`, `NotifyProcessor`, `JoinProcessor`, `ReleaseIf`, `Forget` |
| `receiver_LeEventQ`, `popEvent` | `ListenerTop`, `Pop`, `HandleOldTile` (T 264-266) |
| `request_processor` | `ProcessorTop`, `ProcessorLock`, `ProcessorTake`, `ProcessorQuits`, `ProcessorWaits`, `ProcessorParks`, `ProcessorWorks` |
| `leMgr_tileCmdRequest`, `processTileCmdRequest` | `CallArrives`, `CallHas`, `CallQueues`, `CallNotifies` |
| `eventCallback`, `btrLeMgr_SignalHandler`, condition variables | `Callback`, `Terminate`, `Spurious` |

A thread that waits is at `"asleep"`; a notification moves it on, and is lost when
it is not there. The wait of the request processor is two steps, as the test of
its predicate and the sleep are: it holds the mutex between them.

RPC calls are let in (M 139) before main has its tile manager (M 146). `early`, a
history variable, counts the calls that come in between: they find no tile
manager and may make one, as main may.

`HandleOldTile` is an event whose handling never ends, as the listener has locked
`m_mtxMap` twice: it is `"stuck"`, and its join at M 200 does not return.

Options, as the code leaves two things to its surroundings.

* `TermWaits`: whether `IARM_Bus_Term` waits for calls that are under way.
* `StrayCallbacks`: whether the Bluetooth manager calls back while there is no
  interface, which is before the static is assigned and after the release.

The run takes the well-behaved choice of each; the table of promises below says
what fails with the other.

Abstractions.

* The body of an event and of a request is one step (`TileRing` has it), but for
  an event that locks the listener up, and so is what main does in its loops
  (`ScanControl`). `checkTileCmdRequest` and the use of `m_request_mutex` by the
  second stage are left out.
* `leMgr_tileCmdRequest` stands for the RPC calls that use the tile manager.
* The notification that a request was queued (T 1516) and that of the
  destructor (T 1348) wake the one processor of that tile manager. A tile
  manager that is overwritten in the static keeps its threads.

### CloudNotify

| code | actions |
|---|---|
| a tile is reported (T 139-200) | `Alert` |
| `send_Rand_T_Notification` (T 1844-1900) | `ReceiveRandT`, the call, `Returns` |
| `send_TOA_CMD_Response_Notification` (T 2069-2082) | `ReceiveCommandResponse` |
| `doRingATile` reports (T 1459) | `Request` |
| `notifyTileInfoCloud`, DISCOVERY_ALERT (T 488-564) | `AccessAlert`, `OpenStaging` with `Populate` |
| RAND_T and command response (T 584-725) | `AccessNothing`, `AccessWebpa`, `AccessStaging` |
| the post (T 742-931) | `CurlInit`, `CurlPerform`, `CurlCleanup` |
| `setCustomerPreference`, curl only (U 281-324) | `BeaconStarts`, `BeaconStops` |
| the staging file | `FileChanges` |

`call[Listener].kept` (the file has stayed as it was since the call began) and
`told` (a RAND_T was made and given away) are history variables.

Abstractions.

* A URL is the place it is for and, for a staging URL, the environment it names;
  `NoEnv` is the empty string. A line of the staging file may be empty, and leaves
  the empty string in its URL (T 2237, 2240). The JSON text, the OAuth header and the answer of
  the server are left out; a post may succeed or fail and has no effect here.
* A missing RFC URL (T 490) ends the call before it changes anything.
* Whether the ring has a hashed id does not change during its notifications: the
  listener holds `m_request_mutex`.
* libcurl counts its global initialisations; `curl_easy_init` makes one if
  there is none. The sessions and their cleanup are left out.
* The answer of a tile is its length in digits. `CopyThrows` and `Copied` are what
  `std::string::copy` does; an exception that nobody catches ends the process.

## 3. Runs

| run | shows |
|---|---|
| `ring_odd` | incomplete and unknown requests, an old tile, a limit that comes and goes, garbage at start: `TypeOK`, `BoundDeviceRequested`. Deadlock is not checked: the listener does lock itself out (`find_old_tile`) |
| `ring_orderly` | orderly cloud, two tiles: `WireMatches`, `RightTile`, `AnsweredWasTold`, `FollowUpsCurrent`, and the refinement of `RingProtocol` (`FollowsProtocol`) |
| `ring_progress` | any order of requests, one device: `NoStaleCompletion`, `SeesTileTable`; `RequestsServed`, `ListenerReturns` under fairness |
| `map` | two tiles, changing and too short service data, failing notifications, a beacon limit that comes and goes, a listener that may lock itself out: `TypeOK`, `AddedIsTold`, `NotToldTwice`, `IsTileTable`, `SilentGoes`. Deadlock is not checked in the runs of `TileMap`: a null entry, short data or the lock of an old tile ends all |
| `scan_any` | any call fails, `doRingATile` at any time: `TypeOK`, `NeverAbandoned` |
| `scan` | calls succeed, no `doRingATile`: `PausedIsOff`, `DoneIsOff`, `ScanResumes`, `ScanPauses`, `LimitStopsScan`, `ExitIsReached` |
| `beacon` | the back-off second by second, two RPC threads, failing calls, a clock that is set back: `TypeOK`, `NoEagerRetry`, `OneLateAttempt`, `AgreesUnlessMissed`, `BackoffEnds`, and that it is a `BeaconThread` (`IsBeaconThread`) |
| `lifecycle` | two RPC threads that may call before main has its tile manager, callbacks, SIGTERM, spurious wake-ups, a listener that may lock itself out: `TypeOK`, `NothingOnReleased` (of runs without an early call), `OneManager`, `ProcessEnds`, `RequestsTaken`. Deadlock is not checked: the process ends, or the listener is stuck |
| `cloud` | the listener, one report of `doRingATile`, the beacon thread, two environments of which one is signed for, answers with and without a whole RAND_T: `TypeOK`, `StagedContentStays`, `SignatureMatches`, `CurlAlive`, `RandTTold` |
| `find_stale_open`, `find_old_tile`, `find_null_entry` | one disagreement each between the code and its comments, logs and test: `findings` in `PROJECT.json` |

Bounds.

* `TileRing`: `MaxReq` requests are sent in all (a session overtaken by another
  one needs two, and a third tells a stale follow-up from a late one); at most
  `MaxEvents` events wait (two: the event of a session and one that overtakes
  its link). Two devices and two tiles tell the requested tile from another one.
* `TileMap`: two devices are the first entry and one after it; two service data
  are a rotation and the way back. `ScrubLimit` 1 and `NotifyInterval` 1 let
  both intervals end between any two steps. With `ScrubLimit` 3 and one device
  the counterexamples of the `find_` runs do not hang on a time of one tick, and
  fresh stamps are initialised there (`NoAge`), so that they are not the reason.
* `ScanControl`: `MaxRuntime` 1, `MaxDowntime` 2 and `LimitTurns` 2 give turns on
  which nothing is over and turns that skip the limit; larger values repeat them.
* `BeaconDetect`: `MaxDelay` 5 gives the delays 1, 2, 3, 5 and a last attempt
  before the bound; `Minute` 1 keeps the seconds few. Two RPC threads and the
  beacon thread overlap in every order.
* `Lifecycle`: `MaxCalls` 2 and `MaxEvents` 1 let a call or an event find its thread
  awake, going to sleep and asleep, once more after it was woken. Three `MaxManagers`
  are one for main and one for each call that may come early. After an early call
  the constraint `EarlyRace` has TLC look at who makes what while main is in
  `getInstance`, and no further: what the threads of two or three tile managers
  do is out of its reach, and `OneManager` and `TypeOK` of that are theorems.
* `CloudNotify`: 15 is the shortest answer with a RAND_T, 40 a whole one. `Codec`'s
  `Decodes` is an assumption TLC evaluates for 1 to 64 bytes, and a theorem.

Fairness.

* `TileRing` (`ThreadFairness`): weak fairness of each RPC thread's queueing, of
  the request processor and of the listener. The scheduler runs a thread that
  can run, and the Bluetooth calls return with success or failure. Nothing is
  assumed of tiles, links, the Bluetooth manager's events or the cloud.
* `TileMap` (`FairSpec`): weak fairness of the listener's steps after it has heard a
  tile, of time, and of the scrub, which is enabled only while main is in its
  inner loop and no one holds `m_mtxMap` for ever. Not of `Hear`, nor of the beacon limit
  (`EnterLoop`, `LeaveLoop`), SIGTERM or old tiles. `SilentGoes` therefore ends with its
  exceptions: main stays out of the inner loop from some time on (M 162, 186, or
  SIGTERM), or the listener has ended the process or locked the map. A limit
  that comes and goes for ever is no exception, as main scrubs whenever it enters.
* `ScanControl` (`FairSpec`): weak fairness of the main thread, of a `doRingATile`
  under way, and of time. `ScanResumes` and `ScanPauses` state what they assume
  of the rest: that others leave the radio alone from some time on, that a tile
  is heard only while something scans, or that none is heard any more. Without
  the second, a stray event would put the pause off for ever while nothing is
  scanned.
* `BeaconDetect` (`FairSpec`): weak fairness of the beacon thread: it runs, its sleeps
  end, and the cloud and the Bluetooth manager answer or fail. Nothing is assumed
  of RPC threads, the quit or the clock; `BackoffEnds` says what it needs of it.
* `Lifecycle` (`FairSpec`): weak fairness of main, the listener, each request
  processor, each RPC thread in a call, and of the beacon thread after its quit,
  which is what `BeaconThread` promises. Once the listener is stuck nothing is
  assumed of main, processors and callers (`Runs`): they may wait for the map it
  holds, and `ProcessEnds` and `RequestsTaken` say nothing then. Nothing is
  assumed of callers, callbacks and SIGTERM. Spurious wake-ups end at some time: a
  thread woken for ever would hold the mutex again and again.
* `CloudNotify` has safety properties only.

### Promises the code does not keep

`PROJECT.json` lists three findings with runs of their own. The definitions below
are stated in the modules and refuted by TLC as well; each can be checked by
replacing the properties of the named configuration.

| definition | configuration | why it fails |
|---|---|---|
| `PlayFollowUpIsCurrent` | `RingAny.cfg` | T 2007, 2011 change the attributes after the PLAY write without the mutex or a re-check: a newer session is marked |
| `RequestedDeviceHeeded` | `RingAny.cfg` | a discovery that starts clears the list (T 106), and the events of the device being rung are ignored |
| `RefusalMeansRinging` | `RingAny.cfg` | a request whose tile is not found (T 1696) or whose link fails (T 292) is never cleaned up, and later ones are refused |
| `AddedIsStamped` | `Map.cfg` | an entry can be scrubbed by its uninitialised stamp between T 153 and the stamp |
| `RecordedIsTold` | `Map.cfg` | T 181 records changed service data although the notification failed; it is not repeated |
| `RightTile` | `FindWrongTile.cfg` | an OPEN without hashed ids is looked up by those of an earlier request (T 1598, 1237), and another tile is connected to; `src/tests/btrLeMgr_test.cpp:111` sends such a request |
| `HashCurrent` | `FindNullEntry.cfg` | when service data rotates, the cloud is told the new hashed id but the entry keeps the first (T 1140), by which the lookup compares |
| `SightingRefreshes` | `FindNullEntry.cfg` | hearing unchanged service data does not refresh the stamp (T 169), and a tile is scrubbed while it is heard |
| `PausedIsOff` | `ScanAny.cfg`, `Rings = FALSE` | a stop whose status call fails may return success (I 667) |
| `AgreesInTheEnd` | `Beacon.cfg`, `CallsFail = FALSE` | of two updates of the limit that overlap, the one that is persisted first may be cached last (B 83, 108) |
| `Singletons` | `Lifecycle.cfg` | a call that arrives before main has its tile manager makes another one (T 1358, I 372); `OneManager` says how many there can be |
| `NothingOnReleased` | `Lifecycle.cfg`, `TermWaits = FALSE` | a call that is under way uses the tile manager that is being deleted |
| `CallbackHasInterface` | `Lifecycle.cfg`, `StrayCallbacks = TRUE` | the callback is registered before the static is assigned and is never unregistered (I 360, 374, 386) |
| `BeaconCurlAlive` | `Cloud.cfg` | `setCustomerPreference` does not call `curl_global_init` (U 281): another thread's `curl_global_cleanup` takes curl away under its post |
| `StagingFromFile` | `Cloud.cfg` | T 504 says that both URLs must be in the file; the statics keep those of an earlier one |
| `RingHasUrl` | `Cloud.cfg` | ring responses are posted to an empty staging URL, which T 591 only logs |
| `AnswersSurvived` | `Cloud.cfg`, `Lengths = {13}` | `copy` at position 14 (T 1864) throws |
| `RandTTold` | `Cloud.cfg`, `Lengths = {14}` | there is no RAND_T, nothing is sent, and T 1895 says it was |
| `PausedIsOff`, `DoneIsOff` | `Scan.cfg`, `Rings = TRUE` | `doRingATile` starts discovery at its end (T 1460), also in a pause or after the main thread has stopped it |

## 4. Proofs

### TileRing

`TileRingProofs` proves for all devices, tiles, messages, callers and bounds:

* `TypeCorrect`: `Spec => []TypeOK`, one step per action.
* `CompletionCorrect`: `Spec => []CompletionInv`. With `TypeOK` it is inductive:
  the listener enters `"disc"` with the session it has just answered in
  `lsToken`, and while it is there another thread can make `ring_state`
  PLAY_RESPONSE only by leaving it so. The request processor never writes that
  state, and every request it takes moves the state away from it.
* `NoStaleCompletionCorrect`: the action property follows from the invariant at
  the one step that returns from `doDisconnect`.
* `BoundDeviceCorrect`: `Spec => []BoundDeviceRequested`; `DispatchOpen` is the
  one step that binds a device, and every other step that changes the
  attributes keeps the three fields or empties the record.

* `TableSeen`: `Spec => SeesTileTable`. Only an advertisement, a dispatched OPEN and a
  scrub touch the map (`MapSteps`). `NamedIsKnown` carries the type invariant of
  `TileTable` over: a uuid is recorded only for a tile in the map.

They rest on the ASSUMEs of `TileRing` only.

### TileRing with an orderly cloud

`RingOrderProofs` proves, for all devices, tiles, messages, callers, limits and
bounds, under `OrderlyCloud`: the cloud is `Orderly`, its OPEN requests name the tile,
bring a session and hashed ids of no other tile, and a tile has one handle.
`MCTileRing` has TLC check that the instance of `RingOrderly.cfg` is such a one.
Each part is needed: without the order follow-ups fail (`PlayFollowUpIsCurrent`, section 3), and
without the hashed ids `FindWrongTile.cfg` reaches another tile.

* `WireCorrect`, `RightTileCorrect`, `FollowUpsCorrect`: `WireMatches`, `RightTile`,
  `FollowUpsCurrent`.
* `RingFollowsProtocol`: `Spec => FollowsProtocol`. Initial states are initial states of
  `RingProtocol`, and each step of the ring is one of the protocol's steps, a `Drop` or
  a stutter.
* `AnsweredCorrect`: `AnsweredWasTold` is proved of `RingProtocol` (`ProtocolTells`, where it
  takes one line of strengthening) and carried over by the refinement.

The inductive invariant `OrderInv` has two halves. TLC checks it on two devices with
two callers, odd requests, and garbage at start.

* `ThreadInv`: who may be where. One request is under way (`OneRequest`) and meets the
  attributes the cloud sent it for (`RequestInv`); sessions are numbers of requests
  (`TokenInv`); the map holds devices with service data, under their own uuid
  (`MapInv`); attributes without a device are empty or those of an OPEN not yet
  found (`UnboundInv`); a bound session has its tile, its token and a state that fits
  the operation (`SessionInv`); the processor (`ProcessorInv`) and the listener
  (`ListenerInv`) are busy with the bound session or find it dropped. All of
  these need each other: a follow-up is current because no request is taken
  while the listener follows up, and none is because the cloud waits for `Quiet`.
* `TalkInv`: what was said to the tile. Connections and disconnections of a device
  are in turn in the event queue and agree with its link (`LinkInv`); once the
  listener has heeded the connection of the session, a disconnection comes first
  in the queue (`HeededInv`). So a session that lost its link is dropped before a
  later connection is heeded. `WireInv` follows what is written and what is waited
  for: the state and the tile agree, or the disconnection is in the queue, where
  it stays until it is heard (`DisconnectionKept`). `TailLog`, `HeadLog` and
  `AppendLog` are the lemmas on the queue as a log that these parts need.

### TileMap

`TileMapProofs` proves for all devices, service data, times and fresh ages:

* `TypeCorrect`: `Spec => []TypeOK`.
* `MapInvariant`: `Spec => []MapInv`. Beside the types it says that the listener adds
  only devices that are not there (no other thread adds any), that from an
  offer to its record it carries what it offered, and that what the cloud took
  of a device in the map is recorded there or about to be. The last part needs
  the middle one when `Add` and `Record` write the entry, and the first when `Add`
  meets an entry that it would not replace.
* `TableRefined`: `Spec => IsTileTable`. Stamps, time, changed service data and sightings
  leave the entries found and named as they were (`StampStays`, `TickStays`,
  `EntriesKeepTable`); `Add`, `Name` and `Scrub` are the steps of the table.
* `AddedIsToldCorrect` and `NotToldTwiceCorrect` follow at the one step each that
  adds and that compares.

### ScanControl

`ScanControlProofs` proves for all times and every `LimitTurns`:

* `TypeCorrect`, and `NeverAbandonedCorrect` by `TimerInv`, which has the flags also
  while the main thread waits for a stop or a start.
* `PausedIsOffCorrect` and `DoneIsOffCorrect`, under `~CallsFail` and `~Rings` (without
  either they are false, see above). `ScanInv`: our discovery is on only if the
  last call of the main thread was a successful start or has not yet stopped
  it, and in the loop without the timer the last call was no successful start.
  `CallUnderWay` shows that a call under way keeps it, `ScanInvariant` that the
  main thread does.

### BeaconDetect

`BeaconDetectProofs` proves for every `MaxDelay`, `Minute` and set of RPC threads:

* `TypeCorrect` by `BackoffInv`: `t1 <= t2`, the delay is `t2`, and an attempt is only
  made below the bound, so that the next delay is at most twice it.
* `RetryCorrect` (`NoEagerRetry`) by `RetryInv`: in the sleep, what was slept and what
  is left make up the least sleep, also if the same delay is slept again.
* `LateCorrect` (`OneLateAttempt`): a late attempt leaves the loop, or the sleep
  after it does.
* `AgreeCorrect` (`AgreesUnlessMissed`) by `AgreeInv`: until an update is missed,
  whoever is about to store has the limit in his hands.
* `ThreadRefined`: initial states and steps are those of `BeaconThread`.

### Lifecycle

`LifecycleProofs` proves, for all callers, bounds and managers, under `TermWaits`
(without it the properties are false, see above), `TypeCorrect`, `ReleaseCorrect` and
`OneManagerCorrect`. Early calls are part of it. The invariant `Inv` has four parts.

* `TypeOK`, of which queues that never run below empty need the next one.
* `HasInv`: what a thread holds was made, and what is indexed exists.
* `CountInv`, for `OneManagerCorrect`: a thread that finds the static null came early or is
  main. Each of them makes at most one tile manager and one interface, and those
  who have yet to, with those made, are at most 1 + `early`.
* `LifeInv`, only of runs without an early call, for `ReleaseCorrect`. `MadeInv`: main alone
  makes the interface and the tile manager, and all that is used is number 1.
  `CallInv`: callers come when main has its manager, and none is left from `Term`
  on. `EndInv`: what main has waited for has ended and cannot start again.

### CloudNotify

`CloudNotifyProofs` proves for all environments, callers and answers:

* `TypeCorrect`, `StagedCorrect` and `SignatureCorrect`: the URL and the URI of a call
  are tied from the step that chooses them to the post.
* `CurlCorrect` (`CurlAlive`): curl's count is at least the number of threads between
  their `curl_global_init` and their cleanup; the beacon thread only adds to it.
* `RandTCorrect` (`RandTTold`) if all answers have at least 15 digits.
* `DecodeLength`: `decodeBase64` accepts what `encodeBase64` makes, for any length.

Every invariant and every action property of the passing runs is proved. Liveness
(`SilentGoes`, the last four properties of `scan`, `BackoffEnds`, `ProcessEnds`,
`RequestsTaken`, `RequestsServed`, `ListenerReturns`) and the fairness part of `IsBeaconThread`
stay with TLC: they need ENABLED, which TLAPS does not reason about here.

## 5. Plan

Done: all components of section 1, each with its first theorems. Next:

1. Hashed ids that change when a tile enters the map again, in `TileRing` as in
   `TileTable`, and what an orderly cloud then has to know for `RightTile`.
2. Composition of `ScanControl` with the discovery events of `TileRing`.
3. What still holds of each tile manager in `Lifecycle` after an early call has made
   a second one, beyond how many there are.

## 6. Not modelled

* The text of JSON, of the OAuth signature and of the packets to the tile, base64
  and hex beyond their lengths (U, T): data conversions no decision depends on;
  the cloud is a party that accepts a message or not.
* Reading of parameters and of the device's identity (U 254-760): calls that
  return a string or fail.
* Logging, the dumps of map and list, the configuration (RFC) of the feature.
* RPC calls that are empty or only read.
* `checkThresholdTimeAndReConnectNotify` and the deletion on OUT_OF_RANGE: no
  caller, and an event that is never pushed.
* The connection and the writes of `doRingATile`, a proof of concept that keeps no
  state; its start and stop of discovery are in `ScanControl`.
* The test client, an interactive program.
