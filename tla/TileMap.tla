------------------------------ MODULE TileMap ------------------------------
(* The map of tiles the cloud was told about (m_LeDevMap of BtrTileMgr):    *)
(* the event listener adds and refreshes entries when it hears a tile, the  *)
(* main thread scrubs those that were not seen for too long, the request    *)
(* processor names them.  m_mtxMap is taken and released by every single    *)
(* method, so each of them is one step, and the listener goes on with what  *)
(* it has seen in the step before.  Time passes in ticks, as the ages of    *)
(* the time stamps; an age stops growing when nothing tells it apart.       *)
EXTENDS Integers, FiniteSets

CONSTANTS
    Device,          \* handles of the tiles, ordered as the map is
    Data,            \* service data a tile may advertise
    NoData,          \* an advertisement without service data
    Short,           \* service data of less than four characters
    Hash,            \* hashed tile ids
    HashOf,          \* the hashed id at the end of service data
    NoEntry,         \* not in the map
    NotifyInterval,  \* MAX_LE_TILE_NOTIFY_INTERVAL
    ScrubLimit,      \* MAX_TIME_BETWEEN_DISCOVERY
    FreshAges        \* what an uninitialised time stamp may amount to

\* Age of a time stamp that lies in the future.
Future == -1
SeenAge == {Future} \cup 0 .. ScrubLimit + 1

ASSUME DeviceAssumption == Device \subseteq Nat /\ IsFiniteSet(Device)
ASSUME DataAssumption == NoData \notin Data /\ Short \subseteq Data /\ HashOf \in [Data \ Short -> Hash]
ASSUME IntervalAssumption == NotifyInterval \in Nat /\ ScrubLimit \in Nat
ASSUME FreshAssumption == FreshAges \subseteq SeenAge

Whole == Data \ Short

\* The part of BtrLeDevProp that is read.  named: m_readValue holds a uuid.
Entry == [data : Whole, hash : Hash, named : BOOLEAN,
          seen : SeenAge, notified : 0 .. NotifyInterval]
ASSUME NoEntryAssumption == NoEntry \notin Entry

VARIABLES
    entry,    \* m_LeDevMap
    lsPc,     \* where the listener is
    lsDev,    \* the device it has heard
    lsData,   \* the service data it has heard
    lsSent,   \* whether the cloud took its notification
    main,     \* whether main is in the loop that scrubs, or at its end
    cloud     \* history: what the cloud was last offered of each device

lsVars == <<lsPc, lsDev, lsData, lsSent>>
vars == <<entry, lsVars, main, cloud>>

Known == {d \in Device : entry[d] # NoEntry}

\* Types; a listener that is to add or compare has heard service data.
TypeOK ==
    /\ entry \in [Device -> Entry \cup {NoEntry}]
    /\ lsPc \in {"idle", "alert", "add", "stamp", "compare", "stampChanged",
                 "record", "throttle", "renotify", "seen", "locked",
                 "crashed", "aborted"}
    /\ lsDev \in Device
    /\ lsData \in Data \cup {NoData}
    /\ lsSent \in BOOLEAN
    /\ main \in {"outside", "begun", "inside", "ended"}
    /\ cloud \in [Device -> [data : Whole \cup {NoData}, taken : BOOLEAN]]
    /\ lsPc \in {"alert", "compare"} => lsData \in Data
    /\ lsPc \in {"add", "stampChanged", "record"} => lsData \in Whole

Init ==
    /\ entry = [d \in Device |-> NoEntry]
    /\ lsPc = "idle"
    /\ lsDev \in Device
    /\ lsData = NoData
    /\ lsSent = FALSE
    /\ main = "outside"
    /\ cloud = [d \in Device |-> [data |-> NoData, taken |-> FALSE]]

Running == lsPc \notin {"locked", "crashed", "aborted"}

\* An event is dealt with; what was read of it is gone.
Finished == lsPc' = "idle" /\ lsData' = NoData /\ lsSent' = FALSE

-----------------------------------------------------------------------------
(* Event listener: LEMGR_EVENT_DEVICE_DISCOVERY_UPDATE *)

\* Mutant: an unknown tile without service data is alerted as well.
HearUnchecked(d, data) ==
    /\ lsPc = "idle"
    /\ lsDev' = d
    /\ lsData' = data
    /\ lsPc' = IF d \in Known
               THEN IF data = NoData THEN "throttle" ELSE "compare"
               ELSE "alert"
    /\ UNCHANGED <<entry, lsSent, main, cloud>>

\* is_LeDevPresentInMap and the branches on service data.  A tile that is
\* neither known nor has service data is connected to.
Hear(d, data) ==
    /\ lsPc = "idle"
    /\ lsDev' = d
    /\ lsData' = data
    /\ lsPc' = IF d \in Known
               THEN IF data = NoData THEN "throttle" ELSE "compare"
               ELSE IF data = NoData THEN "idle" ELSE "alert"
    /\ UNCHANGED <<entry, lsSent, main, cloud>>

\* LEMGR_EVENT_DEVICE_CONNECTION_COMPLETE of such a tile: once its uuid has
\* been read the listener locks m_mtxMap, and is_LeDevPresentInMap locks it
\* again.  The discovery list and the ring are in TileRing.
ReadOldTile ==
    /\ lsPc = "idle"
    /\ lsPc' = "locked"
    /\ UNCHANGED <<entry, lsDev, lsData, lsSent, main, cloud>>

\* notifyTileInfoCloud: the cloud takes the discovery alert or not.
Offer(d, data, taken) ==
    cloud' = [cloud EXCEPT ![d] = [data |-> data, taken |-> taken]]

\* substr(4) of service data that is shorter throws, and nobody catches it.
TooShort ==
    /\ lsData \in Short
    /\ lsPc' = "aborted"
    /\ UNCHANGED <<lsData, lsSent, cloud>>

\* Mutant: the device is added whether or not the cloud was notified.
AlertUnchecked ==
    /\ lsPc = "alert"
    /\ \/ TooShort
       \/ /\ lsData \notin Short
          /\ \E taken \in BOOLEAN : Offer(lsDev, lsData, taken)
          /\ lsSent' = TRUE
          /\ lsPc' = "add"
          /\ UNCHANGED lsData
    /\ UNCHANGED <<entry, lsDev, main>>

Alert ==
    /\ lsPc = "alert"
    /\ \/ TooShort
       \/ /\ lsData \notin Short
          /\ Offer(lsDev, lsData, TRUE)
          /\ lsSent' = TRUE
          /\ lsPc' = "add"
          /\ UNCHANGED lsData
       \/ /\ lsData \notin Short
          /\ Offer(lsDev, lsData, FALSE)
          /\ Finished
    /\ UNCHANGED <<entry, lsDev, main>>

\* add_LeDevPropToMap does not set m_lastSeenTimestamp.  The insertion does
\* not replace an entry.
Add ==
    /\ lsPc = "add"
    /\ \E age \in FreshAges :
          entry' = [entry EXCEPT ![lsDev] =
                      IF @ # NoEntry THEN @
                      ELSE [data |-> lsData, hash |-> HashOf[lsData],
                            named |-> FALSE, seen |-> age, notified |-> 0]]
    /\ lsPc' = "stamp"
    /\ UNCHANGED <<lsDev, lsData, lsSent, main, cloud>>

\* updateTimestamp_LeDevMap, if the device is still there.
Stamped == IF lsDev \in Known /\ lsSent
           THEN [entry EXCEPT ![lsDev].seen = 0, ![lsDev].notified = 0]
           ELSE entry

\* What follows the stamp.
AfterStamp ==
    \/ lsPc = "stamp" /\ Finished
    \/ lsPc = "stampChanged" /\ lsPc' = "record" /\ UNCHANGED <<lsData, lsSent>>

\* Mutant: a new entry is not stamped.
StampChangedOnly ==
    /\ entry' = IF lsPc = "stamp" THEN entry ELSE Stamped
    /\ AfterStamp
    /\ UNCHANGED <<lsDev, main, cloud>>

Stamp ==
    /\ entry' = Stamped
    /\ AfterStamp
    /\ UNCHANGED <<lsDev, main, cloud>>

\* The entry is used without the mutex: if it was scrubbed, operator []
\* makes a null one.
Compare ==
    /\ lsPc = "compare"
    /\ \/ /\ lsDev \notin Known
          /\ lsPc' = "crashed"
          /\ UNCHANGED <<lsData, lsSent, cloud>>
       \/ /\ lsDev \in Known
          /\ entry[lsDev].data = lsData
          /\ Finished
          /\ UNCHANGED cloud
       \/ lsDev \in Known /\ TooShort
       \/ /\ lsDev \in Known
          /\ entry[lsDev].data # lsData /\ lsData \notin Short
          /\ \E taken \in BOOLEAN :
                Offer(lsDev, lsData, taken) /\ lsSent' = taken
          /\ lsPc' = "stampChanged"
          /\ UNCHANGED lsData
    /\ UNCHANGED <<entry, lsDev, main>>

\* Mutant: changed service data is not recorded.
RecordNothing ==
    /\ lsPc = "record"
    /\ Finished
    /\ UNCHANGED <<entry, lsDev, main, cloud>>

\* Mutant: the entry is made anew for the changed service data.
RecordAnew ==
    /\ lsPc = "record"
    /\ entry' = IF lsDev \in Known
                THEN [entry EXCEPT ![lsDev] =
                        [data |-> lsData, hash |-> HashOf[lsData],
                         named |-> FALSE, seen |-> 0, notified |-> 0]]
                ELSE entry
    /\ Finished
    /\ UNCHANGED <<lsDev, main, cloud>>

\* updateTileServiceData_LeDevMap, whether or not the cloud was notified;
\* the hashed id of the entry stays.
Record ==
    /\ lsPc = "record"
    /\ entry' = IF lsDev \in Known
                THEN [entry EXCEPT ![lsDev].data = lsData] ELSE entry
    /\ Finished
    /\ UNCHANGED <<lsDev, main, cloud>>

\* check_LeDevThrottleTimeInMap: also false if the device is not there.
Throttle ==
    /\ lsPc = "throttle"
    /\ lsPc' = IF /\ lsDev \in Known
                  /\ entry[lsDev].notified >= NotifyInterval
               THEN "renotify" ELSE "seen"
    /\ UNCHANGED <<entry, lsDev, lsData, lsSent, main, cloud>>

\* A tile without a uuid cannot be notified.
Renotify ==
    /\ lsPc = "renotify"
    /\ \E told \in BOOLEAN :
          lsSent' = (told /\ lsDev \in Known /\ entry[lsDev].named)
    /\ lsPc' = "stamp"
    /\ UNCHANGED <<entry, lsDev, lsData, main, cloud>>

Seen ==
    /\ lsPc = "seen"
    /\ \/ /\ lsDev \in Known
          /\ entry' = [entry EXCEPT ![lsDev].seen = 0]
          /\ Finished
       \/ /\ lsDev \notin Known
          /\ lsPc' = "crashed"
          /\ UNCHANGED <<entry, lsData, lsSent>>
    /\ UNCHANGED <<lsDev, main, cloud>>

-----------------------------------------------------------------------------
(* Other threads *)

\* The request processor records the uuid of an OPEN request.
Name(d) ==
    /\ Running
    /\ d \in Known
    /\ entry' = [entry EXCEPT ![d].named = TRUE]
    /\ UNCHANGED <<lsVars, main, cloud>>

\* The main thread finds no beacon limit and enters its inner loop.
EnterLoop ==
    /\ Running
    /\ main = "outside"
    /\ main' = "begun"
    /\ UNCHANGED <<entry, lsVars, cloud>>

\* It finds one, which it looks for after a scrub, and leaves the loop.
LeaveLoop ==
    /\ Running
    /\ main = "inside"
    /\ main' = "outside"
    /\ UNCHANGED <<entry, lsVars, cloud>>

\* SIGTERM ends both loops of main, wherever it is.
QuitLoops ==
    /\ Running
    /\ main # "ended"
    /\ main' = "ended"
    /\ UNCHANGED <<entry, lsVars, cloud>>

Stale == {d \in Known : entry[d].seen > ScrubLimit}

First(d) == \A e \in Known : d <= e

\* The iterator that erase returns is decremented.  If the first entry was
\* erased that is undefined, and any later entries may be skipped.
Removals ==
    {gone \in SUBSET Stale :
        \/ gone = Stale
        \/ \E d \in gone : First(d)}

\* run_periodic_maintenance, on every turn of the inner loop of main:
\* scrub_unreachable_devices.
Scrub ==
    /\ Running
    /\ main \in {"begun", "inside"}
    /\ \E gone \in Removals :
          entry' = [d \in Device |-> IF d \in gone THEN NoEntry ELSE entry[d]]
    /\ main' = "inside"
    /\ UNCHANGED <<lsVars, cloud>>

Older(age, limit) == IF age = Future \/ age = limit THEN age ELSE age + 1

Tick ==
    /\ Running
    /\ entry' = [d \in Device |->
                   IF d \in Known
                   THEN [entry[d] EXCEPT
                           !.seen = Older(@, ScrubLimit + 1),
                           !.notified = Older(@, NotifyInterval)]
                   ELSE NoEntry]
    /\ UNCHANGED <<lsVars, main, cloud>>

-----------------------------------------------------------------------------
Listener == Alert \/ Add \/ Stamp \/ Compare \/ Record \/ Throttle
                \/ Renotify \/ Seen

Next == \/ \E d \in Device, data \in Data \cup {NoData} : Hear(d, data)
        \/ ReadOldTile
        \/ Listener
        \/ \E d \in Device : Name(d)
        \/ EnterLoop \/ Scrub \/ LeaveLoop \/ QuitLoops
        \/ Tick

Spec == Init /\ [][Next]_vars

\* The listener finishes what it has heard, the main thread makes its turn
\* when it is in the inner loop, and time passes.  Nothing is assumed of the
\* beacon limit, which decides about that loop.
FairSpec == Spec /\ WF_vars(Listener) /\ WF_vars(Scrub) /\ WF_vars(Tick)

-----------------------------------------------------------------------------
(* Properties *)

\* A device enters the map only with service data the cloud has just taken
\* ("If not notified then don't add to hash list", btrTileMgr.cpp:94).
AddedIsTold ==
    [][\A d \in Device :
         entry[d] = NoEntry /\ entry'[d] # NoEntry
           => cloud[d] = [data |-> entry'[d].data, taken |-> TRUE]]_vars

\* While a device stays in the map, the cloud is not offered again what it
\* has taken: through changes, failures and scrubs of other devices.
NotToldTwice ==
    [][\A d \in Device :
         (lsPc = "compare" /\ lsPc' = "stampChanged" /\ lsDev = d)
           => cloud[d] # [data |-> lsData, taken |-> TRUE]]_vars

HeardUpTo(d) == \E e \in Device, data \in Data \cup {NoData} : e <= d /\ Hear(e, data)

\* A device that is not heard any more leaves the map, whatever entries the
\* scrub skips and however often a beacon limit comes and goes: if those
\* before it are not heard either, which may hide it, the limit does not stay
\* for good, main does not quit, and the listener neither ends the process
\* nor locks the map for ever.
SilentGoes ==
    \A d \in Device :
        <>[][~HeardUpTo(d)]_vars
            => <>[](d \notin Known \/ ~Running) \/ <>[](main \in {"outside", "ended"})

\* "If notified, then add in hash list with updated time-stamp"
\* (btrTileMgr.cpp:93): an entry is not scrubbed before it has its stamp.
AddedIsStamped ==
    [][lsPc = "stamp" /\ lsSent /\ lsDev \in Known
         => entry'[lsDev] # NoEntry]_vars

\* An entry is removed "as it is no longer in range" (btrTileMgr.cpp:2120):
\* a sighting of a device in the map refreshes its stamp.
SightingRefreshes ==
    [][lsPc # "idle" /\ lsPc' = "idle" /\ entry'[lsDev] # NoEntry
         => entry'[lsDev].seen = 0]_vars

\* "once you give up the mutex, the iterators are no longer guaranteed to be
\* valid" (btrTileMgr.cpp:1176): no use of an entry that was removed.
NoNullEntry == lsPc # "crashed"

\* The threads that ring a tile meet a TileTable: an entry stays as it was
\* entered, with its hashed id and its uuid, through rotations of its service
\* data, stamps and scrubs of others, until it leaves as a whole.
Table == INSTANCE TileTable WITH
    key <- [d \in Known |-> entry[d].hash],
    named <- {d \in Known : entry[d].named}

IsTileTable == Table!TableSpec

\* The hashed id the cloud was last told of a device in the map is the one
\* the device is found by.
HashCurrent ==
    \A d \in Known : (cloud[d].taken /\ ~(lsDev = d /\ lsPc = "stampChanged"))
                        => entry[d].hash = HashOf[cloud[d].data]

\* Service data that was recorded was notified ("if Service Data present and
\* changing for same mac address, then notify", btrTileMgr.cpp:164).
RecordedIsTold ==
    lsPc = "idle" => \A d \in Known : cloud[d].taken
=============================================================================
