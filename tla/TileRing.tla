------------------------------ MODULE TileRing ------------------------------
(* Ring requests of class BtrTileMgr (src/src/btrTileMgr.cpp).              *)
(*                                                                          *)
(* The cloud rings a tile by an OPEN request ("MEP_TOA_OPEN_CHANNEL"), gets *)
(* the tile's random number back, and sends the ring commands in a SEND     *)
(* request ("MEP_TOA_SEND_COMMANDS").  Three kinds of threads work on the   *)
(* single record m_stRingAttributes:                                        *)
(*   - RPC threads (Caller) check a request and queue it,                   *)
(*   - the request processor takes it from the queue (stage2),              *)
(*   - the event listener handles what the Bluetooth manager reports.       *)
(* Two mutexes matter: m_request_mutex (R), held by the request processor   *)
(* from Fill to Dispatch and by every listener step that is one action      *)
(* below, and m_mtxMap (M), which guards the map of tiles.                  *)
(* A step that the code runs without R has no RequestMutexFree guard.       *)
EXTENDS Naturals, Sequences

CONSTANTS
    Device,        \* Bluetooth handles of the tiles around the box
    ServData,      \* those that advertise service data ("new" tiles)
    Tile,          \* tile uuids
    Hash,          \* hashed tile ids carried by service data
    NoDev, NoTile, \* a zero handle, an empty uuid
    TileOf,        \* the tile a device really is
    HashOf,        \* the hashed id a device advertises
    Messages,      \* the requests the cloud may send
    Caller,        \* RPC threads
    NoReq,         \* a caller without a request
    BootRing,      \* what the uninitialised ring_state may hold at start
    LimitValues,   \* values of the beacon detection limit
    Orderly,       \* TRUE: one request at a time, in protocol order
    MaxReq,        \* bound: requests the cloud sends
    MaxEvents      \* bound: events waiting for the listener

RingState == {"FAILED", "NO", "INITIATED", "TO_CONNECT", "OPENNED",
              "RECEIVED_RAND_T", "NOTIFY_RAND_T", "RECEIVED_SEND_COMMANDS",
              "COMMANDS_READY", "READY_RESPONSE", "COMMANDS_PLAY",
              "PLAY_RESPONSE"}

\* REQUEST_INITIATED <= ring_state < RING_DONE
InProgress == RingState \ {"FAILED", "NO"}

OperCode == {"NONE", "OPEN", "SEND"}

\* "OTHER" is a missing or an unknown code.  auth: rand_a and session_token
\* are there; ready, play: the command and its mask are there.
Message == [code : {"OPEN", "SEND", "OTHER"}, tile : Tile \cup {NoTile},
            hashed : BOOLEAN, hashes : SUBSET Hash, auth : BOOLEAN,
            ready : BOOLEAN, play : BOOLEAN,
            disc : {"absent", "true", "false"}]

\* A request carries its number: it stands for session_token and rand_a.
Request == [id : Nat, msg : Message]

EventType == {"STARTED", "UPDATE", "CONNECTED", "CONNECT_FAILED",
              "DISCONNECTED", "NOTIFICATION"}
Event == [type : EventType, dev : Device \cup {NoDev}]

Attributes == [isRingRequested : BOOLEAN, isConnected : BOOLEAN,
               tile_uuid : Tile \cup {NoTile}, devId : Device \cup {NoDev},
               oper_code : OperCode, session_token : Nat,
               ring_state : RingState, received_HashIDs : SUBSET Hash,
               cmd_Ready : BOOLEAN, cmd_Play : BOOLEAN,
               rsp_Ready : BOOLEAN, rsp_Play : BOOLEAN,
               disconnect_on_completion : BOOLEAN]

Command == [cmd : {"NONE", "OPEN", "READY", "PLAY"}, token : Nat]
Silence == [cmd |-> "NONE", token |-> 0]

ASSUME NoDevAssumption == NoDev \notin Device
ASSUME NoTileAssumption == NoTile \notin Tile
ASSUME DevicesAssumption == /\ ServData \subseteq Device
                            /\ TileOf \in [Device -> Tile]
                            /\ HashOf \in [Device -> Hash]
ASSUME MessagesAssumption == Messages \subseteq Message
ASSUME NoReqAssumption == NoReq \notin Request
ASSUME BootAssumption == BootRing \subseteq RingState
ASSUME LimitAssumption == LimitValues \subseteq BOOLEAN
ASSUME BoundsAssumption == MaxReq \in Nat /\ MaxEvents \in Nat

VARIABLES
    attr,        \* m_stRingAttributes
    sent,        \* number of requests sent so far
    pending,     \* caller -> request it has checked and will queue
    reqQueue,    \* m_request_queue
    procPc,      \* where the request processor is
    handle,      \* the device its lookup found
    evQueue,     \* the event queue of BtrMgrIf
    lsPc,        \* where the listener is
    lsDev,       \* the device whose event it handles
    lsToken,     \* history: the session it handles that event for
    list,        \* m_LeDevList, the discovery list
    known,       \* devices in m_LeDevMap
    tileId,      \* m_readValue of the map entries
    limited,     \* m_limit
    link,        \* Bluetooth links
    wire,        \* the last command each tile received over its link
    owed,        \* devices that have yet to answer that command
    told,        \* sessions whose RAND_T was passed to notifyTileInfoCloud
    answered     \* the same of their command response

cloudVars == <<sent, pending, reqQueue>>
procVars == <<procPc, handle>>
lsVars == <<lsPc, lsDev, lsToken>>
mapVars == <<known, tileId, limited>>
linkVars == <<link, wire, owed>>
cloudSeen == <<told, answered>>
vars == <<attr, cloudVars, procVars, evQueue, lsVars, list, mapVars,
          linkVars, cloudSeen>>

\* static stRingAttributes empty = {0}
Empty == [isRingRequested |-> FALSE, isConnected |-> FALSE,
          tile_uuid |-> NoTile, devId |-> NoDev, oper_code |-> "NONE",
          session_token |-> 0, ring_state |-> "NO",
          received_HashIDs |-> {}, cmd_Ready |-> FALSE, cmd_Play |-> FALSE,
          rsp_Ready |-> FALSE, rsp_Play |-> FALSE,
          disconnect_on_completion |-> FALSE]

\* Types; a thread that is busy with a device knows which.
TypeOK ==
    /\ attr \in Attributes
    /\ sent \in Nat
    /\ pending \in [Caller -> Request \cup {NoReq}]
    /\ reqQueue \in Seq(Request)
    /\ procPc \in {"pop", "lookup", "dispatch", "start", "connect",
                   "ready", "readyWritten", "readyFailed"}
    /\ handle \in Device \cup {NoDev}
    /\ evQueue \in Seq(Event)
    /\ lsPc \in {"pop", "open", "opened", "openFailed", "play", "played",
                 "playFailed", "disc", "discRet", "readId", "stuck"}
    /\ lsDev \in Device \cup {NoDev}
    /\ lsToken \in Nat
    /\ list \subseteq Device
    /\ known \subseteq Device
    /\ tileId \in [Device -> Tile \cup {NoTile}]
    /\ limited \in BOOLEAN
    /\ link \in [Device -> {"down", "connecting", "up", "closing"}]
    /\ wire \in [Device -> Command]
    /\ owed \subseteq Device
    /\ told \subseteq Nat
    /\ answered \subseteq Nat
    /\ procPc \notin {"pop", "lookup"} => handle \in Device
    /\ lsPc # "pop" => lsDev \in Device

\* The constructor leaves the flags and the enum of m_stRingAttributes
\* uninitialised.
Init ==
    /\ \E requested, connected, disc \in BOOLEAN, boot \in BootRing :
          attr = [Empty EXCEPT !.isRingRequested = requested,
                               !.isConnected = connected,
                               !.disconnect_on_completion = disc,
                               !.ring_state = boot]
    /\ sent = 0
    /\ pending = [c \in Caller |-> NoReq]
    /\ reqQueue = <<>>
    /\ procPc = "pop"
    /\ handle = NoDev
    /\ evQueue = <<>>
    /\ lsPc = "pop"
    /\ lsDev = NoDev
    /\ lsToken = 0
    /\ list = {}
    /\ known = {}
    /\ tileId = [d \in Device |-> NoTile]
    /\ limited \in LimitValues
    /\ link = [d \in Device |-> "down"]
    /\ wire = [d \in Device |-> Silence]
    /\ owed = {}
    /\ told = {}
    /\ answered = {}

-----------------------------------------------------------------------------
(* Locks and small helpers *)

RequestMutexFree == procPc \notin {"lookup", "dispatch"}

\* The listener locks m_mtxMap and then calls is_LeDevPresentInMap, which
\* locks it again: it never comes back and never releases the mutex.
MapMutexFree == lsPc # "stuck"

RingTarget(d) == attr.isRingRequested /\ attr.devId = d

\* A write reaches the tile over its link, and the tile has to answer it.
Deliver(d, command) ==
    /\ link[d] = "up"
    /\ wire' = [wire EXCEPT ![d] = [cmd |-> command,
                                    token |-> attr.session_token]]
    /\ owed' = owed \cup {d}
    /\ UNCHANGED link

\* BTRMGR_ConnectToDevice: the call starts connecting a device.
StartConnect(d) ==
    link' = IF link[d] = "down" THEN [link EXCEPT ![d] = "connecting"]
                                ELSE link

\* BTRMGR_DisconnectFromDevice: the call may fail, its result is ignored.
StartDisconnect(d) ==
    link' \in {link, IF link[d] = "up" THEN [link EXCEPT ![d] = "closing"]
                                       ELSE link}

Post(type, d) ==
    /\ Len(evQueue) < MaxEvents
    /\ evQueue' = Append(evQueue, [type |-> type, dev |-> d])

-----------------------------------------------------------------------------
(* RPC threads: processTileCmdRequest *)

Quiet == /\ procPc = "pop"
         /\ lsPc = "pop"
         /\ reqQueue = <<>>
         /\ evQueue = <<>>
         /\ \A c \in Caller : pending[c] = NoReq

\* What a cloud that waits for each answer sends next.
InOrder(m) ==
    /\ Quiet
    /\ \/ m.code = "OPEN" /\ attr.devId = NoDev
       \/ /\ m.code = "SEND"
          /\ attr.ring_state = "NOTIFY_RAND_T"
          /\ attr.tile_uuid = m.tile

\* checkTileCmdRequest refuses an OPEN for the tile being rung.  It reads
\* the attributes without R.
Refused(m) ==
    /\ attr.isRingRequested
    /\ attr.ring_state \in InProgress
    /\ m.code = "OPEN"
    /\ m.tile # NoTile
    /\ m.tile = attr.tile_uuid

CheckRequest(c, m) ==
    /\ pending[c] = NoReq
    /\ sent < MaxReq
    /\ Orderly => InOrder(m)
    /\ sent' = sent + 1
    /\ pending' = IF Refused(m) THEN pending
                  ELSE [pending EXCEPT ![c] = [id |-> sent', msg |-> m]]
    /\ UNCHANGED <<attr, reqQueue, procVars, evQueue, lsVars, list, mapVars,
                   linkVars, cloudSeen>>

PushRequest(c) ==
    /\ pending[c] # NoReq
    /\ RequestMutexFree
    /\ reqQueue' = Append(reqQueue, pending[c])
    /\ pending' = [pending EXCEPT ![c] = NoReq]
    /\ UNCHANGED <<attr, sent, procVars, evQueue, lsVars, list, mapVars,
                   linkVars, cloudSeen>>

-----------------------------------------------------------------------------
(* Request processor: request_processor, processTileCmdRequest_stage2 *)

\* Mutant: the hashed ids of the last request are not cleared.
OpenAttributesKeepingHashes(r) ==
    [attr EXCEPT !.isRingRequested = TRUE, !.oper_code = "OPEN",
                 !.ring_state = "INITIATED",
                 !.received_HashIDs = @ \cup r.msg.hashes,
                 !.tile_uuid = r.msg.tile, !.session_token = r.id]

OpenAttributes(r) ==
    [attr EXCEPT
        !.isRingRequested = TRUE,
        !.oper_code = "OPEN",
        !.ring_state = "INITIATED",
        !.received_HashIDs = IF r.msg.hashed THEN r.msg.hashes ELSE @,
        !.tile_uuid = IF r.msg.tile # NoTile THEN r.msg.tile ELSE @,
        !.session_token = IF r.msg.auth THEN r.id ELSE @]

\* Mutant: a SEND brings a session_token of its own.
SendAttributesRenamed(r) ==
    [attr EXCEPT !.oper_code = "SEND",
                 !.ring_state = "RECEIVED_SEND_COMMANDS",
                 !.cmd_Ready = @ \/ r.msg.ready,
                 !.cmd_Play = @ \/ r.msg.play,
                 !.session_token = r.id]

\* strncasecmp over the length of the named uuid: an empty one matches.
SendAttributes(r) ==
    IF r.msg.tile \in {NoTile, attr.tile_uuid}
    THEN [attr EXCEPT
            !.oper_code = "SEND",
            !.ring_state = "RECEIVED_SEND_COMMANDS",
            !.cmd_Ready = @ \/ r.msg.ready,
            !.cmd_Play = @ \/ r.msg.play,
            !.disconnect_on_completion =
                IF r.msg.disc = "absent" THEN @ ELSE r.msg.disc = "true"]
    ELSE [attr EXCEPT !.oper_code = "SEND", !.ring_state = "INITIATED"]

Filled(r) == CASE r.msg.code = "OPEN" -> OpenAttributes(r)
               [] r.msg.code = "SEND" -> SendAttributes(r)
               [] OTHER -> [attr EXCEPT !.ring_state = "INITIATED"]

\* Takes the oldest request and, with R, overwrites the attributes.
Fill ==
    /\ procPc = "pop"
    /\ reqQueue # <<>>
    /\ attr' = Filled(Head(reqQueue))
    /\ reqQueue' = Tail(reqQueue)
    /\ procPc' = "lookup"
    /\ UNCHANGED <<sent, pending, handle, evQueue, lsVars, list, mapVars,
                   linkVars, cloudSeen>>

\* retrieve_DevId_from_RingAttributes: by hashed id for an OPEN that has
\* some, otherwise by tile uuid.
Matches ==
    IF limited THEN {}
    ELSE IF attr.received_HashIDs = {} \/ attr.oper_code # "OPEN"
    THEN {d \in known : attr.tile_uuid # NoTile /\ tileId[d] = attr.tile_uuid}
    ELSE {d \in known : HashOf[d] \in attr.received_HashIDs}

\* Mutant: a zero handle is not refused.
LookupUnchecked ==
    /\ procPc = "lookup"
    /\ MapMutexFree
    /\ handle' \in Matches \cup {NoDev}
    /\ procPc' = "dispatch"
    /\ UNCHANGED <<attr, cloudVars, evQueue, lsVars, list, mapVars, linkVars,
                   cloudSeen>>

LookupFound ==
    /\ procPc = "lookup"
    /\ MapMutexFree
    /\ handle' \in Matches
    /\ procPc' = "dispatch"
    /\ UNCHANGED <<attr, cloudVars, evQueue, lsVars, list, mapVars, linkVars,
                   cloudSeen>>

\* Mutant: the processor waits for the tile, with R.
LookupWaits ==
    /\ procPc = "lookup"
    /\ limited \/ MapMutexFree
    /\ Matches = {}
    /\ UNCHANGED vars

\* LEMGR_RESULT_LE_FAIL_TO_DISCOVER: the attributes stay as they are.
LookupNone ==
    /\ procPc = "lookup"
    /\ limited \/ MapMutexFree
    /\ Matches = {}
    /\ procPc' = "pop"
    /\ UNCHANGED <<attr, cloudVars, handle, evQueue, lsVars, list, mapVars,
                   linkVars, cloudSeen>>

\* Mutant: the entry is not looked for.
RecordTileUnchecked(d) == tileId' = [tileId EXCEPT ![d] = attr.tile_uuid]

\* updateTileUUID_LeDevMap
RecordTile(d) ==
    tileId' = IF d \in known THEN [tileId EXCEPT ![d] = attr.tile_uuid]
                             ELSE tileId

DispatchOpen ==
    /\ procPc = "dispatch"
    /\ MapMutexFree
    /\ attr.oper_code = "OPEN"
    /\ attr.tile_uuid # NoTile
    /\ attr' = [attr EXCEPT !.devId = handle, !.isRingRequested = TRUE,
                            !.ring_state = "TO_CONNECT", !.isConnected = TRUE]
    /\ RecordTile(handle)
    /\ procPc' = "start"
    /\ UNCHANGED <<cloudVars, handle, evQueue, lsVars, list, known, limited,
                   linkVars, cloudSeen>>

\* doConnect is called without R.
ConnectStarts ==
    /\ procPc = "start"
    /\ StartConnect(handle)
    /\ procPc' = "connect"
    /\ UNCHANGED <<attr, cloudVars, handle, evQueue, lsVars, list, mapVars,
                   wire, owed, cloudSeen>>

ConnectSucceeds ==
    /\ procPc = "connect"
    /\ procPc' = "pop"
    /\ handle' = NoDev
    /\ UNCHANGED <<attr, cloudVars, evQueue, lsVars, list, mapVars, linkVars,
                   cloudSeen>>

ConnectFails ==
    /\ procPc = "connect"
    /\ attr' = Empty
    /\ link' = IF link[handle] = "connecting"
               THEN [link EXCEPT ![handle] = "down"] ELSE link
    /\ procPc' = "pop"
    /\ handle' = NoDev
    /\ UNCHANGED <<cloudVars, evQueue, lsVars, list, mapVars, wire, owed,
                   cloudSeen>>

\* R is released before the write, or at the return if nothing is written.
DispatchSend ==
    /\ procPc = "dispatch"
    /\ attr.oper_code = "SEND"
    /\ attr.tile_uuid # NoTile
    /\ IF /\ attr.isConnected
          /\ attr.ring_state = "RECEIVED_SEND_COMMANDS"
          /\ attr.cmd_Ready
       THEN procPc' = "ready" /\ UNCHANGED handle
       ELSE procPc' = "pop" /\ handle' = NoDev
    /\ UNCHANGED <<attr, cloudVars, evQueue, lsVars, list, mapVars, linkVars,
                   cloudSeen>>

DispatchNone ==
    /\ procPc = "dispatch"
    /\ attr.oper_code = "NONE" \/ attr.tile_uuid = NoTile
    /\ attr' = Empty
    /\ procPc' = "pop"
    /\ handle' = NoDev
    /\ UNCHANGED <<cloudVars, evQueue, lsVars, list, mapVars, linkVars,
                   cloudSeen>>

\* write_TOA_CMD_READY runs without R.
ReadyWrite ==
    /\ procPc = "ready"
    /\ attr.cmd_Ready
    /\ Deliver(handle, "READY")
    /\ procPc' = "readyWritten"
    /\ UNCHANGED <<attr, cloudVars, handle, evQueue, lsVars, list, mapVars,
                   cloudSeen>>

ReadyWriteFails ==
    /\ procPc = "ready"
    /\ attr' = Empty
    /\ procPc' = "readyFailed"
    /\ UNCHANGED <<cloudVars, handle, evQueue, lsVars, list, mapVars,
                   linkVars, cloudSeen>>

ReadySet ==
    /\ procPc = "readyWritten"
    /\ attr' = [attr EXCEPT !.ring_state = "COMMANDS_READY"]
    /\ procPc' = "pop"
    /\ handle' = NoDev
    /\ UNCHANGED <<cloudVars, evQueue, lsVars, list, mapVars, linkVars,
                   cloudSeen>>

\* ... and stage2 empties the attributes once more, with R.
ReadyFailReturn ==
    /\ procPc = "readyFailed"
    /\ attr' = Empty
    /\ procPc' = "pop"
    /\ handle' = NoDev
    /\ UNCHANGED <<cloudVars, evQueue, lsVars, list, mapVars, linkVars,
                   cloudSeen>>

-----------------------------------------------------------------------------
(* Event listener: receiver_LeEventQ *)

\* The listener takes the oldest event; it is done with it at once, or
\* (Begin) goes on with the device's event at pc.
Take(type, d) ==
    /\ lsPc = "pop"
    /\ evQueue # <<>>
    /\ Head(evQueue) = [type |-> type, dev |-> d]
    /\ evQueue' = Tail(evQueue)

Begin(pc, d) ==
    /\ lsPc' = pc
    /\ lsDev' = d
    /\ lsToken' = attr.session_token

Finish ==
    /\ lsPc' = "pop"
    /\ lsDev' = NoDev
    /\ lsToken' = 0

OnDiscoveryStarted ==
    /\ Take("STARTED", NoDev)
    /\ list' = {}
    /\ UNCHANGED <<attr, cloudVars, procVars, lsVars, mapVars, linkVars,
                   cloudSeen>>

\* A device with service data enters the map if the cloud takes the
\* notification; it has a hashed id and no uuid yet.
OnUpdateServData(d) ==
    /\ Take("UPDATE", d)
    /\ d \in ServData
    /\ list' = list \cup {d}
    /\ \/ d \notin known /\ known' = known \cup {d}
       \/ UNCHANGED known
    /\ UNCHANGED <<attr, cloudVars, procVars, lsVars, tileId, limited,
                   linkVars, cloudSeen>>

\* An old tile is connected to, to read its uuid; the call may fail.
OnUpdateOld(d) ==
    /\ Take("UPDATE", d)
    /\ d \notin ServData
    /\ list' = list \cup {d}
    /\ IF d \in known THEN UNCHANGED link
       ELSE StartConnect(d) \/ UNCHANGED link
    /\ UNCHANGED <<attr, cloudVars, procVars, lsVars, mapVars, wire, owed,
                   cloudSeen>>

OnConnectedUnlisted(d) ==
    /\ Take("CONNECTED", d)
    /\ d \notin list
    /\ UNCHANGED <<attr, cloudVars, procVars, lsVars, list, mapVars,
                   linkVars, cloudSeen>>

\* The device to ring is connected: within 30 s of the request, open the
\* channel (without R); later, drop the request.
OnConnectedRing(d) ==
    /\ Take("CONNECTED", d)
    /\ d \in list
    /\ RequestMutexFree
    /\ RingTarget(d)
    /\ \/ /\ attr' = [attr EXCEPT !.isConnected = TRUE]
          /\ IF attr.oper_code = "OPEN" THEN Begin("open", d)
                                        ELSE UNCHANGED lsVars
       \/ attr' = Empty /\ UNCHANGED lsVars
    /\ UNCHANGED <<cloudVars, procVars, list, mapVars, linkVars, cloudSeen>>

OnConnectedOther(d) ==
    /\ Take("CONNECTED", d)
    /\ d \in list
    /\ RequestMutexFree
    /\ ~RingTarget(d)
    /\ IF d \in ServData THEN UNCHANGED lsVars ELSE Begin("readId", d)
    /\ UNCHANGED <<attr, cloudVars, procVars, list, mapVars, linkVars,
                   cloudSeen>>

\* getTileIdCore, then always doDisconnect.  A uuid that was read is never
\* recorded: the listener locks m_mtxMap twice.
ReadId ==
    /\ lsPc = "readId"
    /\ StartDisconnect(lsDev)
    /\ \/ Finish
       \/ lsPc' = "stuck" /\ UNCHANGED <<lsDev, lsToken>>
    /\ UNCHANGED <<attr, cloudVars, procVars, evQueue, list, mapVars, wire,
                   owed, cloudSeen>>

\* write_TOA_CMD_OPEN_CHANNEL runs without R; on failure it empties the
\* attributes, whatever they hold by then.
OpenWrite ==
    /\ lsPc = "open"
    /\ attr.session_token # 0
    /\ Deliver(lsDev, "OPEN")
    /\ lsPc' = "opened"
    /\ UNCHANGED <<attr, cloudVars, procVars, evQueue, lsDev, lsToken, list,
                   mapVars, cloudSeen>>

OpenWriteFails ==
    /\ lsPc = "open"
    /\ attr' = Empty
    /\ lsPc' = "openFailed"
    /\ UNCHANGED <<cloudVars, procVars, evQueue, lsDev, lsToken, list,
                   mapVars, linkVars, cloudSeen>>

\* Mutant: no re-check of the request after the write.
OpenUnchecked == TRUE

\* With R again: "the request is no longer current" unless both agree.
OpenIsCurrent == attr.devId = lsDev /\ attr.ring_state = "TO_CONNECT"

\* Mutant: the listener tries again until the request is current.
OpenRetries ==
    /\ lsPc \in {"opened", "openFailed"}
    /\ RequestMutexFree
    /\ IF OpenIsCurrent
       THEN attr' = [attr EXCEPT !.ring_state = "OPENNED"] /\ Finish
       ELSE lsPc' = "open" /\ UNCHANGED <<attr, lsDev, lsToken>>
    /\ UNCHANGED <<cloudVars, procVars, evQueue, list, mapVars, linkVars,
                   cloudSeen>>

OpenReturn ==
    /\ lsPc \in {"opened", "openFailed"}
    /\ RequestMutexFree
    /\ attr' = IF OpenIsCurrent
               THEN [attr EXCEPT !.ring_state = IF lsPc = "opened"
                                                THEN "OPENNED" ELSE "FAILED"]
               ELSE attr
    /\ Finish
    /\ UNCHANGED <<cloudVars, procVars, evQueue, list, mapVars, linkVars,
                   cloudSeen>>

\* Nothing but a time stamp.
OnConnectFailed(d) ==
    /\ Take("CONNECT_FAILED", d)
    /\ UNCHANGED <<attr, cloudVars, procVars, lsVars, list, mapVars,
                   linkVars, cloudSeen>>

\* Mutant: only the flags of the request are reset.
OnDisconnectedFlags(d) ==
    /\ Take("DISCONNECTED", d)
    /\ RequestMutexFree
    /\ attr' = IF RingTarget(d)
               THEN [attr EXCEPT !.isRingRequested = FALSE,
                                 !.isConnected = FALSE]
               ELSE attr
    /\ UNCHANGED <<cloudVars, procVars, lsVars, list, mapVars, linkVars,
                   cloudSeen>>

OnDisconnected(d) ==
    /\ Take("DISCONNECTED", d)
    /\ RequestMutexFree
    /\ attr' = IF RingTarget(d) THEN Empty ELSE attr
    /\ UNCHANGED <<cloudVars, procVars, lsVars, list, mapVars, linkVars,
                   cloudSeen>>

\* A notification for a device that is not listed, not the one being rung,
\* or not awaited in this ring_state.
OnNotifyIgnored(d) ==
    /\ Take("NOTIFICATION", d)
    /\ \/ d \notin list
       \/ /\ RequestMutexFree
          /\ \/ ~RingTarget(d)
             \/ attr.ring_state \notin {"OPENNED", "COMMANDS_READY",
                                        "COMMANDS_PLAY"}
    /\ UNCHANGED <<attr, cloudVars, procVars, lsVars, list, mapVars,
                   linkVars, cloudSeen>>

Notified(d, state) ==
    /\ Take("NOTIFICATION", d)
    /\ d \in list
    /\ RequestMutexFree
    /\ RingTarget(d)
    /\ attr.ring_state = state

\* Mutant: ring_state still waits for the tile's random number.
OnNotifyOpennedAgain(d) ==
    /\ Notified(d, "OPENNED")
    /\ told' = told \cup {attr.session_token}
    /\ UNCHANGED <<attr, cloudVars, procVars, lsVars, list, mapVars,
                   linkVars, answered>>

\* send_Rand_T_Notification: the state moves on whether or not the cloud
\* takes the notification.
OnNotifyOpenned(d) ==
    /\ Notified(d, "OPENNED")
    /\ IF attr.session_token # 0
       THEN /\ attr' = [attr EXCEPT !.ring_state = "NOTIFY_RAND_T"]
            /\ told' = told \cup {attr.session_token}
       ELSE /\ attr' = [attr EXCEPT !.ring_state = "RECEIVED_RAND_T"]
            /\ UNCHANGED told
    /\ UNCHANGED <<cloudVars, procVars, lsVars, list, mapVars, linkVars,
                   answered>>

OnNotifyReady(d) ==
    /\ Notified(d, "COMMANDS_READY")
    /\ attr' = [attr EXCEPT !.ring_state = "READY_RESPONSE",
                            !.rsp_Ready = TRUE]
    /\ Begin("play", d)
    /\ UNCHANGED <<cloudVars, procVars, list, mapVars, linkVars, cloudSeen>>

\* write_TOA_CMD_PLAY runs without R.
PlayWrite ==
    /\ lsPc = "play"
    /\ attr.cmd_Play
    /\ Deliver(lsDev, "PLAY")
    /\ lsPc' = "played"
    /\ UNCHANGED <<attr, cloudVars, procVars, evQueue, lsDev, lsToken, list,
                   mapVars, cloudSeen>>

\* Mutant: the failure of the write is ignored.
PlayFailureIgnored ==
    /\ lsPc = "play"
    /\ lsPc' = "played"
    /\ UNCHANGED <<attr, cloudVars, procVars, evQueue, lsDev, lsToken, list,
                   mapVars, linkVars, cloudSeen>>

PlayWriteFails ==
    /\ lsPc = "play"
    /\ attr' = Empty
    /\ lsPc' = "playFailed"
    /\ UNCHANGED <<cloudVars, procVars, evQueue, lsDev, lsToken, list,
                   mapVars, linkVars, cloudSeen>>

PlaySet ==
    /\ lsPc = "played"
    /\ attr' = [attr EXCEPT !.ring_state = "COMMANDS_PLAY"]
    /\ Finish
    /\ UNCHANGED <<cloudVars, procVars, evQueue, list, mapVars, linkVars,
                   cloudSeen>>

PlayFailReturn ==
    /\ lsPc = "playFailed"
    /\ RequestMutexFree
    /\ attr' = IF attr.devId = lsDev /\ attr.ring_state = "READY_RESPONSE"
               THEN Empty ELSE attr
    /\ Finish
    /\ UNCHANGED <<cloudVars, procVars, evQueue, list, mapVars, linkVars,
                   cloudSeen>>

\* send_TOA_CMD_Response_Notification
Answer == answered' = IF attr.rsp_Ready
                      THEN answered \cup {attr.session_token} ELSE answered

OnNotifyPlay(d) ==
    /\ Notified(d, "COMMANDS_PLAY")
    /\ Answer
    /\ IF attr.disconnect_on_completion
       THEN /\ attr' = [attr EXCEPT !.ring_state = "PLAY_RESPONSE",
                                    !.rsp_Play = TRUE]
            /\ Begin("disc", d)
       ELSE attr' = Empty /\ UNCHANGED lsVars
    /\ UNCHANGED <<cloudVars, procVars, list, mapVars, linkVars, told>>

\* doDisconnect runs without R ...
Disconnect ==
    /\ lsPc = "disc"
    /\ StartDisconnect(lsDev)
    /\ lsPc' = "discRet"
    /\ UNCHANGED <<attr, cloudVars, procVars, evQueue, lsDev, lsToken, list,
                   mapVars, wire, owed, cloudSeen>>

\* Mutant: the re-check compares the device only.
CompletionAnyState == attr.devId = lsDev

\* ... and the request is dropped only if it is still the same one.
CompletionIsCurrent == attr.devId = lsDev /\ attr.ring_state = "PLAY_RESPONSE"

DisconnectReturn ==
    /\ lsPc = "discRet"
    /\ RequestMutexFree
    /\ attr' = IF CompletionIsCurrent THEN Empty ELSE attr
    /\ Finish
    /\ UNCHANGED <<cloudVars, procVars, evQueue, list, mapVars, linkVars,
                   cloudSeen>>

-----------------------------------------------------------------------------
(* Bluetooth manager, tiles and the rest of the process *)

LinkUp(d) ==
    /\ link[d] = "connecting"
    /\ link' = [link EXCEPT ![d] = "up"]
    /\ Post("CONNECTED", d)
    /\ UNCHANGED <<attr, cloudVars, procVars, lsVars, list, mapVars, wire,
                   owed, cloudSeen>>

LinkFails(d) ==
    /\ link[d] = "connecting"
    /\ link' = [link EXCEPT ![d] = "down"]
    /\ Post("CONNECT_FAILED", d)
    /\ UNCHANGED <<attr, cloudVars, procVars, lsVars, list, mapVars, wire,
                   owed, cloudSeen>>

LinkDown(d) ==
    /\ link[d] \in {"up", "closing"}
    /\ link' = [link EXCEPT ![d] = "down"]
    /\ wire' = [wire EXCEPT ![d] = Silence]
    /\ owed' = owed \ {d}
    /\ Post("DISCONNECTED", d)
    /\ UNCHANGED <<attr, cloudVars, procVars, lsVars, list, mapVars,
                   cloudSeen>>

Reply(d) ==
    /\ d \in owed
    /\ link[d] = "up"
    /\ owed' = owed \ {d}
    /\ Post("NOTIFICATION", d)
    /\ UNCHANGED <<attr, cloudVars, procVars, lsVars, list, mapVars, link,
                   wire, cloudSeen>>

Advertise(d) ==
    /\ Post("UPDATE", d)
    /\ UNCHANGED <<attr, cloudVars, procVars, lsVars, list, mapVars,
                   linkVars, cloudSeen>>

DiscoveryStarts ==
    /\ Post("STARTED", NoDev)
    /\ UNCHANGED <<attr, cloudVars, procVars, lsVars, list, mapVars,
                   linkVars, cloudSeen>>

\* scrub_unreachable_devices, on the main thread: all that it erases goes
\* under one lock.
Scrub ==
    /\ MapMutexFree
    /\ \E gone \in SUBSET known \ {{}} :
          /\ known' = known \ gone
          /\ tileId' = [d \in Device |-> IF d \in gone THEN NoTile
                                                      ELSE tileId[d]]
    /\ UNCHANGED <<attr, cloudVars, procVars, evQueue, lsVars, list, limited,
                   linkVars, cloudSeen>>

\* setLimitBeaconDetection, on an RPC thread
SetLimit ==
    /\ limited' \in LimitValues \ {limited}
    /\ UNCHANGED <<attr, cloudVars, procVars, evQueue, lsVars, list, known,
                   tileId, linkVars, cloudSeen>>

-----------------------------------------------------------------------------
CallerNext == \E c \in Caller : \/ \E m \in Messages : CheckRequest(c, m)
                                \/ PushRequest(c)

ProcessorNext ==
    \/ Fill \/ LookupFound \/ LookupNone
    \/ DispatchOpen \/ ConnectStarts \/ ConnectSucceeds \/ ConnectFails
    \/ DispatchSend \/ DispatchNone
    \/ ReadyWrite \/ ReadyWriteFails \/ ReadySet \/ ReadyFailReturn

OnEvent(d) ==
    \/ OnUpdateServData(d) \/ OnUpdateOld(d)
    \/ OnConnectedUnlisted(d) \/ OnConnectedRing(d) \/ OnConnectedOther(d)
    \/ OnConnectFailed(d) \/ OnDisconnected(d)
    \/ OnNotifyIgnored(d) \/ OnNotifyOpenned(d) \/ OnNotifyReady(d)
    \/ OnNotifyPlay(d)

ListenerNext ==
    \/ OnDiscoveryStarted
    \/ \E d \in Device : OnEvent(d)
    \/ ReadId
    \/ OpenWrite \/ OpenWriteFails \/ OpenReturn
    \/ PlayWrite \/ PlayWriteFails \/ PlaySet \/ PlayFailReturn
    \/ Disconnect \/ DisconnectReturn

EnvironmentNext ==
    \/ \E d \in Device : \/ LinkUp(d) \/ LinkFails(d) \/ LinkDown(d)
                         \/ Reply(d) \/ Advertise(d)
    \/ DiscoveryStarts
    \/ Scrub
    \/ SetLimit

Next == CallerNext \/ ProcessorNext \/ ListenerNext \/ EnvironmentNext

Spec == Init /\ [][Next]_vars

\* The three kinds of threads run whenever they can; what the Bluetooth
\* manager, the tiles and the cloud do is not owed to anybody.
ThreadFairness == /\ \A c \in Caller : WF_vars(PushRequest(c))
                  /\ WF_vars(ProcessorNext)
                  /\ WF_vars(ListenerNext)

FairSpec == Spec /\ ThreadFairness

-----------------------------------------------------------------------------
(* Properties *)

\* While the listener disconnects after the last command, and no other
\* request has moved the attributes on, they are still those of the session
\* whose response it sent.
CompletionInv ==
    (/\ lsPc \in {"disc", "discRet"}
     /\ attr.devId = lsDev
     /\ attr.ring_state = "PLAY_RESPONSE")
        => attr.session_token = lsToken

\* A device is bound only as part of a whole request: no incomplete or
\* unknown request, lost link or late follow-up of any thread leaves a bound
\* device without the request it is bound for, which the guards of the listener (isRingRequested and devId) would then
\* never react to nor clean up.
BoundDeviceRequested ==
    attr.devId # NoDev => /\ attr.isRingRequested
                          /\ attr.tile_uuid # NoTile
                          /\ attr.oper_code # "NONE"

\* The re-check after doDisconnect (btrTileMgr.cpp:363-366) never drops a
\* newer request: whatever arrived while R was released, if the listener
\* changes the attributes on its return then they are those of the session
\* whose command response it sent.
NoStaleCompletion ==
    [][lsPc = "discRet" /\ lsPc' = "pop" /\ attr' # attr
         => attr.session_token = lsToken]_vars

\* An uuid read from an old tile lets the listener go on.
OldTileHandled == lsPc = "readId" ~> lsPc = "pop"

\* Every request in the queue is taken from it and done with: R and M are
\* not held in a circle, and the waits for Bluetooth calls end.
RequestsServed ==
    \A n \in 1..MaxReq :
        (\E k \in DOMAIN reqQueue : reqQueue[k].id = n)
            ~> (/\ procPc = "pop"
                /\ \A k \in DOMAIN reqQueue : reqQueue[k].id # n)

\* The listener always comes back for the next event.
ListenerReturns == []<>(lsPc = "pop")

\* A cloud that waits for each answer (Orderly), and whose OPEN requests
\* name the tile, its session and hashed ids of no other tile.  A tile has
\* one Bluetooth handle.
OrderlyCloud ==
    /\ Orderly
    /\ \A m \in Messages : m.code = "OPEN" =>
          /\ m.tile # NoTile
          /\ m.auth
          /\ m.hashed
          /\ \A d \in Device : HashOf[d] \in m.hashes => TileOf[d] = m.tile
    /\ \A d, e \in Device : TileOf[d] = TileOf[e] => d = e

\* The listener's write or disconnect call has returned.
FollowUp == {"opened", "openFailed", "played", "playFailed", "discRet"}

\* The listener's follow-up to a write changes the attributes only if they
\* still belong to the session it wrote for (the warnings at
\* btrTileMgr.cpp:240, 345 and 363).
FollowUpsCurrent ==
    [][(lsPc \in FollowUp /\ lsPc' = "pop" /\ attr' # attr)
         => attr.session_token = lsToken]_vars

\* A state that waits for the tile's answer is the state of what the tile
\* was last told, by this session, unless the link was lost meanwhile and
\* the listener is about to hear of it (and to drop the session then).
AwaitedCommand == [s \in {"OPENNED", "COMMANDS_READY", "COMMANDS_PLAY"} |->
                     CASE s = "OPENNED" -> "OPEN"
                       [] s = "COMMANDS_READY" -> "READY"
                       [] OTHER -> "PLAY"]

WireMatches ==
    attr.devId # NoDev /\ attr.ring_state \in DOMAIN AwaitedCommand
        => \/ wire[attr.devId] = [cmd |-> AwaitedCommand[attr.ring_state],
                                  token |-> attr.session_token]
           \/ \E k \in DOMAIN evQueue :
                 evQueue[k] = [type |-> "DISCONNECTED", dev |-> attr.devId]

\* What the warnings at btrTileMgr.cpp:240 and 345 promise of a request that
\* is no longer current: it is ignored.
\* After the OPEN write the listener marks the attributes OPENNED or FAILED
\* only for the session it wrote for, or one whose OPEN the tile did get.
OpenFollowUpIsCurrent ==
    [][(lsPc \in {"opened", "openFailed"} /\ lsPc' = "pop" /\ attr' # attr)
         => \/ attr.session_token = lsToken
            \/ attr.session_token = wire[lsDev].token]_vars

\* From the READY answer to the end of the PLAY write the listener changes
\* the attributes only of the session that was answered.
PlayFollowUpIsCurrent ==
    [][(lsPc \in {"play", "played", "playFailed"} /\ attr' # attr
          /\ lsPc' # lsPc) => attr.session_token = lsToken]_vars

\* A connection or an answer of the device being rung is reacted to: the
\* discovery list holds "a device we requested to connect to"
\* (btrTileMgr.cpp:214 and 309).
RequestedDeviceHeeded ==
    [][\A d \in Device, type \in {"CONNECTED", "NOTIFICATION"} :
         Take(type, d) /\ RingTarget(d) => d \in list]_vars

\* A request refused because a ring is "Already inPrgoress"
\* (btrTileMgr.cpp:1553) meets one: with nothing left to be handled by any
\* thread, a device is linked or being connected for it.
RefusalMeansRinging ==
    [][(sent' # sent /\ pending' = pending /\ Quiet)
         => attr.devId # NoDev /\ link[attr.devId] # "down"]_vars

\* The phase of the ring a session is in, once it is bound to a device.
\* INITIATED, RECEIVED_RAND_T and FAILED are phases of no protocol: a bound
\* session that gets there is lost.
RingPhase ==
    [s \in RingState |->
       CASE s = "TO_CONNECT" -> "connecting"
         [] s = "OPENNED" -> "open"
         [] s = "NOTIFY_RAND_T" -> "told"
         [] s = "RECEIVED_SEND_COMMANDS" -> "commanded"
         [] s = "COMMANDS_READY" -> "ready"
         [] s = "READY_RESPONSE" -> "accepted"
         [] s = "COMMANDS_PLAY" -> "play"
         [] s = "PLAY_RESPONSE" -> "done"
         [] OTHER -> "lost"]

Protocol == INSTANCE RingProtocol WITH
    Session <- 1..MaxReq,
    phase <- IF attr.devId = NoDev THEN "idle" ELSE RingPhase[attr.ring_state],
    device <- attr.devId,
    session <- IF attr.devId = NoDev THEN 0 ELSE attr.session_token

\* A cloud that keeps the order sees the protocol, whatever the tiles, the
\* links, discovery and the other threads do meanwhile.
FollowsProtocol == Protocol!Spec

\* What the ring and its surroundings do with the map is what TileTable has
\* the threads of the process do: a tile that left between two steps of the
\* ring gets no uuid, and no entry is lost but by a scrub.
Table == INSTANCE TileTable WITH
    key <- [d \in known |-> HashOf[d]],
    named <- {d \in Device : tileId[d] # NoTile}

SeesTileTable == Table!TableSpec

\* A command response is passed on to the cloud only of a session whose
\* random number was passed on to it before, through every interleaving of
\* the follow-ups that carry the session_token from the one to the other.
AnsweredWasTold == answered \subseteq told

\* The device connected to and written to is the tile the cloud asked for.
RightTile == attr.devId # NoDev => TileOf[attr.devId] = attr.tile_uuid
=============================================================================
