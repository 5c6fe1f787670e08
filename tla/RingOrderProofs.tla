--------------------------- MODULE RingOrderProofs ---------------------------
(* Theorems about TileRing with an orderly cloud: the rung device is the    *)
(* requested tile, a state that waits for the tile is what the tile was     *)
(* told, follow-ups belong to their session, and TileRing implements        *)
(* RingProtocol.  They hold for all devices, messages, callers, limits and  *)
(* bounds, whatever the tiles, the links, discovery and the scrubber do.    *)
EXTENDS TileRingProofs

Bound == attr.devId # NoDev

\* What a bound session goes through, and the part of it before the SEND.
Phases == {"TO_CONNECT", "OPENNED", "NOTIFY_RAND_T", "RECEIVED_SEND_COMMANDS",
           "COMMANDS_READY", "READY_RESPONSE", "COMMANDS_PLAY",
           "PLAY_RESPONSE"}
Opening == {"TO_CONNECT", "OPENNED", "NOTIFY_RAND_T"}
Ringing == {"COMMANDS_READY", "READY_RESPONSE", "COMMANDS_PLAY",
            "PLAY_RESPONSE"}

\* The listener is between two steps of a ring.
Following == {"open", "opened", "openFailed", "play", "played", "playFailed",
              "disc", "discRet"}

-----------------------------------------------------------------------------
(* The inductive invariant *)

\* At most one request is under way.
OneRequest ==
    /\ \A c, e \in Caller :
          pending[c] # NoReq /\ pending[e] # NoReq => c = e
    /\ \A c \in Caller :
          pending[c] # NoReq => reqQueue = <<>> /\ procPc = "pop"
    /\ reqQueue # <<>> => Len(reqQueue) = 1 /\ procPc = "pop"

\* It finds the attributes in the state the cloud sent it for, or empty.
Expected(r) ==
    /\ r.msg \in Messages
    /\ r.id = sent
    /\ sent # 0
    /\ \/ /\ r.msg.code = "OPEN"
          /\ ~Bound
          /\ sent \notin told \cup answered
       \/ /\ r.msg.code = "SEND"
          /\ IF Bound THEN /\ attr.ring_state = "NOTIFY_RAND_T"
                           /\ attr.tile_uuid = r.msg.tile
                      ELSE attr.tile_uuid = NoTile
    /\ lsPc \notin Following

RequestInv ==
    /\ \A c \in Caller : pending[c] # NoReq => Expected(pending[c])
    /\ reqQueue # <<>> => Expected(Head(reqQueue))

\* Sessions are numbers of requests, and the cloud heard only of those.
TokenInv ==
    /\ sent <= MaxReq
    /\ told \cup answered \subseteq 1..sent

\* Only devices with service data get into the map; a tile uuid recorded
\* there is that of the device.
MapInv ==
    /\ known \subseteq ServData
    /\ \A d \in Device : tileId[d] \in {NoTile, TileOf[d]}

\* An attribute record without a device is empty, or that of an OPEN whose
\* tile was not found.
UnboundInv ==
    ~Bound => \/ attr.tile_uuid = NoTile
              \/ /\ attr.ring_state = "INITIATED"
                 /\ procPc \in {"pop", "lookup", "dispatch"}
                 /\ lsPc \notin Following

SessionInv ==
    Bound =>
        /\ TileOf[attr.devId] = attr.tile_uuid
        /\ attr.devId \in ServData
        /\ attr.session_token \in 1..sent
        /\ attr.ring_state \in Phases
        /\ attr.ring_state \in Opening <=> attr.oper_code = "OPEN"
        /\ attr.ring_state \in Ringing => procPc = "pop"
        /\ attr.ring_state \in Ringing \ {"COMMANDS_READY"} => attr.rsp_Ready

ProcessorInv ==
    /\ procPc \in {"lookup", "dispatch"} =>
          /\ lsPc \notin Following
          /\ \/ /\ attr.oper_code = "OPEN"
                /\ ~Bound
                /\ attr.tile_uuid # NoTile
                /\ attr.session_token = sent
                /\ sent \in 1..MaxReq
                /\ sent \notin told \cup answered
                /\ \A d \in Device : HashOf[d] \in attr.received_HashIDs
                                        => TileOf[d] = attr.tile_uuid
             \/ /\ attr.oper_code = "SEND"
                /\ IF Bound THEN attr.ring_state = "RECEIVED_SEND_COMMANDS"
                            ELSE attr.tile_uuid = NoTile
    /\ procPc = "dispatch" => /\ TileOf[handle] = attr.tile_uuid
                              /\ handle \in ServData
    /\ procPc \in {"start", "connect"} =>
          /\ Bound => attr.devId = handle /\ attr.ring_state \in Opening
          /\ lsPc \notin Following \ {"open", "opened", "openFailed"}
    /\ procPc \in {"ready", "readyWritten"} =>
          /\ Bound => /\ attr.devId = handle
                      /\ attr.ring_state = "RECEIVED_SEND_COMMANDS"
          /\ lsPc \notin Following
    /\ procPc = "readyFailed" => ~Bound /\ lsPc \notin Following

ListenerInv ==
    /\ lsPc \in Following /\ Bound =>
          attr.devId = lsDev /\ attr.session_token = lsToken
    /\ lsPc \in {"open", "opened"} /\ Bound => attr.ring_state = "TO_CONNECT"
    /\ lsPc \in {"play", "played"} =>
          Bound /\ attr.ring_state = "READY_RESPONSE"
    /\ lsPc \in {"disc", "discRet"} =>
          Bound /\ attr.ring_state = "PLAY_RESPONSE"
    /\ lsPc \in {"openFailed", "playFailed"} => ~Bound

\* Connections and disconnections of a device are reported in turn, and the
\* last report not yet handled agrees with the link.
Before(q, e, i) == \E k \in 1..Len(q) : k < i /\ q[k] = e
Between(q, i, e, j) == \E k \in 1..Len(q) : i < k /\ k < j /\ q[k] = e
After(q, i, e) == \E k \in 1..Len(q) : i < k /\ q[k] = e

InTurn(q, c, e) == \A i, j \in 1..Len(q) :
    i < j /\ q[i] = c /\ q[j] = c => Between(q, i, e, j)
Ended(q, c, e) == \A i \in 1..Len(q) : q[i] = c => After(q, i, e)
EndFirst(q, c, e) == \A i \in 1..Len(q) : q[i] = c => Before(q, e, i)
Holds(q, e) == \E k \in 1..Len(q) : q[k] = e

Connected(d) == [type |-> "CONNECTED", dev |-> d]
Disconnected(d) == [type |-> "DISCONNECTED", dev |-> d]
Unlinked(d) == link[d] \in {"down", "connecting"}

LinkInv ==
    \A d \in Device :
        /\ InTurn(evQueue, Connected(d), Disconnected(d))
        /\ Unlinked(d) => Ended(evQueue, Connected(d), Disconnected(d))

\* Once the listener has reacted to the connection of the rung device, it
\* meets the end of that connection before another one.
Heeded == Bound /\ (attr.ring_state # "TO_CONNECT" \/ lsPc \in {"open", "opened"})

HeededInv ==
    Heeded =>
        /\ EndFirst(evQueue, Connected(attr.devId), Disconnected(attr.devId))
        /\ Unlinked(attr.devId) => Holds(evQueue, Disconnected(attr.devId))

\* What the tile heard last, until the listener hears that the link was lost.
Heard(command) ==
    \/ wire[attr.devId] = [cmd |-> command, token |-> attr.session_token]
    \/ Holds(evQueue, Disconnected(attr.devId))

\* The command whose answer the session waits for, or is about to.
Awaits(command) ==
    CASE command = "OPEN" -> lsPc = "opened" \/ attr.ring_state = "OPENNED"
      [] command = "READY" -> \/ procPc = "readyWritten"
                              \/ attr.ring_state = "COMMANDS_READY"
      [] command = "PLAY" -> lsPc = "played" \/ attr.ring_state = "COMMANDS_PLAY"

WireInv == Bound => \A c \in {"OPEN", "READY", "PLAY"} : Awaits(c) => Heard(c)

\* What concerns the threads, and what concerns the links.
ThreadInv == /\ OneRequest
             /\ RequestInv
             /\ TokenInv
             /\ MapInv
             /\ UnboundInv
             /\ SessionInv
             /\ ProcessorInv
             /\ ListenerInv

TalkInv == /\ LinkInv
           /\ HeededInv
           /\ WireInv

OrderInv == ThreadInv /\ TalkInv

USE DEF cloudVars, procVars, lsVars, mapVars, linkVars, cloudSeen

LEMMA InitOrder == Init => OrderInv
<1> SUFFICES ASSUME Init PROVE OrderInv
    OBVIOUS
<1>1. attr.devId = NoDev /\ attr.tile_uuid = NoTile
    BY DEF Init, Empty
<1>2. ThreadInv
    BY <1>1, BoundsAssumption DEF Init, ThreadInv, OneRequest, RequestInv,
       TokenInv,
       MapInv, UnboundInv, SessionInv, ProcessorInv, ListenerInv, Bound,
       Following
<1>3. TalkInv
    BY <1>1 DEF Init, TalkInv, LinkInv, HeededInv, WireInv,
       InTurn, Ended, Bound, Heeded
<1> QED
    BY <1>2, <1>3 DEF OrderInv

-----------------------------------------------------------------------------
(* The threads *)

LEMMA CallerThreads ==
    ASSUME OrderlyCloud, TypeOK, ThreadInv, CallerNext
    PROVE  ThreadInv'
<1> USE DEF ThreadInv, Bound, Following
<1>1. ASSUME NEW c \in Caller, NEW m \in Messages, CheckRequest(c, m)
      PROVE  ThreadInv'
  <2>1. Quiet /\ sent \in Nat /\ sent' = sent + 1 /\ sent' <= MaxReq
      BY <1>1, BoundsAssumption
      DEF OrderlyCloud, CheckRequest, InOrder, TypeOK
  <2>2. \/ pending' = pending
        \/ pending' = [pending EXCEPT ![c] = [id |-> sent', msg |-> m]]
      BY <1>1 DEF CheckRequest
  <2>3. \A e \in Caller : pending'[e] # NoReq => e = c /\ pending'[e] = [id |-> sent', msg |-> m]
      BY <2>1, <2>2 DEF Quiet, TypeOK
  <2>4. OneRequest'
      BY <1>1, <2>1, <2>3 DEF CheckRequest, OneRequest, Quiet
  <2>5. sent' \notin told' \cup answered' /\ TokenInv'
      BY <1>1, <2>1 DEF CheckRequest, TokenInv, TypeOK
  <2>6. RequestInv'
      BY <1>1, <2>1, <2>3, <2>5 DEF CheckRequest, RequestInv, Expected,
         OrderlyCloud, InOrder, Quiet, UnboundInv, Message
  <2>7. MapInv' /\ UnboundInv' /\ ListenerInv'
      BY <1>1 DEF CheckRequest, MapInv, UnboundInv, ListenerInv
  <2>8. SessionInv'
      BY <1>1, <2>1 DEF CheckRequest, SessionInv
  <2>9. ProcessorInv'
      BY <1>1, <2>1 DEF CheckRequest, ProcessorInv, Quiet
  <2> QED
      BY <2>4, <2>5, <2>6, <2>7, <2>8, <2>9
<1>2. ASSUME NEW c \in Caller, PushRequest(c)
      PROVE  ThreadInv'
  <2>1. reqQueue = <<>> /\ procPc = "pop" /\ Expected(pending[c])
      BY <1>2 DEF PushRequest, OneRequest, RequestInv
  <2>2. pending[c] \in Request
      BY <1>2 DEF PushRequest, TypeOK
  <2>3. reqQueue' # <<>> /\ Len(reqQueue') = 1 /\ Head(reqQueue') = pending[c]
      BY <1>2, <2>1, <2>2 DEF PushRequest
  <2>4. \A e \in Caller : pending'[e] = NoReq
      BY <1>2 DEF PushRequest, OneRequest, TypeOK
  <2>5. OneRequest' /\ RequestInv'
      BY <1>2, <2>1, <2>3, <2>4 DEF PushRequest, OneRequest, RequestInv,
         Expected
  <2> QED
      BY <1>2, <2>5 DEF PushRequest, TokenInv, MapInv, UnboundInv,
         SessionInv, ProcessorInv, ListenerInv
<1> QED
    BY <1>1, <1>2 DEF CallerNext

\* The attributes of a session after a step that moves on its ring_state.
LEMMA NewState ==
    ASSUME attr \in Attributes, NEW s \in RingState,
           attr' = [attr EXCEPT !.ring_state = s]
    PROVE  /\ attr'.ring_state = s
           /\ attr'.devId = attr.devId
           /\ attr'.tile_uuid = attr.tile_uuid
           /\ attr'.oper_code = attr.oper_code
           /\ attr'.session_token = attr.session_token
           /\ attr'.received_HashIDs = attr.received_HashIDs
           /\ attr'.rsp_Ready = attr.rsp_Ready
BY DEF Attributes

\* A step that empties the attributes keeps what the threads rely on, if
\* the request processor does not hold the mutex.
LEMMA EmptiedThreads ==
    ASSUME ThreadInv, attr' = Empty, procPc \notin {"lookup", "dispatch"},
           UNCHANGED <<cloudVars, mapVars, cloudSeen>>,
           procPc = "pop" => procPc' = "pop",
           lsPc' \in Following => lsPc \in Following
    PROVE  /\ RequestInv'
           /\ TokenInv'
           /\ MapInv'
           /\ UnboundInv'
           /\ SessionInv'
           /\ OneRequest'
BY DEF ThreadInv, OneRequest, RequestInv, TokenInv, MapInv, UnboundInv,
   SessionInv, Expected,
       Bound, Empty

LEMMA ProcessorThreads ==
    ASSUME OrderlyCloud, TypeOK, ThreadInv, ProcessorNext
    PROVE  ThreadInv'
<1> USE DEF ThreadInv, Bound, Following
<1>0. attr \in Attributes
    BY DEF TypeOK
<1>1. CASE Fill
  <2> DEFINE r == Head(reqQueue)
  <2>1. r \in Request /\ Tail(reqQueue) = <<>>
      BY <1>1, QueueType DEF Fill, TypeOK, OneRequest
  <2>2. Expected(r) /\ procPc = "pop" /\ r.msg \in Messages
      BY <1>1 DEF Fill, RequestInv, Expected
  <2>3. OneRequest' /\ RequestInv'
      BY <1>1, <2>1, <2>2 DEF Fill, OneRequest, RequestInv
  <2>4. TokenInv' /\ MapInv'
      BY <1>1 DEF Fill, TokenInv, MapInv
  <2>5. sent \in Nat /\ sent \in 1..MaxReq
      BY <2>1, <2>2 DEF TypeOK, TokenInv, Expected, Request
  <2>6. CASE r.msg.code = "OPEN"
    <3>1. /\ r.msg.tile # NoTile
          /\ \A d \in Device : HashOf[d] \in r.msg.hashes
                                  => TileOf[d] = r.msg.tile
          /\ attr' = OpenAttributes(r)
        BY <1>1, <2>2, <2>6 DEF Fill, Filled, OrderlyCloud
    <3>2. /\ attr'.tile_uuid = r.msg.tile
          /\ attr'.received_HashIDs = r.msg.hashes
          /\ attr'.session_token = sent
          /\ attr'.oper_code = "OPEN"
          /\ attr'.ring_state = "INITIATED"
          /\ attr'.devId = attr.devId
        BY <1>0, <2>2, <2>6, <3>1 DEF OpenAttributes, OrderlyCloud,
           Attributes, Expected
    <3> QED
        BY <1>1, <2>2, <2>3, <2>4, <2>5, <2>6, <3>1, <3>2 DEF Fill, Expected,
           UnboundInv, SessionInv, ProcessorInv, ListenerInv
  <2>7. CASE r.msg.code = "SEND"
    <3>1. attr' = SendAttributes(r)
        BY <1>1, <2>7 DEF Fill, Filled
    <3>2. /\ attr'.oper_code = "SEND"
          /\ attr'.devId = attr.devId
          /\ attr'.tile_uuid = attr.tile_uuid
          /\ attr'.session_token = attr.session_token
          /\ Bound => attr'.ring_state = "RECEIVED_SEND_COMMANDS"
        BY <1>0, <2>2, <2>7, <3>1 DEF SendAttributes, Attributes, Expected
    <3> QED
        BY <1>1, <2>2, <2>3, <2>4, <2>5, <2>7, <3>2 DEF Fill, Expected,
           UnboundInv, SessionInv, ProcessorInv, ListenerInv, Phases,
           Opening, Ringing
  <2> QED
      BY <2>2, <2>6, <2>7 DEF Expected
<1>2. CASE LookupFound
  <2>1. handle' \in Matches /\ procPc = "lookup" /\ procPc' = "dispatch"
      BY <1>2 DEF LookupFound
  <2>2. handle' \in Device /\ handle' \in ServData
      BY <2>1 DEF Matches, TypeOK, MapInv
  <2>3. TileOf[handle'] = attr.tile_uuid
    <3>1. CASE attr.received_HashIDs = {} \/ attr.oper_code # "OPEN"
        BY <2>1, <2>2, <3>1 DEF Matches, MapInv
    <3>2. CASE ~(attr.received_HashIDs = {} \/ attr.oper_code # "OPEN")
        BY <2>1, <2>2, <3>2 DEF Matches, ProcessorInv
    <3> QED
        BY <3>1, <3>2
  <2> QED
      BY <1>2, <2>1, <2>2, <2>3 DEF LookupFound, OneRequest, RequestInv,
         Expected, TokenInv,
         MapInv, UnboundInv, SessionInv, ProcessorInv, ListenerInv, Ringing
<1>3. CASE LookupNone
    BY <1>3 DEF LookupNone, OneRequest, RequestInv, Expected, TokenInv,
         MapInv, UnboundInv, SessionInv, ProcessorInv, ListenerInv
<1>4. CASE DispatchOpen
  <2>1. handle \in Device /\ handle # NoDev
      BY <1>4, NoDevAssumption DEF DispatchOpen, TypeOK
  <2>2. /\ attr'.devId = handle
        /\ attr'.ring_state = "TO_CONNECT"
        /\ attr'.tile_uuid = attr.tile_uuid
        /\ attr'.oper_code = "OPEN"
        /\ attr'.session_token = sent
      BY <1>0, <1>4 DEF DispatchOpen, Attributes, ProcessorInv
  <2>3. MapInv'
      BY <1>4, <2>1 DEF DispatchOpen, RecordTile, MapInv, ProcessorInv, TypeOK
  <2>4. OneRequest' /\ RequestInv' /\ TokenInv'
      BY <1>4 DEF DispatchOpen, OneRequest, RequestInv, TokenInv
  <2> QED
      BY <1>4, <2>1, <2>2, <2>3, <2>4 DEF DispatchOpen, UnboundInv,
         SessionInv, ProcessorInv, ListenerInv, Phases, Opening, Ringing
<1>5. CASE ConnectStarts \/ ConnectSucceeds
    BY <1>5 DEF ConnectStarts, ConnectSucceeds, OneRequest, RequestInv,
         Expected, TokenInv,
         MapInv, UnboundInv, SessionInv, ProcessorInv, ListenerInv
<1>6. CASE ConnectFails
    BY <1>6, EmptiedThreads DEF ConnectFails, ProcessorInv, ListenerInv, Empty
<1>7. CASE DispatchSend
  <2>1. attr.oper_code = "SEND" /\ Bound /\ attr.ring_state = "RECEIVED_SEND_COMMANDS"
      BY <1>7 DEF DispatchSend, ProcessorInv
  <2>2. attr.devId = handle
      BY <1>0, <1>7, <2>1 DEF DispatchSend, ProcessorInv, SessionInv,
         OrderlyCloud, TypeOK, Attributes
  <2> QED
      BY <1>7, <2>1, <2>2 DEF DispatchSend, OneRequest, RequestInv, Expected,
         TokenInv,
         MapInv, UnboundInv, SessionInv, ProcessorInv, ListenerInv, Ringing
<1>8. CASE DispatchNone
  <2>1. TileOf[handle] = attr.tile_uuid /\ handle \in Device
      BY <1>8, DevicesAssumption DEF DispatchNone, ProcessorInv
  <2>2. attr.tile_uuid # NoTile
      BY <2>1, DevicesAssumption, NoTileAssumption
  <2> QED
      BY <1>8, <2>2 DEF DispatchNone, ProcessorInv
<1>9. CASE ReadyWrite
    BY <1>9 DEF ReadyWrite, OneRequest, RequestInv, Expected, TokenInv,
         MapInv, UnboundInv, SessionInv, ProcessorInv, ListenerInv, Ringing
<1>10. CASE ReadyWriteFails
    BY <1>10, EmptiedThreads DEF ReadyWriteFails, ProcessorInv, ListenerInv,
       Empty
<1>11. CASE ReadySet
  <2>1. attr' = [attr EXCEPT !.ring_state = "COMMANDS_READY"]
      BY <1>11 DEF ReadySet
  <2> QED
      BY <1>0, <1>11, <2>1, NewState DEF ReadySet, OneRequest, RequestInv,
         Expected, TokenInv,
         MapInv, UnboundInv, SessionInv, ProcessorInv, ListenerInv, Ringing,
         Phases, Opening, RingState
<1>12. CASE ReadyFailReturn
    BY <1>12, EmptiedThreads DEF ReadyFailReturn, ProcessorInv, ListenerInv,
       Empty
<1> QED
    BY <1>1, <1>2, <1>3, <1>4, <1>5, <1>6, <1>7, <1>8, <1>9, <1>10, <1>11,
       <1>12 DEF ProcessorNext

\* The connection the listener reacts to is the first one of the session.
LEMMA FirstConnection ==
    ASSUME TypeOK, HeededInv, NEW d \in Device, Take("CONNECTED", d),
           attr.devId = d
    PROVE  ~Heeded
<1> SUFFICES ASSUME Heeded PROVE FALSE
    OBVIOUS
<1>1. evQueue \in Seq(Event) /\ evQueue # <<>> /\ Head(evQueue) = Connected(d)
    BY DEF TypeOK, Take, Connected
<1>2. 1 \in 1..Len(evQueue) /\ evQueue[1] = Connected(d)
    BY <1>1
<1>3. Before(evQueue, Disconnected(d), 1)
    BY <1>2 DEF HeededInv, EndFirst
<1> QED
    BY <1>3 DEF Before

LEMMA EventThreads ==
    ASSUME OrderlyCloud, TypeOK, ThreadInv, HeededInv, NEW d \in Device,
           OnEvent(d)
    PROVE  ThreadInv'
<1> USE DEF ThreadInv, Bound, Following
<1>0. attr \in Attributes /\ d # NoDev /\ lsPc = "pop"
    BY NoDevAssumption, BusyListener DEF TypeOK
<1>1. CASE \/ OnConnectedUnlisted(d) \/ OnConnectFailed(d)
           \/ OnNotifyIgnored(d) \/ OnUpdateOld(d) \/ OnUpdateServData(d)
    BY <1>1 DEF OnConnectedUnlisted, OnConnectFailed, OnNotifyIgnored,
       OnUpdateOld,
       OnUpdateServData, OneRequest, RequestInv, Expected, TokenInv,
       MapInv, UnboundInv, SessionInv, ProcessorInv, ListenerInv
<1>2. CASE OnConnectedOther(d)
    BY <1>0, <1>2 DEF OnConnectedOther, Begin, OneRequest, RequestInv,
       Expected, TokenInv,
       MapInv, UnboundInv, SessionInv, ProcessorInv, ListenerInv
<1>4. CASE OnConnectedRing(d) /\ attr' # Empty
  <2>1. /\ attr' = [attr EXCEPT !.isConnected = TRUE]
        /\ attr.devId = d
        /\ RequestMutexFree
        /\ IF attr.oper_code = "OPEN" THEN Begin("open", d) ELSE UNCHANGED lsVars
      BY <1>4 DEF OnConnectedRing, RingTarget
  <2>2. /\ attr'.devId = attr.devId
        /\ attr'.ring_state = attr.ring_state
        /\ attr'.tile_uuid = attr.tile_uuid
        /\ attr'.oper_code = attr.oper_code
        /\ attr'.session_token = attr.session_token
        /\ attr'.rsp_Ready = attr.rsp_Ready
      BY <1>0, <2>1 DEF Attributes
  <2>3. attr.ring_state = "TO_CONNECT" \/ attr.oper_code # "OPEN"
      BY <1>4, <2>1, FirstConnection, <1>0 DEF OnConnectedRing, Heeded
  <2>4. CASE attr.oper_code = "OPEN"
      BY <1>0, <1>4, <2>1, <2>2, <2>3, <2>4 DEF OnConnectedRing, Begin,
         RequestMutexFree,
         OneRequest, RequestInv, Expected, TokenInv,
         MapInv, UnboundInv, SessionInv, ProcessorInv, ListenerInv, Ringing
  <2>5. CASE attr.oper_code # "OPEN"
      BY <1>0, <1>4, <2>1, <2>2, <2>5 DEF OnConnectedRing, RequestMutexFree,
         OneRequest, RequestInv, Expected, TokenInv,
         MapInv, UnboundInv, SessionInv, ProcessorInv, ListenerInv
  <2> QED
      BY <2>4, <2>5
<1>5. CASE OnConnectedRing(d) /\ attr' = Empty
    BY <1>0, <1>5, EmptiedThreads DEF OnConnectedRing, RequestMutexFree,
       ProcessorInv, ListenerInv, Empty, Begin
<1>6. CASE OnDisconnected(d)
  <2>1. CASE attr' = attr
      BY <1>6, <2>1 DEF OnDisconnected, OneRequest, RequestInv, Expected,
         TokenInv,
       MapInv, UnboundInv, SessionInv, ProcessorInv, ListenerInv
  <2>2. CASE attr' = Empty
    <3>1. procPc \notin {"lookup", "dispatch"} /\ UNCHANGED <<procPc, handle, lsPc>>
        BY <1>6 DEF OnDisconnected, RequestMutexFree
    <3>2. UNCHANGED <<cloudVars, mapVars, cloudSeen>>
        BY <1>6 DEF OnDisconnected
    <3>3. /\ RequestInv' /\ TokenInv' /\ MapInv' /\ UnboundInv' /\ SessionInv'
          /\ OneRequest'
        BY <2>2, <3>1, <3>2, EmptiedThreads
    <3>4. ProcessorInv' /\ ListenerInv'
        BY <1>0, <2>2, <3>1 DEF ProcessorInv, ListenerInv, Empty
    <3> QED
        BY <3>3, <3>4
  <2> QED
      BY <1>6, <2>1, <2>2 DEF OnDisconnected
<1>7. CASE OnNotifyOpenned(d)
  <2>1. attr.devId = d /\ attr.ring_state = "OPENNED" /\ RequestMutexFree
      BY <1>7 DEF OnNotifyOpenned, Notified, RingTarget
  <2>2. attr.session_token \in 1..sent /\ sent \in Nat
      BY <1>0, <2>1 DEF SessionInv, TypeOK
  <2>3. attr' = [attr EXCEPT !.ring_state = "NOTIFY_RAND_T"] /\ told' = told \cup {attr.session_token}
      BY <1>7, <2>2 DEF OnNotifyOpenned
  <2> QED
      BY <1>0, <1>7, <2>1, <2>2, <2>3, NewState DEF OnNotifyOpenned,
         RequestMutexFree,
         OneRequest, RequestInv, Expected, TokenInv, MapInv,
         UnboundInv, SessionInv, ProcessorInv, ListenerInv, RingState,
         Phases, Opening, Ringing
<1>8. CASE OnNotifyReady(d)
  <2>1. attr.devId = d /\ attr.ring_state = "COMMANDS_READY" /\ procPc = "pop"
      BY <1>0, <1>8 DEF OnNotifyReady, Notified, RingTarget, SessionInv,
         Ringing
  <2>2. /\ attr'.devId = attr.devId
        /\ attr'.ring_state = "READY_RESPONSE"
        /\ attr'.rsp_Ready
        /\ attr'.tile_uuid = attr.tile_uuid
        /\ attr'.oper_code = attr.oper_code
        /\ attr'.session_token = attr.session_token
      BY <1>0, <1>8 DEF OnNotifyReady, Attributes
  <2> QED
      BY <1>0, <1>8, <2>1, <2>2 DEF OnNotifyReady, Begin,
         OneRequest, RequestInv, Expected, TokenInv, MapInv,
         UnboundInv, SessionInv, ProcessorInv, ListenerInv, Phases, Opening,
         Ringing
<1>9. CASE OnNotifyPlay(d)
  <2>1. /\ attr.devId = d /\ attr.ring_state = "COMMANDS_PLAY" /\ procPc = "pop"
        /\ attr.session_token \in 1..sent
      BY <1>0, <1>9 DEF OnNotifyPlay, Notified, RingTarget, SessionInv,
         Ringing
  <2>2. TokenInv'
      BY <1>9, <2>1 DEF OnNotifyPlay, Answer, TokenInv
  <2>3. \A c \in Caller : pending[c] = NoReq
      BY <1>0, <2>1 DEF RequestInv, Expected
  <2>4. reqQueue = <<>>
      BY <1>0, <2>1 DEF RequestInv, Expected
  <2>5. OneRequest' /\ RequestInv' /\ MapInv'
      BY <1>9, <2>3, <2>4 DEF OnNotifyPlay, OneRequest, RequestInv, MapInv
  <2>6. CASE attr' = Empty /\ UNCHANGED lsVars
      BY <1>0, <1>9, <2>1, <2>2, <2>5, <2>6 DEF OnNotifyPlay, Empty,
         UnboundInv, SessionInv, ProcessorInv, ListenerInv
  <2>7. CASE /\ attr' = [attr EXCEPT !.ring_state = "PLAY_RESPONSE", !.rsp_Play = TRUE]
             /\ Begin("disc", d)
    <3>1. /\ attr'.devId = attr.devId
        /\ attr'.ring_state = "PLAY_RESPONSE"
        /\ attr'.rsp_Ready = attr.rsp_Ready
        /\ attr'.tile_uuid = attr.tile_uuid
        /\ attr'.oper_code = attr.oper_code
        /\ attr'.session_token = attr.session_token
        BY <1>0, <2>7 DEF Attributes
    <3> QED
      BY <1>0, <1>9, <2>1, <2>2, <2>5, <2>7, <3>1 DEF OnNotifyPlay, Begin,
         UnboundInv, SessionInv, ProcessorInv, ListenerInv, Phases, Opening,
         Ringing
  <2> QED
      BY <1>9, <2>6, <2>7 DEF OnNotifyPlay
<1> QED
    BY <1>1, <1>2, <1>4, <1>5, <1>6, <1>7, <1>8, <1>9 DEF OnEvent

LEMMA ListenerThreads ==
    ASSUME OrderlyCloud, TypeOK, ThreadInv, HeededInv, ListenerNext
    PROVE  ThreadInv'
<1> USE DEF ThreadInv, Bound, Following
<1>0. attr \in Attributes /\ (lsPc # "pop" => lsDev \in Device /\ lsDev # NoDev)
    BY NoDevAssumption DEF TypeOK
<1>1. CASE OnDiscoveryStarted
    BY <1>1 DEF OnDiscoveryStarted, OneRequest, RequestInv, Expected,
       TokenInv,
       MapInv, UnboundInv, SessionInv, ProcessorInv, ListenerInv
<1>2. CASE \E d \in Device : OnEvent(d)
    BY <1>2, EventThreads
<1>3. CASE ReadId
    BY <1>3 DEF ReadId, Finish, OneRequest, RequestInv, Expected, TokenInv,
       MapInv, UnboundInv, SessionInv, ProcessorInv, ListenerInv
<1>4. CASE OpenWrite \/ PlayWrite \/ Disconnect
    BY <1>4 DEF OpenWrite, PlayWrite, Disconnect, OneRequest, RequestInv,
       Expected, TokenInv,
       MapInv, UnboundInv, SessionInv, ProcessorInv, ListenerInv
<1>5. CASE OpenWriteFails \/ PlayWriteFails
    BY <1>5, EmptiedThreads DEF OpenWriteFails, PlayWriteFails, ProcessorInv,
       ListenerInv, Empty
<1>6. CASE OpenReturn
  <2>1. CASE OpenIsCurrent
    <3>1. Bound /\ lsPc = "opened"
        BY <1>0, <1>6, <2>1 DEF OpenReturn, OpenIsCurrent, ListenerInv
    <3>2. attr' = [attr EXCEPT !.ring_state = "OPENNED"]
        BY <1>6, <2>1, <3>1 DEF OpenReturn
    <3> QED
        BY <1>0, <1>6, <2>1, <3>1, <3>2, NewState DEF OpenReturn,
           OpenIsCurrent, Finish,
           OneRequest, RequestInv, Expected, TokenInv, MapInv, UnboundInv,
           SessionInv, ProcessorInv, ListenerInv, RingState, Phases, Opening,
           Ringing
  <2>2. CASE ~OpenIsCurrent
      BY <1>6, <2>2 DEF OpenReturn, Finish, OneRequest, RequestInv, Expected,
         TokenInv,
       MapInv, UnboundInv, SessionInv, ProcessorInv, ListenerInv
  <2> QED
      BY <2>1, <2>2
<1>7. CASE PlaySet
  <2>1. attr' = [attr EXCEPT !.ring_state = "COMMANDS_PLAY"]
      BY <1>7 DEF PlaySet
  <2> QED
      BY <1>0, <1>7, <2>1, NewState DEF PlaySet, Finish, OneRequest,
         RequestInv, Expected, TokenInv, MapInv, UnboundInv, SessionInv,
         ProcessorInv, ListenerInv, RingState, Phases, Opening, Ringing
<1>8. CASE PlayFailReturn
  <2>1. attr' = attr
      BY <1>0, <1>8 DEF PlayFailReturn, ListenerInv
  <2> QED
      BY <1>8, <2>1 DEF PlayFailReturn, Finish, OneRequest, RequestInv,
         Expected, TokenInv,
       MapInv, UnboundInv, SessionInv, ProcessorInv, ListenerInv
<1>9. CASE DisconnectReturn
  <2>1. CASE attr' = attr
      BY <1>9, <2>1 DEF DisconnectReturn, Finish, OneRequest, RequestInv,
         Expected, TokenInv,
       MapInv, UnboundInv, SessionInv, ProcessorInv, ListenerInv
  <2>2. CASE attr' = Empty
      BY <1>9, <2>2, EmptiedThreads DEF DisconnectReturn, Finish,
         ProcessorInv,
         ListenerInv, RequestMutexFree, Empty
  <2> QED
      BY <1>9, <2>1, <2>2 DEF DisconnectReturn
<1> QED
    BY <1>1, <1>2, <1>3, <1>4, <1>5, <1>6, <1>7, <1>8, <1>9 DEF ListenerNext

LEMMA EnvironmentThreads ==
    ASSUME TypeOK, ThreadInv, EnvironmentNext
    PROVE  ThreadInv'
<1>1. /\ UNCHANGED <<attr, cloudVars, procVars, lsVars, cloudSeen>>
      /\ MapInv => MapInv'
    BY DEF EnvironmentNext, LinkUp, LinkFails, LinkDown, Reply, Advertise,
       DiscoveryStarts, Scrub, SetLimit, MapInv, TypeOK
<1> QED
    BY <1>1 DEF ThreadInv, Bound, Following, OneRequest, RequestInv, Expected,
       TokenInv, MapInv, UnboundInv, SessionInv, ProcessorInv, ListenerInv

-----------------------------------------------------------------------------
(* The event queue as a log of connections and their ends *)

LEMMA TailLog ==
    ASSUME NEW S, NEW q \in Seq(S), q # <<>>, NEW c, NEW e
    PROVE  /\ InTurn(q, c, e) => InTurn(Tail(q), c, e)
           /\ Ended(q, c, e) => Ended(Tail(q), c, e)
           /\ Head(q) # e /\ EndFirst(q, c, e) => EndFirst(Tail(q), c, e)
           /\ Head(q) # e /\ Holds(q, e) => Holds(Tail(q), e)
<1>1. /\ Len(Tail(q)) = Len(q) - 1
      /\ Len(q) \in Nat \ {0}
      /\ \A i \in 1..Len(Tail(q)) : i + 1 \in 1..Len(q) /\ Tail(q)[i] = q[i + 1]
      /\ Head(q) = q[1]
    OBVIOUS
<1>2. \A k \in 1..Len(q) : k # 1 => k - 1 \in 1..Len(Tail(q)) /\ Tail(q)[k - 1] = q[k]
    BY <1>1
<1>3. ASSUME InTurn(q, c, e) PROVE InTurn(Tail(q), c, e)
  <2> SUFFICES ASSUME NEW i \in 1..Len(Tail(q)), NEW j \in 1..Len(Tail(q)),
                      i < j, Tail(q)[i] = c, Tail(q)[j] = c
               PROVE  Between(Tail(q), i, e, j)
      BY DEF InTurn
  <2>1. PICK k \in 1..Len(q) : i + 1 < k /\ k < j + 1 /\ q[k] = e
      BY <1>1, <1>3 DEF InTurn, Between
  <2>2. /\ k - 1 \in 1..Len(Tail(q)) /\ Tail(q)[k - 1] = e
        /\ i < k - 1 /\ k - 1 < j
      BY <1>1, <1>2, <2>1
  <2> QED
      BY <2>2 DEF Between
<1>4. ASSUME Ended(q, c, e) PROVE Ended(Tail(q), c, e)
  <2> SUFFICES ASSUME NEW i \in 1..Len(Tail(q)), Tail(q)[i] = c
               PROVE  After(Tail(q), i, e)
      BY DEF Ended
  <2>1. PICK k \in 1..Len(q) : i + 1 < k /\ q[k] = e
      BY <1>1, <1>4 DEF Ended, After
  <2> QED
      BY <1>1, <1>2, <2>1 DEF After
<1>5. ASSUME Head(q) # e, EndFirst(q, c, e) PROVE EndFirst(Tail(q), c, e)
  <2> SUFFICES ASSUME NEW i \in 1..Len(Tail(q)), Tail(q)[i] = c
               PROVE  Before(Tail(q), e, i)
      BY DEF EndFirst
  <2>1. PICK k \in 1..Len(q) : k < i + 1 /\ q[k] = e
      BY <1>1, <1>5 DEF EndFirst, Before
  <2>2. k - 1 \in 1..Len(Tail(q)) /\ Tail(q)[k - 1] = e /\ k - 1 < i
      BY <1>1, <1>2, <1>5, <2>1
  <2> QED
      BY <2>2 DEF Before
<1>6. ASSUME Head(q) # e, Holds(q, e) PROVE Holds(Tail(q), e)
    BY <1>1, <1>2, <1>6 DEF Holds
<1> QED
    BY <1>3, <1>4, <1>5, <1>6

\* Behind a connection at the head its end comes first.
LEMMA HeadLog ==
    ASSUME NEW S, NEW q \in Seq(S), q # <<>>, NEW c, NEW e, c # e, Head(q) = c
    PROVE  /\ InTurn(q, c, e) => EndFirst(Tail(q), c, e)
           /\ Ended(q, c, e) => Holds(Tail(q), e)
<1>1. /\ Len(Tail(q)) = Len(q) - 1
      /\ Len(q) \in Nat \ {0}
      /\ \A i \in 1..Len(Tail(q)) : i + 1 \in 1..Len(q) /\ Tail(q)[i] = q[i + 1]
      /\ q[1] = c
    OBVIOUS
<1>2. \A k \in 1..Len(q) : k # 1 => k - 1 \in 1..Len(Tail(q)) /\ Tail(q)[k - 1] = q[k]
    BY <1>1
<1>3. ASSUME InTurn(q, c, e) PROVE EndFirst(Tail(q), c, e)
  <2> SUFFICES ASSUME NEW i \in 1..Len(Tail(q)), Tail(q)[i] = c
               PROVE  Before(Tail(q), e, i)
      BY DEF EndFirst
  <2>1. PICK k \in 1..Len(q) : 1 < k /\ k < i + 1 /\ q[k] = e
      BY <1>1, <1>3 DEF InTurn, Between
  <2>2. k - 1 \in 1..Len(Tail(q)) /\ Tail(q)[k - 1] = e /\ k - 1 < i
      BY <1>1, <1>2, <2>1
  <2> QED
      BY <2>2 DEF Before
<1>4. ASSUME Ended(q, c, e) PROVE Holds(Tail(q), e)
  <2>1. PICK k \in 1..Len(q) : 1 < k /\ q[k] = e
      BY <1>1, <1>4 DEF Ended, After
  <2> QED
      BY <1>2, <2>1 DEF Holds
<1> QED
    BY <1>3, <1>4

\* What a report at the end of the queue keeps and brings about.
LEMMA AppendLog ==
    ASSUME NEW S, NEW q \in Seq(S), NEW x \in S, NEW c, NEW e
    PROVE  /\ x # c \/ Ended(q, c, e) =>
                  (InTurn(q, c, e) => InTurn(Append(q, x), c, e))
           /\ x # c /\ Ended(q, c, e) => Ended(Append(q, x), c, e)
           /\ x # c /\ x = e => Ended(Append(q, x), c, e)
           /\ x # c \/ Holds(q, e) =>
                  (EndFirst(q, c, e) => EndFirst(Append(q, x), c, e))
           /\ x = e \/ Holds(q, e) => Holds(Append(q, x), e)
<1> DEFINE a == Append(q, x)
           n == Len(q) + 1
<1>1. /\ Len(q) \in Nat
      /\ Len(a) = n
      /\ a[n] = x
      /\ \A i \in 1..Len(q) : i \in 1..Len(a) /\ i < n /\ a[i] = q[i]
      /\ \A i \in 1..Len(a) : i = n \/ i \in 1..Len(q)
    OBVIOUS
<1> HIDE DEF a
<1>2. ASSUME x # c \/ Ended(q, c, e), InTurn(q, c, e) PROVE InTurn(a, c, e)
  <2> SUFFICES ASSUME NEW i \in 1..Len(a), NEW j \in 1..Len(a),
                      i < j, a[i] = c, a[j] = c
               PROVE  Between(a, i, e, j)
      BY DEF InTurn
  <2>1. i \in 1..Len(q)
      BY <1>1
  <2>2. CASE j = n
    <3>1. PICK k \in 1..Len(q) : i < k /\ q[k] = e
        BY <1>1, <1>2, <2>1, <2>2 DEF Ended, After
    <3> QED
        BY <1>1, <2>2, <3>1 DEF Between
  <2>3. CASE j \in 1..Len(q)
    <3>1. PICK k \in 1..Len(q) : i < k /\ k < j /\ q[k] = e
        BY <1>1, <1>2, <2>1, <2>3 DEF InTurn, Between
    <3> QED
        BY <1>1, <3>1 DEF Between
  <2> QED
      BY <1>1, <2>2, <2>3
<1>3. ASSUME x # c, Ended(q, c, e) PROVE Ended(a, c, e)
  <2> SUFFICES ASSUME NEW i \in 1..Len(a), a[i] = c PROVE After(a, i, e)
      BY DEF Ended
  <2>1. PICK k \in 1..Len(q) : i < k /\ q[k] = e
      BY <1>1, <1>3 DEF Ended, After
  <2> QED
      BY <1>1, <2>1 DEF After
<1>4. ASSUME x # c, x = e PROVE Ended(a, c, e)
    BY <1>1, <1>4 DEF Ended, After
<1>5. ASSUME x # c \/ Holds(q, e), EndFirst(q, c, e) PROVE EndFirst(a, c, e)
  <2> SUFFICES ASSUME NEW i \in 1..Len(a), a[i] = c PROVE Before(a, e, i)
      BY DEF EndFirst
  <2>1. \E k \in 1..Len(q) : k < i /\ q[k] = e
      BY <1>1, <1>5 DEF EndFirst, Before, Holds
  <2> QED
      BY <1>1, <2>1 DEF Before
<1>6. ASSUME x = e \/ Holds(q, e) PROVE Holds(a, e)
    BY <1>1, <1>6 DEF Holds
<1> QED
    BY <1>2, <1>3, <1>4, <1>5, <1>6 DEF a

-----------------------------------------------------------------------------
(* Links and writes *)

\* A step leaves the bound session its device and its number.  What it has
\* been through was so before, or comes of the one step that does it.
SessionStep ==
    Bound' =>
        \/ /\ Bound
           /\ attr'.devId = attr.devId
           /\ attr'.session_token = attr.session_token
           /\ Heeded' => Heeded \/ OnConnectedRing(attr.devId)
           /\ Awaits("OPEN")' => Awaits("OPEN") \/ OpenWrite
           /\ Awaits("READY")' => Awaits("READY") \/ ReadyWrite
           /\ Awaits("PLAY")' => Awaits("PLAY") \/ PlayWrite
        \/ /\ DispatchOpen
           /\ ~Heeded'
           /\ ~Awaits("OPEN")' /\ ~Awaits("READY")' /\ ~Awaits("PLAY")'

LEMMA ProcessorSession ==
    ASSUME OrderlyCloud, TypeOK, ThreadInv, ProcessorNext
    PROVE  SessionStep
<1> USE DEF ThreadInv, Bound, Following, Heeded, Awaits
<1>0. attr \in Attributes
    BY DEF TypeOK
<1>1. CASE Fill
  <2> DEFINE r == Head(reqQueue)
  <2>1. Expected(r) /\ procPc = "pop"
      BY <1>1 DEF Fill, RequestInv
  <2>2. CASE r.msg.code = "OPEN"
      BY <1>0, <1>1, <2>1, <2>2 DEF Fill, Filled, OpenAttributes, Expected,
         Attributes, SessionStep
  <2>3. CASE r.msg.code = "SEND"
      BY <1>0, <1>1, <2>1, <2>3 DEF Fill, Filled, SendAttributes, Expected,
         Attributes, SessionStep
  <2> QED
      BY <2>1, <2>2, <2>3 DEF Expected
<1>2. CASE \/ LookupFound \/ LookupNone \/ ConnectStarts \/ ConnectSucceeds
           \/ DispatchSend
    BY <1>2 DEF LookupFound, LookupNone, ConnectStarts, ConnectSucceeds,
       DispatchSend, SessionStep
<1>3. CASE ConnectFails \/ DispatchNone \/ ReadyWriteFails \/ ReadyFailReturn
    BY <1>3 DEF ConnectFails, DispatchNone, ReadyWriteFails, ReadyFailReturn,
       Empty, SessionStep
<1>4. CASE DispatchOpen
    BY <1>0, <1>4 DEF DispatchOpen, ProcessorInv, Attributes, SessionStep
<1>5. CASE ReadyWrite
    BY <1>5 DEF ReadyWrite, SessionStep
<1>6. CASE ReadySet
  <2>1. attr' = [attr EXCEPT !.ring_state = "COMMANDS_READY"]
      BY <1>6 DEF ReadySet
  <2> QED
      BY <1>0, <1>6, <2>1, NewState DEF ReadySet, RingState, ProcessorInv,
         SessionStep
<1> QED
    BY <1>1, <1>2, <1>3, <1>4, <1>5, <1>6 DEF ProcessorNext

LEMMA EventSession ==
    ASSUME OrderlyCloud, TypeOK, ThreadInv, NEW d \in Device, OnEvent(d)
    PROVE  SessionStep
<1> USE DEF ThreadInv, Bound, Following, Heeded, Awaits
<1>0. attr \in Attributes /\ lsPc = "pop"
    BY BusyListener DEF TypeOK
<1>1. CASE \/ OnConnectedUnlisted(d) \/ OnConnectedOther(d) \/ OnConnectFailed(d)
           \/ OnNotifyIgnored(d) \/ OnUpdateOld(d) \/ OnUpdateServData(d)
    BY <1>0, <1>1 DEF OnConnectedUnlisted, OnConnectedOther, OnConnectFailed,
       OnNotifyIgnored, OnUpdateOld,
       OnUpdateServData, Begin, SessionStep
<1>2. CASE OnConnectedRing(d)
  <2>1. CASE attr' = Empty
      BY <2>1 DEF SessionStep, Empty
  <2>2. CASE attr' = [attr EXCEPT !.isConnected = TRUE]
    <3>1. /\ attr'.devId = attr.devId
          /\ attr'.ring_state = attr.ring_state
          /\ attr'.session_token = attr.session_token
        BY <1>0, <2>2 DEF Attributes
    <3>2. attr.devId = d /\ UNCHANGED procVars /\ (UNCHANGED lsVars \/ Begin("open", d))
        BY <1>2, <2>2 DEF OnConnectedRing, RingTarget
    <3> QED
        BY <1>0, <1>2, <3>1, <3>2 DEF Begin, SessionStep
  <2> QED
      BY <1>2, <2>1, <2>2 DEF OnConnectedRing
<1>3. CASE OnDisconnected(d)
    BY <1>0, <1>3 DEF OnDisconnected, Empty, SessionStep
<1>4. CASE OnNotifyOpenned(d)
  <2>1. /\ attr'.devId = attr.devId
        /\ attr'.session_token = attr.session_token
        /\ attr'.ring_state \in {"NOTIFY_RAND_T", "RECEIVED_RAND_T"}
      BY <1>0, <1>4 DEF OnNotifyOpenned, Attributes
  <2> QED
      BY <1>0, <1>4, <2>1 DEF OnNotifyOpenned, Notified, SessionStep
<1>5. CASE OnNotifyReady(d)
    BY <1>0, <1>5 DEF OnNotifyReady, Notified, Begin, Attributes, SessionStep
<1>6. CASE OnNotifyPlay(d)
  <2>1. CASE attr' = Empty
      BY <2>1 DEF SessionStep, Empty
  <2>2. CASE attr' = [attr EXCEPT !.ring_state = "PLAY_RESPONSE", !.rsp_Play = TRUE] /\ Begin("disc", d)
      BY <1>0, <1>6, <2>2 DEF OnNotifyPlay, Notified, Begin, Attributes,
         SessionStep
  <2> QED
      BY <1>6, <2>1, <2>2 DEF OnNotifyPlay
<1> QED
    BY <1>1, <1>2, <1>3, <1>4, <1>5, <1>6 DEF OnEvent

LEMMA NextSession ==
    ASSUME OrderlyCloud, TypeOK, ThreadInv, Next
    PROVE  SessionStep
<1> USE DEF ThreadInv, Bound, Following, Heeded, Awaits
<1>0. attr \in Attributes /\ (lsPc # "pop" => lsDev \in Device /\ lsDev # NoDev)
    BY NoDevAssumption DEF TypeOK
<1>1. CASE CallerNext \/ EnvironmentNext
  <2>1. UNCHANGED <<attr, procVars, lsVars>>
      BY <1>1 DEF CallerNext, CheckRequest, PushRequest, EnvironmentNext,
         LinkUp, LinkFails, LinkDown, Reply, Advertise, Scrub,
         DiscoveryStarts, SetLimit
  <2> QED
      BY <2>1 DEF SessionStep
<1>2. CASE ProcessorNext
    BY <1>2, ProcessorSession
<1>3. CASE \E d \in Device : OnEvent(d)
    BY <1>3, EventSession
<1>4. CASE OnDiscoveryStarted \/ ReadId \/ Disconnect \/ PlayFailReturn \/ DisconnectReturn
    BY <1>4 DEF OnDiscoveryStarted, ReadId, Disconnect, PlayFailReturn,
       DisconnectReturn, Finish, Empty, SessionStep
<1>5. CASE OpenWriteFails \/ PlayWriteFails
    BY <1>5 DEF OpenWriteFails, PlayWriteFails, Empty, SessionStep
<1>6. CASE OpenWrite \/ PlayWrite
    BY <1>6 DEF OpenWrite, PlayWrite, SessionStep
<1>7. CASE OpenReturn
  <2>1. CASE OpenIsCurrent
    <3>1. lsPc = "opened"
        BY <1>0, <1>7, <2>1 DEF OpenReturn, OpenIsCurrent, ListenerInv
    <3>2. attr' = [attr EXCEPT !.ring_state = "OPENNED"]
        BY <1>7, <2>1, <3>1 DEF OpenReturn
    <3> QED
        BY <1>0, <1>7, <2>1, <3>1, <3>2, NewState DEF OpenReturn,
           OpenIsCurrent, Finish, RingState, SessionStep
  <2>2. CASE ~OpenIsCurrent
      BY <1>7, <2>2 DEF OpenReturn, Finish, SessionStep
  <2> QED
      BY <2>1, <2>2
<1>8. CASE PlaySet
  <2>1. attr' = [attr EXCEPT !.ring_state = "COMMANDS_PLAY"]
      BY <1>8 DEF PlaySet
  <2> QED
      BY <1>0, <1>8, <2>1, NewState DEF PlaySet, Finish, RingState,
         ListenerInv, SessionStep
<1> QED
    BY <1>1, <1>2, <1>3, <1>4, <1>5, <1>6, <1>7, <1>8 DEF Next, ListenerNext

\* No link goes down or is started anew.
NoneUnlinked == \A d \in Device : Unlinked(d)' => Unlinked(d)

\* What a step does to the event queue and the links.
LEMMA NextReport ==
    ASSUME TypeOK, Next
    PROVE  \/ evQueue' = evQueue /\ NoneUnlinked
           \/ /\ NoneUnlinked
              /\ \E type \in EventType, d \in Device \cup {NoDev} :
                    /\ Take(type, d)
                    /\ type = "DISCONNECTED" => d \in Device /\ OnDisconnected(d)
           \/ /\ NoneUnlinked
              /\ \E type \in EventType \ {"CONNECTED", "DISCONNECTED"},
                    d \in Device \cup {NoDev} : Post(type, d)
           \/ \E d \in Device : LinkUp(d) \/ LinkDown(d)
<1> USE DEF Unlinked, NoneUnlinked
<1>0. link \in [Device -> {"down", "connecting", "up", "closing"}]
    BY DEF TypeOK
<1>1. CASE CallerNext
    BY <1>1 DEF CallerNext, CheckRequest, PushRequest
<1>2. CASE ProcessorNext
    BY <1>0, <1>2 DEF ProcessorNext, Fill, LookupFound, LookupNone,
       DispatchOpen, ConnectStarts, StartConnect, ConnectSucceeds,
       ConnectFails, DispatchSend, DispatchNone, ReadyWrite, Deliver, ReadyWriteFails,
       ReadySet, ReadyFailReturn
<1>3. ASSUME NEW d \in Device, OnEvent(d)
      PROVE  /\ NoneUnlinked
             /\ \E type \in EventType :
                   /\ Take(type, d)
                   /\ type = "DISCONNECTED" => OnDisconnected(d)
  <2>1. CASE OnUpdateOld(d)
      BY <1>0, <2>1 DEF OnUpdateOld, StartConnect, EventType
  <2>2. CASE ~OnUpdateOld(d)
    <3>1. UNCHANGED link
        BY <1>3, <2>2 DEF OnEvent, OnUpdateServData, OnConnectedUnlisted,
           OnConnectedRing, OnConnectedOther, OnConnectFailed,
           OnDisconnected, OnNotifyIgnored, OnNotifyOpenned, OnNotifyReady,
           OnNotifyPlay
    <3>2. \E type \in EventType : Take(type, d) /\ (type = "DISCONNECTED" => OnDisconnected(d))
        BY <1>3, <2>2 DEF OnEvent, OnUpdateServData, OnConnectedUnlisted,
           OnConnectedRing, OnConnectedOther, OnConnectFailed,
           OnDisconnected, OnNotifyIgnored, OnNotifyOpenned, OnNotifyReady,
           OnNotifyPlay, Notified, EventType
    <3> QED
        BY <3>1, <3>2
  <2> QED
      BY <2>1, <2>2
<1>4. CASE OnDiscoveryStarted
    BY <1>4 DEF OnDiscoveryStarted, EventType
<1>5. CASE ReadId \/ Disconnect
    BY <1>0, <1>5 DEF ReadId, Disconnect, StartDisconnect
<1>6. CASE \/ OpenWrite \/ OpenWriteFails \/ OpenReturn \/ PlayWrite
           \/ PlayWriteFails \/ PlaySet \/ PlayFailReturn \/ DisconnectReturn
    BY <1>6 DEF OpenWrite, OpenWriteFails, OpenReturn, PlayWrite,
       PlayWriteFails, PlaySet, PlayFailReturn, DisconnectReturn, Deliver
<1>7. CASE EnvironmentNext
  <2>1. ASSUME NEW d \in Device, LinkFails(d) \/ Reply(d) \/ Advertise(d)
        PROVE  /\ NoneUnlinked
               /\ \/ evQueue' = evQueue
                  \/ \E type \in EventType \ {"CONNECTED", "DISCONNECTED"} : Post(type, d)
      BY <1>0, <2>1 DEF LinkFails, Reply, Advertise, EventType
  <2>2. CASE DiscoveryStarts \/ Scrub \/ SetLimit
      BY <2>2 DEF DiscoveryStarts, Scrub, SetLimit, EventType
  <2> QED
      BY <1>7, <2>1, <2>2 DEF EnvironmentNext
<1> QED
    BY <1>1, <1>2, <1>3, <1>4, <1>5, <1>6, <1>7 DEF Next, ListenerNext

LEMMA LinkStep ==
    ASSUME TypeOK, LinkInv, Next
    PROVE  LinkInv'
<1> SUFFICES ASSUME NEW e \in Device
             PROVE  /\ InTurn(evQueue', Connected(e), Disconnected(e))
                    /\ Unlinked(e)' => Ended(evQueue', Connected(e), Disconnected(e))
    BY DEF LinkInv, Connected, Disconnected
<1>0. /\ evQueue \in Seq(Event)
      /\ InTurn(evQueue, Connected(e), Disconnected(e))
      /\ Unlinked(e) => Ended(evQueue, Connected(e), Disconnected(e))
    BY DEF LinkInv, TypeOK
<1>1. CASE evQueue' = evQueue /\ NoneUnlinked
    BY <1>0, <1>1 DEF NoneUnlinked
<1>2. CASE NoneUnlinked /\ \E type \in EventType, d \in Device \cup {NoDev} : Take(type, d)
    BY <1>0, <1>2, TailLog DEF NoneUnlinked, Take
<1>3. ASSUME NoneUnlinked, NEW type \in EventType \ {"CONNECTED", "DISCONNECTED"},
             NEW d \in Device \cup {NoDev}, Post(type, d)
      PROVE  /\ InTurn(evQueue', Connected(e), Disconnected(e))
             /\ Unlinked(e)' => Ended(evQueue', Connected(e), Disconnected(e))
  <2>1. [type |-> type, dev |-> d] \in Event /\ [type |-> type, dev |-> d] # Connected(e)
      BY <1>3 DEF Event, Connected
  <2> QED
      BY <1>0, <1>3, <2>1, AppendLog DEF NoneUnlinked, Post
<1>4. ASSUME NEW d \in Device, LinkUp(d)
      PROVE  /\ InTurn(evQueue', Connected(e), Disconnected(e))
             /\ Unlinked(e)' => Ended(evQueue', Connected(e), Disconnected(e))
  <2>1. /\ Connected(d) \in Event
        /\ evQueue' = Append(evQueue, Connected(d))
        /\ Unlinked(d) /\ ~Unlinked(d)'
        /\ d # e => Connected(d) # Connected(e) /\ (Unlinked(e)' => Unlinked(e))
      BY <1>4 DEF LinkUp, Post, Event, EventType, Connected, Unlinked, TypeOK
  <2> QED
      BY <1>0, <2>1, AppendLog
<1>5. ASSUME NEW d \in Device, LinkDown(d)
      PROVE  /\ InTurn(evQueue', Connected(e), Disconnected(e))
             /\ Unlinked(e)' => Ended(evQueue', Connected(e), Disconnected(e))
  <2>1. /\ Disconnected(d) \in Event
        /\ evQueue' = Append(evQueue, Disconnected(d))
        /\ Disconnected(d) # Connected(e)
        /\ d # e => (Unlinked(e)' => Unlinked(e))
      BY <1>5 DEF LinkDown, Post, Event, EventType, Connected, Disconnected,
         Unlinked, TypeOK
  <2> QED
      BY <1>0, <2>1, AppendLog
<1> QED
    BY <1>1, <1>2, <1>3, <1>4, <1>5, NextReport

LEMMA HeededStep ==
    ASSUME OrderlyCloud, TypeOK, BoundDeviceRequested, ThreadInv, LinkInv, HeededInv, Next
    PROVE  HeededInv'
<1> SUFFICES ASSUME Heeded'
             PROVE  HeededInv'
    BY DEF HeededInv
<1>1. /\ evQueue \in Seq(Event)
      /\ Bound' /\ Bound
      /\ attr'.devId = attr.devId
      /\ attr.devId \in Device
      /\ Heeded \/ OnConnectedRing(attr.devId)
    BY NextSession DEF SessionStep, Heeded, Bound, TypeOK, Attributes
<1>2. PICK e \in Device : e = attr.devId
    BY <1>1
<1>3. SUFFICES /\ EndFirst(evQueue', Connected(e), Disconnected(e))
               /\ Unlinked(e)' => Holds(evQueue', Disconnected(e))
    BY <1>1, <1>2 DEF HeededInv, Connected, Disconnected, Unlinked
<1>4. /\ evQueue \in Seq(Event)
      /\ Bound' /\ Bound
      /\ attr.devId = e /\ attr'.devId = e
      /\ Heeded \/ OnConnectedRing(e)
    BY <1>1, <1>2
<1>5. CASE OnConnectedRing(e)
  <2>1. /\ evQueue # <<>> /\ Head(evQueue) = Connected(e)
        /\ evQueue' = Tail(evQueue)
        /\ UNCHANGED link
      BY <1>5 DEF OnConnectedRing, Take, Connected
  <2>2. Connected(e) # Disconnected(e)
      BY DEF Connected, Disconnected
  <2> QED
      BY <1>4, <2>1, <2>2, HeadLog DEF LinkInv, Unlinked
<1>6. CASE Heeded /\ ~OnConnectedRing(e)
  <2>0. /\ EndFirst(evQueue, Connected(e), Disconnected(e))
        /\ Unlinked(e) => Holds(evQueue, Disconnected(e))
      BY <1>4, <1>6 DEF HeededInv
  <2>1. CASE evQueue' = evQueue /\ NoneUnlinked
      BY <1>4, <2>0, <2>1 DEF NoneUnlinked, Unlinked
  <2>2. ASSUME NoneUnlinked, NEW type \in EventType, NEW d \in Device \cup {NoDev},
               Take(type, d), type = "DISCONNECTED" => d \in Device /\ OnDisconnected(d)
        PROVE  /\ EndFirst(evQueue', Connected(e), Disconnected(e))
               /\ Unlinked(e)' => Holds(evQueue', Disconnected(e))
    <3>1. ASSUME OnDisconnected(e) PROVE FALSE
        BY <1>4, <3>1 DEF OnDisconnected, RingTarget, BoundDeviceRequested,
           Bound, Empty
    <3>2. Head(evQueue) # Disconnected(e)
        BY <2>2, <3>1 DEF Take, Disconnected
    <3> QED
        BY <1>4, <2>0, <2>2, <3>2, TailLog DEF NoneUnlinked, Take
  <2>3. ASSUME NoneUnlinked, NEW type \in EventType \ {"CONNECTED", "DISCONNECTED"},
               NEW d \in Device \cup {NoDev}, Post(type, d)
        PROVE  /\ EndFirst(evQueue', Connected(e), Disconnected(e))
               /\ Unlinked(e)' => Holds(evQueue', Disconnected(e))
    <3>1. [type |-> type, dev |-> d] \in Event /\ [type |-> type, dev |-> d] # Connected(e)
        BY <2>3 DEF Event, Connected
    <3> QED
        BY <1>4, <2>0, <2>3, <3>1, AppendLog DEF NoneUnlinked, Post
  <2>4. ASSUME NEW d \in Device, LinkUp(d)
        PROVE  /\ EndFirst(evQueue', Connected(e), Disconnected(e))
               /\ Unlinked(e)' => Holds(evQueue', Disconnected(e))
    <3>1. /\ Connected(d) \in Event
          /\ evQueue' = Append(evQueue, Connected(d))
          /\ Unlinked(d) /\ ~Unlinked(d)'
          /\ d # e => Connected(d) # Connected(e) /\ (Unlinked(e)' => Unlinked(e))
        BY <1>4, <2>4 DEF LinkUp, Post, Event, EventType, Connected,
           Unlinked, TypeOK
    <3> QED
        BY <1>4, <2>0, <3>1, AppendLog
  <2>5. ASSUME NEW d \in Device, LinkDown(d)
        PROVE  /\ EndFirst(evQueue', Connected(e), Disconnected(e))
               /\ Unlinked(e)' => Holds(evQueue', Disconnected(e))
    <3>1. /\ Disconnected(d) \in Event
          /\ evQueue' = Append(evQueue, Disconnected(d))
          /\ Disconnected(d) # Connected(e)
          /\ d # e => (Unlinked(e)' => Unlinked(e))
        BY <1>4, <2>5 DEF LinkDown, Post, Event, EventType, Connected,
           Disconnected, Unlinked, TypeOK
    <3> QED
        BY <1>4, <2>0, <3>1, AppendLog
  <2> QED
      BY <1>4, <2>1, <2>2, <2>3, <2>4, <2>5, NextReport DEF Unlinked
<1> QED
    BY <1>4, <1>5, <1>6

\* The listener takes the end of the bound session's link from the queue
\* only to end the session.
LEMMA DisconnectionKept ==
    ASSUME TypeOK, BoundDeviceRequested, Next, Bound, Bound',
           Holds(evQueue, Disconnected(attr.devId))
    PROVE  Holds(evQueue', Disconnected(attr.devId))
<1>0. evQueue \in Seq(Event) /\ attr.devId \in Device
    BY DEF TypeOK, Attributes, Bound
<1>1. PICK e \in Device : e = attr.devId
    BY <1>0
<1>2. SUFFICES Holds(evQueue', Disconnected(e))
    BY <1>1
<1>3. Holds(evQueue, Disconnected(e)) /\ Disconnected(e) \in Event
    BY <1>1 DEF Disconnected, Event, EventType
<1>4. CASE evQueue' = evQueue
    BY <1>3, <1>4
<1>5. ASSUME NEW type \in EventType, NEW d \in Device \cup {NoDev},
             Take(type, d), type = "DISCONNECTED" => OnDisconnected(d)
      PROVE  Holds(evQueue', Disconnected(e))
  <2>1. ASSUME OnDisconnected(e) PROVE FALSE
      BY <1>1, <2>1 DEF OnDisconnected, RingTarget, BoundDeviceRequested,
         Bound, Empty
  <2>2. Head(evQueue) # Disconnected(e)
      BY <1>5, <2>1 DEF Take, Disconnected
  <2> QED
      BY <1>0, <1>3, <1>5, <2>2, TailLog DEF Take
<1>6. ASSUME NEW type \in EventType, NEW d \in Device \cup {NoDev}, Post(type, d)
      PROVE  Holds(evQueue', Disconnected(e))
  <2>1. [type |-> type, dev |-> d] \in Event
      BY DEF Event
  <2> QED
      BY <1>0, <1>3, <1>6, <2>1, AppendLog DEF Post
<1>7. ASSUME NEW d \in Device, LinkUp(d) \/ LinkDown(d)
      PROVE  Holds(evQueue', Disconnected(e))
    BY <1>6, <1>7 DEF LinkUp, LinkDown, EventType
<1> QED
    BY <1>4, <1>5, <1>6, <1>7, NextReport DEF EventType

\* What a tile heard last changes by the three writes and the end of its
\* link.
LEMMA NextWire ==
    ASSUME TypeOK, Next, NEW e \in Device
    PROVE  \/ wire'[e] = wire[e]
           \/ OpenWrite \/ ReadyWrite \/ PlayWrite
           \/ LinkDown(e)
<1>0. /\ link \in [Device -> {"down", "connecting", "up", "closing"}]
      /\ wire \in [Device -> Command]
    BY DEF TypeOK
<1>1. CASE CallerNext
    BY <1>1 DEF CallerNext, CheckRequest, PushRequest
<1>2. CASE ProcessorNext
    BY <1>0, <1>2 DEF ProcessorNext, Fill, LookupFound, LookupNone,
       DispatchOpen, ConnectStarts, StartConnect, ConnectSucceeds,
       ConnectFails, DispatchSend, DispatchNone, ReadyWrite, Deliver, ReadyWriteFails,
       ReadySet, ReadyFailReturn
<1>3. ASSUME NEW d \in Device, OnEvent(d)
      PROVE  /\ link'[e] \in {"up", "closing"} => link[e] \in {"up", "closing"}
             /\ UNCHANGED wire
  <2>1. CASE OnUpdateOld(d)
      BY <1>0, <2>1 DEF OnUpdateOld, StartConnect
  <2>2. CASE ~OnUpdateOld(d)
      BY <1>3, <2>2 DEF OnEvent, OnUpdateServData, OnConnectedUnlisted,
         OnConnectedRing, OnConnectedOther, OnConnectFailed, OnDisconnected,
         OnNotifyIgnored, OnNotifyOpenned, OnNotifyReady, OnNotifyPlay
  <2> QED
      BY <2>1, <2>2
<1>4. CASE ReadId \/ Disconnect
    BY <1>0, <1>4 DEF ReadId, Disconnect, StartDisconnect
<1>5. CASE \/ OnDiscoveryStarted \/ OpenWrite \/ OpenWriteFails \/ OpenReturn
           \/ PlayWrite \/ PlayWriteFails \/ PlaySet \/ PlayFailReturn
           \/ DisconnectReturn
    BY <1>5 DEF OnDiscoveryStarted, OpenWrite, OpenWriteFails, OpenReturn,
       PlayWrite, PlayWriteFails, PlaySet, PlayFailReturn, DisconnectReturn,
       Deliver
<1>6. CASE EnvironmentNext
    BY <1>0, <1>6 DEF EnvironmentNext, LinkUp, LinkFails, LinkDown, Reply,
       Advertise, Scrub, DiscoveryStarts, SetLimit
<1> QED
    BY <1>1, <1>2, <1>3, <1>4, <1>5, <1>6 DEF Next, ListenerNext

\* A thread that writes to the tile of the bound session writes the command
\* of its phase, and nothing is awaited then.
LEMMA WriteHeard ==
    ASSUME TypeOK, ThreadInv, Bound, UNCHANGED attr
    PROVE  /\ OpenWrite => Heard("OPEN")'
           /\ ReadyWrite => Heard("READY")'
           /\ PlayWrite => Heard("PLAY")'
           /\ OpenWrite \/ ReadyWrite \/ PlayWrite
                => ~Awaits("OPEN") /\ ~Awaits("READY") /\ ~Awaits("PLAY")
<1> USE DEF ThreadInv, ProcessorInv, ListenerInv, Bound, Following, Awaits
<1>0. wire \in [Device -> Command] /\ attr.devId \in Device
    BY DEF TypeOK, Attributes
<1>1. ASSUME OpenWrite
      PROVE  Heard("OPEN")' /\ ~Awaits("OPEN") /\ ~Awaits("READY") /\ ~Awaits("PLAY")
  <2>1. attr.devId = lsDev /\ attr.ring_state = "TO_CONNECT"
      BY <1>1 DEF OpenWrite
  <2> QED
      BY <1>0, <1>1, <2>1 DEF OpenWrite, Deliver, Heard
<1>2. ASSUME ReadyWrite
      PROVE  Heard("READY")' /\ ~Awaits("OPEN") /\ ~Awaits("READY") /\ ~Awaits("PLAY")
  <2>1. attr.devId = handle /\ attr.ring_state = "RECEIVED_SEND_COMMANDS"
      BY <1>2 DEF ReadyWrite
  <2> QED
      BY <1>0, <1>2, <2>1 DEF ReadyWrite, Deliver, Heard
<1>3. ASSUME PlayWrite
      PROVE  Heard("PLAY")' /\ ~Awaits("OPEN") /\ ~Awaits("READY") /\ ~Awaits("PLAY")
  <2>1. attr.devId = lsDev /\ attr.ring_state = "READY_RESPONSE"
      BY <1>3 DEF PlayWrite
  <2> QED
      BY <1>0, <1>3, <2>1 DEF PlayWrite, Deliver, Heard
<1> QED
    BY <1>1, <1>2, <1>3

LEMMA WireStep ==
    ASSUME OrderlyCloud, TypeOK, BoundDeviceRequested, ThreadInv, WireInv,
           Next
    PROVE  WireInv'
<1> SUFFICES ASSUME Bound', NEW c \in {"OPEN", "READY", "PLAY"}, Awaits(c)'
             PROVE  Heard(c)'
    BY DEF WireInv
<1>1. SessionStep
    BY NextSession
<1>2. /\ Bound
      /\ attr'.devId = attr.devId
      /\ attr'.session_token = attr.session_token
      /\ \/ Awaits(c)
         \/ c = "OPEN" /\ OpenWrite
         \/ c = "READY" /\ ReadyWrite
         \/ c = "PLAY" /\ PlayWrite
    BY <1>1 DEF SessionStep
<1>3. CASE OpenWrite \/ ReadyWrite \/ PlayWrite
  <2>1. UNCHANGED attr
      BY <1>3 DEF OpenWrite, ReadyWrite, PlayWrite
  <2> QED
      BY <1>2, <1>3, <2>1, WriteHeard
<1>4. CASE ~(OpenWrite \/ ReadyWrite \/ PlayWrite)
  <2>1. Heard(c) /\ Awaits(c)
      BY <1>2, <1>4 DEF WireInv
  <2>2. attr.devId \in Device
      BY <1>2 DEF Bound, TypeOK, Attributes
  <2>3. CASE Holds(evQueue, Disconnected(attr.devId))
      BY <1>2, <2>3, DisconnectionKept DEF Heard, Disconnected
  <2>4. CASE wire'[attr.devId] = wire[attr.devId]
      BY <1>2, <2>1, <2>3, <2>4 DEF Heard
  <2>5. CASE LinkDown(attr.devId)
    <3>1. /\ Disconnected(attr.devId) \in Event
          /\ evQueue' = Append(evQueue, Disconnected(attr.devId))
        BY <2>2, <2>5 DEF LinkDown, Post, Event, EventType, Disconnected
    <3>2. Holds(evQueue', Disconnected(attr.devId))
        BY <3>1 DEF TypeOK, Holds
    <3> QED
        BY <1>2, <3>2 DEF Heard, Disconnected
  <2> QED
      BY <1>4, <2>2, <2>4, <2>5, NextWire
<1> QED
    BY <1>3, <1>4

-----------------------------------------------------------------------------
(* The invariant and what follows from it *)

\* OrderInv holds in every reachable state.
LEMMA OrderInvariant ==
    ASSUME OrderlyCloud
    PROVE  Spec => []OrderInv
<1>1. /\ TypeOK /\ BoundDeviceRequested /\ OrderInv
      /\ [Next]_vars
      => OrderInv'
  <2> SUFFICES ASSUME TypeOK, BoundDeviceRequested, OrderInv, [Next]_vars
               PROVE  OrderInv'
      OBVIOUS
  <2> USE DEF OrderInv, TalkInv
  <2>1. CASE UNCHANGED vars
      BY <2>1 DEF vars, ThreadInv, OneRequest, RequestInv, Expected, TokenInv,
         MapInv, UnboundInv, SessionInv, ProcessorInv, ListenerInv, LinkInv,
         HeededInv, Heeded, WireInv, Awaits, Heard,
         Bound, Unlinked
  <2>2. CASE Next
    <3>1. ThreadInv'
        BY <2>2, CallerThreads, ProcessorThreads, ListenerThreads,
           EnvironmentThreads DEF Next
    <3>2. LinkInv' /\ HeededInv'
        BY <2>2, LinkStep, HeededStep
    <3>3. WireInv'
        BY <2>2, WireStep
    <3> QED
        BY <3>1, <3>2, <3>3
  <2> QED
      BY <2>1, <2>2
<1> QED
    BY <1>1, InitOrder, TypeCorrect, BoundDeviceCorrect, PTL DEF Spec

\* A state that waits for the tile is one the tile was told about, by this
\* session, until the listener hears that the link was lost.
THEOREM WireCorrect ==
    ASSUME OrderlyCloud
    PROVE  Spec => []WireMatches
<1>1. OrderInv => WireMatches
  <2> SUFFICES ASSUME OrderInv, Bound,
                      attr.ring_state \in DOMAIN AwaitedCommand
               PROVE  Heard(AwaitedCommand[attr.ring_state])
      BY DEF WireMatches, Bound, Heard, Holds, Disconnected, TypeOK
  <2>1. \A c \in {"OPEN", "READY", "PLAY"} : Awaits(c) => Heard(c)
      BY DEF OrderInv, TalkInv, WireInv
  <2> QED
      BY <2>1 DEF Awaits, AwaitedCommand
<1> QED
    BY <1>1, OrderInvariant, PTL

\* The device that is connected to and written to is the requested tile.
THEOREM RightTileCorrect ==
    ASSUME OrderlyCloud
    PROVE  Spec => []RightTile
<1>1. OrderInv => RightTile
    BY DEF OrderInv, ThreadInv, SessionInv, Bound, RightTile
<1> QED
    BY <1>1, OrderInvariant, PTL

\* After a write or a disconnection without the mutex, the listener changes
\* the attributes only of the session it was busy with.
THEOREM FollowUpsCorrect ==
    ASSUME OrderlyCloud
    PROVE  Spec => FollowUpsCurrent
<1>1. TypeOK /\ OrderInv /\ [Next]_vars
        => [(lsPc \in FollowUp /\ lsPc' = "pop" /\ attr' # attr)
              => attr.session_token = lsToken]_vars
  <2> SUFFICES ASSUME TypeOK, OrderInv, Next,
                      lsPc \in FollowUp, lsPc' = "pop", attr' # attr
               PROVE  attr.session_token = lsToken
      OBVIOUS
  <2> USE DEF FollowUp
  <2>1. ListenerNext /\ lsPc # "pop"
      BY OthersKeepPlay DEF Next
  <2>2. ~OnDiscoveryStarted /\ ~\E d \in Device : OnEvent(d)
      BY <2>1, BusyListener DEF OnDiscoveryStarted, Take
  <2>3. OpenReturn \/ PlaySet \/ PlayFailReturn \/ DisconnectReturn
      BY <2>1, <2>2 DEF ListenerNext, ReadId, OpenWrite, OpenWriteFails,
         PlayWrite, PlayWriteFails, Disconnect
  <2>4. lsDev # NoDev
      BY NoDevAssumption DEF TypeOK
  <2>5. Bound
      BY <2>3, <2>4 DEF OpenReturn, OpenIsCurrent, PlaySet, PlayFailReturn,
         DisconnectReturn, CompletionIsCurrent, OrderInv, ThreadInv,
         ListenerInv, Bound
  <2> QED
      BY <2>5 DEF OrderInv, ThreadInv, ListenerInv, Following
<1> QED
    BY <1>1, OrderInvariant, TypeCorrect, PTL DEF Spec, FollowUpsCurrent

-----------------------------------------------------------------------------
(* The refinement of RingProtocol *)

\* The phase of each ring_state.
LEMMA PhaseOf ==
    /\ RingPhase["TO_CONNECT"] = "connecting"
    /\ RingPhase["OPENNED"] = "open"
    /\ RingPhase["NOTIFY_RAND_T"] = "told"
    /\ RingPhase["RECEIVED_SEND_COMMANDS"] = "commanded"
    /\ RingPhase["COMMANDS_READY"] = "ready"
    /\ RingPhase["READY_RESPONSE"] = "accepted"
    /\ RingPhase["COMMANDS_PLAY"] = "play"
    /\ RingPhase["PLAY_RESPONSE"] = "done"
    /\ \A s \in RingState : RingPhase[s] # "idle"
BY DEF RingPhase, RingState

ProtocolStep == [Protocol!Next]_(Protocol!pvars)

\* Steps that leave the session alone, that drop it, and that move it on.
LEMMA SameSession ==
    ASSUME UNCHANGED cloudSeen,
           \/ ~Bound /\ ~Bound'
           \/ /\ attr'.devId = attr.devId
              /\ attr'.ring_state = attr.ring_state
              /\ attr'.session_token = attr.session_token
    PROVE  ProtocolStep
BY DEF ProtocolStep, Protocol!pvars, Bound

LEMMA DroppedSession ==
    ASSUME TypeOK, UNCHANGED cloudSeen, attr' = Empty
    PROVE  ProtocolStep
<1>1. CASE ~Bound
    BY <1>1, SameSession DEF Empty, Bound
<1>2. CASE Bound
  <2>1. attr.ring_state \in RingState
      BY DEF TypeOK, Attributes
  <2>2. Protocol!Drop
      BY <1>2, <2>1, PhaseOf DEF Protocol!Drop, Empty, Bound
  <2> QED
      BY <2>2 DEF ProtocolStep, Protocol!Next
<1> QED
    BY <1>1, <1>2

LEMMA AdvancedSession ==
    ASSUME UNCHANGED cloudSeen, Bound,
           attr'.devId = attr.devId,
           attr'.session_token = attr.session_token,
           <<attr.ring_state, attr'.ring_state>> \in
               {<<"TO_CONNECT", "OPENNED">>,
                <<"NOTIFY_RAND_T", "RECEIVED_SEND_COMMANDS">>,
                <<"RECEIVED_SEND_COMMANDS", "COMMANDS_READY">>,
                <<"COMMANDS_READY", "READY_RESPONSE">>,
                <<"READY_RESPONSE", "COMMANDS_PLAY">>}
    PROVE  ProtocolStep
BY PhaseOf DEF ProtocolStep, Protocol!Next, Protocol!Advance, Bound

LEMMA ProcessorFollows ==
    ASSUME OrderlyCloud, TypeOK, ThreadInv, ThreadInv', ProcessorNext
    PROVE  ProtocolStep
<1> USE DEF ThreadInv, Bound
<1>0. attr \in Attributes
    BY DEF TypeOK
<1>1. CASE Fill
  <2> DEFINE r == Head(reqQueue)
  <2>1. Expected(r) /\ UNCHANGED cloudSeen
      BY <1>1 DEF Fill, RequestInv
  <2>2. CASE r.msg.code = "OPEN"
    <3>1. ~Bound /\ ~Bound'
        BY <1>0, <1>1, <2>1, <2>2 DEF Fill, Filled, OpenAttributes, Expected,
           Attributes
    <3> QED
        BY <2>1, <3>1, SameSession
  <2>3. CASE r.msg.code = "SEND"
    <3>1. attr' = SendAttributes(r)
        BY <1>1, <2>3 DEF Fill, Filled
    <3>2. attr'.devId = attr.devId /\ attr'.session_token = attr.session_token
        BY <1>0, <3>1 DEF SendAttributes, Attributes
    <3>3. Bound => /\ attr.ring_state = "NOTIFY_RAND_T"
                   /\ attr'.ring_state = "RECEIVED_SEND_COMMANDS"
        BY <1>0, <2>1, <2>3, <3>1 DEF Expected, SendAttributes, Attributes
    <3> QED
        BY <2>1, <3>2, <3>3, SameSession, AdvancedSession
  <2> QED
      BY <2>1, <2>2, <2>3 DEF Expected
<1>2. CASE \/ LookupFound \/ LookupNone \/ ConnectStarts \/ ConnectSucceeds
           \/ DispatchSend \/ ReadyWrite
    BY <1>2, SameSession DEF LookupFound, LookupNone, ConnectStarts,
       ConnectSucceeds, DispatchSend, ReadyWrite
<1>3. CASE ConnectFails \/ DispatchNone \/ ReadyWriteFails \/ ReadyFailReturn
    BY <1>3, DroppedSession DEF ConnectFails, DispatchNone, ReadyWriteFails,
       ReadyFailReturn
<1>4. CASE DispatchOpen
  <2>1. /\ ~Bound
        /\ attr.session_token \in 1..MaxReq
        /\ attr.session_token \notin told \cup answered
        /\ handle \in Device /\ handle # NoDev
      BY <1>4, NoDevAssumption DEF DispatchOpen, ProcessorInv, TypeOK
  <2>2. /\ attr'.devId = handle
        /\ attr'.ring_state = "TO_CONNECT"
        /\ attr'.session_token = attr.session_token
        /\ UNCHANGED cloudSeen
      BY <1>0, <1>4 DEF DispatchOpen, Attributes
  <2>3. Protocol!Connect(handle, attr.session_token)
      BY <2>1, <2>2, PhaseOf DEF Protocol!Connect
  <2> QED
      BY <2>1, <2>3 DEF ProtocolStep, Protocol!Next
<1>5. CASE ReadySet
  <2>1. attr' = [attr EXCEPT !.ring_state = "COMMANDS_READY"] /\ UNCHANGED cloudSeen
      BY <1>5 DEF ReadySet
  <2>2. /\ attr'.devId = attr.devId
        /\ attr'.session_token = attr.session_token
        /\ attr'.ring_state = "COMMANDS_READY"
      BY <1>0, <2>1, NewState DEF RingState
  <2>3. Bound => attr.ring_state = "RECEIVED_SEND_COMMANDS"
      BY <1>5 DEF ReadySet, ProcessorInv
  <2> QED
      BY <2>1, <2>2, <2>3, SameSession, AdvancedSession
<1> QED
    BY <1>1, <1>2, <1>3, <1>4, <1>5 DEF ProcessorNext

LEMMA EventFollows ==
    ASSUME OrderlyCloud, TypeOK, ThreadInv, NEW d \in Device, OnEvent(d)
    PROVE  ProtocolStep
<1> USE DEF ThreadInv, Bound
<1>0. attr \in Attributes /\ d # NoDev
    BY NoDevAssumption DEF TypeOK
<1>1. CASE \/ OnConnectedUnlisted(d) \/ OnConnectedOther(d)
           \/ OnConnectFailed(d) \/ OnNotifyIgnored(d) \/ OnUpdateOld(d)
           \/ OnUpdateServData(d)
    BY <1>1, SameSession DEF OnConnectedUnlisted, OnConnectedOther,
       OnConnectFailed, OnNotifyIgnored, OnUpdateOld, OnUpdateServData
<1>2. CASE OnConnectedRing(d) \/ OnDisconnected(d)
  <2>1. UNCHANGED cloudSeen
      BY <1>2 DEF OnConnectedRing, OnDisconnected
  <2>2. \/ attr' = attr
        \/ attr' = Empty
        \/ attr' = [attr EXCEPT !.isConnected = TRUE]
      BY <1>2 DEF OnConnectedRing, OnDisconnected
  <2>3. CASE attr' = Empty
      BY <2>1, <2>3, DroppedSession
  <2>4. CASE attr' # Empty
    <3>1. /\ attr'.devId = attr.devId
          /\ attr'.ring_state = attr.ring_state
          /\ attr'.session_token = attr.session_token
        BY <1>0, <2>2, <2>4 DEF Attributes
    <3> QED
        BY <2>1, <3>1, SameSession
  <2> QED
      BY <2>3, <2>4
<1>3. CASE OnNotifyOpenned(d)
  <2>1. attr.devId = d /\ attr.ring_state = "OPENNED"
      BY <1>3 DEF OnNotifyOpenned, Notified, RingTarget
  <2>2. attr.session_token # 0
      BY <1>0, <2>1 DEF SessionInv, TypeOK
  <2>3. /\ attr' = [attr EXCEPT !.ring_state = "NOTIFY_RAND_T"]
        /\ told' = told \cup {attr.session_token}
        /\ answered' = answered
      BY <1>3, <2>2 DEF OnNotifyOpenned
  <2>4. Protocol!Tell
      BY <1>0, <2>1, <2>3, NewState, PhaseOf DEF Protocol!Tell, RingState
  <2> QED
      BY <2>4 DEF ProtocolStep, Protocol!Next
<1>4. CASE OnNotifyReady(d)
  <2>1. attr.devId = d /\ attr.ring_state = "COMMANDS_READY"
      BY <1>4 DEF OnNotifyReady, Notified, RingTarget
  <2>2. /\ attr'.devId = attr.devId
        /\ attr'.ring_state = "READY_RESPONSE"
        /\ attr'.session_token = attr.session_token
        /\ UNCHANGED cloudSeen
      BY <1>0, <1>4 DEF OnNotifyReady, Attributes
  <2> QED
      BY <1>0, <2>1, <2>2, AdvancedSession
<1>5. CASE OnNotifyPlay(d)
  <2>1. attr.devId = d /\ attr.ring_state = "COMMANDS_PLAY"
      BY <1>5 DEF OnNotifyPlay, Notified, RingTarget
  <2>2. attr.rsp_Ready
      BY <1>0, <2>1 DEF SessionInv, Ringing
  <2>3. answered' = answered \cup {attr.session_token} /\ told' = told
      BY <1>5, <2>2 DEF OnNotifyPlay, Answer
  <2>4. CASE attr' = Empty
    <3>1. Protocol!Answer
        BY <1>0, <2>1, <2>3, <2>4, PhaseOf DEF Protocol!Answer, Empty
    <3> QED
        BY <3>1 DEF ProtocolStep, Protocol!Next
  <2>5. CASE attr' = [attr EXCEPT !.ring_state = "PLAY_RESPONSE",
                                  !.rsp_Play = TRUE]
    <3>1. /\ attr'.devId = attr.devId
          /\ attr'.ring_state = "PLAY_RESPONSE"
          /\ attr'.session_token = attr.session_token
        BY <1>0, <2>5 DEF Attributes
    <3>2. Protocol!Answer
        BY <1>0, <2>1, <2>3, <3>1, PhaseOf DEF Protocol!Answer
    <3> QED
        BY <3>2 DEF ProtocolStep, Protocol!Next
  <2> QED
      BY <1>5, <2>4, <2>5 DEF OnNotifyPlay
<1> QED
    BY <1>1, <1>2, <1>3, <1>4, <1>5 DEF OnEvent

LEMMA ListenerFollows ==
    ASSUME OrderlyCloud, TypeOK, ThreadInv, ListenerNext
    PROVE  ProtocolStep
<1> USE DEF ThreadInv, Bound
<1>0. attr \in Attributes /\ (lsPc # "pop" => lsDev # NoDev)
    BY NoDevAssumption DEF TypeOK
<1>1. CASE \E d \in Device : OnEvent(d)
    BY <1>1, EventFollows
<1>2. CASE attr' = attr /\ UNCHANGED cloudSeen
    BY <1>2, SameSession
<1>3. CASE attr' = Empty /\ UNCHANGED cloudSeen
    BY <1>3, DroppedSession
<1>4. CASE \/ OnDiscoveryStarted \/ ReadId \/ OpenWrite \/ OpenWriteFails
           \/ PlayWrite \/ PlayWriteFails \/ PlayFailReturn
           \/ Disconnect \/ DisconnectReturn
  <2>1. UNCHANGED cloudSeen /\ (attr' = attr \/ attr' = Empty)
      BY <1>4 DEF OnDiscoveryStarted, ReadId, OpenWrite, OpenWriteFails,
         PlayWrite, PlayWriteFails, PlayFailReturn, Disconnect,
         DisconnectReturn
  <2> QED
      BY <1>2, <1>3, <2>1
<1>5. CASE OpenReturn
  <2>1. CASE ~OpenIsCurrent
      BY <1>2, <1>5, <2>1 DEF OpenReturn
  <2>2. CASE OpenIsCurrent
    <3>1. Bound /\ attr.ring_state = "TO_CONNECT" /\ lsPc = "opened"
        BY <1>0, <1>5, <2>2 DEF OpenReturn, OpenIsCurrent, ListenerInv
    <3>2. attr' = [attr EXCEPT !.ring_state = "OPENNED"] /\ UNCHANGED cloudSeen
        BY <1>5, <2>2, <3>1 DEF OpenReturn
    <3>3. /\ attr'.devId = attr.devId
          /\ attr'.session_token = attr.session_token
          /\ attr'.ring_state = "OPENNED"
        BY <1>0, <3>2, NewState DEF RingState
    <3> QED
        BY <3>1, <3>2, <3>3, AdvancedSession
  <2> QED
      BY <2>1, <2>2
<1>6. CASE PlaySet
  <2>1. attr' = [attr EXCEPT !.ring_state = "COMMANDS_PLAY"] /\ UNCHANGED cloudSeen
      BY <1>6 DEF PlaySet
  <2>2. /\ attr'.devId = attr.devId
        /\ attr'.session_token = attr.session_token
        /\ attr'.ring_state = "COMMANDS_PLAY"
      BY <1>0, <2>1, NewState DEF RingState
  <2>3. Bound /\ attr.ring_state = "READY_RESPONSE"
      BY <1>6 DEF PlaySet, ListenerInv
  <2> QED
      BY <2>1, <2>2, <2>3, AdvancedSession
<1> QED
    BY <1>1, <1>4, <1>5, <1>6 DEF ListenerNext

\* An orderly cloud sees the protocol: every session is bound to one
\* device, goes through the phases in their order or is dropped, and the
\* cloud is told when it is owed something, at no other time.
THEOREM RingFollowsProtocol ==
    ASSUME OrderlyCloud
    PROVE  Spec => FollowsProtocol
<1>1. Init => Protocol!Init
    BY DEF Init, Protocol!Init, Empty
<1>2. TypeOK /\ OrderInv /\ OrderInv' /\ [Next]_vars
        => [Protocol!Next]_(Protocol!pvars)
  <2> SUFFICES ASSUME TypeOK, OrderInv, OrderInv', [Next]_vars
               PROVE  ProtocolStep
      BY DEF ProtocolStep
  <2>1. CASE ProcessorNext
      BY <2>1, ProcessorFollows DEF OrderInv
  <2>2. CASE ListenerNext
      BY <2>2, ListenerFollows DEF OrderInv
  <2>3. CASE CallerNext \/ EnvironmentNext \/ UNCHANGED vars
    <3>1. UNCHANGED <<attr, cloudSeen>>
        BY <2>3 DEF CallerNext, CheckRequest, PushRequest, EnvironmentNext,
           LinkUp, LinkFails, LinkDown, Reply, Advertise, Scrub,
           DiscoveryStarts, SetLimit, vars
    <3> QED
        BY <3>1, SameSession
  <2> QED
      BY <2>1, <2>2, <2>3 DEF Next
<1> QED
    BY <1>1, <1>2, OrderInvariant, TypeCorrect, PTL
    DEF Spec, FollowsProtocol, Protocol!Spec

-----------------------------------------------------------------------------
(* What the protocol gives *)

\* In the protocol, a session that got past its RAND_T was told, and only
\* such a session is answered.
LEMMA ProtocolTells ==
    Protocol!Spec => []AnsweredWasTold
<1> DEFINE phase == IF attr.devId = NoDev THEN "idle"
                                          ELSE RingPhase[attr.ring_state]
           session == IF attr.devId = NoDev THEN 0 ELSE attr.session_token
           PastTell == phase \in {"told", "commanded", "ready", "accepted",
                                  "play", "done"} => session \in told
<1>1. Protocol!Init => PastTell /\ AnsweredWasTold
    BY DEF Protocol!Init, AnsweredWasTold
<1>2. PastTell /\ AnsweredWasTold /\ [Protocol!Next]_(Protocol!pvars)
        => PastTell' /\ AnsweredWasTold'
    BY DEF Protocol!Next, Protocol!pvars, Protocol!Connect,
       Protocol!Advance, Protocol!Tell, Protocol!Answer, Protocol!Drop,
       AnsweredWasTold
<1> QED
    BY <1>1, <1>2, PTL DEF Protocol!Spec

\* The cloud gets a command response only of a session whose random number
\* it got: the protocol has it so, and TileRing follows the protocol.
THEOREM AnsweredCorrect ==
    ASSUME OrderlyCloud
    PROVE  Spec => []AnsweredWasTold
BY RingFollowsProtocol, ProtocolTells, PTL DEF FollowsProtocol
=============================================================================
