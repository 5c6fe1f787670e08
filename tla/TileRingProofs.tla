--------------------------- MODULE TileRingProofs ---------------------------
(* Theorems about TileRing for all devices, tiles, messages, callers and    *)
(* bounds: the type invariant, the invariant behind the re-check after      *)
(* doDisconnect, and the action property it gives.                          *)
EXTENDS TileRing, TLAPS

LEMMA EmptyType == Empty \in Attributes
BY DEF Empty, Attributes, OperCode, RingState

\* The head and the tail of a queue that is not empty.
LEMMA QueueType ==
    ASSUME NEW S, NEW q \in Seq(S), q # <<>>
    PROVE  Head(q) \in S /\ Tail(q) \in Seq(S)
OBVIOUS

LEMMA InitType == Init => TypeOK
<1> SUFFICES ASSUME Init PROVE TypeOK
    OBVIOUS
<1>1. attr \in Attributes
  <2>1. PICK requested \in BOOLEAN, connected \in BOOLEAN, disc \in BOOLEAN,
             boot \in BootRing :
                attr = [Empty EXCEPT !.isRingRequested = requested,
                                     !.isConnected = connected,
                                     !.disconnect_on_completion = disc,
                                     !.ring_state = boot]
      BY DEF Init
  <2>2. boot \in RingState
      BY BootAssumption
  <2> QED
      BY <2>1, <2>2, EmptyType DEF Attributes
<1>2. limited \in BOOLEAN
    BY LimitAssumption DEF Init
<1>3. wire \in [Device -> Command]
    BY DEF Init, Silence, Command
<1> QED
    BY <1>1, <1>2, <1>3 DEF Init, TypeOK

\* What a request makes of the attributes.
LEMMA FilledType ==
    ASSUME attr \in Attributes, NEW r \in Request
    PROVE  Filled(r) \in Attributes
<1>1. /\ r.id \in Nat
      /\ r.msg.tile \in Tile \cup {NoTile}
      /\ r.msg.hashes \in SUBSET Hash
      /\ r.msg.ready \in BOOLEAN
      /\ r.msg.play \in BOOLEAN
    BY DEF Request, Message
<1>2. OpenAttributes(r) \in Attributes
    BY <1>1 DEF OpenAttributes, Attributes, OperCode, RingState
<1>3. SendAttributes(r) \in Attributes
  <2> DEFINE ready == attr.cmd_Ready \/ r.msg.ready
             play == attr.cmd_Play \/ r.msg.play
             disc == IF r.msg.disc = "absent" THEN attr.disconnect_on_completion
                                              ELSE r.msg.disc = "true"
             filled == [attr EXCEPT !.oper_code = "SEND",
                                    !.ring_state = "RECEIVED_SEND_COMMANDS",
                                    !.cmd_Ready = ready,
                                    !.cmd_Play = play,
                                    !.disconnect_on_completion = disc]
  <2>1. ready \in BOOLEAN /\ play \in BOOLEAN
      BY Zenon
  <2>2. attr.disconnect_on_completion \in BOOLEAN
      BY DEF Attributes
  <2>3. disc \in BOOLEAN
      BY <2>2, Zenon
  <2>4. filled \in Attributes
    <3> HIDE DEF ready, play, disc
    <3> QED
        BY <2>1, <2>3 DEF Attributes, OperCode, RingState
  <2>5. [attr EXCEPT !.oper_code = "SEND", !.ring_state = "INITIATED"]
            \in Attributes
      BY DEF Attributes, OperCode, RingState
  <2> QED
      BY <2>4, <2>5, Zenon DEF SendAttributes
<1>4. [attr EXCEPT !.ring_state = "INITIATED"] \in Attributes
    BY DEF Attributes, RingState
<1> QED
    BY <1>2, <1>3, <1>4 DEF Filled

\* Attributes with a new ring_state, or the fields the threads set with it.
LEMMA RingStateType ==
    ASSUME attr \in Attributes, NEW state \in RingState
    PROVE  [attr EXCEPT !.ring_state = state] \in Attributes
BY DEF Attributes

LEMMA DispatchedType ==
    ASSUME attr \in Attributes, NEW d \in Device
    PROVE  [attr EXCEPT !.devId = d, !.isRingRequested = TRUE,
                        !.ring_state = "TO_CONNECT", !.isConnected = TRUE]
              \in Attributes
BY DEF Attributes, RingState

LEMMA AnsweredType ==
    ASSUME attr \in Attributes
    PROVE  /\ [attr EXCEPT !.isConnected = TRUE] \in Attributes
           /\ [attr EXCEPT !.ring_state = "READY_RESPONSE",
                           !.rsp_Ready = TRUE] \in Attributes
           /\ [attr EXCEPT !.ring_state = "PLAY_RESPONSE",
                           !.rsp_Play = TRUE] \in Attributes
BY DEF Attributes, RingState

\* What each kind of link step leaves of the links.
LEMMA StartType ==
    ASSUME TypeOK, NEW d \in Device
    PROVE  /\ StartConnect(d) => link' \in [Device -> {"down", "connecting",
                                                      "up", "closing"}]
           /\ StartDisconnect(d) => link' \in [Device -> {"down",
                                          "connecting", "up", "closing"}]
BY DEF TypeOK, StartConnect, StartDisconnect

LEMMA DeliverType ==
    ASSUME TypeOK, NEW d \in Device, NEW c \in {"OPEN", "READY", "PLAY"},
           Deliver(d, c)
    PROVE  wire' \in [Device -> Command] /\ owed' \subseteq Device /\ link' = link
<1>1. attr.session_token \in Nat
    BY DEF TypeOK, Attributes
<1>2. [cmd |-> c, token |-> attr.session_token] \in Command
    BY <1>1 DEF Command
<1> QED
    BY <1>2 DEF Deliver, TypeOK

LEMMA PostType ==
    ASSUME TypeOK, NEW d \in Device \cup {NoDev}, NEW type \in EventType,
           Post(type, d)
    PROVE  evQueue' \in Seq(Event)
<1>1. [type |-> type, dev |-> d] \in Event
    BY DEF Event
<1> QED
    BY <1>1 DEF Post, TypeOK

LEMMA TakeType ==
    ASSUME TypeOK, NEW type, NEW d, Take(type, d)
    PROVE  evQueue' \in Seq(Event)
BY QueueType DEF Take, TypeOK

LEMMA BeginType ==
    ASSUME TypeOK, NEW d \in Device, NEW pc \in {"open", "play", "disc", "readId"},
           Begin(pc, d)
    PROVE  lsPc' = pc /\ lsDev' = d /\ lsToken' \in Nat
<1>1. attr.session_token \in Nat
    BY DEF TypeOK, Attributes
<1> QED
    BY <1>1 DEF Begin

USE DEF cloudVars, procVars, lsVars, mapVars, linkVars, cloudSeen

LEMMA CallerType == TypeOK /\ CallerNext => TypeOK'
<1> SUFFICES ASSUME TypeOK, NEW c \in Caller,
                    (\E m \in Messages : CheckRequest(c, m)) \/ PushRequest(c)
             PROVE  TypeOK'
    BY DEF CallerNext
<1>1. ASSUME NEW m \in Messages, CheckRequest(c, m) PROVE TypeOK'
  <2>1. sent' \in Nat
      BY <1>1 DEF CheckRequest, TypeOK
  <2>2. [id |-> sent', msg |-> m] \in Request
      BY <2>1, MessagesAssumption DEF Request
  <2>3. pending' \in [Caller -> Request \cup {NoReq}]
      BY <1>1, <2>2 DEF CheckRequest, TypeOK
  <2> QED
      BY <1>1, <2>1, <2>3 DEF CheckRequest, TypeOK
<1>2. CASE PushRequest(c)
  <2>1. pending[c] \in Request
      BY <1>2 DEF PushRequest, TypeOK
  <2> QED
      BY <1>2, <2>1 DEF PushRequest, TypeOK
<1> QED
    BY <1>1, <1>2

LEMMA ProcessorType == TypeOK /\ ProcessorNext => TypeOK'
<1> SUFFICES ASSUME TypeOK, ProcessorNext
             PROVE  TypeOK'
    OBVIOUS
<1>1. CASE Fill
  <2>1. Head(reqQueue) \in Request /\ reqQueue' \in Seq(Request)
      BY <1>1, QueueType DEF Fill, TypeOK
  <2>2. attr' \in Attributes
      BY <1>1, <2>1, FilledType DEF Fill, TypeOK
  <2> QED
      BY <1>1, <2>1, <2>2 DEF Fill, TypeOK
<1>2. CASE LookupFound
  <2>1. Matches \subseteq Device
      BY DEF Matches, TypeOK
  <2> QED
      BY <1>2, <2>1 DEF LookupFound, TypeOK
<1>3. CASE LookupNone
    BY <1>3 DEF LookupNone, TypeOK
<1>4. CASE DispatchOpen
  <2>1. handle \in Device
      BY <1>4 DEF DispatchOpen, TypeOK
  <2>2. attr' \in Attributes
      BY <1>4, <2>1, DispatchedType DEF DispatchOpen, TypeOK
  <2>3. attr.tile_uuid \in Tile \cup {NoTile}
      BY DEF TypeOK, Attributes
  <2>4. tileId' \in [Device -> Tile \cup {NoTile}]
      BY <1>4, <2>3 DEF DispatchOpen, RecordTile, TypeOK
  <2> QED
      BY <1>4, <2>1, <2>2, <2>4 DEF DispatchOpen, TypeOK
<1>13. CASE ConnectStarts
  <2>1. handle \in Device
      BY <1>13 DEF ConnectStarts, TypeOK
  <2>2. link' \in [Device -> {"down", "connecting", "up", "closing"}]
      BY <1>13, <2>1, StartType DEF ConnectStarts
  <2> QED
      BY <1>13, <2>1, <2>2 DEF ConnectStarts, TypeOK
<1>5. CASE ConnectSucceeds
    BY <1>5 DEF ConnectSucceeds, TypeOK
<1>6. CASE ConnectFails
    BY <1>6, EmptyType DEF ConnectFails, TypeOK
<1>7. CASE DispatchSend
    BY <1>7 DEF DispatchSend, TypeOK
<1>8. CASE DispatchNone
    BY <1>8, EmptyType DEF DispatchNone, TypeOK
<1>9. CASE ReadyWrite
  <2>1. handle \in Device
      BY <1>9 DEF ReadyWrite, TypeOK
  <2>2. wire' \in [Device -> Command] /\ owed' \subseteq Device /\ link' = link
      BY <1>9, <2>1, DeliverType DEF ReadyWrite
  <2> QED
      BY <1>9, <2>1, <2>2 DEF ReadyWrite, TypeOK
<1>10. CASE ReadyWriteFails
    BY <1>10, EmptyType DEF ReadyWriteFails, TypeOK
<1>11. CASE ReadySet
  <2>1. attr' \in Attributes
      BY <1>11, RingStateType DEF ReadySet, TypeOK, RingState
  <2> QED
      BY <1>11, <2>1 DEF ReadySet, TypeOK
<1>12. CASE ReadyFailReturn
    BY <1>12, EmptyType DEF ReadyFailReturn, TypeOK
<1> QED
    BY <1>1, <1>2, <1>3, <1>4, <1>5, <1>6, <1>7, <1>8, <1>9, <1>10, <1>11,
       <1>12, <1>13 DEF ProcessorNext

\* The handlers of the events of one device.
LEMMA EventHandlerType ==
    ASSUME TypeOK, NEW d \in Device, OnEvent(d)
    PROVE  TypeOK'
<1> USE DEF TypeOK
<1>1. evQueue' \in Seq(Event)
    BY TakeType DEF OnEvent, OnUpdateServData, OnUpdateOld,
       OnConnectedUnlisted, OnConnectedRing, OnConnectedOther,
       OnConnectFailed, OnDisconnected, OnNotifyIgnored, OnNotifyOpenned,
       OnNotifyReady, OnNotifyPlay, Notified
<1>2. attr.session_token \in Nat
    BY DEF Attributes
<1>3. CASE OnUpdateServData(d)
    BY <1>1, <1>3 DEF OnUpdateServData
<1>4. CASE OnUpdateOld(d)
  <2>1. link' \in [Device -> {"down", "connecting", "up", "closing"}]
      BY <1>4, StartType DEF OnUpdateOld
  <2> QED
      BY <1>1, <1>4, <2>1 DEF OnUpdateOld
<1>5. CASE OnConnectedUnlisted(d)
    BY <1>1, <1>5 DEF OnConnectedUnlisted
<1>6. CASE OnConnectedRing(d)
  <2>1. attr' \in Attributes
      BY <1>6, AnsweredType, EmptyType DEF OnConnectedRing
  <2>2. \/ UNCHANGED lsVars
        \/ lsPc' = "open" /\ lsDev' = d /\ lsToken' \in Nat
      BY <1>6, BeginType DEF OnConnectedRing
  <2> QED
      BY <1>1, <1>6, <2>1, <2>2 DEF OnConnectedRing
<1>7. CASE OnConnectedOther(d)
  <2>1. \/ UNCHANGED lsVars
        \/ lsPc' = "readId" /\ lsDev' = d /\ lsToken' \in Nat
      BY <1>7, BeginType DEF OnConnectedOther
  <2> QED
      BY <1>1, <1>7, <2>1 DEF OnConnectedOther
<1>8. CASE OnConnectFailed(d)
    BY <1>1, <1>8 DEF OnConnectFailed
<1>9. CASE OnDisconnected(d)
  <2>1. attr' \in Attributes
      BY <1>9, EmptyType DEF OnDisconnected
  <2> QED
      BY <1>1, <1>9, <2>1 DEF OnDisconnected
<1>10. CASE OnNotifyIgnored(d)
    BY <1>1, <1>10 DEF OnNotifyIgnored
<1>11. CASE OnNotifyOpenned(d)
  <2>1. attr' \in Attributes
      BY <1>11, RingStateType DEF OnNotifyOpenned, RingState
  <2>2. told' \subseteq Nat
      BY <1>11, <1>2 DEF OnNotifyOpenned
  <2> QED
      BY <1>1, <1>11, <2>1, <2>2 DEF OnNotifyOpenned
<1>12. CASE OnNotifyReady(d)
  <2>1. attr' \in Attributes
      BY <1>12, AnsweredType DEF OnNotifyReady
  <2>2. lsPc' = "play" /\ lsDev' = d /\ lsToken' \in Nat
      BY <1>12, BeginType DEF OnNotifyReady
  <2> QED
      BY <1>1, <1>12, <2>1, <2>2 DEF OnNotifyReady
<1>13. CASE OnNotifyPlay(d)
  <2>1. attr' \in Attributes
      BY <1>13, AnsweredType, EmptyType DEF OnNotifyPlay
  <2>2. answered' \subseteq Nat
      BY <1>13, <1>2 DEF OnNotifyPlay, Answer
  <2>3. \/ UNCHANGED lsVars
        \/ lsPc' = "disc" /\ lsDev' = d /\ lsToken' \in Nat
      BY <1>13, BeginType DEF OnNotifyPlay
  <2> QED
      BY <1>1, <1>13, <2>1, <2>2, <2>3 DEF OnNotifyPlay
<1> QED
    BY <1>3, <1>4, <1>5, <1>6, <1>7, <1>8, <1>9, <1>10, <1>11, <1>12, <1>13
    DEF OnEvent

LEMMA ListenerType == TypeOK /\ ListenerNext => TypeOK'
<1> SUFFICES ASSUME TypeOK, ListenerNext
             PROVE  TypeOK'
    OBVIOUS
<1> USE DEF TypeOK
<1>1. CASE OnDiscoveryStarted
  <2>1. evQueue' \in Seq(Event)
      BY <1>1, TakeType DEF OnDiscoveryStarted
  <2> QED
      BY <1>1, <2>1 DEF OnDiscoveryStarted
<1>2. CASE \E d \in Device : OnEvent(d)
    BY <1>2, EventHandlerType
<1>3. CASE ReadId
  <2>1. lsDev \in Device
      BY <1>3 DEF ReadId
  <2>2. link' \in [Device -> {"down", "connecting", "up", "closing"}]
      BY <1>3, <2>1, StartType DEF ReadId
  <2> QED
      BY <1>3, <2>1, <2>2 DEF ReadId, Finish
<1>4. CASE OpenWrite
  <2>1. lsDev \in Device
      BY <1>4 DEF OpenWrite
  <2>2. wire' \in [Device -> Command] /\ owed' \subseteq Device /\ link' = link
      BY <1>4, <2>1, DeliverType DEF OpenWrite
  <2> QED
      BY <1>4, <2>1, <2>2 DEF OpenWrite
<1>5. CASE OpenWriteFails
    BY <1>5, EmptyType DEF OpenWriteFails
<1>6. CASE OpenReturn
  <2>1. attr' \in Attributes
      BY <1>6, RingStateType DEF OpenReturn, RingState
  <2> QED
      BY <1>6, <2>1 DEF OpenReturn, Finish
<1>7. CASE PlayWrite
  <2>1. lsDev \in Device
      BY <1>7 DEF PlayWrite
  <2>2. wire' \in [Device -> Command] /\ owed' \subseteq Device /\ link' = link
      BY <1>7, <2>1, DeliverType DEF PlayWrite
  <2> QED
      BY <1>7, <2>1, <2>2 DEF PlayWrite
<1>8. CASE PlayWriteFails
    BY <1>8, EmptyType DEF PlayWriteFails
<1>9. CASE PlaySet
  <2>1. attr' \in Attributes
      BY <1>9, RingStateType DEF PlaySet, RingState
  <2> QED
      BY <1>9, <2>1 DEF PlaySet, Finish
<1>10. CASE PlayFailReturn
  <2>1. attr' \in Attributes
      BY <1>10, EmptyType DEF PlayFailReturn
  <2> QED
      BY <1>10, <2>1 DEF PlayFailReturn, Finish
<1>11. CASE Disconnect
  <2>1. lsDev \in Device
      BY <1>11 DEF Disconnect
  <2>2. link' \in [Device -> {"down", "connecting", "up", "closing"}]
      BY <1>11, <2>1, StartType DEF Disconnect
  <2> QED
      BY <1>11, <2>1, <2>2 DEF Disconnect
<1>12. CASE DisconnectReturn
  <2>1. attr' \in Attributes
      BY <1>12, EmptyType DEF DisconnectReturn
  <2> QED
      BY <1>12, <2>1 DEF DisconnectReturn, Finish
<1> QED
    BY <1>1, <1>2, <1>3, <1>4, <1>5, <1>6, <1>7, <1>8, <1>9, <1>10, <1>11,
       <1>12 DEF ListenerNext

LEMMA EnvironmentType == TypeOK /\ EnvironmentNext => TypeOK'
<1> SUFFICES ASSUME TypeOK, EnvironmentNext
             PROVE  TypeOK'
    OBVIOUS
<1> USE DEF TypeOK
<1>1. ASSUME NEW d \in Device, LinkUp(d) PROVE TypeOK'
  <2>1. evQueue' \in Seq(Event)
      BY <1>1, PostType DEF LinkUp, EventType
  <2> QED
      BY <1>1, <2>1 DEF LinkUp
<1>2. ASSUME NEW d \in Device, LinkFails(d) PROVE TypeOK'
  <2>1. evQueue' \in Seq(Event)
      BY <1>2, PostType DEF LinkFails, EventType
  <2> QED
      BY <1>2, <2>1 DEF LinkFails
<1>3. ASSUME NEW d \in Device, LinkDown(d) PROVE TypeOK'
  <2>1. evQueue' \in Seq(Event)
      BY <1>3, PostType DEF LinkDown, EventType
  <2>2. wire' \in [Device -> Command]
      BY <1>3 DEF LinkDown, Silence, Command
  <2> QED
      BY <1>3, <2>1, <2>2 DEF LinkDown
<1>4. ASSUME NEW d \in Device, Reply(d) PROVE TypeOK'
  <2>1. evQueue' \in Seq(Event)
      BY <1>4, PostType DEF Reply, EventType
  <2> QED
      BY <1>4, <2>1 DEF Reply
<1>5. ASSUME NEW d \in Device, Advertise(d) PROVE TypeOK'
  <2>1. evQueue' \in Seq(Event)
      BY <1>5, PostType DEF Advertise, EventType
  <2> QED
      BY <1>5, <2>1 DEF Advertise
<1>6. CASE Scrub
    BY <1>6 DEF Scrub
<1>7. CASE DiscoveryStarts
  <2>1. evQueue' \in Seq(Event)
      BY <1>7, PostType DEF DiscoveryStarts, EventType
  <2> QED
      BY <1>7, <2>1 DEF DiscoveryStarts
<1>8. CASE SetLimit
    BY <1>8, LimitAssumption DEF SetLimit
<1> QED
    BY <1>1, <1>2, <1>3, <1>4, <1>5, <1>6, <1>7, <1>8 DEF EnvironmentNext

\* Every state the threads, the tiles and the Bluetooth manager can reach
\* is well typed, and a thread that is busy with a device knows which.
THEOREM TypeCorrect == Spec => []TypeOK
<1>1. TypeOK /\ [Next]_vars => TypeOK'
  <2>1. TypeOK /\ UNCHANGED vars => TypeOK'
      BY DEF TypeOK, vars
  <2> QED
      BY <2>1, CallerType, ProcessorType, ListenerType, EnvironmentType
      DEF Next
<1> QED
    BY <1>1, InitType, PTL DEF Spec

-----------------------------------------------------------------------------
(* The re-check after doDisconnect *)

\* While the listener is busy it takes no event.
LEMMA BusyListener ==
    ASSUME lsPc # "pop", NEW d \in Device
    PROVE  ~OnEvent(d)
BY DEF OnEvent, OnUpdateServData, OnUpdateOld, OnConnectedUnlisted,
       OnConnectedRing, OnConnectedOther, OnConnectFailed, OnDisconnected,
       OnNotifyIgnored, OnNotifyOpenned, OnNotifyReady, OnNotifyPlay,
       Notified, Take

\* Whatever a request holds, its first effect is to leave PLAY_RESPONSE.
LEMMA FilledLeavesPlay ==
    ASSUME attr \in Attributes, NEW r \in Request
    PROVE  Filled(r).ring_state # "PLAY_RESPONSE"
BY DEF Filled, OpenAttributes, SendAttributes, Attributes

\* The threads that are not the listener do not touch where it is, and if
\* they change the attributes they do not leave them in PLAY_RESPONSE.
LEMMA OthersKeepPlay ==
    ASSUME TypeOK, CallerNext \/ ProcessorNext \/ EnvironmentNext
    PROVE  /\ UNCHANGED lsVars
           /\ attr' = attr \/ attr'.ring_state # "PLAY_RESPONSE"
<1> USE DEF Empty
<1>1. CASE CallerNext
    BY <1>1 DEF CallerNext, CheckRequest, PushRequest
<1>2. CASE Fill
  <2>1. Head(reqQueue) \in Request
      BY <1>2, QueueType DEF Fill, TypeOK
  <2> QED
      BY <1>2, <2>1, FilledLeavesPlay DEF Fill, TypeOK
<1>3. CASE LookupFound \/ LookupNone
    BY <1>3 DEF LookupFound, LookupNone
<1>4. CASE DispatchOpen
    BY <1>4 DEF DispatchOpen, TypeOK, Attributes
<1>5. CASE ConnectStarts \/ ConnectSucceeds \/ ConnectFails
    BY <1>5 DEF ConnectStarts, ConnectSucceeds, ConnectFails
<1>6. CASE DispatchSend \/ DispatchNone
    BY <1>6 DEF DispatchSend, DispatchNone
<1>7. CASE ReadyWrite \/ ReadyWriteFails \/ ReadyFailReturn
    BY <1>7 DEF ReadyWrite, ReadyWriteFails, ReadyFailReturn
<1>8. CASE ReadySet
    BY <1>8 DEF ReadySet, TypeOK, Attributes
<1>9. CASE EnvironmentNext
    BY <1>9 DEF EnvironmentNext, LinkUp, LinkFails, LinkDown, Reply,
                Advertise, Scrub, DiscoveryStarts, SetLimit
<1> QED
    BY <1>1, <1>2, <1>3, <1>4, <1>5, <1>6, <1>7, <1>8, <1>9 DEF ProcessorNext

\* CompletionInv is inductive: the listener enters "disc" with the session
\* it answered, and a request that comes while R is released leaves
\* PLAY_RESPONSE before it can change the session or the device.
THEOREM CompletionCorrect == Spec => []CompletionInv
<1>1. Init => CompletionInv
    BY DEF Init, CompletionInv
<1>2. TypeOK /\ CompletionInv /\ [Next]_vars => CompletionInv'
  <2> SUFFICES ASSUME TypeOK, CompletionInv, [Next]_vars
               PROVE  CompletionInv'
      OBVIOUS
  <2>1. CASE UNCHANGED vars
      BY <2>1 DEF vars, CompletionInv, CompletionIsCurrent
  <2>2. CASE CallerNext \/ ProcessorNext \/ EnvironmentNext
      BY <2>2, OthersKeepPlay DEF CompletionInv, CompletionIsCurrent
  <2>3. CASE ListenerNext
    <3>1. CASE OnDiscoveryStarted
        BY <3>1 DEF OnDiscoveryStarted, CompletionInv, Take
    <3>2. ASSUME NEW d \in Device, OnEvent(d)
          PROVE  CompletionInv'
      <4>1. lsPc = "pop"
          BY <3>2, BusyListener
      <4>2. CASE OnNotifyPlay(d)
        <5>1. CASE attr.disconnect_on_completion
            BY <4>2, <5>1 DEF OnNotifyPlay, Begin, CompletionInv, TypeOK,
                              Attributes
        <5>2. CASE ~attr.disconnect_on_completion
            BY <4>1, <4>2, <5>2 DEF OnNotifyPlay, CompletionInv
        <5> QED
            BY <5>1, <5>2
      <4>3. CASE ~OnNotifyPlay(d)
          BY <3>2, <4>1, <4>3 DEF OnEvent, OnUpdateServData, OnUpdateOld,
             OnConnectedUnlisted, OnConnectedRing, OnConnectedOther,
             OnConnectFailed, OnDisconnected, OnNotifyIgnored,
             OnNotifyOpenned, OnNotifyReady, Begin, CompletionInv
      <4> QED
          BY <4>2, <4>3
    <3>3. CASE ReadId \/ OpenReturn \/ PlaySet \/ PlayFailReturn
                 \/ DisconnectReturn
        BY <3>3 DEF ReadId, OpenReturn, PlaySet, PlayFailReturn,
                    DisconnectReturn, Finish, CompletionInv
    <3>4. CASE OpenWrite \/ OpenWriteFails \/ PlayWrite \/ PlayWriteFails
        BY <3>4 DEF OpenWrite, OpenWriteFails, PlayWrite, PlayWriteFails,
                    CompletionInv
    <3>5. CASE Disconnect
        BY <3>5 DEF Disconnect, CompletionInv, CompletionIsCurrent
    <3> QED
        BY <2>3, <3>1, <3>2, <3>3, <3>4, <3>5 DEF ListenerNext
  <2> QED
      BY <2>1, <2>2, <2>3 DEF Next
<1> QED
    BY <1>1, <1>2, TypeCorrect, PTL DEF Spec

\* The re-check never drops a newer request: if the listener's return from
\* doDisconnect changes the attributes, they are those of the session whose
\* command response it sent.
THEOREM NoStaleCompletionCorrect == Spec => NoStaleCompletion
<1>1. TypeOK /\ CompletionInv /\ [Next]_vars
        => [lsPc = "discRet" /\ lsPc' = "pop" /\ attr' # attr
              => attr.session_token = lsToken]_vars
  <2> SUFFICES ASSUME TypeOK, CompletionInv, Next,
                      lsPc = "discRet", lsPc' = "pop", attr' # attr
               PROVE  attr.session_token = lsToken
      OBVIOUS
  <2>1. ListenerNext
      BY OthersKeepPlay DEF Next
  <2>2. lsPc # "pop"
      OBVIOUS
  <2>3. ~OnDiscoveryStarted /\ ~\E d \in Device : OnEvent(d)
    <3>1. ~OnDiscoveryStarted
        BY <2>2 DEF OnDiscoveryStarted, Take
    <3> QED
        BY <2>2, <3>1, BusyListener
  <2>4. DisconnectReturn
      BY <2>1, <2>3 DEF ListenerNext, ReadId, OpenWrite,
         OpenWriteFails, OpenReturn, PlayWrite, PlayWriteFails, PlaySet,
         PlayFailReturn, Disconnect
  <2>5. CompletionIsCurrent
      BY <2>4 DEF DisconnectReturn
  <2> QED
      BY <2>5 DEF CompletionInv, CompletionIsCurrent
<1> QED
    BY <1>1, TypeCorrect, CompletionCorrect, PTL DEF Spec, NoStaleCompletion

-----------------------------------------------------------------------------
(* A bound device always has its request *)

LEMMA FilledStaysBound ==
    ASSUME attr \in Attributes, BoundDeviceRequested, NEW r \in Request,
           attr' = Filled(r)
    PROVE  BoundDeviceRequested'
<1>1. r.msg.tile \in Tile \cup {NoTile}
    BY DEF Request, Message
<1>2. CASE r.msg.code = "OPEN"
    BY <1>1, <1>2 DEF Filled, OpenAttributes, BoundDeviceRequested, Attributes
<1>3. CASE r.msg.code = "SEND"
    BY <1>3 DEF Filled, SendAttributes, BoundDeviceRequested, Attributes
<1>4. CASE r.msg.code \notin {"OPEN", "SEND"}
    BY <1>4 DEF Filled, BoundDeviceRequested, Attributes
<1> QED
    BY <1>2, <1>3, <1>4

\* Every other step but DispatchOpen unbinds the device or leaves alone the
\* fields that bind it.
Rebound ==
    \/ attr'.devId = NoDev
    \/ /\ attr'.devId = attr.devId
       /\ attr'.isRingRequested = attr.isRingRequested
       /\ attr'.tile_uuid = attr.tile_uuid
       /\ attr'.oper_code = attr.oper_code

LEMMA ReboundStaysBound ==
    ASSUME BoundDeviceRequested, Rebound
    PROVE  BoundDeviceRequested'
BY DEF BoundDeviceRequested, Rebound

LEMMA ReboundSimply ==
    ASSUME attr \in Attributes, NEW state,
           \/ attr' = attr
           \/ attr' = Empty
           \/ attr' = [attr EXCEPT !.ring_state = state]
    PROVE  Rebound
<1>1. CASE attr' = attr
    BY <1>1 DEF Rebound
<1>2. CASE attr' = Empty
    BY <1>2 DEF Rebound, Empty
<1>3. CASE attr' = [attr EXCEPT !.ring_state = state]
    BY <1>3 DEF Rebound, Attributes
<1> QED
    BY <1>1, <1>2, <1>3

\* A device is bound only as part of a whole request, in every reachable
\* state.
THEOREM BoundDeviceCorrect == Spec => []BoundDeviceRequested
<1>1. Init => BoundDeviceRequested
  <2> SUFFICES ASSUME Init PROVE attr.devId = NoDev
      BY DEF BoundDeviceRequested
  <2> QED
      BY DEF Init, Empty
<1>2. TypeOK /\ BoundDeviceRequested /\ [Next]_vars => BoundDeviceRequested'
  <2> SUFFICES ASSUME TypeOK, BoundDeviceRequested, [Next]_vars
               PROVE  BoundDeviceRequested'
      OBVIOUS
  <2>0. attr \in Attributes
      BY DEF TypeOK
  <2>1. CASE Fill
    <3>1. Head(reqQueue) \in Request
        BY <2>1, QueueType DEF Fill, TypeOK
    <3> QED
        BY <2>0, <2>1, <3>1, FilledStaysBound DEF Fill
  <2>2. CASE DispatchOpen
    <3>1. /\ attr'.isRingRequested
          /\ attr'.tile_uuid # NoTile
          /\ attr'.oper_code = "OPEN"
        BY <2>0, <2>2 DEF DispatchOpen, Attributes
    <3> QED
        BY <3>1 DEF BoundDeviceRequested
  <2>3. CASE ProcessorNext /\ ~Fill /\ ~DispatchOpen
    <3>1. \/ attr' = attr
          \/ attr' = Empty
          \/ attr' = [attr EXCEPT !.ring_state = "COMMANDS_READY"]
        BY <2>3 DEF ProcessorNext, LookupFound, LookupNone, ConnectStarts,
           ConnectSucceeds, ConnectFails, DispatchSend, DispatchNone,
           ReadyWrite, ReadyWriteFails, ReadySet, ReadyFailReturn
    <3> QED
        BY <2>0, <3>1, ReboundSimply, ReboundStaysBound
  <2>4. CASE ListenerNext
    <3>1. ASSUME NEW d \in Device, OnEvent(d)
          PROVE  Rebound
      <4>1. CASE OnConnectedRing(d)
          BY <2>0, <4>1, ReboundSimply, ReboundStaysBound
          DEF OnConnectedRing, Rebound, Attributes
      <4>2. CASE OnNotifyOpenned(d)
          BY <2>0, <4>2, ReboundSimply DEF OnNotifyOpenned
      <4>3. CASE OnNotifyReady(d)
          BY <2>0, <4>3 DEF OnNotifyReady, Rebound, Attributes
      <4>4. CASE OnNotifyPlay(d)
          BY <2>0, <4>4, ReboundSimply DEF OnNotifyPlay, Rebound, Attributes
      <4>5. CASE ~(\/ OnConnectedRing(d) \/ OnNotifyOpenned(d)
                   \/ OnNotifyReady(d) \/ OnNotifyPlay(d))
          BY <2>0, <3>1, <4>5, ReboundSimply DEF OnEvent, OnUpdateServData,
             OnUpdateOld, OnConnectedUnlisted, OnConnectedOther,
             OnConnectFailed, OnDisconnected, OnNotifyIgnored
      <4> QED
          BY <4>1, <4>2, <4>3, <4>4, <4>5
    <3>2. CASE OpenReturn
      <4>1. \/ attr' = attr
            \/ attr' = [attr EXCEPT !.ring_state = "OPENNED"]
            \/ attr' = [attr EXCEPT !.ring_state = "FAILED"]
          BY <3>2 DEF OpenReturn
      <4> QED
          BY <2>0, <4>1, ReboundSimply, ReboundStaysBound
    <3>3. CASE PlaySet
      <4>1. attr' = [attr EXCEPT !.ring_state = "COMMANDS_PLAY"]
          BY <3>3 DEF PlaySet
      <4> QED
          BY <2>0, <4>1, ReboundSimply, ReboundStaysBound
    <3>4. CASE \/ OnDiscoveryStarted \/ ReadId \/ OpenWrite \/ OpenWriteFails
               \/ PlayWrite \/ PlayWriteFails \/ PlayFailReturn
               \/ Disconnect \/ DisconnectReturn
      <4>1. attr' = attr \/ attr' = Empty
          BY <3>4 DEF OnDiscoveryStarted, ReadId, OpenWrite,
             OpenWriteFails, PlayWrite, PlayWriteFails, PlayFailReturn,
             Disconnect, DisconnectReturn
      <4> QED
          BY <2>0, <4>1, ReboundSimply, ReboundStaysBound
    <3> QED
        BY <2>4, <3>1, <3>2, <3>3, <3>4, ReboundStaysBound DEF ListenerNext
  <2>5. CASE CallerNext \/ EnvironmentNext \/ UNCHANGED vars
    <3>1. attr' = attr
        BY <2>5 DEF CallerNext, CheckRequest, PushRequest, EnvironmentNext,
           LinkUp, LinkFails, LinkDown, Reply, Advertise, Scrub,
           DiscoveryStarts, SetLimit, vars
    <3> QED
        BY <3>1 DEF BoundDeviceRequested
  <2> QED
      BY <2>1, <2>2, <2>3, <2>4, <2>5 DEF Next
<1> QED
    BY <1>1, <1>2, TypeCorrect, PTL DEF Spec
-----------------------------------------------------------------------------
(* The map of tiles, as the ring sees it *)

\* The table is touched by an advertisement, a dispatched OPEN and a scrub.
LEMMA MapSteps ==
    ASSUME Next
    PROVE  \/ UNCHANGED <<known, tileId>>
           \/ \E d \in Device : OnUpdateServData(d)
           \/ DispatchOpen
           \/ Scrub
<1>1. CASE CallerNext
    BY <1>1 DEF CallerNext, CheckRequest, PushRequest, mapVars
<1>2. CASE ProcessorNext
    BY <1>2 DEF ProcessorNext, Fill, LookupFound, LookupNone, ConnectStarts,
       ConnectSucceeds, ConnectFails, DispatchSend, DispatchNone, ReadyWrite,
       ReadyWriteFails, ReadySet, ReadyFailReturn, mapVars
<1>3. CASE ListenerNext
  <2>1. ASSUME NEW d \in Device, OnEvent(d)
        PROVE  UNCHANGED <<known, tileId>> \/ OnUpdateServData(d)
      BY <2>1 DEF OnEvent, OnUpdateOld, OnConnectedUnlisted, OnConnectedRing,
         OnConnectedOther, OnConnectFailed, OnDisconnected, OnNotifyIgnored,
         OnNotifyOpenned, OnNotifyReady, OnNotifyPlay, mapVars
  <2> QED
      BY <1>3, <2>1 DEF ListenerNext, OnDiscoveryStarted, ReadId, OpenWrite,
         OpenWriteFails, OpenReturn, PlayWrite, PlayWriteFails, PlaySet,
         PlayFailReturn, Disconnect, DisconnectReturn, mapVars
<1>4. CASE EnvironmentNext
    BY <1>4 DEF EnvironmentNext, LinkUp, LinkFails, LinkDown, Reply,
       Advertise, DiscoveryStarts, SetLimit, mapVars
<1> QED
    BY <1>1, <1>2, <1>3, <1>4 DEF Next

\* The ring needs no more of the map of tiles than TileTable promises: every
\* step is a step of the table or a stutter.
THEOREM TableSeen == Spec => SeesTileTable
<1> DEFINE key == [d \in known |-> HashOf[d]]
           named == {d \in Device : tileId[d] # NoTile}
<1>1. Init => Table!TableInit
  <2> SUFFICES ASSUME Init PROVE Table!TableInit
      OBVIOUS
  <2>1. known = {} /\ named = {}
      BY DEF Init
  <2> QED
      BY <2>1 DEF Table!TableInit
<1>2. TypeOK /\ [Next]_vars => [Table!TableNext]_(Table!table)
  <2> SUFFICES ASSUME TypeOK, [Next]_vars
               PROVE  [Table!TableNext]_(Table!table)
      OBVIOUS
  <2>0. known \subseteq Device /\ tileId \in [Device -> Tile \cup {NoTile}]
      BY DEF TypeOK
  <2>1. CASE UNCHANGED <<known, tileId>> \/ UNCHANGED vars
      BY <2>1 DEF Table!table, vars, mapVars
  <2>2. ASSUME NEW d \in Device, OnUpdateServData(d)
        PROVE  Table!TableNext \/ UNCHANGED (Table!table)
    <3>1. named' = named
        BY <2>2 DEF OnUpdateServData
    <3>2. CASE d \in known \/ known' = known
        BY <2>2, <3>1, <3>2 DEF OnUpdateServData, Table!table
    <3>3. CASE d \notin known /\ known' = known \cup {d}
      <4>1. HashOf[d] \in Hash
          BY DevicesAssumption
      <4>2. key' = [e \in known \cup {d} |-> IF e = d THEN HashOf[d]
                                                       ELSE key[e]]
          BY <3>3
      <4>3. Table!Enter(d, HashOf[d])
          BY <3>1, <3>3, <4>2 DEF Table!Enter
      <4> QED
          BY <4>1, <4>3 DEF Table!TableNext
    <3> QED
        BY <2>2, <3>2, <3>3 DEF OnUpdateServData
  <2>3. CASE DispatchOpen
    <3>1. key' = key /\ handle \in Device
        BY <2>3 DEF DispatchOpen, TypeOK
    <3>2. CASE handle \in known
      <4>1. PICK d \in Device : d = handle
          BY <3>1
      <4>2. named' = named \cup {d}
          BY <2>0, <2>3, <3>2, <4>1 DEF DispatchOpen, RecordTile
      <4>3. Table!Named(d)
          BY <3>1, <3>2, <4>1, <4>2 DEF Table!Named
      <4> QED
          BY <4>3 DEF Table!TableNext
    <3>3. CASE handle \notin known
        BY <2>3, <3>1, <3>3 DEF DispatchOpen, RecordTile, Table!table
    <3> QED
        BY <3>2, <3>3
  <2>4. CASE Scrub
    <3>1. PICK gone \in SUBSET known :
             /\ known' = known \ gone
             /\ tileId' = [d \in Device |-> IF d \in gone THEN NoTile
                                                         ELSE tileId[d]]
        BY <2>4 DEF Scrub
    <3>2. named' = named \ gone
        BY <2>0, <3>1
    <3>3. key' = [e \in known \ gone |-> key[e]]
        BY <3>1
    <3>4. Table!Leave(gone)
        BY <3>2, <3>3 DEF Table!Leave
    <3> QED
        BY <3>4 DEF Table!TableNext
  <2> QED
      BY <2>1, <2>2, <2>3, <2>4, MapSteps
<1> QED
    BY <1>1, <1>2, TypeCorrect, PTL
    DEF Spec, SeesTileTable, Table!TableSpec
\* A uuid is recorded only for a tile in the map: the table has it so
\* (updateTileUUID_LeDevMap looks for the entry it writes).
THEOREM NamedIsKnown == Spec => []Table!TableTypeOK
<1> DEFINE key == [d \in known |-> HashOf[d]]
           named == {d \in Device : tileId[d] # NoTile}
<1>1. Table!TableInit => Table!TableTypeOK
    BY DEF Table!TableInit, Table!TableTypeOK
<1>2. Table!TableTypeOK /\ [Table!TableNext]_(Table!table)
        => Table!TableTypeOK'
  <2> SUFFICES ASSUME Table!TableTypeOK, [Table!TableNext]_(Table!table)
               PROVE  Table!TableTypeOK'
      OBVIOUS
  <2> HIDE DEF key, named
  <2>0. /\ DOMAIN key \subseteq Device
        /\ \A d \in DOMAIN key : key[d] \in Hash
        /\ named \subseteq DOMAIN key
      BY DEF Table!TableTypeOK, key, named
  <2>1. ASSUME NEW d \in Device, NEW hash \in Hash, Table!Enter(d, hash)
        PROVE  Table!TableTypeOK'
    <3>1. /\ key' = [e \in DOMAIN key \cup {d} |-> IF e = d THEN hash
                                                            ELSE key[e]]
          /\ named' = named
        BY <2>1 DEF Table!Enter, key, named
    <3> QED
        BY <2>0, <3>1 DEF Table!TableTypeOK, key, named
  <2>2. ASSUME NEW d \in Device, Table!Named(d)
        PROVE  Table!TableTypeOK'
    <3>1. d \in DOMAIN key /\ key' = key /\ named' = named \cup {d}
        BY <2>2 DEF Table!Named, key, named
    <3> QED
        BY <2>0, <3>1 DEF Table!TableTypeOK, key, named
  <2>3. ASSUME NEW gone \in SUBSET DOMAIN key, Table!Leave(gone)
        PROVE  Table!TableTypeOK'
    <3>1. /\ key' = [e \in DOMAIN key \ gone |-> key[e]]
          /\ named' = named \ gone
        BY <2>3 DEF Table!Leave, key, named
    <3> QED
        BY <2>0, <3>1 DEF Table!TableTypeOK, key, named
  <2>4. CASE UNCHANGED Table!table
      BY <2>4 DEF Table!table, Table!TableTypeOK
  <2> QED
      BY <2>1, <2>2, <2>3, <2>4 DEF Table!TableNext, key
<1> QED
    BY <1>1, <1>2, TableSeen, PTL DEF SeesTileTable, Table!TableSpec
====
