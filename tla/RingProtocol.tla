---------------------------- MODULE RingProtocol ----------------------------
(* What ringing one tile promises, without threads, queues or locks: a      *)
(* session is bound to one device and goes through the phases of the tile's *)
(* protocol in order, or is dropped; the cloud gets the tile's random       *)
(* number at most when the channel is open, and the command response at     *)
(* most when the tile answered the last command.                            *)
EXTENDS Naturals

CONSTANTS Device, NoDev, Session

VARIABLES phase, device, session, told, answered

pvars == <<phase, device, session, told, answered>>

Init == /\ phase = "idle"
        /\ device = NoDev
        /\ session = 0
        /\ told = {}
        /\ answered = {}

\* A session has a number no session the cloud has heard of has.
Connect(d, n) ==
    /\ phase = "idle"
    /\ n \notin told \cup answered
    /\ phase' = "connecting"
    /\ device' = d
    /\ session' = n
    /\ UNCHANGED <<told, answered>>

Advance(from, to) ==
    /\ phase = from
    /\ phase' = to
    /\ UNCHANGED <<device, session, told, answered>>

\* The tile's random number goes to the cloud.
Tell == /\ phase = "open"
        /\ phase' = "told"
        /\ told' = told \cup {session}
        /\ UNCHANGED <<device, session, answered>>

\* The command response goes to the cloud; the session ends now or after
\* the device is disconnected.
Answer == /\ phase = "play"
          /\ answered' = answered \cup {session}
          /\ \/ phase' = "done" /\ UNCHANGED <<device, session>>
             \/ phase' = "idle" /\ device' = NoDev /\ session' = 0
          /\ UNCHANGED told

Drop == /\ phase # "idle"
        /\ phase' = "idle"
        /\ device' = NoDev
        /\ session' = 0
        /\ UNCHANGED <<told, answered>>

Next == \/ \E d \in Device, n \in Session : Connect(d, n)
        \/ Advance("connecting", "open")
        \/ Tell
        \/ Advance("told", "commanded")
        \/ Advance("commanded", "ready")
        \/ Advance("ready", "accepted")
        \/ Advance("accepted", "play")
        \/ Answer
        \/ Drop

Spec == Init /\ [][Next]_pvars
=============================================================================
