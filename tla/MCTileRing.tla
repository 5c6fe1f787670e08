----------------------------- MODULE MCTileRing -----------------------------
(* Small instances of TileRing for TLC: two devices, two tiles.             *)
EXTENDS TileRing

CONSTANTS d1, d2, t1, t2, h1, h2, c1, c2

MCTile == {t1, t2}
MCHash == {h1, h2}
MCTileOf == [d \in Device |-> IF d = d1 THEN t1 ELSE t2]
MCHashOf == [d \in Device |-> IF d = d1 THEN h1 ELSE h2]

Open(t, hs) == [code |-> "OPEN", tile |-> t, hashed |-> hs # {},
                hashes |-> hs, auth |-> TRUE, ready |-> FALSE,
                play |-> FALSE, disc |-> "absent"]
Send(t, disc) == [code |-> "SEND", tile |-> t, hashed |-> FALSE,
                  hashes |-> {}, auth |-> FALSE, ready |-> TRUE,
                  play |-> TRUE, disc |-> disc]
Unknown == [code |-> "OTHER", tile |-> NoTile, hashed |-> FALSE,
            hashes |-> {}, auth |-> FALSE, ready |-> FALSE, play |-> FALSE,
            disc |-> "absent"]
\* A SEND without its commands.
SendEmpty(t) == [Send(t, "absent") EXCEPT !.ready = FALSE, !.play = FALSE]
\* An OPEN that names no tile, and one without rand_a and
\* session_token.
OpenBare(t, hs) == [Open(t, hs) EXCEPT !.auth = FALSE]

RingMessages == {Open(t1, {h1}), Open(t2, {h2}),
                 Send(t1, "true"), Send(t1, "false"), Send(t2, "true")}
\* With an orderly cloud they satisfy what RingOrderProofs assumes.
ASSUME RingMessagesAssumption ==
    Orderly /\ Messages = RingMessages => OrderlyCloud

\* The second OPEN has no hashed ids, like the one of btrLeMgr_test.cpp.
UuidMessages == {Open(t1, {h1}), Open(t2, {})}
OneTileMessages == {Open(t1, {h1}), Send(t1, "true"), Send(t1, "absent")}
OpenUnnamed(hs) == [Open(t1, hs) EXCEPT !.tile = NoTile]

OddMessages == {Open(t1, {h1}), Send(t1, "true"), Unknown, SendEmpty(t1),
                OpenBare(t1, {h1}), OpenUnnamed({h1}), Open(t2, {}), Send(NoTile, "absent")}
=============================================================================
