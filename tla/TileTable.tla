----------------------------- MODULE TileTable -----------------------------
(* What the threads that ring a tile may expect of the map of tiles: an     *)
(* entry is entered once, with the hashed id it is found by, stays with it  *)
(* and with the uuid it gets, and leaves with both.  TileMap implements it  *)
(* (who enters, names and scrubs, and when), and so does TileRing (what it  *)
(* takes the rest of the process to do with the map it looks into).         *)
CONSTANTS Device, Hash

VARIABLES
    key,     \* the devices in the map, and the hashed id each is found by
    named    \* those whose entry holds a tile uuid

table == <<key, named>>

TableTypeOK ==
    /\ DOMAIN key \subseteq Device
    /\ \A d \in DOMAIN key : key[d] \in Hash
    /\ named \subseteq DOMAIN key

TableInit == key = [d \in {} |-> d] /\ named = {}

\* The event listener adds a tile.
Enter(d, hash) ==
    /\ d \notin DOMAIN key
    /\ key' = [e \in DOMAIN key \cup {d} |-> IF e = d THEN hash ELSE key[e]]
    /\ UNCHANGED named

\* The request processor records the uuid of the tile it rings.
Named(d) ==
    /\ d \in DOMAIN key
    /\ named' = named \cup {d}
    /\ UNCHANGED key

\* The main thread scrubs tiles that were not seen for too long.
Leave(gone) ==
    /\ key' = [e \in DOMAIN key \ gone |-> key[e]]
    /\ named' = named \ gone

TableNext == \/ \E d \in Device, hash \in Hash : Enter(d, hash)
             \/ \E d \in Device : Named(d)
             \/ \E gone \in SUBSET DOMAIN key : Leave(gone)

TableSpec == TableInit /\ [][TableNext]_table
=============================================================================
