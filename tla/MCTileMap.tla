----------------------------- MODULE MCTileMap -----------------------------
(* Small instances of TileMap for TLC.                                      *)
EXTENDS TileMap

CONSTANTS v1, v2, vs, h1, h2

MCHash == {h1, h2}
MCHashOf == [v \in Data \ Short |-> IF v = v1 THEN h1 ELSE h2]
NoAge == {0}
\* An uninitialised stamp in the future, just now, or long ago.
AnyAge == {Future, 0, ScrubLimit + 1}
=============================================================================
