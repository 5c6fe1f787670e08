--------------------------- MODULE MCBeaconDetect ---------------------------
(* A small instance of BeaconDetect for TLC.                                *)
EXTENDS BeaconDetect

CONSTANTS c1, c2
=============================================================================
