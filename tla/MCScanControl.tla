--------------------------- MODULE MCScanControl ---------------------------
(* Instances of ScanControl for TLC; the time bounds keep the order of the  *)
(* code's: a pause is longer than the time after which the scan pauses.     *)
EXTENDS ScanControl

ASSUME OrderAssumption == 0 < MaxRuntime /\ MaxRuntime < MaxDowntime
=============================================================================
