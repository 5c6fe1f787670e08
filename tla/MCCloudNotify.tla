--------------------------- MODULE MCCloudNotify ---------------------------
(* Small instances of CloudNotify for TLC.                                  *)
EXTENDS CloudNotify

MCRinger == {"r1"}
MCEnv == {"A", "B"}
MCSigned == {"A"}
MCLengths == {15, 40}

\* Theorem DecodeLength over small inputs.
ASSUME \A bytes \in 1 .. 64 : Decodes(bytes)
=============================================================================
