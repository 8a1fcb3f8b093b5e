------------------------- MODULE MCRelayConnection -------------------------
(* Instance of RelayConnection for TLC.  Three objects suffice: the one ws_ *)
(* points to, the one disconnect() is closing, and a new one.               *)
EXTENDS RelayConnection

CONSTANTS s1, s2, s3

MCSocket == {s1, s2, s3}
=============================================================================
