------------------------- MODULE MCMessageTracking -------------------------
(* Instance of MessageTracking for TLC. *)
EXTENDS MessageTracking, TLC

CONSTANTS m1, m2

MCMessage == {m1, m2}
MessageSymmetry == Permutations(MCMessage)
=============================================================================
