----------------------------- MODULE MCRelayRpc -----------------------------
(* Instance of RelayRpc for TLC. *)
EXTENDS RelayRpc

CONSTANTS r1, r2

MCReq == {r1, r2}
=============================================================================
