---------------------------- MODULE MCRelayCalls ----------------------------
(* Instance of RelayCalls for TLC: an inbound call beside one dial of two   *)
(* legs, so that the events of the leg that loses mix with the winner's.    *)
EXTENDS RelayCalls, TLC

CONSTANTS in1, leg1, leg2, d1

MCCalls  == {in1, leg1, leg2}
MCDialer == {d1}
MCLegOf  == [c \in MCCalls |-> IF c = in1 THEN Inbound ELSE d1]

\* The two legs are interchangeable.
MCLegs   == Permutations({leg1, leg2})
=============================================================================
