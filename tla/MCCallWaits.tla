---------------------------- MODULE MCCallWaits ----------------------------
(* Instance of CallWaits for TLC: one waiter of each shape. *)
EXTENDS CallWaits

CONSTANTS ringing, answered, ended, other

MCKnown == {ringing, answered, ended}
MCOther == {other}
MCNone  == {}

MCTarget == [w \in Waiter |-> CASE w = ringing  -> "ringing"
                                [] w = answered -> "answered"
                                [] w = ended    -> "ended"
                                [] w = other    -> Unknown]
MCOnEnded == {ended}
MCTimed   == {answered, ended}
=============================================================================
