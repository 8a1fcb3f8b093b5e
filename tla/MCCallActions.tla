--------------------------- MODULE MCCallActions ---------------------------
(* Instance of CallActions for TLC: verbs of each kind, two at a time. *)
EXTENDS CallActions

CONSTANTS play, collect, detect

MCCollectDetect == {collect, detect}
MCPlayCollect   == {play, collect}
MCPlayDetect    == {play, detect}

MCKindOf == [a \in ActionId |-> CASE a = play    -> "plain"
                                  [] a = collect -> "collect"
                                  [] a = detect  -> "detect"]
=============================================================================
