------------------------- MODULE MCServerLifecycle -------------------------
(* Instance of ServerLifecycle for TLC: two threads that serve and stop, a  *)
(* request that may stop too, and a signal.                                 *)
EXTENDS ServerLifecycle

CONSTANTS r1, r2, q1, s1, s2, h1

MCRunner  == {r1, r2}
MCRequest == {q1}
MCServer  == {s1, s2}
MCSignal  == {h1}
=============================================================================
