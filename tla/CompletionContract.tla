------------------------ MODULE CompletionContract ------------------------
(***************************************************************************)
(* What the handles of the relay client, Message and Action, promise who   *)
(* holds a copy, without saying how: a handle completes only for something *)
(* the peer said of it or of its call, and once; the callback given to     *)
(* on_completed runs once, when the handle completes or at once if it has. *)
(***************************************************************************)
EXTENDS Naturals

CONSTANT Handle

VARIABLES
  settled,    \* handles the peer has said the end of
  completed,  \* handles that are completed
  callback,   \* handles on_completed was called on
  fired       \* how often the callback of each was called

vars == <<settled, completed, callback, fired>>

Init ==
  /\ settled = {} /\ completed = {} /\ callback = {}
  /\ fired = [h \in Handle |-> 0]

\* The end of a call settles all that is left of it.
Settle ==
  /\ settled' \in SUBSET Handle /\ settled \subseteq settled'
  /\ UNCHANGED <<completed, callback, fired>>

\* Those the end of a call completes, it completes together.
Complete(S) ==
  /\ S \subseteq settled \ completed
  /\ completed' = completed \union S
  /\ fired' = [h \in Handle |->
                 IF h \in S \intersect callback THEN fired[h] + 1 ELSE fired[h]]
  /\ UNCHANGED <<settled, callback>>

OnCompleted(h) ==
  /\ h \notin callback
  /\ callback' = callback \union {h}
  /\ fired' = [fired EXCEPT ![h] = IF h \in completed THEN @ + 1 ELSE @]
  /\ UNCHANGED <<settled, completed>>

Next ==
  \/ Settle
  \/ \E S \in SUBSET Handle : Complete(S)
  \/ \E h \in Handle : OnCompleted(h)

Spec == Init /\ [][Next]_vars
=============================================================================
