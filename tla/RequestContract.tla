-------------------------- MODULE RequestContract --------------------------
(***************************************************************************)
(* What RelayClient::send_request promises its callers, without saying how:*)
(* a request completes once; with the answer the peer gave to that very    *)
(* request, with a rejection if the connection was lost, or with one of    *)
(* the two exceptions.                                                     *)
(***************************************************************************)
CONSTANTS Req, Answer, Failure

VARIABLES
  answer,   \* the peer's answer to each request, "none" before it gives one
  outcome,  \* what the caller of each request was given, "none" before
  lost      \* some connection of this client has been lost or torn down

vars == <<answer, outcome, lost>>

Init ==
  /\ answer = [r \in Req |-> "none"]
  /\ outcome = [r \in Req |-> "none"]
  /\ lost = FALSE

Reply(r) ==
  /\ answer[r] = "none"
  /\ \E v \in Answer : answer' = [answer EXCEPT ![r] = v]
  /\ UNCHANGED <<outcome, lost>>

Lose ==
  /\ lost' = TRUE
  /\ UNCHANGED <<answer, outcome>>

Complete(r, o) ==
  /\ outcome[r] = "none"
  /\ \/ o = answer[r] /\ o # "none"
     \/ o = "rejected" /\ lost
     \/ o \in Failure
  /\ outcome' = [outcome EXCEPT ![r] = o]
  /\ UNCHANGED <<answer, lost>>

Next ==
  \/ \E r \in Req : \/ Reply(r)
                    \/ \E o \in Answer \union Failure \union {"rejected"} :
                         Complete(r, o)
  \/ Lose

Spec == Init /\ [][Next]_vars
=============================================================================
