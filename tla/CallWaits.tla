----------------------------- MODULE CallWaits -----------------------------
(***************************************************************************)
(* Waiting for the state of a call (Call::wait_for_state, wait_for_ended   *)
(* and update_state, src/relay/call.cpp).                                  *)
(*                                                                         *)
(* The receive thread stores the state under ended_mutex and notifies two  *)
(* condition variables after it released the mutex: state_cv on every      *)
(* transition, ended_cv on the last one.  A waiter looks at the state under*)
(* the mutex and then sleeps; a wake-up makes it look again.               *)
(***************************************************************************)
EXTENDS Integers

CONSTANTS
  Waiter,
  Target,   \* [Waiter -> State \union {Unknown}]: what each one waits for
  OnEnded,  \* the waiters that call wait_for_ended
  Timed,    \* the waiters that pass timeout_ms > 0
  Unknown   \* a state outside the lifecycle

State == {"created", "ringing", "answered", "ending", "ended"}

ASSUME CallWaitsAssumption ==
  /\ Target \in [Waiter -> State \union {Unknown}]
  /\ Unknown \notin State
  /\ OnEnded \subseteq {w \in Waiter : Target[w] = "ended"}
  /\ Timed \subseteq Waiter

VARIABLES
  state,   \* SharedState::state
  mutex,   \* the waiter that holds ended_mutex between two steps, if any
  pc,      \* where each waiter is
  result,  \* what its wait returned
  recv     \* where the receive thread is inside update_state

vars == <<state, mutex, pc, result, recv>>

TypeOK ==
  /\ state \in State
  /\ mutex \in SUBSET Waiter
  /\ pc \in [Waiter -> {"idle", "looking", "asleep", "awake", "done"}]
  /\ result \in [Waiter -> {"none", "true", "false"}]
  /\ recv \in {"idle", "state_cv", "ended_cv"}

Init ==
  /\ state = "created"
  /\ mutex = {}
  /\ pc = [w \in Waiter |-> "idle"]
  /\ result = [w \in Waiter |-> "none"]
  /\ recv = "idle"

call_state_rank(s) ==
  CASE s = "created"  -> 0
    [] s = "ringing"  -> 1
    [] s = "answered" -> 2
    [] s = "ending"   -> 3
    [] s = "ended"    -> 4
    [] OTHER          -> -1

\* The two predicates: the rank of the state, or the last state itself.
Reached(w) ==
  IF w \in OnEnded THEN state = "ended"
  ELSE call_state_rank(state) >= call_state_rank(Target[w])

-----------------------------------------------------------------------------
(* Variants of the code a plausible mistake would produce *)

\* the state is stored without the mutex.
Store_Unlocked(s) ==
  /\ recv = "idle"
  /\ call_state_rank(s) >= call_state_rank(state)
  /\ state' = s
  /\ recv' = "state_cv"
  /\ UNCHANGED <<mutex, pc, result>>

\* the state is stored under a name no waiter knows.
Store_Raw(s) ==
  /\ recv = "idle" /\ mutex = {}
  /\ state' = Unknown
  /\ recv' = "state_cv"
  /\ UNCHANGED <<mutex, pc, result>>

\* state_cv is notified only for the last state.
NotifyState_Ended ==
  /\ recv = "state_cv"
  /\ pc' = [w \in Waiter |->
              IF pc[w] = "asleep" /\ w \notin OnEnded /\ state = "ended"
                THEN "awake" ELSE pc[w]]
  /\ recv' = IF state = "ended" THEN "ended_cv" ELSE "idle"
  /\ UNCHANGED <<state, mutex, result>>

\* wait_for without the predicate: whoever wakes has reached its state.
LookAgain_Trusting(w) ==
  /\ pc[w] = "awake" /\ mutex = {}
  /\ pc' = [pc EXCEPT ![w] = "done"]
  /\ result' = [result EXCEPT ![w] = "true"]
  /\ UNCHANGED <<state, mutex, recv>>

\* the deadline decides, and the state is not looked at again.
Deadline_Blind(w) ==
  /\ pc[w] \in {"asleep", "awake"} /\ w \in Timed /\ mutex = {}
  /\ pc' = [pc EXCEPT ![w] = "done"]
  /\ result' = [result EXCEPT ![w] = "false"]
  /\ UNCHANGED <<state, mutex, recv>>

-----------------------------------------------------------------------------
(* The receive thread: update_state *)

\* The peer reports the states of a call in order; it may skip and repeat.
Store(s) ==
  /\ recv = "idle" /\ mutex = {}
  /\ call_state_rank(s) >= call_state_rank(state)
  /\ state' = s
  /\ recv' = "state_cv"
  /\ UNCHANGED <<mutex, pc, result>>

Wake(S) == pc' = [w \in Waiter |-> IF w \in S /\ pc[w] = "asleep"
                                     THEN "awake" ELSE pc[w]]

NotifyState ==
  /\ recv = "state_cv"
  /\ Wake(Waiter \ OnEnded)
  /\ recv' = IF state = "ended" THEN "ended_cv" ELSE "idle"
  /\ UNCHANGED <<state, mutex, result>>

NotifyEnded ==
  /\ recv = "ended_cv"
  /\ Wake(OnEnded)
  /\ recv' = "idle"
  /\ UNCHANGED <<state, mutex, result>>

-----------------------------------------------------------------------------
(* A waiter *)

\* The mutex, and the look at the state before the first sleep ...
Look(w) ==
  /\ pc[w] = "idle" /\ mutex = {}
  /\ IF Reached(w)
       THEN /\ pc' = [pc EXCEPT ![w] = "done"]
            /\ result' = [result EXCEPT ![w] = "true"]
            /\ UNCHANGED mutex
       ELSE /\ pc' = [pc EXCEPT ![w] = "looking"]
            /\ mutex' = {w}
            /\ UNCHANGED result
  /\ UNCHANGED <<state, recv>>

\* ... and the sleep, which releases it.
Sleep(w) ==
  /\ pc[w] = "looking"
  /\ pc' = [pc EXCEPT ![w] = "asleep"]
  /\ mutex' = mutex \ {w}
  /\ UNCHANGED <<state, result, recv>>

\* A notified waiter, or one woken for nothing, evaluates its predicate.
LookAgain(w) ==
  /\ pc[w] = "awake" /\ mutex = {}
  /\ IF Reached(w)
       THEN /\ pc' = [pc EXCEPT ![w] = "done"]
            /\ result' = [result EXCEPT ![w] = "true"]
       ELSE /\ pc' = [pc EXCEPT ![w] = "asleep"]
            /\ UNCHANGED result
  /\ UNCHANGED <<state, mutex, recv>>

Spurious(w) ==
  /\ pc[w] = "asleep"
  /\ pc' = [pc EXCEPT ![w] = "awake"]
  /\ UNCHANGED <<state, mutex, result, recv>>

\* wait_for returns the predicate as it is when the deadline has passed.
Deadline(w) ==
  /\ pc[w] \in {"asleep", "awake"} /\ w \in Timed /\ mutex = {}
  /\ pc' = [pc EXCEPT ![w] = "done"]
  /\ result' = [result EXCEPT ![w] = IF Reached(w) THEN "true" ELSE "false"]
  /\ UNCHANGED <<state, mutex, recv>>

-----------------------------------------------------------------------------
Notify == NotifyState \/ NotifyEnded
Wait(w) == Look(w) \/ Sleep(w) \/ LookAgain(w)

Next ==
  \/ \E s \in State : Store(s)
  \/ Notify
  \/ \E w \in Waiter : Wait(w) \/ Spurious(w) \/ Deadline(w)

Spec == Init /\ [][Next]_vars

\* The receive thread finishes update_state, and threads that can run do run:
\* a thread that waits for a mutex free again and again gets it in the end.
\* No deadline, no spurious wake-up and no event of the peer is assumed.
FairSpec ==
  /\ Spec
  /\ WF_vars(Notify)
  /\ \A w \in Waiter : WF_vars(Sleep(w)) /\ SF_vars(Look(w) \/ LookAgain(w))
-----------------------------------------------------------------------------
(* Properties *)

\* No wake-up is lost: a waiter asleep although its state is reached is one
\* the receive thread has still to notify (the state is stored under the mutex
\* the waiter holds from its look to its sleep; the notify is outside).
NoLostWakeup ==
  \A w \in Waiter : pc[w] = "asleep" /\ Reached(w) =>
    IF w \in OnEnded THEN recv # "idle" ELSE recv = "state_cv"

\* What a wait returned is true of the call from then on: "true" only for a
\* state that is reached, whatever woke the waiter.
TrueMeansReached ==
  \A w \in Waiter : result[w] = "true" => Reached(w)

\* A deadline that passes when the state is stored already, its notify still
\* to come, does not report a timeout.
NoTimeoutAfterReached ==
  [][\A w \in Waiter : result'[w] # result[w] /\ Reached(w)
                         => result'[w] = "true"]_vars

\* A wait begun by then returns when its state is reached, with a deadline or
\* without, skipped states included.
ReachedReturns ==
  \A w \in Waiter : (Reached(w) /\ pc[w] # "idle") ~> (pc[w] = "done")

\* include/signalwire/relay/call.hpp:215-217: wait_for blocks "until the call
\* reaches `target_state` ..., returning true on reaching it"; call.cpp:645-646:
\* "Unknown states rank -1 so they never satisfy a wait."  They satisfy it at
\* once.
UnknownNeverSatisfies ==
  \A w \in Waiter : Target[w] = Unknown => result[w] # "true"
=============================================================================
