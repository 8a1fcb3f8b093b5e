-------------------------- MODULE RelayWaitsProofs --------------------------
(***************************************************************************)
(* Proofs about what a user waits for in the relay client: a state of a    *)
(* call (CallWaits) and the end of an outbound message (MessageTracking).  *)
(*                                                                         *)
(* Calls, for any number of waiters on any states: no wake-up is lost, and *)
(* what a wait returns is true.  NoLostWakeup is not inductive: a waiter   *)
(* that decided to sleep must not have its state stored before it does.    *)
(* It holds the mutex meanwhile, so it cannot (LookersHoldMutex).          *)
(*                                                                         *)
(* Messages, for any number of them and any order of the user's calls and  *)
(* the peer's events: the reason is there before the wait returns, and the *)
(* callback runs once.  Both rest on one terminal event per message, which *)
(* is in the inbox, in hand or in the state block, but never in two of     *)
(* them (InboxWasSent, HandWasSent, CompletedIsOver).                      *)
(***************************************************************************)
EXTENDS CallWaits, MessageTracking, TLAPS


\* Between its look and its sleep a waiter holds ended_mutex alone, and its
\* state is not reached.
LookersHoldMutex ==
  \A w \in Waiter : pc[w] = "looking" => mutex = {w} /\ ~Reached(w)

IInv ==
  /\ TypeOK
  /\ LookersHoldMutex
  /\ NoLostWakeup
  /\ TrueMeansReached

-----------------------------------------------------------------------------
\* A reached state stays reached: the peer reports the states in order.
LEMMA ReachedIsStable ==
  ASSUME TypeOK, NEW s \in State, Store(s), NEW w \in Waiter, Reached(w)
  PROVE  Reached(w)'
<1>1. CASE w \in OnEnded
  BY <1>1 DEF Store, Reached, State, call_state_rank, TypeOK
<1>2. CASE w \notin OnEnded
  <2>1. /\ call_state_rank(state) \in Int /\ call_state_rank(s) \in Int
        /\ call_state_rank(Target[w]) \in Int
    BY DEF call_state_rank
  <2>2. call_state_rank(state) >= call_state_rank(Target[w])
    BY <1>2 DEF Reached
  <2>3. call_state_rank(s) >= call_state_rank(state) /\ state' = s
    BY DEF Store
  <2>4. call_state_rank(s) >= call_state_rank(Target[w])
    BY <2>1, <2>2, <2>3
  <2>5. QED
    BY <1>2, <2>3, <2>4 DEF Reached
<1>3. QED
  BY <1>1, <1>2

\* Only a store moves the predicate of a waiter.
LEMMA ReachedUnchanged ==
  ASSUME UNCHANGED state, NEW w \in Waiter
  PROVE  Reached(w)' <=> Reached(w)
BY DEF Reached

-----------------------------------------------------------------------------
\* The conjunction that carries the three invariants through every step.
THEOREM Inductive == Spec => []IInv
<1>1. Init => IInv
  BY DEF Init, IInv, TypeOK, State, LookersHoldMutex, NoLostWakeup,
         TrueMeansReached
<1>2. IInv /\ [Next]_vars => IInv'
  <2> SUFFICES ASSUME IInv, [Next]_vars PROVE IInv'
    OBVIOUS
  <2>1. ASSUME NEW s \in State, Store(s) PROVE IInv'
    <3>1. TypeOK'
      BY <2>1 DEF IInv, TypeOK, Store
    <3>2. LookersHoldMutex'
      BY <2>1 DEF IInv, TypeOK, LookersHoldMutex, Store
    <3>3. NoLostWakeup'
      BY <2>1 DEF NoLostWakeup, Store
    <3>4. TrueMeansReached'
      BY <2>1, ReachedIsStable DEF IInv, TrueMeansReached, Store
    <3>5. QED
      BY <3>1, <3>2, <3>3, <3>4 DEF IInv
  <2>2. CASE NotifyState
    <3>1. UNCHANGED <<state, mutex, result>>
      BY <2>2 DEF NotifyState
    <3>2. TypeOK'
      BY <2>2 DEF IInv, TypeOK, NotifyState, Wake
    <3>3. LookersHoldMutex'
      BY <2>2, <3>1, ReachedUnchanged
      DEF IInv, TypeOK, LookersHoldMutex, NotifyState, Wake
    <3>4. NoLostWakeup'
      BY <2>2, <3>1, ReachedUnchanged
      DEF IInv, TypeOK, NoLostWakeup, NotifyState, Wake, Reached
    <3>5. TrueMeansReached'
      BY <3>1, ReachedUnchanged DEF IInv, TrueMeansReached
    <3>6. QED
      BY <3>2, <3>3, <3>4, <3>5 DEF IInv
  <2>3. CASE NotifyEnded
    <3>1. UNCHANGED <<state, mutex, result>>
      BY <2>3 DEF NotifyEnded
    <3>2. TypeOK'
      BY <2>3 DEF IInv, TypeOK, NotifyEnded, Wake
    <3>3. LookersHoldMutex'
      BY <2>3, <3>1, ReachedUnchanged
      DEF IInv, TypeOK, LookersHoldMutex, NotifyEnded, Wake
    <3>4. NoLostWakeup'
      BY <2>3, <3>1, ReachedUnchanged
      DEF IInv, TypeOK, NoLostWakeup, NotifyEnded, Wake
    <3>5. TrueMeansReached'
      BY <3>1, ReachedUnchanged DEF IInv, TrueMeansReached
    <3>6. QED
      BY <3>2, <3>3, <3>4, <3>5 DEF IInv
  <2>4. ASSUME NEW w \in Waiter, Look(w) \/ Sleep(w) \/ LookAgain(w)
                                   \/ Spurious(w) \/ Deadline(w)
        PROVE IInv'
    <3>1. UNCHANGED <<state, recv>>
      BY <2>4 DEF Look, Sleep, LookAgain, Spurious, Deadline
    <3>2. TypeOK'
      BY <2>4 DEF IInv, TypeOK, Look, Sleep, LookAgain, Spurious, Deadline
    <3>3. LookersHoldMutex'
      BY <2>4, <3>1, ReachedUnchanged
      DEF IInv, TypeOK, LookersHoldMutex, Look, Sleep, LookAgain, Spurious,
          Deadline
    <3>4. NoLostWakeup'
      BY <2>4, <3>1, ReachedUnchanged
      DEF IInv, TypeOK, LookersHoldMutex, NoLostWakeup, Look, Sleep, LookAgain,
          Spurious, Deadline
    <3>5. TrueMeansReached'
      BY <2>4, <3>1, ReachedUnchanged
      DEF IInv, TypeOK, TrueMeansReached, Look, Sleep, LookAgain, Spurious,
          Deadline
    <3>6. QED
      BY <3>2, <3>3, <3>4, <3>5 DEF IInv
  <2>5. CASE UNCHANGED vars
    <3>1. UNCHANGED <<state, mutex, pc, result, recv>>
      BY <2>5 DEF vars
    <3>2. QED
      BY <3>1, ReachedUnchanged
      DEF IInv, TypeOK, LookersHoldMutex, NoLostWakeup, TrueMeansReached
  <2>6. QED
    BY <2>1, <2>2, <2>3, <2>4, <2>5 DEF Next, Notify, Wait
<1>3. QED
  BY <1>1, <1>2, PTL DEF Spec

-----------------------------------------------------------------------------
\* Every variable stays in its range (Call::update_state and its waiters).
THEOREM TypeCorrect == Spec => []TypeOK
BY Inductive, PTL DEF IInv

\* A waiter asleep although its state is reached has its notify to come, for
\* any number of waiters on either condition variable.
THEOREM NoWakeupIsLost == Spec => []NoLostWakeup
BY Inductive, PTL DEF IInv

\* A wait that returned true did so for a state that is reached.
THEOREM TrueIsTrue == Spec => []TrueMeansReached
BY Inductive, PTL DEF IInv

\* No wait returns false when its state is stored, deadline passed or not.
THEOREM NoLateTimeout == Spec => NoTimeoutAfterReached
<1>1. TypeOK /\ [Next]_vars
        => [\A w \in Waiter : result'[w] # result[w] /\ Reached(w)
                              => result'[w] = "true"]_vars
  <2> SUFFICES ASSUME TypeOK, Next, NEW w \in Waiter,
                      result'[w] # result[w], Reached(w)
               PROVE  result'[w] = "true"
    OBVIOUS
  <2>1. PICK v \in Waiter : Look(v) \/ LookAgain(v) \/ Deadline(v)
    BY DEF Next, Store, Notify, NotifyState, NotifyEnded, Wait, Sleep, Spurious
  <2>2. v = w
    BY <2>1 DEF TypeOK, Look, LookAgain, Deadline
  <2>3. QED
    BY <2>1, <2>2 DEF TypeOK, Look, LookAgain, Deadline
<1>2. QED
  BY <1>1, TypeCorrect, PTL DEF Spec, NoTimeoutAfterReached

-----------------------------------------------------------------------------
(* MessageTracking *)


\* What is in the inbox was sent, each event once.
InboxWasSent ==
  /\ \A i \in DOMAIN inbox : inbox[i][2] \in sent[inbox[i][1]]
  /\ \A i, j \in DOMAIN inbox : inbox[i] = inbox[j] => i = j

\* The event in hand is about a known message and no longer in the inbox; its
\* reason is set before its state is.
HandWasSent ==
  in_hand # <<>> =>
    /\ in_hand[2] \in messages_
    /\ in_hand[3] \in sent[in_hand[2]] \intersect ({"sent"} \union Terminal)
    /\ \A i \in DOMAIN inbox : inbox[i] # <<in_hand[2], in_hand[3]>>
    /\ in_hand[1] = "noted" /\ in_hand[3] \in Reasoned => in_hand[2] \in reason

\* The peer ends a message once.
OneTerminal ==
  \A m \in Message : \A a, b \in sent[m] \intersect Terminal : a = b

\* Of a message that is completed no terminal event is left.
CompletedIsOver ==
  \A m \in completed :
    /\ sent[m] \intersect Terminal # {}
    /\ \A i \in DOMAIN inbox : inbox[i][1] = m => inbox[i][2] \notin Terminal
    /\ in_hand # <<>> /\ in_hand[2] = m => in_hand[3] \notin Terminal

\* ... and its reason is set if its state needs one.
CompletedHasReason ==
  \A m \in completed :
    m \in messages_ /\ (state_of[m] \in Reasoned => m \in reason)

\* Only a message whose send_message returned is known, waited for or called
\* back, and only for a completed one a wait returned.
Returned ==
  /\ \A m \in messages_ : sending[m] = "returned"
  /\ waited \subseteq completed
  /\ \A m \in Message \ callback : fired[m] = 0

\* The inductive invariant of MessageTracking.
MessageInv ==
  /\ MessageTypeOK
  /\ InboxWasSent /\ HandWasSent /\ OneTerminal
  /\ CompletedIsOver /\ CompletedHasReason /\ Returned
  /\ ReasonBeforeWake /\ CallbackExactlyOnce

\* The receive thread takes the head off, and the rest moves up.
LEMMA InboxTail ==
  ASSUME inbox \in Seq(Message \X FromPeer), inbox # <<>>, inbox' = Tail(inbox)
  PROVE  /\ inbox' \in Seq(Message \X FromPeer)
         /\ 1 \in DOMAIN inbox /\ Head(inbox) = inbox[1]
         /\ Head(inbox)[1] \in Message /\ Head(inbox)[2] \in FromPeer
         /\ \A i \in DOMAIN inbox' :
              i + 1 \in DOMAIN inbox /\ inbox'[i] = inbox[i + 1] /\ i + 1 # 1
         /\ \A i, j \in DOMAIN inbox' : i + 1 = j + 1 => i = j
<1>1. Len(inbox) \in Nat /\ Len(inbox) >= 1 /\ DOMAIN inbox = 1..Len(inbox)
  OBVIOUS
<1>2. /\ inbox' \in Seq(Message \X FromPeer)
      /\ DOMAIN inbox' = 1..Len(inbox) - 1
      /\ \A i \in 1..Len(inbox) - 1 : inbox'[i] = inbox[i + 1]
  OBVIOUS
<1>3. Head(inbox) = inbox[1] /\ inbox[1] \in Message \X FromPeer
  BY <1>1
<1> QED
  BY <1>1, <1>2, <1>3

\* The peer appends.
LEMMA InboxAppend ==
  ASSUME inbox \in Seq(Message \X FromPeer), NEW e \in Message \X FromPeer,
         inbox' = Append(inbox, e)
  PROVE  /\ inbox' \in Seq(Message \X FromPeer)
         /\ \A i \in DOMAIN inbox' :
              \/ i \in DOMAIN inbox /\ inbox'[i] = inbox[i]
              \/ i = Len(inbox) + 1 /\ inbox'[i] = e
<1>1. Len(inbox) \in Nat /\ DOMAIN inbox = 1..Len(inbox)
  OBVIOUS
<1>2. /\ inbox' \in Seq(Message \X FromPeer)
      /\ DOMAIN inbox' = 1..Len(inbox) + 1
      /\ \A i \in 1..Len(inbox) : inbox'[i] = inbox[i]
      /\ inbox'[Len(inbox) + 1] = e
  OBVIOUS
<1> QED
  BY <1>1, <1>2

\* Steps of send_message and of the user: the receive thread's part stays.
LEMMA UserKeeps ==
  ASSUME MessageInv, NEW m \in Message,
         \/ Execute(m) \/ Track(m) \/ SendFailed(m)
         \/ WaitReturns(m) \/ OnCompleted(m)
  PROVE  MessageInv'
<1> USE DEF MessageInv
<1>1. UNCHANGED <<inbox, sent, in_hand, reason, completed>>
  BY DEF Execute, Track, SendFailed, WaitReturns, OnCompleted, shared
<1>2. MessageTypeOK'
  <2>1. CASE Execute(m)
    BY <2>1 DEF Execute, MessageTypeOK, shared
  <2>2. CASE Track(m)
    BY <2>2 DEF Track, MessageTypeOK, shared
  <2>3. CASE SendFailed(m)
    BY <2>3 DEF SendFailed, MessageTypeOK, Terminal
  <2>4. CASE WaitReturns(m)
    BY <2>4 DEF WaitReturns, MessageTypeOK, shared
  <2>5. CASE OnCompleted(m)
    BY <2>5 DEF OnCompleted, MessageTypeOK
  <2> QED
    BY <2>1, <2>2, <2>3, <2>4, <2>5
<1>3. InboxWasSent' /\ OneTerminal' /\ CompletedIsOver'
  BY <1>1 DEF InboxWasSent, OneTerminal, CompletedIsOver
<1>4. HandWasSent'
  BY <1>1 DEF HandWasSent, Execute, Track, SendFailed, WaitReturns, OnCompleted
<1>5. CompletedHasReason'
  <2>1. CASE SendFailed(m)
    <3>1. m \notin completed
      BY <2>1 DEF SendFailed, CompletedHasReason, Returned
    <3> QED
      BY <1>1, <2>1, <3>1 DEF SendFailed, CompletedHasReason, MessageTypeOK
  <2>2. CASE ~SendFailed(m)
    BY <1>1, <2>2
    DEF CompletedHasReason, Execute, Track, WaitReturns, OnCompleted, shared
  <2> QED
    BY <2>1, <2>2
<1>6. Returned'
  <2>1. CASE Execute(m)
    BY <2>1 DEF Execute, MessageTypeOK, Returned, shared
  <2>2. CASE Track(m)
    BY <2>2 DEF Track, MessageTypeOK, Returned, shared
  <2>3. CASE SendFailed(m)
    BY <2>3 DEF SendFailed, MessageTypeOK, Returned
  <2>4. CASE WaitReturns(m)
    BY <2>4 DEF WaitReturns, MessageTypeOK, Returned, shared
  <2>5. CASE OnCompleted(m)
    BY <2>5 DEF OnCompleted, MessageTypeOK, Returned
  <2> QED
    BY <2>1, <2>2, <2>3, <2>4, <2>5
<1>7. ReasonBeforeWake'
  BY <1>5, <1>6 DEF ReasonBeforeWake, CompletedHasReason, Returned
<1>8. CallbackExactlyOnce'
  <2>1. CASE OnCompleted(m)
    BY <2>1 DEF OnCompleted, CallbackExactlyOnce, MessageTypeOK, Returned
  <2>2. CASE ~OnCompleted(m)
    BY <1>1, <2>2
    DEF CallbackExactlyOnce, Execute, Track, WaitReturns, SendFailed, shared
  <2> QED
    BY <2>1, <2>2
<1> QED
  BY <1>2, <1>3, <1>4, <1>5, <1>6, <1>7, <1>8

\* What the peer sends is new, and no terminal state follows another.
LEMMA PeerKeeps ==
  ASSUME MessageInv, NEW m \in Message, NEW what \in FromPeer, PeerSays(m, what)
  PROVE  MessageInv'
<1> USE DEF MessageInv
<1>1. /\ UNCHANGED <<sending, messages_, callback, waited, state_of, reason,
                     completed, fired, in_hand>>
      /\ inbox' = Append(inbox, <<m, what>>) /\ what \notin sent[m]
  BY DEF PeerSays, user, shared
<1>2. /\ sent' = [sent EXCEPT ![m] = @ \union {what}]
      /\ sent \in [Message -> SUBSET FromPeer]
      /\ sent' \in [Message -> SUBSET FromPeer]
  BY DEF PeerSays, MessageTypeOK
<1>3. \A n \in Message :
        sent'[n] = IF n = m THEN sent[n] \union {what} ELSE sent[n]
  BY <1>2
<1>4. /\ inbox' \in Seq(Message \X FromPeer)
      /\ \A i \in DOMAIN inbox' :
           \/ i \in DOMAIN inbox /\ inbox'[i] = inbox[i]
           \/ i = Len(inbox) + 1 /\ inbox'[i] = <<m, what>>
  BY <1>1, InboxAppend DEF MessageTypeOK
<1>5. \A i \in DOMAIN inbox :
        inbox[i][1] \in Message /\ inbox[i] \in Message \X FromPeer
  BY DEF MessageTypeOK
<1>6. what \in Terminal => sent[m] \intersect Terminal = {}
  BY DEF PeerSays, Terminal
<1>7. MessageTypeOK'
  BY <1>1, <1>2, <1>4 DEF MessageTypeOK
<1>8. InboxWasSent'
  <2>1. \A i \in DOMAIN inbox : inbox[i] # <<m, what>>
    <3>1. ASSUME NEW i \in DOMAIN inbox, inbox[i] = <<m, what>> PROVE FALSE
      <4>1. inbox[i][1] = m /\ inbox[i][2] = what
        BY <3>1
      <4> QED
        BY <1>1, <4>1 DEF InboxWasSent
    <3> QED
      BY <3>1
  <2>2. ASSUME NEW i \in DOMAIN inbox'
        PROVE  inbox'[i][2] \in sent'[inbox'[i][1]]
    <3>1. CASE i \in DOMAIN inbox /\ inbox'[i] = inbox[i]
      <4>1. inbox[i][2] \in sent[inbox[i][1]] /\ inbox[i][1] \in Message
        BY <1>5, <3>1 DEF InboxWasSent
      <4> QED
        BY <1>3, <3>1, <4>1
    <3>2. CASE inbox'[i] = <<m, what>>
      <4>1. inbox'[i][1] = m /\ inbox'[i][2] = what
        BY <3>2
      <4> QED
        BY <1>3, <4>1
    <3> QED
      BY <1>4, <3>1, <3>2
  <2>3. ASSUME NEW i \in DOMAIN inbox', NEW j \in DOMAIN inbox',
               inbox'[i] = inbox'[j]
        PROVE  i = j
    <3>1. CASE i \in DOMAIN inbox /\ inbox'[i] = inbox[i]
      <4>1. j \in DOMAIN inbox /\ inbox'[j] = inbox[j]
        BY <1>4, <2>1, <2>3, <3>1
      <4> QED
        BY <2>3, <3>1, <4>1 DEF InboxWasSent
    <3>2. CASE i = Len(inbox) + 1 /\ inbox'[i] = <<m, what>>
      BY <1>4, <2>1, <2>3, <3>2
    <3> QED
      BY <1>4, <3>1, <3>2
  <2> QED
    BY <2>2, <2>3 DEF InboxWasSent
<1>9. HandWasSent'
  <2> SUFFICES ASSUME in_hand # <<>>
               PROVE  /\ in_hand[2] \in messages_
                      /\ in_hand[3] \in sent'[in_hand[2]]
                                        \intersect ({"sent"} \union Terminal)
                      /\ \A i \in DOMAIN inbox' :
                           inbox'[i] # <<in_hand[2], in_hand[3]>>
                      /\ in_hand[1] = "noted" /\ in_hand[3] \in Reasoned
                           => in_hand[2] \in reason
    BY <1>1 DEF HandWasSent
  <2>1. in_hand[2] \in Message
    BY DEF MessageTypeOK
  <2>2. <<m, what>> # <<in_hand[2], in_hand[3]>>
    BY <1>1 DEF HandWasSent
  <2>3. in_hand[3] \in sent'[in_hand[2]]
    BY <1>3, <2>1 DEF HandWasSent
  <2>4. \A i \in DOMAIN inbox' : inbox'[i] # <<in_hand[2], in_hand[3]>>
    <3>1. \A i \in DOMAIN inbox : inbox[i] # <<in_hand[2], in_hand[3]>>
      BY DEF HandWasSent
    <3> QED
      BY <1>4, <2>2, <3>1
  <2>5. /\ in_hand[2] \in messages_ /\ in_hand[3] \in {"sent"} \union Terminal
        /\ in_hand[1] = "noted" /\ in_hand[3] \in Reasoned
             => in_hand[2] \in reason
    BY DEF HandWasSent
  <2>6. in_hand[3] \in sent'[in_hand[2]] \intersect ({"sent"} \union Terminal)
    BY <2>3, <2>5
  <2> QED
    BY <2>4, <2>5, <2>6
<1>10. OneTerminal'
  <2> SUFFICES ASSUME NEW n \in Message,
                      NEW a \in sent'[n], NEW b \in sent'[n],
                      a \in Terminal, b \in Terminal
               PROVE  a = b
    BY DEF OneTerminal
  <2>1. /\ a \in sent[n] \/ (n = m /\ a = what)
        /\ b \in sent[n] \/ (n = m /\ b = what)
    BY <1>3
  <2>2. a \in sent[n] /\ b \in sent[n] => a = b
    BY DEF OneTerminal
  <2>3. n = m /\ what \in Terminal => a \notin sent[n] /\ b \notin sent[n]
    BY <1>6
  <2> QED
    BY <2>1, <2>2, <2>3
<1>11. CompletedIsOver'
  <2> SUFFICES ASSUME NEW n \in completed
               PROVE  /\ sent'[n] \intersect Terminal # {}
                      /\ \A i \in DOMAIN inbox' :
                           inbox'[i][1] = n => inbox'[i][2] \notin Terminal
                      /\ in_hand # <<>> /\ in_hand[2] = n
                           => in_hand[3] \notin Terminal
    BY <1>1 DEF CompletedIsOver
  <2>1. n \in Message
    BY DEF MessageTypeOK
  <2>2. n = m => what \notin Terminal
    BY <1>6 DEF CompletedIsOver
  <2>3. sent'[n] \intersect Terminal # {}
    BY <1>3, <2>1 DEF CompletedIsOver
  <2>4. ASSUME NEW i \in DOMAIN inbox', inbox'[i][1] = n
        PROVE  inbox'[i][2] \notin Terminal
    <3>1. CASE i \in DOMAIN inbox /\ inbox'[i] = inbox[i]
      <4>1. inbox[i][1] = n => inbox[i][2] \notin Terminal
        BY <3>1 DEF CompletedIsOver
      <4> QED
        BY <2>4, <3>1, <4>1
    <3>2. CASE inbox'[i] = <<m, what>>
      <4>1. inbox'[i][1] = m /\ inbox'[i][2] = what
        BY <3>2
      <4> QED
        BY <2>2, <2>4, <4>1
    <3> QED
      BY <1>4, <3>1, <3>2
  <2> QED
    BY <2>3, <2>4 DEF CompletedIsOver
<1>12. /\ CompletedHasReason' /\ Returned'
       /\ ReasonBeforeWake' /\ CallbackExactlyOnce'
  BY <1>1 DEF CompletedHasReason, Returned, ReasonBeforeWake,
       CallbackExactlyOnce
<1> QED
  BY <1>7, <1>8, <1>9, <1>10, <1>11, <1>12

\* The head of the inbox is taken off: what is said of the inbox holds of the
\* rest.
LEMMA TakeHeadKeeps ==
  ASSUME MessageInv, inbox # <<>>, inbox' = Tail(inbox),
         UNCHANGED <<sent, completed>>
  PROVE  /\ inbox' \in Seq(Message \X FromPeer)
         /\ InboxWasSent' /\ OneTerminal'
         /\ \A i \in DOMAIN inbox' : inbox'[i] # Head(inbox)
         /\ \A n \in completed : \A i \in DOMAIN inbox' :
              inbox'[i][1] = n => inbox'[i][2] \notin Terminal
         /\ \A i \in DOMAIN inbox' : \E j \in DOMAIN inbox : inbox'[i] = inbox[j]
<1> USE DEF MessageInv
<1>1. inbox \in Seq(Message \X FromPeer)
  BY DEF MessageTypeOK
<1>2. /\ inbox' \in Seq(Message \X FromPeer)
      /\ 1 \in DOMAIN inbox /\ Head(inbox) = inbox[1]
      /\ \A i \in DOMAIN inbox' :
           i + 1 \in DOMAIN inbox /\ inbox'[i] = inbox[i + 1] /\ i + 1 # 1
      /\ \A i, j \in DOMAIN inbox' : i + 1 = j + 1 => i = j
  BY <1>1, InboxTail
<1> QED
  BY <1>2 DEF InboxWasSent, OneTerminal, CompletedIsOver

\* A response concerns send_message alone.
LEMMA ResponseKeeps ==
  ASSUME MessageInv, HandleResponse PROVE MessageInv'
<1> USE DEF MessageInv
<1>1. /\ in_hand = <<>> /\ inbox # <<>> /\ inbox' = Tail(inbox)
      /\ UNCHANGED <<messages_, callback, waited, state_of, reason, completed,
                     fired, sent, in_hand>>
  BY DEF HandleResponse, shared
<1>2. /\ inbox' \in Seq(Message \X FromPeer)
      /\ InboxWasSent' /\ OneTerminal'
      /\ \A n \in completed : \A i \in DOMAIN inbox' :
           inbox'[i][1] = n => inbox'[i][2] \notin Terminal
  BY <1>1, TakeHeadKeeps
<1>3. /\ sending' \in [Message ->
                      {"idle", "waiting", "accepted", "refused", "returned"}]
      /\ \A n \in Message : sending[n] = "returned" => sending'[n] = "returned"
  BY DEF HandleResponse, MessageTypeOK
<1>4. MessageTypeOK'
  BY <1>1, <1>2, <1>3 DEF MessageTypeOK
<1>5. CompletedIsOver' /\ HandWasSent'
  BY <1>1, <1>2 DEF CompletedIsOver, HandWasSent
<1>6. Returned'
  BY <1>1, <1>3 DEF Returned, MessageTypeOK
<1>7. CompletedHasReason' /\ ReasonBeforeWake' /\ CallbackExactlyOnce'
  BY <1>1 DEF CompletedHasReason, ReasonBeforeWake, CallbackExactlyOnce
<1> QED
  BY <1>2, <1>4, <1>5, <1>6, <1>7

\* The event in hand was the head of the inbox, and is dropped unless its
\* message is known.
LEMMA FindKeeps ==
  ASSUME MessageInv, FindMessage PROVE MessageInv'
<1> USE DEF MessageInv
<1> DEFINE m == Head(inbox)[1]
           what == Head(inbox)[2]
<1>1. /\ in_hand = <<>> /\ inbox # <<>> /\ inbox' = Tail(inbox)
      /\ in_hand' = IF m \in messages_ THEN <<"found", m, what>> ELSE <<>>
      /\ UNCHANGED <<sending, messages_, callback, waited, state_of, reason,
                     completed, fired, sent>>
  BY DEF FindMessage, shared, user
<1>2. /\ inbox' \in Seq(Message \X FromPeer)
      /\ InboxWasSent' /\ OneTerminal'
      /\ \A i \in DOMAIN inbox' : inbox'[i] # Head(inbox)
      /\ \A n \in completed : \A i \in DOMAIN inbox' :
           inbox'[i][1] = n => inbox'[i][2] \notin Terminal
  BY <1>1, TakeHeadKeeps
<1>3. /\ 1 \in DOMAIN inbox /\ Head(inbox) = inbox[1]
      /\ m \in Message /\ what \in FromPeer /\ Head(inbox) = <<m, what>>
  BY <1>1, InboxTail DEF MessageTypeOK
<1>4. /\ what \in sent[m] \intersect ({"sent"} \union Terminal)
      /\ m \in completed => what \notin Terminal
  BY <1>3 DEF FindMessage, InboxWasSent, CompletedIsOver
<1> HIDE DEF m, what
<1>5. \/ in_hand' = <<>>
      \/ /\ in_hand' = <<"found", m, what>>
         /\ m \in messages_ /\ in_hand' # <<>>
         /\ in_hand'[1] = "found" /\ in_hand'[2] = m /\ in_hand'[3] = what
         /\ in_hand' \in {"found", "noted"} \X Message \X FromPeer
  BY <1>1, <1>3
<1>6. MessageTypeOK'
  BY <1>1, <1>2, <1>5 DEF MessageTypeOK
<1>7. HandWasSent'
  BY <1>1, <1>2, <1>3, <1>4, <1>5 DEF HandWasSent
<1>8. CompletedIsOver'
  BY <1>1, <1>2, <1>4, <1>5 DEF CompletedIsOver
<1>9. /\ Returned' /\ CompletedHasReason'
      /\ ReasonBeforeWake' /\ CallbackExactlyOnce'
  BY <1>1 DEF Returned, CompletedHasReason, ReasonBeforeWake,
       CallbackExactlyOnce
<1> QED
  BY <1>2, <1>6, <1>7, <1>8, <1>9

\* set_reason adds the reason of the event in hand.
LEMMA ReasonKeeps ==
  ASSUME MessageInv, SetReason PROVE MessageInv'
<1> USE DEF MessageInv
<1> DEFINE m == in_hand[2]
           what == in_hand[3]
<1>1. /\ in_hand # <<>> /\ m \in Message /\ what \in FromPeer
      /\ in_hand \in {"found", "noted"} \X Message \X FromPeer
  BY DEF SetReason, MessageTypeOK
<1>2. /\ reason \subseteq reason' /\ reason' \subseteq Message
      /\ what \in Reasoned => m \in reason'
  BY <1>1 DEF SetReason, MessageTypeOK
<1>3. UNCHANGED <<sending, messages_, callback, waited, state_of, completed,
                  fired, inbox, sent>>
  BY DEF SetReason, user
<1>4. /\ in_hand' \in {"found", "noted"} \X Message \X FromPeer
      /\ in_hand' # <<>> /\ in_hand'[2] = m /\ in_hand'[3] = what
  BY <1>1 DEF SetReason
<1> HIDE DEF m, what
<1>5. MessageTypeOK'
  BY <1>2, <1>3, <1>4 DEF MessageTypeOK
<1>6. InboxWasSent' /\ OneTerminal' /\ Returned' /\ CallbackExactlyOnce'
  BY <1>3 DEF InboxWasSent, OneTerminal, Returned, CallbackExactlyOnce
<1>7. HandWasSent' /\ CompletedIsOver'
  BY <1>1, <1>2, <1>3, <1>4 DEF HandWasSent, CompletedIsOver, m, what
<1>8. CompletedHasReason' /\ ReasonBeforeWake'
  BY <1>2, <1>3 DEF CompletedHasReason, ReasonBeforeWake
<1> QED
  BY <1>5, <1>6, <1>7, <1>8

\* update_state may complete a message: no other event can, its reason is set,
\* and it was not complete before.
LEMMA UpdateKeeps ==
  ASSUME MessageInv, UpdateState PROVE MessageInv'
<1> USE DEF MessageInv
<1> DEFINE m == in_hand[2]
           what == in_hand[3]
<1>1. /\ in_hand # <<>> /\ in_hand[1] = "noted"
      /\ m \in Message /\ what \in FromPeer
  BY DEF UpdateState, MessageTypeOK
<1>2. /\ m \in messages_
      /\ what \in sent[m] \intersect ({"sent"} \union Terminal)
      /\ \A i \in DOMAIN inbox : inbox[i] # <<m, what>>
      /\ what \in Reasoned => m \in reason
      /\ m \in completed => what \notin Terminal
  BY <1>1 DEF HandWasSent, CompletedIsOver
<1>3. /\ in_hand' = <<>>
      /\ UNCHANGED <<sending, messages_, callback, waited, reason, inbox, sent>>
      /\ state_of' = [state_of EXCEPT ![m] = what]
      /\ completed' = IF what \in Terminal
                        THEN completed \union {m} ELSE completed
      /\ fired' = [n \in Message |->
                     IF n = m /\ what \in Terminal /\ n \in callback
                       THEN fired[n] + 1 ELSE fired[n]]
  BY DEF UpdateState, Complete, user
<1>4. MessageTypeOK'
  <2>1. state_of' \in [Message -> {"queued", "sent"} \union Terminal]
    BY <1>2, <1>3 DEF MessageTypeOK
  <2>2. completed' \subseteq Message /\ fired' \in [Message -> Nat]
    BY <1>1, <1>3 DEF MessageTypeOK
  <2> QED
    BY <1>3, <2>1, <2>2 DEF MessageTypeOK
<1>5. InboxWasSent' /\ OneTerminal' /\ HandWasSent'
  BY <1>3 DEF InboxWasSent, OneTerminal, HandWasSent
<1>6. CompletedIsOver'
  <2> SUFFICES ASSUME NEW n \in completed'
               PROVE  /\ sent[n] \intersect Terminal # {}
                      /\ \A i \in DOMAIN inbox :
                           inbox[i][1] = n => inbox[i][2] \notin Terminal
    BY <1>3 DEF CompletedIsOver
  <2>1. CASE n \in completed
    BY <2>1 DEF CompletedIsOver
  <2>2. CASE n \notin completed
    <3>1. n = m /\ what \in Terminal /\ what \in sent[m]
      BY <1>2, <1>3, <2>2
    <3>2. ASSUME NEW i \in DOMAIN inbox,
                 inbox[i][1] = m, inbox[i][2] \in Terminal
          PROVE  FALSE
      <4>1. inbox[i][2] = what
        BY <1>1, <3>1, <3>2 DEF InboxWasSent, OneTerminal
      <4>2. inbox[i] = <<m, what>>
        <5>1. inbox[i] \in Message \X FromPeer
          BY <3>2 DEF MessageTypeOK
        <5> QED
          BY <3>2, <4>1, <5>1
      <4> QED
        BY <1>2, <4>2
    <3> QED
      BY <3>1, <3>2
  <2> QED
    BY <2>1, <2>2
<1>7. CompletedHasReason'
  <2>1. \A n \in Message : state_of'[n] = IF n = m THEN what ELSE state_of[n]
    BY <1>3 DEF MessageTypeOK
  <2>2. completed' \subseteq Message /\ completed' \subseteq completed \union {m}
    BY <1>1, <1>3 DEF MessageTypeOK
  <2> QED
    BY <1>2, <1>3, <2>1, <2>2 DEF CompletedHasReason
<1>8. Returned'
  BY <1>1, <1>3 DEF Returned, MessageTypeOK
<1>9. ReasonBeforeWake'
  BY <1>7, <1>8 DEF ReasonBeforeWake, CompletedHasReason, Returned
<1>10. CallbackExactlyOnce'
  <2> SUFFICES ASSUME NEW n \in callback
               PROVE  fired'[n] = IF n \in completed' THEN 1 ELSE 0
    BY <1>3 DEF CallbackExactlyOnce
  <2>1. n \in Message /\ fired[n] = IF n \in completed THEN 1 ELSE 0
    BY DEF MessageTypeOK, CallbackExactlyOnce
  <2> QED
    BY <1>2, <1>3, <2>1
<1> QED
  BY <1>4, <1>5, <1>6, <1>7, <1>8, <1>9, <1>10

-----------------------------------------------------------------------------
\* The strengthening is inductive.
THEOREM MessageInductive == MessageSpec => []MessageInv
<1>1. MessageInit => MessageInv
  BY DEF MessageInit, MessageInv, MessageTypeOK, InboxWasSent, HandWasSent,
         OneTerminal, CompletedIsOver, CompletedHasReason, Returned,
         ReasonBeforeWake, CallbackExactlyOnce, Terminal
<1>2. MessageInv /\ [MessageNext]_message_vars => MessageInv'
  <2> SUFFICES ASSUME MessageInv, [MessageNext]_message_vars PROVE MessageInv'
    OBVIOUS
  <2>1. ASSUME NEW m \in Message,
               \/ Execute(m) \/ Track(m) \/ SendFailed(m)
               \/ WaitReturns(m) \/ OnCompleted(m)
        PROVE  MessageInv'
    BY <2>1, UserKeeps
  <2>2. ASSUME NEW m \in Message, NEW what \in FromPeer, PeerSays(m, what)
        PROVE  MessageInv'
    BY <2>2, PeerKeeps
  <2>3. CASE ReceiveThread
    BY <2>3, ResponseKeeps, FindKeeps, ReasonKeeps, UpdateKeeps
         DEF ReceiveThread
  <2>4. CASE UNCHANGED message_vars
    BY <2>4
    DEF message_vars, MessageInv, MessageTypeOK, InboxWasSent, HandWasSent,
        OneTerminal, CompletedIsOver, CompletedHasReason, Returned,
        ReasonBeforeWake, CallbackExactlyOnce
  <2> QED
    BY <2>1, <2>2, <2>3, <2>4 DEF MessageNext
<1> QED
  BY <1>1, <1>2, PTL DEF MessageSpec

\* Every variable stays in its range (send_message, the receive thread and the
\* user together).
THEOREM MessageTypeCorrect == MessageSpec => []MessageTypeOK
  BY MessageInductive, PTL DEF MessageInv

\* Whoever Message::wait wakes with a failed delivery finds its reason.
THEOREM ReasonComesFirst == MessageSpec => []ReasonBeforeWake
  BY MessageInductive, PTL DEF MessageInv

\* on_completed and the terminal event may come in either order, and a user
\* may send any number of messages: each callback runs once.
THEOREM CompletionCallsBackOnce == MessageSpec => []CallbackExactlyOnce
  BY MessageInductive, PTL DEF MessageInv

\* A message does what the contract of the handles says: the peer settles it,
\* the receive thread completes it, once, and on_completed calls back then or
\* at once.
THEOREM MessagesKeepContract == MessageSpec => ImplementsCompletion
<1>1. MessageInit => Completion!Init
  BY DEF MessageInit, Completion!Init, Settled
<1>2. MessageInv /\ [MessageNext]_message_vars
        => [Completion!Next]_(Completion!vars)
  <2> SUFFICES ASSUME MessageInv, [MessageNext]_message_vars
               PROVE  [Completion!Next]_(Completion!vars)
    OBVIOUS
  <2>1. ASSUME UNCHANGED <<sent, completed, callback, fired>>
        PROVE  [Completion!Next]_(Completion!vars)
    BY <2>1 DEF Completion!vars, Settled
  <2>2. ASSUME NEW m \in Message, OnCompleted(m)
        PROVE  [Completion!Next]_(Completion!vars)
    <3>1. Completion!OnCompleted(m)
      BY <2>2 DEF OnCompleted, Completion!OnCompleted, Settled
    <3> QED
      BY <3>1 DEF Completion!Next
  <2>3. ASSUME NEW m \in Message, NEW what \in FromPeer, PeerSays(m, what)
        PROVE  [Completion!Next]_(Completion!vars)
    <3>1. \A n \in Message : sent[n] \subseteq sent'[n]
      BY <2>3 DEF PeerSays, MessageInv, MessageTypeOK
    <3>2. Settled' \in SUBSET Message /\ Settled \subseteq Settled'
      BY <3>1 DEF Settled
    <3>3. UNCHANGED <<completed, callback, fired>>
      BY <2>3 DEF PeerSays, user, shared
    <3>4. Completion!Settle
      BY <3>2, <3>3 DEF Completion!Settle
    <3> QED
      BY <3>4 DEF Completion!Next
  <2>4. CASE UpdateState
    <3> DEFINE S == {m \in {in_hand[2]} : in_hand[3] \in Terminal}
    <3>1. /\ completed' = completed \union S
          /\ fired' = [m \in Message |-> IF m \in S \intersect callback
                                           THEN fired[m] + 1 ELSE fired[m]]
          /\ UNCHANGED <<sent, callback>>
      BY <2>4 DEF UpdateState, Complete, user
    <3>2. in_hand # <<>> /\ in_hand[2] \in Message
      BY <2>4 DEF UpdateState, MessageInv, MessageTypeOK
    <3>3. S \subseteq Settled \ completed
      BY <3>2 DEF MessageInv, HandWasSent, CompletedIsOver, Settled
    <3>4. Settled' = Settled /\ S \in SUBSET Message
      BY <3>1, <3>2 DEF Settled
    <3> HIDE DEF S
    <3>5. Completion!Complete(S)
      BY <3>1, <3>3, <3>4 DEF Completion!Complete
    <3> QED
      BY <3>4, <3>5 DEF Completion!Next
  <2>5. \/ UNCHANGED <<sent, completed, callback, fired>>
        \/ \E m \in Message : OnCompleted(m)
        \/ \E m \in Message, what \in FromPeer : PeerSays(m, what)
        \/ UpdateState
    BY DEF MessageNext, message_vars, ReceiveThread, Execute, Track, SendFailed,
         WaitReturns, HandleResponse, FindMessage, SetReason, shared, user
  <2> QED
    BY <2>1, <2>2, <2>3, <2>4, <2>5
<1> QED
  BY <1>1, <1>2, MessageInductive, PTL
  DEF MessageSpec, Completion!Spec, ImplementsCompletion
=============================================================================
