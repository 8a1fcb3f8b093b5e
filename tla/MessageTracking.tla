-------------------------- MODULE MessageTracking --------------------------
(***************************************************************************)
(* Outbound messages (RelayClient::send_message, handle_messaging_event,   *)
(* src/relay/client.cpp; Message, src/relay/message.cpp).                  *)
(*                                                                         *)
(* send_message executes messaging.send and, when the response is there,   *)
(* puts the message under the id it names into messages_.  The receive     *)
(* thread finds it there when messaging.state events come, and updates the *)
(* state block the user's copy shares.  A message is identified with its   *)
(* message_id.                                                             *)
(*                                                                         *)
(* The names are apart from those of CallWaits: RelayWaitsProofs extends   *)
(* both.                                                                   *)
(***************************************************************************)
EXTENDS Naturals, Sequences

CONSTANTS Message   \* the messages ever sent

VARIABLES
  sending,    \* where send_message is, for each message
  messages_,  \* the keys of RelayClient::messages_
  state_of,   \* SyncState::state
  reason,     \* SyncState::reason is set
  completed,  \* SyncState::completed
  callback,   \* SyncState::callback is set
  fired,      \* how often the callback was called
  waited,     \* a Message::wait on it has returned true
  inbox,      \* what the peer sent, in order
  sent,       \* what the peer sent of each message
  in_hand     \* the event in hand, with messages_mutex_: <<>> or <<step, event>>

user         == <<sending, messages_, callback, waited>>
shared       == <<state_of, reason, completed, fired>>
message_vars == <<sending, messages_, state_of, reason, completed, callback,
                  fired, waited, inbox, sent, in_hand>>

\* The states that complete a message, and the carrier's reason two of them
\* come with.
Terminal  == {"delivered", "undelivered", "failed"}
Reasoned  == {"undelivered", "failed"}
FromPeer  == {"accepted", "refused", "sent"} \union Terminal

MessageTypeOK ==
  /\ sending \in [Message ->
                    {"idle", "waiting", "accepted", "refused", "returned"}]
  /\ messages_ \subseteq Message
  /\ state_of \in [Message -> {"queued", "sent"} \union Terminal]
  /\ reason \subseteq Message /\ completed \subseteq Message
  /\ callback \subseteq Message /\ waited \subseteq Message
  /\ fired \in [Message -> Nat]
  /\ inbox \in Seq(Message \X FromPeer)
  /\ sent \in [Message -> SUBSET FromPeer]
  /\ in_hand = <<>> \/ in_hand \in {"found", "noted"} \X Message \X FromPeer

MessageInit ==
  /\ sending = [m \in Message |-> "idle"]
  /\ state_of = [m \in Message |-> "queued"]
  /\ messages_ = {} /\ reason = {} /\ completed = {}
  /\ callback = {} /\ waited = {}
  /\ fired = [m \in Message |-> 0]
  /\ inbox = <<>> /\ in_hand = <<>>
  /\ sent = [m \in Message |-> {}]

-----------------------------------------------------------------------------
(* Variants of the code a plausible mistake would produce *)

\* only a message with a callback is completed.
Complete_CallbackOnly(S) ==
  /\ completed' = completed \union (S \intersect callback)
  /\ fired' = [m \in Message |->
                 IF m \in S \intersect callback THEN fired[m] + 1 ELSE fired[m]]

-----------------------------------------------------------------------------
\* The completed flag and the callback, in update_state.
Complete(S) ==
  /\ completed' = completed \union S
  /\ fired' = [m \in Message |->
                 IF m \in S \intersect callback THEN fired[m] + 1 ELSE fired[m]]

-----------------------------------------------------------------------------
(* More variants *)

\* the reason is looked up under another key.
SetReason_Missed ==
  /\ in_hand # <<>> /\ in_hand[1] = "found"
  /\ in_hand' = [in_hand EXCEPT ![1] = "noted"]
  /\ UNCHANGED <<user, shared, inbox, sent>>

\* on_completed calls back whatever the state.
OnCompleted_Always(m) ==
  /\ sending[m] = "returned" /\ m \notin callback
  /\ callback' = callback \union {m}
  /\ fired' = [fired EXCEPT ![m] = @ + 1]
  /\ UNCHANGED <<sending, messages_, waited, state_of, reason, completed, inbox,
                 sent, in_hand>>

\* a failed send leaves the message with no state.
SendFailed_Stateless(m) ==
  /\ sending[m] \in {"waiting", "refused"}
  /\ sending' = [sending EXCEPT ![m] = "returned"]
  /\ state_of' = [state_of EXCEPT ![m] = ""]
  /\ UNCHANGED <<messages_, callback, waited, reason, completed, fired, inbox,
                 sent, in_hand>>

-----------------------------------------------------------------------------
(* send_message and the user *)

Execute(m) ==
  /\ sending[m] = "idle"
  /\ sending' = [sending EXCEPT ![m] = "waiting"]
  /\ UNCHANGED <<messages_, callback, waited, shared, inbox, sent, in_hand>>

\* A response with a message_id: messages_, under its mutex.
Track(m) ==
  /\ sending[m] = "accepted" /\ in_hand = <<>>
  /\ sending' = [sending EXCEPT ![m] = "returned"]
  /\ messages_' = messages_ \union {m}
  /\ UNCHANGED <<callback, waited, shared, inbox, sent, in_hand>>

\* Any exception of execute, a timeout included: set_state, and nothing else.
SendFailed(m) ==
  /\ sending[m] \in {"waiting", "refused"}
  /\ sending' = [sending EXCEPT ![m] = "returned"]
  /\ state_of' = [state_of EXCEPT ![m] = "failed"]
  /\ UNCHANGED <<messages_, callback, waited, reason, completed, fired, inbox,
                 sent, in_hand>>

WaitReturns(m) ==
  /\ sending[m] = "returned" /\ m \in completed \ waited
  /\ waited' = waited \union {m}
  /\ UNCHANGED <<sending, messages_, callback, shared, inbox, sent, in_hand>>

OnCompleted(m) ==
  /\ sending[m] = "returned" /\ m \notin callback
  /\ callback' = callback \union {m}
  /\ fired' = [fired EXCEPT ![m] = IF m \in completed THEN @ + 1 ELSE @]
  /\ UNCHANGED <<sending, messages_, waited, state_of, reason, completed, inbox,
                 sent, in_hand>>

-----------------------------------------------------------------------------
(* The peer: a response, then "sent" perhaps, then one terminal state *)

PeerSays(m, what) ==
  /\ sending[m] # "idle" /\ what \notin sent[m]
  /\ \/ what \in {"accepted", "refused"} /\ sent[m] = {}
     \/ /\ what \in {"sent"} \union Terminal
        /\ "accepted" \in sent[m] /\ sent[m] \intersect Terminal = {}
  /\ sent' = [sent EXCEPT ![m] = @ \union {what}]
  /\ inbox' = Append(inbox, <<m, what>>)
  /\ UNCHANGED <<user, shared, in_hand>>

-----------------------------------------------------------------------------
(* The receive thread *)

HandleResponse ==
  /\ in_hand = <<>> /\ inbox # <<>>
  /\ Head(inbox)[2] \in {"accepted", "refused"}
  /\ inbox' = Tail(inbox)
  /\ LET m == Head(inbox)[1]
     IN sending' = [sending EXCEPT
                      ![m] = IF @ = "waiting" THEN Head(inbox)[2] ELSE @]
  /\ UNCHANGED <<messages_, callback, waited, shared, sent, in_hand>>

\* handle_messaging_event takes messages_mutex_; an id it does not know is
\* dropped.
FindMessage ==
  /\ in_hand = <<>> /\ inbox # <<>>
  /\ Head(inbox)[2] \in {"sent"} \union Terminal
  /\ inbox' = Tail(inbox)
  /\ in_hand' = IF Head(inbox)[1] \in messages_
                  THEN <<"found", Head(inbox)[1], Head(inbox)[2]>> ELSE <<>>
  /\ UNCHANGED <<user, shared, sent>>

SetReason ==
  /\ in_hand # <<>> /\ in_hand[1] = "found"
  /\ reason' = reason \union {m \in {in_hand[2]} : in_hand[3] \in Reasoned}
  /\ in_hand' = [in_hand EXCEPT ![1] = "noted"]
  /\ UNCHANGED <<user, state_of, completed, fired, inbox, sent>>

UpdateState ==
  /\ in_hand # <<>> /\ in_hand[1] = "noted"
  /\ state_of' = [state_of EXCEPT ![in_hand[2]] = in_hand[3]]
  /\ Complete({m \in {in_hand[2]} : in_hand[3] \in Terminal})
  /\ in_hand' = <<>>
  /\ UNCHANGED <<user, reason, inbox, sent>>

ReceiveThread == HandleResponse \/ FindMessage \/ SetReason \/ UpdateState

-----------------------------------------------------------------------------
MessageNext ==
  \/ \E m \in Message :
       \/ Execute(m) \/ Track(m) \/ SendFailed(m)
       \/ WaitReturns(m) \/ OnCompleted(m)
       \/ \E what \in FromPeer : PeerSays(m, what)
  \/ ReceiveThread

MessageSpec == MessageInit /\ [][MessageNext]_message_vars

\* The receive thread reads what arrives; a send_message with its response and
\* a woken wait go on.
MessageFairSpec ==
  /\ MessageSpec
  /\ WF_message_vars(ReceiveThread)
  /\ \A m \in Message : /\ SF_message_vars(Track(m))
                        /\ WF_message_vars(WaitReturns(m))
-----------------------------------------------------------------------------
(* Properties *)

\* A wait that returned on a failed delivery finds the carrier's reason set:
\* set_reason comes before update_state.
ReasonBeforeWake ==
  \A m \in waited : state_of[m] \in Reasoned => m \in reason

\* The callback runs once per message that completes, whether on_completed
\* comes before the terminal event or after it, and never for another message.
CallbackExactlyOnce ==
  \A m \in callback : fired[m] = IF m \in completed THEN 1 ELSE 0

\* A message completes once, because the peer named its terminal state and not
\* because the send failed or was answered, and its callback runs then or, if
\* on_completed comes late, at once.
Settled == {m \in Message : sent[m] \intersect Terminal # {}}
Completion == INSTANCE CompletionContract
                WITH Handle <- Message, settled <- Settled
ImplementsCompletion == Completion!Spec

\* A wait on a message that is in messages_ when its terminal event is on the
\* way returns.
TerminalReleasesWaiter ==
  \A m \in Message :
    (m \in messages_ /\ \E i \in DOMAIN inbox : inbox[i] \in {m} \X Terminal)
      ~> (m \in waited)

\* relay/docs/messaging.md:35: "`message.wait()` blocks until the message
\* reaches a terminal state".  Also when it reached one before send_message had
\* put the message into messages_: that event is dropped, and the wait goes on.
TerminalIsNoticed ==
  \A m \in messages_ :
    sent[m] \intersect Terminal # {} /\ inbox = <<>> /\ in_hand = <<>>
      => m \in completed

\* include/signalwire/relay/message.hpp:91-92: "If the message is already
\* terminal the callback fires immediately."  Not after a send that failed.
DoneMeansCalledBack ==
  \A m \in callback : state_of[m] \in Terminal => fired[m] > 0
=============================================================================
