---------------------------- MODULE CallActions ----------------------------
(***************************************************************************)
(* The actions of one RELAY call (src/relay/call.cpp, action.cpp and       *)
(* RelayClient::handle_component_event).                                   *)
(*                                                                         *)
(* A verb (play, collect, detect, ...) runs in a thread of the user: it    *)
(* registers a copy of its Action under a control id, executes the RPC,    *)
(* and only after the RPC returned tells the Action which events complete  *)
(* it.  The receive thread finds the Action by control id through a        *)
(* pointer into the map, applies the event and erases the entry.           *)
(* An action is identified with its control id.                            *)
(***************************************************************************)
EXTENDS Naturals, Sequences

CONSTANTS
  ActionId,     \* the actions ever started on the call
  KindOf,       \* [ActionId -> {"plain", "collect", "detect"}]
  NoAction,     \* what a message about the call itself is about
  EarlyEvents   \* may the peer send events of a verb before its response

ASSUME CallActionsAssumption ==
  /\ KindOf \in [ActionId -> {"plain", "collect", "detect"}]
  /\ NoAction \notin ActionId
  /\ EarlyEvents \in BOOLEAN

VARIABLES
  pc,         \* where the verb of each action is
  actions,    \* the keys of Call::SharedState::actions
  filtered,   \* actions whose event_type_filter is set
  onPayload,  \* actions with resolve_on_result or resolve_on_detect set
  completed,  \* actions whose is_completed is set
  callback,   \* actions whose completed_callback is set
  fired,      \* how often each completed_callback was called
  answer,     \* what the promise of the verb's RPC holds
  sent,       \* the messages the peer sent of each action
  inbox,      \* messages on the way, in order
  recv,       \* what the receive thread is doing
  held,       \* the message it handles
  ended,      \* Call state is "ended": "no", "peer" (on its way), "here"
  known,      \* the call is in RelayClient::calls_
  cut         \* the connection is gone, or disconnect() rejected the RPCs

verb == <<pc, filtered, onPayload>>
done == <<completed, fired>>
peer == <<sent, ended>>
recvThread == <<recv, held>>
vars == <<pc, actions, filtered, onPayload, completed, callback, fired,
          answer, sent, inbox, recv, held, ended, known, cut>>

Response == {"ok", "gone", "refused"}
\* "play" is calling.call.play(finished) of a play_and_collect, "update" an
\* event without the payload that completes the action, "final" the one with.
Event    == {"play", "update", "final"}
Message  == [kind : Response \union Event \union {"ended"},
             about : ActionId \union {NoAction}]
NoMessage == [kind |-> "ended", about |-> NoAction]

TypeOK ==
  /\ pc \in [ActionId -> {"idle", "registered", "sent", "flagging",
                          "filtered", "unregistered", "returned", "threw"}]
  /\ actions \subseteq ActionId
  /\ filtered \subseteq ActionId
  /\ onPayload \subseteq ActionId
  /\ completed \subseteq ActionId
  /\ callback \subseteq ActionId
  /\ fired \in [ActionId -> Nat]
  /\ answer \in [ActionId -> Response \union {"none", "rejected"}]
  /\ sent \in [ActionId -> SUBSET (Response \union Event)]
  /\ inbox \in Seq(Message)
  /\ recv \in {"idle", "found", "unregister", "ending", "ended"}
  /\ held \in Message
  /\ ended \in {"no", "peer", "here"}
  /\ known \in BOOLEAN
  /\ cut \in {"no", "closed", "disconnect"}

Init ==
  /\ pc = [a \in ActionId |-> "idle"]
  /\ actions = {} /\ filtered = {} /\ onPayload = {}
  /\ completed = {} /\ callback = {}
  /\ fired = [a \in ActionId |-> 0]
  /\ answer = [a \in ActionId |-> "none"]
  /\ sent = [a \in ActionId |-> {}]
  /\ inbox = <<>>
  /\ recv = "idle" /\ held = NoMessage
  /\ ended = "no" /\ known = TRUE /\ cut = "no"

-----------------------------------------------------------------------------
\* Action::resolve, and Action::update_state with a terminal word: the flag,
\* and the callback if there is one.  Neither looks at the flag first.
Complete(S) ==
  /\ completed' = completed \union S
  /\ fired' = [a \in ActionId |->
                 IF a \in S \intersect callback THEN fired[a] + 1 ELSE fired[a]]

\* Does the state word of the event complete an action in update_state?  A
\* result and a detect payload come without a state.
TerminalWord(a, kind) ==
  \/ kind = "play"
  \/ kind = "update" /\ KindOf[a] # "plain"
  \/ kind = "final" /\ KindOf[a] = "plain"

-----------------------------------------------------------------------------
(* Variants of the code a plausible mistake would produce *)

\* resolve_all_actions only clears the map.
ResolveAllActions_OnlyClears ==
  /\ recv = "ending"
  /\ recv' = "ended"
  /\ actions' = {}
  /\ UNCHANGED <<verb, done, callback, answer, peer, inbox, held, known, cut>>

\* every failure unregisters the action, a timeout included.
VerbThrows_Unregisters(a) ==
  /\ \/ pc[a] = "registered"
     \/ pc[a] = "sent" /\ answer[a] = "none"
  /\ pc' = [pc EXCEPT ![a] = "threw"]
  /\ actions' = actions \ {a}
  /\ UNCHANGED <<filtered, onPayload, done, callback, answer, peer, inbox,
                 recvThread, known, cut>>

\* on_completed only stores the callback.
OnCompleted_NoReplay(a) ==
  /\ pc[a] = "returned"
  /\ a \notin callback
  /\ callback' = callback \union {a}
  /\ UNCHANGED <<verb, actions, done, answer, peer, inbox, recvThread, known,
                 cut>>

\* a response is taken for an event and its code for a state.
HandleResponse_Raw(a) ==
  /\ recv = "idle" /\ inbox # <<>>
  /\ Head(inbox).about = a /\ Head(inbox).kind \in Response
  /\ answer' = [answer EXCEPT ![a] = "lost"]
  /\ inbox' = Tail(inbox)
  /\ UNCHANGED <<verb, actions, done, callback, peer, recvThread, known, cut>>

-----------------------------------------------------------------------------
(* A verb, in a thread of the user: execute_action and what follows it *)

RegisterAction(a) ==
  /\ pc[a] = "idle"
  /\ pc' = [pc EXCEPT ![a] = "registered"]
  /\ actions' = actions \union {a}
  /\ UNCHANGED <<filtered, onPayload, done, callback, answer, peer, inbox,
                 recvThread, known, cut>>

\* Verbs are sent on the first socket only.
Send(a) ==
  /\ pc[a] = "registered"
  /\ cut = "no"
  /\ pc' = [pc EXCEPT ![a] = "sent"]
  /\ UNCHANGED <<actions, filtered, onPayload, done, callback, answer, peer,
                 inbox, recvThread, known, cut>>

\* The send fails, or the deadline passes: a std::runtime_error, which the
\* handler for RelayError does not catch.  The entry stays.
VerbThrows(a) ==
  /\ \/ pc[a] = "registered"
     \/ pc[a] = "sent" /\ answer[a] = "none"
  /\ pc' = [pc EXCEPT ![a] = "threw"]
  /\ UNCHANGED <<actions, filtered, onPayload, done, callback, answer, peer,
                 inbox, recvThread, known, cut>>

\* A 2xx.  play and its likes are returned as they are.
VerbAccepted(a) ==
  /\ pc[a] = "sent" /\ answer[a] = "ok"
  /\ pc' = [pc EXCEPT ![a] = IF KindOf[a] = "plain" THEN "returned"
                                                    ELSE "flagging"]
  /\ UNCHANGED <<actions, filtered, onPayload, done, callback, answer, peer,
                 inbox, recvThread, known, cut>>

\* A RelayError: 404 and 410 go on, any other code is thrown.
VerbRefused(a) ==
  /\ pc[a] = "sent" /\ answer[a] \in {"gone", "refused", "rejected"}
  /\ pc' = [pc EXCEPT ![a] = IF answer[a] = "gone" THEN "unregistered"
                                                   ELSE "threw"]
  /\ actions' = actions \ {a}
  /\ UNCHANGED <<filtered, onPayload, done, callback, answer, peer, inbox,
                 recvThread, known, cut>>

ResolveGone(a) ==
  /\ pc[a] = "unregistered"
  /\ pc' = [pc EXCEPT ![a] = "returned"]
  /\ Complete({a})
  /\ UNCHANGED <<actions, filtered, onPayload, callback, answer, peer, inbox,
                 recvThread, known, cut>>

\* collect, play_and_collect and the prompts: set_event_type_filter.
SetFilter(a) ==
  /\ pc[a] = "flagging" /\ KindOf[a] = "collect"
  /\ pc' = [pc EXCEPT ![a] = "filtered"]
  /\ filtered' = filtered \union {a}
  /\ UNCHANGED <<actions, onPayload, done, callback, answer, peer, inbox,
                 recvThread, known, cut>>

\* set_resolve_on_result after the filter, set_resolve_on_detect alone.
SetResolveOn(a) ==
  /\ \/ pc[a] = "filtered"
     \/ pc[a] = "flagging" /\ KindOf[a] = "detect"
  /\ pc' = [pc EXCEPT ![a] = "returned"]
  /\ onPayload' = onPayload \union {a}
  /\ UNCHANGED <<actions, filtered, done, callback, answer, peer, inbox,
                 recvThread, known, cut>>

\* Action::on_completed; a completed action calls back at once.
OnCompleted(a) ==
  /\ pc[a] = "returned"
  /\ a \notin callback
  /\ callback' = callback \union {a}
  /\ fired' = [fired EXCEPT ![a] = IF a \in completed THEN @ + 1 ELSE @]
  /\ UNCHANGED <<verb, actions, completed, answer, peer, inbox, recvThread,
                 known, cut>>

Verb(a) ==
  \/ VerbThrows(a) \/ VerbAccepted(a) \/ VerbRefused(a) \/ ResolveGone(a)
  \/ SetFilter(a) \/ SetResolveOn(a)

-----------------------------------------------------------------------------
(* The peer: one response per verb, and events while the verb runs *)

PeerSays(a, kind) ==
  /\ kind \notin sent[a]
  /\ sent' = [sent EXCEPT ![a] = @ \union {kind}]
  /\ inbox' = Append(inbox, [kind |-> kind, about |-> a])
  /\ UNCHANGED <<verb, actions, done, callback, answer, recvThread, ended,
                 known, cut>>

Reached(a) == pc[a] \notin {"idle", "registered"} /\ cut # "disconnect"

PeerResponds(a) ==
  /\ Reached(a)
  /\ answer[a] = "none" /\ cut = "no"
  /\ sent[a] \intersect Response = {}
  /\ IF ended = "no" THEN PeerSays(a, "ok") \/ PeerSays(a, "refused")
                     ELSE PeerSays(a, "gone")

PeerSendsEvent(a) ==
  /\ Reached(a)
  /\ ended = "no"
  /\ sent[a] \intersect {"final", "gone", "refused"} = {}
  /\ EarlyEvents \/ "ok" \in sent[a]
  /\ \/ KindOf[a] = "collect" /\ PeerSays(a, "play")
     \/ PeerSays(a, "update")
     \/ PeerSays(a, "final")

PeerEndsCall ==
  /\ ended = "no" /\ cut # "disconnect"
  /\ ended' = "peer"
  /\ inbox' = Append(inbox, [kind |-> "ended", about |-> NoAction])
  /\ UNCHANGED <<verb, actions, done, callback, answer, sent, recvThread,
                 known, cut>>

-----------------------------------------------------------------------------
(* The receive thread *)

\* A response fulfils the promise of a verb that still waits.
HandleResponse(a) ==
  /\ recv = "idle" /\ inbox # <<>>
  /\ Head(inbox).about = a /\ Head(inbox).kind \in Response
  /\ answer' = [answer EXCEPT ![a] =
                  IF pc[a] = "sent" /\ @ = "none" THEN Head(inbox).kind ELSE @]
  /\ inbox' = Tail(inbox)
  /\ UNCHANGED <<verb, actions, done, callback, peer, recvThread, known, cut>>

\* find_call and find_action: a pointer into the map, used without its mutex.
FindAction ==
  /\ recv = "idle" /\ inbox # <<>>
  /\ Head(inbox).kind \in Event
  /\ inbox' = Tail(inbox)
  /\ IF known /\ Head(inbox).about \in actions
       THEN recv' = "found" /\ held' = Head(inbox)
       ELSE UNCHANGED recvThread
  /\ UNCHANGED <<verb, actions, done, callback, answer, peer, known, cut>>

Matches(a, kind) == a \in filtered => kind # "play"

\* handle_component_event on the action it found.  The filter drops the event,
\* or the action waits for a detect payload and this is none.
IgnoreEvent(a, kind) ==
  /\ \/ ~Matches(a, kind)
     \/ a \in onPayload /\ KindOf[a] = "detect" /\ kind # "final"
  /\ recv' = "idle"
  /\ UNCHANGED done

\* The first `detect` or `result` payload resolves it.
ResolveOnPayload(a, kind) ==
  /\ a \in onPayload /\ kind = "final"
  /\ recv' = "unregister"
  /\ Complete({a})

\* Anything else about a collect goes to update_state, and the entry stays.
UpdateCollect(a, kind) ==
  /\ a \in onPayload /\ KindOf[a] = "collect"
  /\ kind # "final" /\ Matches(a, kind)
  /\ recv' = "idle"
  /\ IF TerminalWord(a, kind) THEN Complete({a}) ELSE UNCHANGED done

\* Without a flag: update_state, and the entry of a completed action goes.
UpdateAction(a, kind) ==
  /\ a \notin onPayload /\ Matches(a, kind)
  /\ IF TerminalWord(a, kind) THEN Complete({a}) ELSE UNCHANGED done
  /\ recv' = IF a \in completed' THEN "unregister" ELSE "idle"

UseAction ==
  /\ recv = "found"
  /\ LET a    == held.about
         kind == held.kind
     IN \/ IgnoreEvent(a, kind) \/ ResolveOnPayload(a, kind)
        \/ UpdateCollect(a, kind) \/ UpdateAction(a, kind)
  /\ UNCHANGED <<verb, actions, callback, answer, peer, inbox, held, known, cut>>

UnregisterAction ==
  /\ recv = "unregister"
  /\ recv' = "idle"
  /\ actions' = actions \ {held.about}
  /\ UNCHANGED <<verb, done, callback, answer, peer, inbox, held, known, cut>>

\* handle_call_state with "ended": update_state ...
UpdateEnded ==
  /\ recv = "idle" /\ inbox # <<>>
  /\ Head(inbox).kind = "ended"
  /\ inbox' = Tail(inbox)
  /\ ended' = "here"
  /\ recv' = "ending"
  /\ UNCHANGED <<verb, actions, done, callback, answer, sent, held, known, cut>>

\* ... resolve_all_actions, under actions_mutex ...
ResolveAllActions ==
  /\ recv = "ending"
  /\ recv' = "ended"
  /\ Complete(actions \ completed)
  /\ actions' = {}
  /\ UNCHANGED <<verb, callback, answer, peer, inbox, held, known, cut>>

\* ... and unregister_call, after the handlers of the call.
UnregisterCall ==
  /\ recv = "ended"
  /\ recv' = "idle"
  /\ known' = FALSE
  /\ UNCHANGED <<verb, actions, done, callback, answer, peer, inbox, held, cut>>

ReceiveThread ==
  \/ \E a \in ActionId : HandleResponse(a)
  \/ FindAction \/ UseAction \/ UnregisterAction
  \/ UpdateEnded \/ ResolveAllActions \/ UnregisterCall

\* reject_all_pending: the verbs without a response get code 503.
Reject ==
  answer' = [a \in ActionId |-> IF pc[a] = "sent" /\ answer[a] = "none"
                                  THEN "rejected" ELSE answer[a]]

\* on_ws_close, in the receive thread; what travelled is lost, and the peer
\* goes on with the call on the next socket.
ConnectionLost ==
  /\ cut = "no" /\ recv = "idle"
  /\ cut' = "closed"
  /\ Reject
  /\ inbox' = <<>>
  /\ UNCHANGED <<verb, actions, done, callback, peer, recvThread, known>>

\* disconnect(), in another thread: the receive thread finishes its message.
DisconnectRejects ==
  /\ cut # "disconnect"
  /\ cut' = "disconnect"
  /\ Reject
  /\ inbox' = <<>>
  /\ UNCHANGED <<verb, actions, done, callback, peer, recvThread, known>>

-----------------------------------------------------------------------------
Next ==
  \/ \E a \in ActionId :
       \/ RegisterAction(a) \/ Send(a) \/ Verb(a) \/ OnCompleted(a)
       \/ PeerResponds(a) \/ PeerSendsEvent(a)
  \/ PeerEndsCall
  \/ ReceiveThread
  \/ ConnectionLost \/ DisconnectRejects

Spec == Init /\ [][Next]_vars
-----------------------------------------------------------------------------
(* Properties *)

Handled == recv \in {"idle", "ended"} /\ ended = "here"

\* Once the end of the call is handled no action the user holds is left
\* incomplete, whenever its verb came back: the entry is registered before the
\* frame is sent, so the end finds every accepted action in the map, and a verb
\* that comes later is told the call is gone.
EndedSettlesAll ==
  Handled => \A a \in ActionId : pc[a] = "returned" => a \in completed

\* The pointer the receive thread took from find_action points to an entry
\* that is still there, unless the RPC of its verb was rejected meanwhile.
\* A verb that times out leaves its entry, and this depends on it.
ActionPointerLive ==
  recv = "found" => \/ held.about \in actions
                    \/ answer[held.about] = "rejected"

\* A callback runs once, when the action completes or at once if it already
\* has; on_completed races the receive thread, and so does the end of the call.
CallbackExactlyOnce ==
  \A a \in callback : KindOf[a] # "collect" =>
    fired[a] = IF a \in completed THEN 1 ELSE 0

\* An action that is no collect completes once, and only when the peer has sent
\* an event of it that says so or has ended the call (a 404 or 410 says it has);
\* its callback runs then or, if on_completed comes late, at once.  A collect
\* may complete again, for its entry stays (UpdateCollect).
Once == {a \in ActionId : KindOf[a] # "collect"}
Settling(a) == IF KindOf[a] = "plain" THEN {"final"} ELSE {"update", "final"}
Settled == {a \in Once : ended # "no" \/ sent[a] \intersect Settling(a) # {}}
Completion == INSTANCE CompletionContract
                WITH Handle <- Once, settled <- Settled,
                     completed <- completed \intersect Once,
                     callback <- callback \intersect Once,
                     fired <- [a \in Once |-> fired[a]]
ImplementsCompletion == Completion!Spec

-----------------------------------------------------------------------------
(* What the comments say, and the code does not do *)

\* src/relay/call.cpp:121-123: "EVERY other error unregisters the action (so a
\* failed verb leaves no dangling entry ...)".  A timeout does not.
FailedVerbLeavesNoEntry == \A a \in actions : pc[a] # "threw"

\* src/relay/call.cpp:405-407: "A calling.call.play(finished) earlier in the
\* timeline must NOT resolve the action".  It does before the filter is set.
PlayNeverResolvesCollect ==
  \A a \in completed : KindOf[a] = "collect" =>
    \/ sent[a] \intersect {"final", "update", "gone"} # {}
    \/ ended # "no"

\* src/relay/call.cpp:485-487: "Detect resolves on the first event carrying a
\* `detect` payload".  Not on one that is handled before the flag is set.
FirstPayloadResolves ==
  \A a \in ActionId : KindOf[a] = "detect" =>
    (pc[a] = "returned" /\ "final" \in sent[a] /\ inbox = <<>> /\ recv = "idle"
      /\ cut = "no" => a \in completed)

\* src/relay/client.cpp:680-681: "State updates (without a result) flow into
\* update_state for monitoring but don't terminate the action."  A terminal
\* word terminates it.
UpdatesDontTerminate ==
  [][\A a \in completed' \ completed :
       recv = "found" => ~(a \in onPayload /\ held.kind = "update")]_vars
=============================================================================
