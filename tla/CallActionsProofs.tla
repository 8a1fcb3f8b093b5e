------------------------- MODULE CallActionsProofs -------------------------
(***************************************************************************)
(* The safety properties of CallActions for any set of actions of any      *)
(* kind, with or without events that overtake the response of their verb.  *)
(*                                                                         *)
(* The order of the messages carries them: the peer accepts no verb after  *)
(* it ended the call and sends no event of an action after it refused its  *)
(* verb, and the receive thread handles what it says one by one.           *)
(***************************************************************************)
EXTENDS CallActions, TLAPS

HeldOK ==
  recv \in {"found", "unregister"} =>
    /\ held.about \in ActionId /\ held.kind \in Event
    /\ pc[held.about] \notin {"idle", "registered"}

\* What travels was sent, and in an order the peer can have sent it.
InboxSent ==
  \A i \in 1 .. Len(inbox) : inbox[i].kind # "ended" =>
    /\ inbox[i].about \in ActionId
    /\ inbox[i].kind \in sent[inbox[i].about]
InboxOrder ==
  \A i, j \in 1 .. Len(inbox) : i < j =>
    /\ inbox[i].kind = "ended" => inbox[j].kind # "ok"
    /\ inbox[i].kind \in {"gone", "refused"} /\ inbox[j].kind \in Event
         => inbox[i].about # inbox[j].about
EndMatches ==
  \A i \in 1 .. Len(inbox) :
    /\ ended = "no" => inbox[i].kind # "ended"
    /\ ended = "here" => inbox[i].kind # "ok"
SentLate ==
  \A a \in ActionId :
    /\ sent[a] # {} => pc[a] \notin {"idle", "registered"}
    /\ answer[a] \in Response => answer[a] \in sent[a]

\* Once a refusal has been handled no event of that action comes any more.
RefusalIsLast ==
  \A a \in ActionId : answer[a] \in {"gone", "refused"} =>
    /\ \A i \in 1 .. Len(inbox) : inbox[i].kind \in Event => inbox[i].about # a
    /\ recv = "found" => held.about # a

InboxInv == InboxSent /\ InboxOrder /\ EndMatches /\ SentLate /\ RefusalIsLast

\* An action leaves the map completed, refused or rejected.
KeptOrDone ==
  \A a \in ActionId :
    /\ pc[a] \in {"registered", "sent", "flagging", "filtered", "returned"}
         => a \in actions \union completed
    /\ pc[a] = "idle" => a \notin actions \union completed
    /\ pc[a] = "unregistered" => a \notin actions /\ answer[a] = "gone"
UnregistersDone == recv = "unregister" => held.about \in completed

\* After the end every verb the peer accepted has a completed action.
Accepted(a) == \/ pc[a] \in {"flagging", "filtered", "returned"}
               \/ pc[a] = "sent" /\ answer[a] = "ok"
AfterEnd ==
  ended = "here" /\ recv # "ending" =>
    \A a \in ActionId : Accepted(a) => a \in completed

ActionInv == KeptOrDone /\ UnregistersDone /\ AfterEnd /\ ActionPointerLive

\* But for a collect, completion goes with the entry, so it happens once.
DoneIsOut ==
  \A a \in completed \intersect actions : KindOf[a] # "collect" =>
    recv = "unregister" /\ held.about = a
FoundIsFresh ==
  recv = "found" /\ KindOf[held.about] # "collect"
    => held.about \notin completed
CallbackLast ==
  \A a \in ActionId : IF a \in callback THEN pc[a] = "returned" ELSE fired[a] = 0

CallbackInv == DoneIsOut /\ FoundIsFresh /\ CallbackLast /\ CallbackExactlyOnce

IInv == TypeOK /\ HeldOK /\ InboxInv /\ ActionInv /\ CallbackInv

-----------------------------------------------------------------------------
\* The receive thread takes the first message off the inbox ...
LEMMA TailFacts ==
  ASSUME TypeOK, inbox # <<>>
  PROVE  /\ Head(inbox) = inbox[1] /\ Head(inbox) \in Message
         /\ Tail(inbox) \in Seq(Message)
         /\ Len(inbox) \in Nat /\ 1 \in 1 .. Len(inbox)
         /\ Len(Tail(inbox)) = Len(inbox) - 1
         /\ \A i \in 1 .. Len(Tail(inbox)) :
              i + 1 \in 1 .. Len(inbox) /\ Tail(inbox)[i] = inbox[i + 1]
  BY DEF TypeOK

\* ... and the peer adds one at the end.
LEMMA AppendFacts ==
  ASSUME TypeOK, NEW m \in Message
  PROVE  /\ Append(inbox, m) \in Seq(Message)
         /\ Len(inbox) \in Nat /\ Len(Append(inbox, m)) = Len(inbox) + 1
         /\ Append(inbox, m)[Len(inbox) + 1] = m
         /\ \A i \in 1 .. Len(inbox) : Append(inbox, m)[i] = inbox[i]
  BY DEF TypeOK

-----------------------------------------------------------------------------
\* Every step keeps the types.
LEMMA TypeStep == ASSUME IInv, [Next]_vars PROVE (TypeOK /\ HeldOK)'
<1> USE CallActionsAssumption DEF IInv, TypeOK, HeldOK, Message, InboxInv,
       InboxSent, SentLate, Event, Response, verb, done, peer, recvThread
<1>1. ASSUME NEW a \in ActionId, RegisterAction(a) PROVE (TypeOK /\ HeldOK)'
  BY <1>1 DEF RegisterAction
<1>2. ASSUME NEW a \in ActionId, Send(a) PROVE (TypeOK /\ HeldOK)'
  BY <1>2 DEF Send
<1>3. ASSUME NEW a \in ActionId, VerbThrows(a) PROVE (TypeOK /\ HeldOK)'
  BY <1>3 DEF VerbThrows
<1>4. ASSUME NEW a \in ActionId, VerbAccepted(a) PROVE (TypeOK /\ HeldOK)'
  BY <1>4 DEF VerbAccepted
<1>5. ASSUME NEW a \in ActionId, VerbRefused(a) PROVE (TypeOK /\ HeldOK)'
  BY <1>5 DEF VerbRefused
<1>6. ASSUME NEW a \in ActionId, ResolveGone(a) PROVE (TypeOK /\ HeldOK)'
  BY <1>6 DEF ResolveGone, Complete
<1>7. ASSUME NEW a \in ActionId, SetFilter(a) PROVE (TypeOK /\ HeldOK)'
  BY <1>7 DEF SetFilter
<1>8. ASSUME NEW a \in ActionId, SetResolveOn(a) PROVE (TypeOK /\ HeldOK)'
  BY <1>8 DEF SetResolveOn
<1>9. ASSUME NEW a \in ActionId, OnCompleted(a) PROVE (TypeOK /\ HeldOK)'
  BY <1>9 DEF OnCompleted
<1>10. ASSUME NEW a \in ActionId, PeerResponds(a) PROVE (TypeOK /\ HeldOK)'
  <2>1. PICK kind \in Response \union Event : PeerSays(a, kind)
    BY <1>10 DEF PeerResponds
  <2>2. [kind |-> kind, about |-> a] \in Message
    OBVIOUS
  <2>3. inbox' \in Seq(Message)
    BY <2>1, <2>2, AppendFacts DEF PeerSays
  <2>4. sent' \in [ActionId -> SUBSET (Response \union Event)]
    BY <2>1 DEF PeerSays
  <2> QED
    BY <2>1, <2>3, <2>4 DEF PeerSays
<1>11. ASSUME NEW a \in ActionId, PeerSendsEvent(a) PROVE (TypeOK /\ HeldOK)'
  <2>1. PICK kind \in Response \union Event : PeerSays(a, kind)
    BY <1>11 DEF PeerSendsEvent
  <2>2. [kind |-> kind, about |-> a] \in Message
    OBVIOUS
  <2>3. inbox' \in Seq(Message)
    BY <2>1, <2>2, AppendFacts DEF PeerSays
  <2>4. sent' \in [ActionId -> SUBSET (Response \union Event)]
    BY <2>1 DEF PeerSays
  <2> QED
    BY <2>1, <2>3, <2>4 DEF PeerSays
<1>12. CASE PeerEndsCall
  BY <1>12 DEF PeerEndsCall
<1>13. ASSUME NEW a \in ActionId, HandleResponse(a) PROVE (TypeOK /\ HeldOK)'
  BY <1>13, TailFacts DEF HandleResponse
<1>14. CASE FindAction
  BY <1>14, TailFacts DEF FindAction
<1>15. CASE UseAction
  BY <1>15 DEF UseAction, IgnoreEvent, ResolveOnPayload, UpdateCollect,
       UpdateAction, Matches, TerminalWord, Complete
<1>16. CASE UnregisterAction
  BY <1>16 DEF UnregisterAction
<1>17. CASE UpdateEnded
  BY <1>17, TailFacts DEF UpdateEnded
<1>18. CASE ResolveAllActions
  BY <1>18 DEF ResolveAllActions, Complete
<1>19. CASE UnregisterCall
  BY <1>19 DEF UnregisterCall
<1>20. CASE ConnectionLost
  BY <1>20 DEF ConnectionLost, Reject
<1>21. CASE DisconnectRejects
  BY <1>21 DEF DisconnectRejects, Reject
<1>22. CASE UNCHANGED vars
  BY <1>22 DEF vars
<1> QED BY <1>1, <1>2, <1>3, <1>4, <1>5, <1>6, <1>7, <1>8, <1>9, <1>10, <1>11,
     <1>12, <1>13, <1>14, <1>15, <1>16, <1>17, <1>18, <1>19, <1>20, <1>21,
     <1>22
     DEF Next, Verb, ReceiveThread

\* The peer speaks in order, and the receive thread listens in that order.
LEMMA InboxStep == ASSUME IInv, [Next]_vars PROVE InboxInv'
<1> USE CallActionsAssumption DEF IInv, TypeOK, HeldOK, InboxInv, InboxSent,
       InboxOrder, EndMatches, SentLate, RefusalIsLast, Event, Response, verb,
       done, peer, recvThread
<1>1. ASSUME NEW a \in ActionId, RegisterAction(a) PROVE InboxInv'
  BY <1>1 DEF RegisterAction
<1>2. ASSUME NEW a \in ActionId, Send(a) PROVE InboxInv'
  BY <1>2 DEF Send
<1>3. ASSUME NEW a \in ActionId, VerbThrows(a) PROVE InboxInv'
  BY <1>3 DEF VerbThrows
<1>4. ASSUME NEW a \in ActionId, VerbAccepted(a) PROVE InboxInv'
  BY <1>4 DEF VerbAccepted
<1>5. ASSUME NEW a \in ActionId, VerbRefused(a) PROVE InboxInv'
  BY <1>5 DEF VerbRefused
<1>6. ASSUME NEW a \in ActionId, ResolveGone(a) PROVE InboxInv'
  BY <1>6 DEF ResolveGone, Complete
<1>7. ASSUME NEW a \in ActionId, SetFilter(a) PROVE InboxInv'
  BY <1>7 DEF SetFilter
<1>8. ASSUME NEW a \in ActionId, SetResolveOn(a) PROVE InboxInv'
  BY <1>8 DEF SetResolveOn
<1>9. ASSUME NEW a \in ActionId, PeerResponds(a) PROVE InboxInv'
  <2>1. PICK kind \in Response \union Event :
          /\ PeerSays(a, kind)
          /\ kind = "ok" => ended = "no"
          /\ kind \in Event => sent[a] \intersect {"gone", "refused"} = {}
    BY <1>9 DEF PeerResponds
  <2>2. Reached(a)
    BY <1>9 DEF PeerResponds
  <2> DEFINE m == [kind |-> kind, about |-> a]
             n == Len(inbox)
  <2>3. m \in Message /\ m.kind = kind /\ m.about = a
    BY DEF Message
  <2>4. /\ n \in Nat /\ Len(inbox') = n + 1 /\ inbox'[n + 1] = m
        /\ \A i \in 1 .. n : inbox'[i] = inbox[i]
    BY <2>1, <2>3, AppendFacts DEF PeerSays
  <2>5. /\ sent \in [ActionId -> SUBSET (Response \union Event)]
        /\ sent' \in [ActionId -> SUBSET (Response \union Event)]
        /\ kind \in sent'[a]
        /\ \A b \in ActionId : /\ sent[b] \subseteq sent'[b]
                               /\ b # a => sent'[b] = sent[b]
    BY <2>1 DEF PeerSays
  <2>6. UNCHANGED <<pc, answer, ended, recv, held>>
    BY <2>1 DEF PeerSays
  <2> HIDE DEF m, n, TypeOK, HeldOK, InboxSent, InboxOrder, EndMatches,
             SentLate, RefusalIsLast
  <2>7. \A i \in 1 .. Len(inbox') : i \in 1 .. n \/ i = n + 1
    BY <2>4
  <2>8. InboxSent'
    <3> SUFFICES ASSUME NEW i \in 1 .. Len(inbox'), inbox'[i].kind # "ended"
                 PROVE  /\ inbox'[i].about \in ActionId
                        /\ inbox'[i].kind \in sent'[inbox'[i].about]
      BY DEF InboxSent
    <3>1. CASE i \in 1 .. n
      BY <3>1, <2>4, <2>5 DEF n, InboxSent
    <3>2. CASE i = n + 1
      BY <3>2, <2>3, <2>4, <2>5
    <3> QED
      BY <3>1, <3>2, <2>7
  <2>9. InboxOrder'
    BY <2>1, <2>3, <2>4, <2>7 DEF n, InboxSent, InboxOrder, EndMatches
  <2>10. EndMatches'
    BY <2>1, <2>3, <2>4, <2>6, <2>7 DEF n, EndMatches
  <2>11. SentLate'
    <3> SUFFICES ASSUME NEW b \in ActionId
                 PROVE  /\ sent'[b] # {} => pc[b] \notin {"idle", "registered"}
                        /\ answer[b] \in Response => answer[b] \in sent'[b]
      BY <2>6 DEF SentLate
    <3>1. CASE b = a
      BY <3>1, <2>2, <2>5 DEF Reached, SentLate
    <3>2. CASE b # a
      BY <3>2, <2>5 DEF SentLate
    <3> QED
      BY <3>1, <3>2
  <2>12. RefusalIsLast'
    <3> SUFFICES ASSUME NEW b \in ActionId, answer[b] \in {"gone", "refused"}
                 PROVE  /\ \A i \in 1 .. Len(inbox') :
                             inbox'[i].kind \in Event => inbox'[i].about # b
                        /\ recv = "found" => held.about # b
      BY <2>6 DEF RefusalIsLast
    <3>1. answer[b] \in sent[b]
      BY DEF SentLate
    <3>2. kind \in Event => b # a
      BY <3>1, <2>1
    <3> QED
      BY <3>2, <2>3, <2>4, <2>7 DEF n, RefusalIsLast
  <2> QED
    BY <2>8, <2>9, <2>10, <2>11, <2>12
<1>10. ASSUME NEW a \in ActionId, PeerSendsEvent(a) PROVE InboxInv'
  <2>1. PICK kind \in Response \union Event :
          /\ PeerSays(a, kind)
          /\ kind = "ok" => ended = "no"
          /\ kind \in Event => sent[a] \intersect {"gone", "refused"} = {}
    BY <1>10 DEF PeerSendsEvent
  <2>2. Reached(a)
    BY <1>10 DEF PeerSendsEvent
  <2> DEFINE m == [kind |-> kind, about |-> a]
             n == Len(inbox)
  <2>3. m \in Message /\ m.kind = kind /\ m.about = a
    BY DEF Message
  <2>4. /\ n \in Nat /\ Len(inbox') = n + 1 /\ inbox'[n + 1] = m
        /\ \A i \in 1 .. n : inbox'[i] = inbox[i]
    BY <2>1, <2>3, AppendFacts DEF PeerSays
  <2>5. /\ sent \in [ActionId -> SUBSET (Response \union Event)]
        /\ sent' \in [ActionId -> SUBSET (Response \union Event)]
        /\ kind \in sent'[a]
        /\ \A b \in ActionId : /\ sent[b] \subseteq sent'[b]
                               /\ b # a => sent'[b] = sent[b]
    BY <2>1 DEF PeerSays
  <2>6. UNCHANGED <<pc, answer, ended, recv, held>>
    BY <2>1 DEF PeerSays
  <2> HIDE DEF m, n, TypeOK, HeldOK, InboxSent, InboxOrder, EndMatches,
             SentLate, RefusalIsLast
  <2>7. \A i \in 1 .. Len(inbox') : i \in 1 .. n \/ i = n + 1
    BY <2>4
  <2>8. InboxSent'
    <3> SUFFICES ASSUME NEW i \in 1 .. Len(inbox'), inbox'[i].kind # "ended"
                 PROVE  /\ inbox'[i].about \in ActionId
                        /\ inbox'[i].kind \in sent'[inbox'[i].about]
      BY DEF InboxSent
    <3>1. CASE i \in 1 .. n
      BY <3>1, <2>4, <2>5 DEF n, InboxSent
    <3>2. CASE i = n + 1
      BY <3>2, <2>3, <2>4, <2>5
    <3> QED
      BY <3>1, <3>2, <2>7
  <2>9. InboxOrder'
    BY <2>1, <2>3, <2>4, <2>7 DEF n, InboxSent, InboxOrder, EndMatches
  <2>10. EndMatches'
    BY <2>1, <2>3, <2>4, <2>6, <2>7 DEF n, EndMatches
  <2>11. SentLate'
    <3> SUFFICES ASSUME NEW b \in ActionId
                 PROVE  /\ sent'[b] # {} => pc[b] \notin {"idle", "registered"}
                        /\ answer[b] \in Response => answer[b] \in sent'[b]
      BY <2>6 DEF SentLate
    <3>1. CASE b = a
      BY <3>1, <2>2, <2>5 DEF Reached, SentLate
    <3>2. CASE b # a
      BY <3>2, <2>5 DEF SentLate
    <3> QED
      BY <3>1, <3>2
  <2>12. RefusalIsLast'
    <3> SUFFICES ASSUME NEW b \in ActionId, answer[b] \in {"gone", "refused"}
                 PROVE  /\ \A i \in 1 .. Len(inbox') :
                             inbox'[i].kind \in Event => inbox'[i].about # b
                        /\ recv = "found" => held.about # b
      BY <2>6 DEF RefusalIsLast
    <3>1. answer[b] \in sent[b]
      BY DEF SentLate
    <3>2. kind \in Event => b # a
      BY <3>1, <2>1
    <3> QED
      BY <3>2, <2>3, <2>4, <2>7 DEF n, RefusalIsLast
  <2> QED
    BY <2>8, <2>9, <2>10, <2>11, <2>12
<1>11. CASE PeerEndsCall
  BY <1>11 DEF PeerEndsCall
<1>12. ASSUME NEW a \in ActionId, HandleResponse(a) PROVE InboxInv'
  BY <1>12, TailFacts DEF HandleResponse
<1>13. CASE FindAction
  BY <1>13, TailFacts DEF FindAction
<1>14. CASE UseAction
  BY <1>14 DEF UseAction, IgnoreEvent, ResolveOnPayload, UpdateCollect,
       UpdateAction, Matches, TerminalWord, Complete
<1>15. CASE UpdateEnded
  BY <1>15, TailFacts DEF UpdateEnded
<1>16. CASE ResolveAllActions
  BY <1>16 DEF ResolveAllActions, Complete
<1>17. CASE ConnectionLost
  BY <1>17 DEF ConnectionLost, Reject
<1>18. CASE DisconnectRejects
  BY <1>18 DEF DisconnectRejects, Reject
<1>19. CASE
       \/ \E a \in ActionId : OnCompleted(a)
       \/ UnregisterAction \/ UnregisterCall
       \/ UNCHANGED vars
  BY <1>19 DEF OnCompleted, UnregisterAction, UnregisterCall, vars
<1> QED BY <1>1, <1>2, <1>3, <1>4, <1>5, <1>6, <1>7, <1>8, <1>9, <1>10, <1>11,
     <1>12, <1>13, <1>14, <1>15, <1>16, <1>17, <1>18, <1>19
     DEF Next, Verb, ReceiveThread

\* An accepted verb has its entry until the action completes.
LEMMA ActionStep == ASSUME IInv, [Next]_vars PROVE ActionInv'
<1> USE CallActionsAssumption DEF IInv, TypeOK, HeldOK, InboxInv, InboxSent,
       EndMatches, SentLate, RefusalIsLast, ActionInv, KeptOrDone,
       UnregistersDone, Accepted, AfterEnd, ActionPointerLive, Event, Response,
       verb, done, peer, recvThread
<1>1. ASSUME NEW a \in ActionId, RegisterAction(a) PROVE ActionInv'
  BY <1>1 DEF RegisterAction
<1>2. ASSUME NEW a \in ActionId, Send(a) PROVE ActionInv'
  BY <1>2 DEF Send
<1>3. ASSUME NEW a \in ActionId, VerbThrows(a) PROVE ActionInv'
  BY <1>3 DEF VerbThrows
<1>4. ASSUME NEW a \in ActionId, VerbAccepted(a) PROVE ActionInv'
  BY <1>4 DEF VerbAccepted
<1>5. ASSUME NEW a \in ActionId, VerbRefused(a) PROVE ActionInv'
  BY <1>5 DEF VerbRefused
<1>6. ASSUME NEW a \in ActionId, ResolveGone(a) PROVE ActionInv'
  BY <1>6 DEF ResolveGone, Complete
<1>7. ASSUME NEW a \in ActionId, SetFilter(a) PROVE ActionInv'
  BY <1>7 DEF SetFilter
<1>8. ASSUME NEW a \in ActionId, SetResolveOn(a) PROVE ActionInv'
  BY <1>8 DEF SetResolveOn
<1>9. ASSUME NEW a \in ActionId, HandleResponse(a) PROVE ActionInv'
  BY <1>9, TailFacts DEF HandleResponse
<1>10. CASE FindAction
  BY <1>10, TailFacts DEF FindAction
<1>11. CASE UseAction
  BY <1>11 DEF UseAction, IgnoreEvent, ResolveOnPayload, UpdateCollect,
       UpdateAction, Matches, TerminalWord, Complete
<1>12. CASE UnregisterAction
  BY <1>12 DEF UnregisterAction
<1>13. CASE UpdateEnded
  BY <1>13, TailFacts DEF UpdateEnded
<1>14. CASE ResolveAllActions
  BY <1>14 DEF ResolveAllActions, Complete
<1>15. CASE UnregisterCall
  BY <1>15 DEF UnregisterCall
<1>16. CASE ConnectionLost
  BY <1>16 DEF ConnectionLost, Reject
<1>17. CASE DisconnectRejects
  BY <1>17 DEF DisconnectRejects, Reject
<1>18. CASE
       \/ \E a \in ActionId : OnCompleted(a) \/ PeerResponds(a) \/ PeerSendsEvent(a)
       \/ PeerEndsCall
       \/ UNCHANGED vars
  BY <1>18 DEF OnCompleted, PeerResponds, PeerSendsEvent, PeerEndsCall,
       PeerSays, Reached, vars
<1> QED BY <1>1, <1>2, <1>3, <1>4, <1>5, <1>6, <1>7, <1>8, <1>9, <1>10, <1>11,
     <1>12, <1>13, <1>14, <1>15, <1>16, <1>17, <1>18
     DEF Next, Verb, ReceiveThread

\* What completes an action has just found it in the map.
LEMMA CallbackStep == ASSUME IInv, [Next]_vars PROVE CallbackInv'
<1> USE CallActionsAssumption DEF IInv, TypeOK, HeldOK, InboxInv,
       RefusalIsLast, ActionInv, KeptOrDone, CallbackInv, DoneIsOut,
       FoundIsFresh, CallbackLast, CallbackExactlyOnce, Event, Response, verb,
       done, peer, recvThread
<1>1. ASSUME NEW a \in ActionId, RegisterAction(a) PROVE CallbackInv'
  BY <1>1 DEF RegisterAction
<1>2. ASSUME NEW a \in ActionId, Send(a) PROVE CallbackInv'
  BY <1>2 DEF Send
<1>3. ASSUME NEW a \in ActionId, VerbThrows(a) PROVE CallbackInv'
  BY <1>3 DEF VerbThrows
<1>4. ASSUME NEW a \in ActionId, VerbAccepted(a) PROVE CallbackInv'
  BY <1>4 DEF VerbAccepted
<1>5. ASSUME NEW a \in ActionId, VerbRefused(a) PROVE CallbackInv'
  BY <1>5 DEF VerbRefused
<1>6. ASSUME NEW a \in ActionId, ResolveGone(a) PROVE CallbackInv'
  BY <1>6 DEF ResolveGone, Complete
<1>7. ASSUME NEW a \in ActionId, SetFilter(a) PROVE CallbackInv'
  BY <1>7 DEF SetFilter
<1>8. ASSUME NEW a \in ActionId, SetResolveOn(a) PROVE CallbackInv'
  BY <1>8 DEF SetResolveOn
<1>9. ASSUME NEW a \in ActionId, OnCompleted(a) PROVE CallbackInv'
  BY <1>9 DEF OnCompleted
<1>10. ASSUME NEW a \in ActionId, HandleResponse(a) PROVE CallbackInv'
  BY <1>10, TailFacts DEF HandleResponse
<1>11. CASE FindAction
  BY <1>11, TailFacts DEF FindAction
<1>12. CASE UseAction
  BY <1>12 DEF UseAction, IgnoreEvent, ResolveOnPayload, UpdateCollect,
       UpdateAction, Matches, TerminalWord, Complete
<1>13. CASE UnregisterAction
  BY <1>13 DEF UnregisterAction
<1>14. CASE UpdateEnded
  BY <1>14, TailFacts DEF UpdateEnded
<1>15. CASE ResolveAllActions
  BY <1>15 DEF ResolveAllActions, Complete
<1>16. CASE UnregisterCall
  BY <1>16 DEF UnregisterCall
<1>17. CASE ConnectionLost
  BY <1>17 DEF ConnectionLost, Reject
<1>18. CASE DisconnectRejects
  BY <1>18 DEF DisconnectRejects, Reject
<1>19. CASE
       \/ \E a \in ActionId : PeerResponds(a) \/ PeerSendsEvent(a)
       \/ PeerEndsCall
       \/ UNCHANGED vars
  <2>1. UNCHANGED <<pc, actions, completed, callback, fired, recv, held>>
    BY <1>19 DEF PeerResponds, PeerSendsEvent, PeerSays, PeerEndsCall, vars
  <2> QED
    BY <2>1
<1> QED BY <1>1, <1>2, <1>3, <1>4, <1>5, <1>6, <1>7, <1>8, <1>9, <1>10, <1>11,
     <1>12, <1>13, <1>14, <1>15, <1>16, <1>17, <1>18, <1>19
     DEF Next, Verb, ReceiveThread

-----------------------------------------------------------------------------
\* The strengthening is inductive.
THEOREM Inductive == Spec => []IInv
<1>1. Init => IInv
  BY CallActionsAssumption
     DEF Init, IInv, TypeOK, Message, NoMessage, HeldOK, InboxInv, InboxSent,
         InboxOrder, EndMatches, SentLate, RefusalIsLast, ActionInv,
         KeptOrDone, UnregistersDone, Accepted, AfterEnd, ActionPointerLive,
         CallbackInv, DoneIsOut, FoundIsFresh, CallbackLast,
         CallbackExactlyOnce, Response
<1>2. IInv /\ [Next]_vars => IInv'
  BY TypeStep, InboxStep, ActionStep, CallbackStep DEF IInv
<1> QED
  BY <1>1, <1>2, PTL DEF Spec

\* Every variable has its type, for any actions of any kind.
THEOREM TypeCorrect == Spec => []TypeOK
<1>1. IInv => TypeOK
  BY DEF IInv
<1> QED
  BY <1>1, Inductive, PTL

\* The end of the call completes every action a verb has returned, or will.
THEOREM TheEndSettlesAll == Spec => []EndedSettlesAll
<1>1. IInv => EndedSettlesAll
  BY DEF IInv, ActionInv, AfterEnd, Accepted, EndedSettlesAll, Handled
<1> QED
  BY <1>1, Inductive, PTL

\* The pointer from find_action is that of an entry in the map, or the RPC of
\* its verb was rejected.
THEOREM ThePointerIsLive == Spec => []ActionPointerLive
<1>1. IInv => ActionPointerLive
  BY DEF IInv, ActionInv
<1> QED
  BY <1>1, Inductive, PTL

\* A callback runs once, whoever completes the action.
THEOREM CallbacksRunOnce == Spec => []CallbackExactlyOnce
<1>1. IInv => CallbackExactlyOnce
  BY DEF IInv, CallbackInv
<1> QED
  BY <1>1, Inductive, PTL

-----------------------------------------------------------------------------
(* The contract of the handles *)

\* What the receive thread works on was said by the peer: events of the kinds
\* that exist for the action, "gone" and the end of the call after it ended.
SaidByPeer ==
  /\ recv = "found" => held.kind \in sent[held.about]
  /\ recv \in {"ending", "ended"} => ended = "here"
  /\ \A a \in ActionId : "gone" \in sent[a] => ended # "no"
  /\ \A a \in ActionId : "play" \in sent[a] => KindOf[a] = "collect"

\* What the peer says, it says in this order.
LEMMA PeerKeepsSaid ==
  ASSUME IInv, SaidByPeer, NEW a \in ActionId,
         PeerResponds(a) \/ PeerSendsEvent(a)
  PROVE  SaidByPeer' /\ (\A b \in ActionId : sent[b] \subseteq sent'[b])
         /\ UNCHANGED <<done, callback, ended>>
<1>1. PICK kind \in Response \union Event : PeerSays(a, kind)
  BY DEF PeerResponds, PeerSendsEvent, Response, Event
<1>2. /\ kind = "gone" => ended # "no"
      /\ kind = "play" => KindOf[a] = "collect"
  <2>1. sent \in [ActionId -> SUBSET (Response \union Event)]
    BY DEF IInv, TypeOK
  <2>2. kind \notin sent[a] /\ kind \in sent'[a]
        /\ sent'[a] = sent[a] \union {kind}
    BY <1>1, <2>1 DEF PeerSays
  <2>3. ASSUME NEW k, PeerSays(a, k) PROVE k = kind
    BY <2>1, <2>2, <2>3 DEF PeerSays
  <2> QED
    BY <2>3 DEF PeerResponds, PeerSendsEvent
<1>3. /\ \A b \in ActionId :
           sent'[b] = IF b = a THEN sent[b] \union {kind} ELSE sent[b]
      /\ UNCHANGED <<done, callback, recv, held, ended>>
  BY <1>1 DEF PeerSays, IInv, TypeOK, recvThread
<1>4. recv = "found" => held.about \in ActionId
  BY DEF IInv, HeldOK
<1> QED
  BY <1>2, <1>3, <1>4 DEF SaidByPeer

\* Every step keeps it.
LEMMA SaidStep == ASSUME IInv, SaidByPeer, [Next]_vars PROVE SaidByPeer'
<1> USE DEF SaidByPeer, verb, done, peer, recvThread
<1>1. ASSUME NEW a \in ActionId,
             \/ RegisterAction(a) \/ Send(a) \/ Verb(a) \/ OnCompleted(a)
             \/ HandleResponse(a)
      PROVE  SaidByPeer'
  BY <1>1 DEF RegisterAction, Send, Verb, VerbThrows, VerbAccepted, VerbRefused,
       ResolveGone, SetFilter, SetResolveOn, OnCompleted, HandleResponse
<1>2. ASSUME NEW a \in ActionId, PeerResponds(a) \/ PeerSendsEvent(a)
      PROVE  SaidByPeer'
  BY <1>2, PeerKeepsSaid
<1>3. CASE PeerEndsCall
  BY <1>3 DEF PeerEndsCall
<1>4. CASE FindAction
  <2>1. Head(inbox) = inbox[1] /\ 1 \in 1 .. Len(inbox)
    BY <1>4, TailFacts DEF FindAction, IInv
  <2>2. Head(inbox).kind \in sent[Head(inbox).about]
    BY <1>4, <2>1 DEF FindAction, IInv, InboxInv, InboxSent, Event
  <2> QED
    BY <1>4, <2>2 DEF FindAction
<1>5. CASE UseAction \/ UnregisterAction
  BY <1>5 DEF UseAction, IgnoreEvent, ResolveOnPayload, UpdateCollect,
       UpdateAction, UnregisterAction
<1>6. CASE UpdateEnded \/ ResolveAllActions \/ UnregisterCall
  BY <1>6 DEF UpdateEnded, ResolveAllActions, UnregisterCall
<1>7. CASE ConnectionLost \/ DisconnectRejects
  BY <1>7 DEF ConnectionLost, DisconnectRejects
<1>8. CASE UNCHANGED vars
  BY <1>8 DEF vars
<1> QED
  BY <1>1, <1>2, <1>3, <1>4, <1>5, <1>6, <1>7, <1>8 DEF Next, ReceiveThread

\* Completing actions that are settled is a step of the contract or none, if
\* those that were complete have no callback to call again.
LEMMA CompleteKeepsContract ==
  ASSUME IInv, NEW S \in SUBSET ActionId, Complete(S),
         UNCHANGED <<callback, sent, ended>>,
         S \intersect Once \subseteq Settled,
         \A a \in S \intersect Once : a \notin completed \/ a \notin callback
  PROVE  [Completion!Next]_(Completion!vars)
<1> DEFINE T == (S \intersect Once) \ completed
           F == [a \in Once |-> fired[a]]
<1>1. Settled' = Settled
  BY DEF Settled
<1>2. completed' = completed \union S
      /\ fired' = [a \in ActionId |-> IF a \in S \intersect callback
                                        THEN fired[a] + 1 ELSE fired[a]]
  BY DEF Complete
<1>3. Once \subseteq ActionId
  BY DEF Once
<1>4. (completed \intersect Once)' = (completed \intersect Once) \union T
  BY <1>2 DEF Once
<1>5. [a \in Once |-> fired[a]]'
        = [h \in Once |-> IF h \in T \intersect (callback \intersect Once)
                            THEN F[h] + 1 ELSE F[h]]
  <2>1. ASSUME NEW h \in Once
        PROVE  fired'[h] = IF h \in T \intersect (callback \intersect Once)
                             THEN F[h] + 1 ELSE F[h]
    BY <1>2, <1>3
  <2> QED
    BY <2>1 DEF Once
<1>6. T \subseteq Settled \ (completed \intersect Once) /\ T \in SUBSET Once
  OBVIOUS
<1>7. (callback \intersect Once)' = callback \intersect Once
  BY DEF Once
<1>8. PICK U \in SUBSET Once : U = T
  BY <1>6
<1> HIDE DEF T, F
<1>9. Completion!Complete(U)
  BY <1>1, <1>4, <1>5, <1>6, <1>7, <1>8 DEF Completion!Complete, F
<1> QED
  BY <1>9 DEF Completion!Next

\* Each place that completes an action does so for what the peer said.
LEMMA CompletersKeepContract ==
  ASSUME IInv, SaidByPeer,
         \/ \E a \in ActionId : ResolveGone(a)
         \/ UseAction \/ ResolveAllActions
  PROVE  [Completion!Next]_(Completion!vars)
<1>1. UNCHANGED <<callback, sent, ended>>
  BY DEF ResolveGone, UseAction, ResolveAllActions, peer
<1>2. ASSUME UNCHANGED done PROVE [Completion!Next]_(Completion!vars)
  BY <1>1, <1>2 DEF done, Completion!vars, Settled, Once
<1>3. ASSUME NEW a \in ActionId, ResolveGone(a)
      PROVE  [Completion!Next]_(Completion!vars)
  <2>1. ended # "no"
    BY <1>3 DEF ResolveGone, IInv, ActionInv, KeptOrDone, InboxInv, SentLate,
         SaidByPeer, Response
  <2>2. a \notin callback
    BY <1>3 DEF ResolveGone, IInv, CallbackInv, CallbackLast
  <2>3. Complete({a}) /\ {a} \in SUBSET ActionId
    BY <1>3 DEF ResolveGone
  <2>4. {a} \intersect Once \subseteq Settled
    BY <2>1 DEF Settled
  <2> QED
    BY <1>1, <2>2, <2>3, <2>4, CompleteKeepsContract
<1>4. CASE UseAction
  <2> DEFINE a == held.about
  <2>1. recv = "found" /\ a \in ActionId
        /\ held.kind \in sent[a] /\ held.kind \in Event
    BY <1>4 DEF UseAction, SaidByPeer, IInv, HeldOK
  <2>2. CASE UNCHANGED done
    BY <1>2, <2>2
  <2>3. CASE Complete({a}) /\ (TerminalWord(a, held.kind) \/ held.kind = "final")
    <3>1. a \in Once => a \notin completed
      BY <2>1 DEF IInv, CallbackInv, FoundIsFresh, Once
    <3>2. a \in Once => KindOf[a] \in {"plain", "detect"}
      BY <2>1, CallActionsAssumption DEF CallActionsAssumption, Once
    <3>3. a \in Once => held.kind \in Settling(a)
      BY <2>1, <2>3, <3>2 DEF TerminalWord, Settling, SaidByPeer, Event
    <3>4. {a} \intersect Once \subseteq Settled
      BY <2>1, <3>3 DEF Settled
    <3> QED
      BY <1>1, <2>1, <2>3, <3>1, <3>4, CompleteKeepsContract
  <2>4. \/ UNCHANGED done
        \/ Complete({a}) /\ (TerminalWord(a, held.kind) \/ held.kind = "final")
    BY <1>4 DEF UseAction, IgnoreEvent, ResolveOnPayload, UpdateCollect,
         UpdateAction
  <2> QED
    BY <2>2, <2>3, <2>4
<1>5. CASE ResolveAllActions
  <2>1. ended = "here"
    BY <1>5 DEF ResolveAllActions, SaidByPeer
  <2>2. Complete(actions \ completed) /\ actions \ completed \in SUBSET ActionId
    BY <1>5 DEF ResolveAllActions, IInv, TypeOK
  <2>3. (actions \ completed) \intersect Once \subseteq Settled
    BY <2>1 DEF Settled
  <2> QED
    BY <1>1, <2>2, <2>3, CompleteKeepsContract
<1> QED
  BY <1>3, <1>4, <1>5

\* An action that is no collect does what the contract of the handles says: it
\* completes once, for an event of its own or for the end of the call, and its
\* callback runs once.
THEOREM ActionsKeepContract == Spec => ImplementsCompletion
<1>1. Init => Completion!Init /\ SaidByPeer
  <2>1. Init => Completion!Init
    BY DEF Init, Completion!Init, Settled, Once
  <2>2. Init => SaidByPeer
    BY DEF Init, SaidByPeer
  <2> QED
    BY <2>1, <2>2
<1>2. IInv /\ SaidByPeer /\ [Next]_vars
        => SaidByPeer' /\ [Completion!Next]_(Completion!vars)
  <2> SUFFICES ASSUME IInv, SaidByPeer, [Next]_vars
               PROVE  [Completion!Next]_(Completion!vars)
    BY SaidStep
  <2>1. ASSUME UNCHANGED <<done, callback, sent, ended>>
        PROVE  [Completion!Next]_(Completion!vars)
    BY <2>1 DEF done, Completion!vars, Settled, Once
  <2>2. CASE \/ \E a \in ActionId : ResolveGone(a)
             \/ UseAction \/ ResolveAllActions
    BY <2>2, CompletersKeepContract
  <2>3. ASSUME NEW a \in ActionId, OnCompleted(a)
        PROVE  [Completion!Next]_(Completion!vars)
    <3>1. UNCHANGED <<completed, sent, ended>> /\ a \notin callback
          /\ callback' = callback \union {a}
          /\ fired' = [fired EXCEPT ![a] = IF a \in completed THEN @ + 1 ELSE @]
          /\ fired \in [ActionId -> Nat]
      BY <2>3 DEF OnCompleted, peer, IInv, TypeOK
    <3>2. Settled' = Settled /\ (completed \intersect Once)' = completed \intersect Once
          /\ Once \subseteq ActionId
      BY <3>1 DEF Settled, Once
    <3>3. CASE a \in Once
      <4>1. (callback \intersect Once)' = (callback \intersect Once) \union {a}
        BY <3>1, <3>3 DEF Once
      <4>2. [b \in Once |-> fired[b]]'
              = [[b \in Once |-> fired[b]] EXCEPT
                   ![a] = IF a \in completed \intersect Once THEN @ + 1 ELSE @]
        BY <3>1, <3>2, <3>3 DEF Once
      <4>3. Completion!OnCompleted(a)
        BY <3>1, <3>2, <4>1, <4>2 DEF Completion!OnCompleted
      <4> QED
        BY <3>3, <4>3 DEF Completion!Next
    <3>4. CASE a \notin Once
      <4>1. (callback \intersect Once)' = callback \intersect Once
        BY <3>1, <3>4 DEF Once
      <4>2. [b \in Once |-> fired[b]]' = [b \in Once |-> fired[b]]
        <5>1. \A b \in Once : fired'[b] = fired[b]
          BY <3>1, <3>2, <3>4
        <5> QED
          BY <5>1 DEF Once
      <4> QED
        BY <3>2, <4>1, <4>2 DEF Completion!vars
    <3> QED
      BY <3>3, <3>4
  <2>4. ASSUME Settled \subseteq Settled', UNCHANGED <<done, callback>>
        PROVE  [Completion!Next]_(Completion!vars)
    <3>1. Settled' \in SUBSET Once
      BY DEF Settled, Once
    <3>2. Completion!Settle
      BY <2>4, <3>1 DEF Completion!Settle, done, Once
    <3> QED
      BY <3>2 DEF Completion!Next
  <2>5. ASSUME NEW a \in ActionId, PeerResponds(a) \/ PeerSendsEvent(a)
        PROVE  [Completion!Next]_(Completion!vars)
    <3>1. (\A b \in ActionId : sent[b] \subseteq sent'[b])
          /\ UNCHANGED <<done, callback, ended>>
      BY <2>5, PeerKeepsSaid
    <3>2. Settled \subseteq Settled'
      BY <3>1 DEF Settled, Once, Settling
    <3> QED
      BY <2>4, <3>1, <3>2
  <2>6. CASE PeerEndsCall
    BY <2>4, <2>6 DEF PeerEndsCall, Settled, Once
  <2>7. CASE UpdateEnded
    BY <2>4, <2>7 DEF UpdateEnded, Settled, Once
  <2>8. \/ UNCHANGED <<done, callback, sent, ended>>
        \/ (\E a \in ActionId : ResolveGone(a)) \/ UseAction \/ ResolveAllActions
        \/ \E a \in ActionId : OnCompleted(a)
        \/ \E a \in ActionId : PeerResponds(a) \/ PeerSendsEvent(a)
        \/ PeerEndsCall \/ UpdateEnded
    BY DEF Next, vars, done, peer, verb, RegisterAction, Send, Verb, VerbThrows,
         VerbAccepted, VerbRefused, SetFilter, SetResolveOn, ReceiveThread,
         HandleResponse, FindAction, UnregisterAction, UnregisterCall,
         ConnectionLost, DisconnectRejects
  <2> QED
    BY <2>1, <2>2, <2>3, <2>5, <2>6, <2>7, <2>8
<1> QED
  BY <1>1, <1>2, Inductive, PTL DEF Spec, Completion!Spec, ImplementsCompletion
=============================================================================
