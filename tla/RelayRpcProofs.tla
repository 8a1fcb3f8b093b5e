--------------------------- MODULE RelayRpcProofs ---------------------------
(***************************************************************************)
(* Proofs about RelayRpc, for any set of requests and any number of        *)
(* sockets: the invariants its runs check, and that it implements          *)
(* RequestContract.                                                        *)
(*                                                                         *)
(* None of the invariants is inductive alone.  That the receive thread     *)
(* never meets a satisfied promise (AbortNeedsDisconnect) rests on where a *)
(* request can be: on the wire, in a response on its way, or in the hands  *)
(* of the receive thread, and in one of these at a time.  That only the    *)
(* silence of the peer costs a deadline (OnlySilenceTimesOut) rests on     *)
(* NoLostWaiter: on_ws_close rejects everybody it finds in the map, so it  *)
(* must be that everybody who waits is there; and on MainShape: run() and  *)
(* reconnect() replace a socket only after that.                           *)
(***************************************************************************)
EXTENDS RelayRpc, TLAPS

\* The receive thread holds an entry only between look-up and set_value.
HeldShape ==
  /\ recv # "deliver" => held = {}
  /\ \A r, s \in held : r = s

\* A request is in one place at a time, and nowhere before it is sent.
OnePlace ==
  /\ wire \intersect inbox = {}
  /\ held \intersect (wire \union inbox) = {}
  /\ \A r \in wire \union inbox \union held : pc[r] \notin {"idle", "registered"}

\* Nothing fulfils the promise of a request not yet registered.
IdleIsUnset == \A r \in Req : pc[r] = "idle" => promise[r] = "unset"

\* Until someone disconnects, a promise still in the map whose response may be
\* on its way is unset; so is the one the receive thread holds.
UnsetUntilDelivered ==
  disc = "no" =>
    /\ \A r \in pending : pc[r] = "registered" \/ r \in wire \union inbox
                            => promise[r] = "unset"
    /\ \A r \in held : promise[r] = "unset"

\* Until someone disconnects, run() makes a new socket only where the last one
\* is closed, and ws_ is null only when connect() has failed.
MainShape ==
  disc = "no" =>
    /\ main = "create" => ~connected
    /\ ~connected /\ main \notin {"auth", "reauth"} => ~open
    /\ recv = "null" => main = "returned"

\* Where answers and outcomes come from.
Lost == ~open \/ session > 1 \/ disc # "no"

Provenance ==
  /\ \A r \in wire : answer[r] = "none"
  /\ \A r \in inbox \union held : answer[r] \in Answer
  /\ \A r \in Req : pc[r] \in {"idle", "registered"} => answer[r] = "none"
  /\ \A r \in Req : promise[r] \in Answer => promise[r] = answer[r]
  /\ \A r \in Req : promise[r] = "rejected" => Lost
  /\ \A r \in Req : pc[r] = "ready" => promise[r] # "unset"
  /\ \A r \in Req : pc[r] # "done" => outcome[r] = "none"
  /\ recv = "reject" => Lost

IInv ==
  /\ TypeOK
  /\ HeldShape
  /\ OnePlace
  /\ EntryHasOwner
  /\ NoLostWaiter
  /\ IdleIsUnset
  /\ UnsetUntilDelivered
  /\ MainShape
  /\ OnlySilenceTimesOut
  /\ AbortNeedsDisconnect
  /\ Provenance

-----------------------------------------------------------------------------
\* The inductive invariant holds: every invariant of the runs at once, with
\* the three facts on where a request is that make them inductive.
THEOREM Inductive == Spec => []IInv
<1>1. Init => IInv
  <2> SUFFICES ASSUME Init PROVE IInv
    OBVIOUS
  <2>1. TypeOK
    <3>1. 1 \in 1 .. MaxSessions
      BY MaxSessionsAssumption
    <3>2. QED
      BY <3>1 DEF Init, TypeOK, Value, Answer, Failure
  <2>2. HeldShape /\ OnePlace /\ EntryHasOwner /\ NoLostWaiter /\ IdleIsUnset
    BY DEF Init, HeldShape, OnePlace, EntryHasOwner, NoLostWaiter, IdleIsUnset
  <2>3. UnsetUntilDelivered /\ OnlySilenceTimesOut /\ AbortNeedsDisconnect
    BY DEF Init, UnsetUntilDelivered, OnlySilenceTimesOut, AbortNeedsDisconnect
  <2>4. Provenance
    BY DEF Init, Provenance, Answer
  <2>5. MainShape
    BY DEF Init, MainShape
  <2> QED
    BY <2>1, <2>2, <2>3, <2>4, <2>5 DEF IInv
<1>2. IInv /\ [Next]_vars => IInv'
  <2> SUFFICES ASSUME IInv, [Next]_vars PROVE IInv'
    OBVIOUS
  <2> USE MaxSessionsAssumption DEF IInv, TypeOK, Value, Answer, Failure,
         callers, peer, socket, thread
  <2>1. ASSUME NEW r \in Req, Register(r) PROVE IInv'
    <3>1. TypeOK'
      BY <2>1 DEF Register
    <3>2. HeldShape'
      BY <2>1 DEF Register, HeldShape
    <3>3. OnePlace'
      BY <2>1 DEF Register, OnePlace, HeldShape
    <3>4. EntryHasOwner'
      BY <2>1 DEF Register, EntryHasOwner, Inside
    <3>5. NoLostWaiter'
      BY <2>1 DEF Register, NoLostWaiter, HeldShape, OnePlace
    <3>6. IdleIsUnset'
      BY <2>1 DEF Register, IdleIsUnset, EntryHasOwner, Inside, OnePlace
    <3>7. UnsetUntilDelivered'
      BY <2>1 DEF Register, UnsetUntilDelivered, IdleIsUnset, HeldShape,
          OnePlace, EntryHasOwner, Inside
    <3>8. MainShape'
      BY <2>1 DEF Register, MainShape
    <3>9. OnlySilenceTimesOut'
      BY <2>1 DEF Register, OnlySilenceTimesOut, MainShape, NoLostWaiter,
          HeldShape
    <3>10. AbortNeedsDisconnect'
      BY <2>1 DEF Register, AbortNeedsDisconnect, MainShape,
          UnsetUntilDelivered
    <3>11. Provenance'
      BY <2>1 DEF Register, Provenance, Lost, HeldShape, OnePlace
    <3> QED
      BY <3>1, <3>2, <3>3, <3>4, <3>5, <3>6, <3>7, <3>8, <3>9, <3>10, <3>11
  <2>2. ASSUME NEW r \in Req, SendOk(r) PROVE IInv'
    <3>1. TypeOK'
      BY <2>2 DEF SendOk
    <3>2. HeldShape'
      BY <2>2 DEF SendOk, HeldShape
    <3>3. OnePlace'
      BY <2>2 DEF SendOk, OnePlace, HeldShape
    <3>4. EntryHasOwner'
      BY <2>2 DEF SendOk, EntryHasOwner, Inside
    <3>5. NoLostWaiter'
      BY <2>2 DEF SendOk, NoLostWaiter, HeldShape, OnePlace
    <3>6. IdleIsUnset'
      BY <2>2 DEF SendOk, IdleIsUnset, EntryHasOwner, Inside, OnePlace
    <3>7. UnsetUntilDelivered'
      BY <2>2 DEF SendOk, UnsetUntilDelivered, IdleIsUnset, HeldShape,
          OnePlace, EntryHasOwner, Inside
    <3>8. MainShape'
      BY <2>2 DEF SendOk, MainShape
    <3>9. OnlySilenceTimesOut'
      BY <2>2 DEF SendOk, OnlySilenceTimesOut, MainShape, NoLostWaiter,
          HeldShape
    <3>10. AbortNeedsDisconnect'
      BY <2>2 DEF SendOk, AbortNeedsDisconnect, MainShape, UnsetUntilDelivered
    <3>11. Provenance'
      BY <2>2 DEF SendOk, Provenance, Lost, HeldShape, OnePlace
    <3> QED
      BY <3>1, <3>2, <3>3, <3>4, <3>5, <3>6, <3>7, <3>8, <3>9, <3>10, <3>11
  <2>3. ASSUME NEW r \in Req, SendFails(r) PROVE IInv'
    BY <2>3 DEF SendFails, HeldShape, OnePlace, EntryHasOwner, NoLostWaiter,
        IdleIsUnset, UnsetUntilDelivered, MainShape, OnlySilenceTimesOut,
        AbortNeedsDisconnect, Provenance, Lost, Inside
  <2>4. ASSUME NEW r \in Req, EraseUnsent(r) PROVE IInv'
    <3>1. TypeOK'
      BY <2>4 DEF EraseUnsent
    <3>2. HeldShape'
      BY <2>4 DEF EraseUnsent, HeldShape
    <3>3. OnePlace'
      BY <2>4 DEF EraseUnsent, OnePlace, HeldShape
    <3>4. EntryHasOwner'
      BY <2>4 DEF EraseUnsent, EntryHasOwner, Inside
    <3>5. NoLostWaiter'
      BY <2>4 DEF EraseUnsent, NoLostWaiter, HeldShape, OnePlace
    <3>6. IdleIsUnset'
      BY <2>4 DEF EraseUnsent, IdleIsUnset, EntryHasOwner, Inside, OnePlace
    <3>7. UnsetUntilDelivered'
      BY <2>4 DEF EraseUnsent, UnsetUntilDelivered, IdleIsUnset, HeldShape,
          OnePlace, EntryHasOwner, Inside
    <3>8. MainShape'
      BY <2>4 DEF EraseUnsent, MainShape
    <3>9. OnlySilenceTimesOut'
      BY <2>4 DEF EraseUnsent, OnlySilenceTimesOut, MainShape, NoLostWaiter,
          HeldShape
    <3>10. AbortNeedsDisconnect'
      BY <2>4 DEF EraseUnsent, AbortNeedsDisconnect, MainShape,
          UnsetUntilDelivered
    <3>11. Provenance'
      BY <2>4 DEF EraseUnsent, Provenance, Lost, HeldShape, OnePlace
    <3> QED
      BY <3>1, <3>2, <3>3, <3>4, <3>5, <3>6, <3>7, <3>8, <3>9, <3>10, <3>11
  <2>5. ASSUME NEW r \in Req, Wake(r) PROVE IInv'
    BY <2>5 DEF Wake, HeldShape, OnePlace, EntryHasOwner, NoLostWaiter,
        IdleIsUnset, UnsetUntilDelivered, MainShape, OnlySilenceTimesOut,
        AbortNeedsDisconnect, Provenance, Lost, Inside
  <2>6. ASSUME NEW r \in Req, Expire(r) PROVE IInv'
    BY <2>6 DEF Expire, HeldShape, OnePlace, EntryHasOwner, NoLostWaiter,
        IdleIsUnset, UnsetUntilDelivered, MainShape, OnlySilenceTimesOut,
        AbortNeedsDisconnect, Provenance, Lost, Inside
  <2>7. ASSUME NEW r \in Req, Finish(r) PROVE IInv'
    <3>1. TypeOK'
      BY <2>7 DEF Finish, Provenance
    <3>2. HeldShape'
      BY <2>7 DEF Finish, HeldShape
    <3>3. OnePlace'
      BY <2>7 DEF Finish, OnePlace, HeldShape
    <3>4. EntryHasOwner'
      BY <2>7 DEF Finish, EntryHasOwner, Inside
    <3>5. NoLostWaiter'
      BY <2>7 DEF Finish, NoLostWaiter, HeldShape, OnePlace
    <3>6. IdleIsUnset'
      BY <2>7 DEF Finish, IdleIsUnset, EntryHasOwner, Inside, OnePlace
    <3>7. UnsetUntilDelivered'
      BY <2>7 DEF Finish, UnsetUntilDelivered, IdleIsUnset, HeldShape,
          OnePlace, EntryHasOwner, Inside
    <3>8. MainShape'
      BY <2>7 DEF Finish, MainShape
    <3>9. OnlySilenceTimesOut'
      BY <2>7 DEF Finish, OnlySilenceTimesOut, MainShape, NoLostWaiter,
          HeldShape
    <3>10. AbortNeedsDisconnect'
      BY <2>7 DEF Finish, AbortNeedsDisconnect, MainShape, UnsetUntilDelivered
    <3>11. Provenance'
      BY <2>7 DEF Finish, Provenance, Lost, HeldShape, OnePlace
    <3> QED
      BY <3>1, <3>2, <3>3, <3>4, <3>5, <3>6, <3>7, <3>8, <3>9, <3>10, <3>11
  <2>8. ASSUME NEW r \in Req, PeerAnswers(r) PROVE IInv'
    <3>1. TypeOK'
      BY <2>8 DEF PeerAnswers
    <3>2. HeldShape'
      BY <2>8 DEF PeerAnswers, HeldShape
    <3>3. OnePlace'
      BY <2>8 DEF PeerAnswers, OnePlace, HeldShape
    <3>4. EntryHasOwner'
      BY <2>8 DEF PeerAnswers, EntryHasOwner, Inside
    <3>5. NoLostWaiter'
      BY <2>8 DEF PeerAnswers, NoLostWaiter, HeldShape, OnePlace
    <3>6. IdleIsUnset'
      BY <2>8 DEF PeerAnswers, IdleIsUnset, EntryHasOwner, Inside, OnePlace
    <3>7. UnsetUntilDelivered'
      BY <2>8 DEF PeerAnswers, UnsetUntilDelivered, IdleIsUnset, HeldShape,
          OnePlace, EntryHasOwner, Inside
    <3>8. MainShape'
      BY <2>8 DEF PeerAnswers, MainShape
    <3>9. OnlySilenceTimesOut'
      BY <2>8 DEF PeerAnswers, OnlySilenceTimesOut, MainShape, NoLostWaiter,
          HeldShape
    <3>10. AbortNeedsDisconnect'
      BY <2>8 DEF PeerAnswers, AbortNeedsDisconnect, MainShape,
          UnsetUntilDelivered
    <3>11. Provenance'
      BY <2>8 DEF PeerAnswers, Provenance, Lost, HeldShape, OnePlace
    <3> QED
      BY <3>1, <3>2, <3>3, <3>4, <3>5, <3>6, <3>7, <3>8, <3>9, <3>10, <3>11
  <2>9. ASSUME NEW r \in Req, FindPending(r) PROVE IInv'
    <3>1. TypeOK'
      BY <2>9 DEF FindPending
    <3>2. HeldShape'
      BY <2>9 DEF FindPending, HeldShape
    <3>3. OnePlace'
      BY <2>9 DEF FindPending, OnePlace, HeldShape
    <3>4. EntryHasOwner'
      BY <2>9 DEF FindPending, EntryHasOwner, Inside
    <3>5. NoLostWaiter'
      BY <2>9 DEF FindPending, NoLostWaiter, HeldShape, OnePlace
    <3>6. IdleIsUnset'
      BY <2>9 DEF FindPending, IdleIsUnset, EntryHasOwner, Inside, OnePlace
    <3>7. UnsetUntilDelivered'
      BY <2>9 DEF FindPending, UnsetUntilDelivered, IdleIsUnset, HeldShape,
          OnePlace, EntryHasOwner, Inside
    <3>8. MainShape'
      BY <2>9 DEF FindPending, MainShape
    <3>9. OnlySilenceTimesOut'
      BY <2>9 DEF FindPending, OnlySilenceTimesOut, MainShape, NoLostWaiter,
          HeldShape
    <3>10. AbortNeedsDisconnect'
      BY <2>9 DEF FindPending, AbortNeedsDisconnect, MainShape,
          UnsetUntilDelivered
    <3>11. Provenance'
      BY <2>9 DEF FindPending, Provenance, Lost, HeldShape, OnePlace
    <3> QED
      BY <3>1, <3>2, <3>3, <3>4, <3>5, <3>6, <3>7, <3>8, <3>9, <3>10, <3>11
  <2>10. ASSUME NEW r \in Req, SetValue(r) PROVE IInv'
    <3>1. TypeOK'
      BY <2>10 DEF SetValue, Provenance
    <3>2. HeldShape'
      BY <2>10 DEF SetValue, HeldShape
    <3>3. OnePlace'
      BY <2>10 DEF SetValue, OnePlace, HeldShape
    <3>4. EntryHasOwner'
      BY <2>10 DEF SetValue, EntryHasOwner, Inside
    <3>5. NoLostWaiter'
      BY <2>10 DEF SetValue, NoLostWaiter, HeldShape, OnePlace
    <3>6. IdleIsUnset'
      BY <2>10 DEF SetValue, IdleIsUnset, EntryHasOwner, Inside, OnePlace
    <3>7. UnsetUntilDelivered'
      BY <2>10 DEF SetValue, UnsetUntilDelivered, IdleIsUnset, HeldShape,
          OnePlace, EntryHasOwner, Inside
    <3>8. MainShape'
      BY <2>10 DEF SetValue, MainShape
    <3>9. OnlySilenceTimesOut'
      BY <2>10 DEF SetValue, OnlySilenceTimesOut, MainShape, NoLostWaiter,
          HeldShape
    <3>10. AbortNeedsDisconnect'
      BY <2>10 DEF SetValue, AbortNeedsDisconnect, MainShape,
          UnsetUntilDelivered
    <3>11. Provenance'
      BY <2>10 DEF SetValue, Provenance, Lost, HeldShape, OnePlace
    <3> QED
      BY <3>1, <3>2, <3>3, <3>4, <3>5, <3>6, <3>7, <3>8, <3>9, <3>10, <3>11
  <2>11. CASE SocketCloses
    <3>1. TypeOK'
      BY <2>11 DEF SocketCloses
    <3>2. HeldShape'
      BY <2>11 DEF SocketCloses, HeldShape
    <3>3. OnePlace'
      BY <2>11 DEF SocketCloses, OnePlace, HeldShape
    <3>4. EntryHasOwner'
      BY <2>11 DEF SocketCloses, EntryHasOwner, Inside
    <3>5. NoLostWaiter'
      BY <2>11 DEF SocketCloses, NoLostWaiter, HeldShape, OnePlace
    <3>6. IdleIsUnset'
      BY <2>11 DEF SocketCloses, IdleIsUnset, EntryHasOwner, Inside, OnePlace
    <3>7. UnsetUntilDelivered'
      BY <2>11 DEF SocketCloses, UnsetUntilDelivered, IdleIsUnset, HeldShape,
          OnePlace, EntryHasOwner, Inside
    <3>8. MainShape'
      BY <2>11 DEF SocketCloses, MainShape
    <3>9. OnlySilenceTimesOut'
      BY <2>11 DEF SocketCloses, OnlySilenceTimesOut, MainShape, NoLostWaiter,
          HeldShape
    <3>10. AbortNeedsDisconnect'
      BY <2>11 DEF SocketCloses, AbortNeedsDisconnect, MainShape,
          UnsetUntilDelivered
    <3>11. Provenance'
      BY <2>11 DEF SocketCloses, Provenance, Lost, HeldShape, OnePlace
    <3> QED
      BY <3>1, <3>2, <3>3, <3>4, <3>5, <3>6, <3>7, <3>8, <3>9, <3>10, <3>11
  <2>12. CASE OnWsClose
    <3>1. TypeOK'
      BY <2>12 DEF OnWsClose, RejectAll
    <3>2. HeldShape'
      BY <2>12 DEF OnWsClose, RejectAll, HeldShape
    <3>3. OnePlace'
      BY <2>12 DEF OnWsClose, RejectAll, OnePlace, HeldShape
    <3>4. EntryHasOwner'
      BY <2>12 DEF OnWsClose, RejectAll, EntryHasOwner, Inside
    <3>5. NoLostWaiter'
      BY <2>12 DEF OnWsClose, RejectAll, NoLostWaiter, HeldShape, OnePlace
    <3>6. IdleIsUnset'
      BY <2>12 DEF OnWsClose, RejectAll, IdleIsUnset, EntryHasOwner, Inside,
          OnePlace
    <3>7. UnsetUntilDelivered'
      BY <2>12 DEF OnWsClose, RejectAll, UnsetUntilDelivered, IdleIsUnset,
          HeldShape, OnePlace, EntryHasOwner, Inside
    <3>8. MainShape'
      BY <2>12 DEF OnWsClose, RejectAll, MainShape
    <3>9. OnlySilenceTimesOut'
      BY <2>12 DEF OnWsClose, RejectAll, OnlySilenceTimesOut, MainShape,
          NoLostWaiter, HeldShape
    <3>10. AbortNeedsDisconnect'
      BY <2>12 DEF OnWsClose, RejectAll, AbortNeedsDisconnect, MainShape,
          UnsetUntilDelivered
    <3>11. Provenance'
      BY <2>12 DEF OnWsClose, RejectAll, Provenance, Lost, HeldShape, OnePlace
    <3> QED
      BY <3>1, <3>2, <3>3, <3>4, <3>5, <3>6, <3>7, <3>8, <3>9, <3>10, <3>11
  <2>13. CASE DisconnectBegins
    BY <2>13 DEF DisconnectBegins, HeldShape, OnePlace, EntryHasOwner,
        NoLostWaiter, IdleIsUnset, UnsetUntilDelivered, MainShape,
        OnlySilenceTimesOut, AbortNeedsDisconnect, Provenance, Lost, Inside
  <2>14. CASE DisconnectRejects
    <3>1. TypeOK'
      BY <2>14 DEF DisconnectRejects, RejectAll
    <3>2. HeldShape'
      BY <2>14 DEF DisconnectRejects, RejectAll, HeldShape
    <3>3. OnePlace'
      BY <2>14 DEF DisconnectRejects, RejectAll, OnePlace, HeldShape
    <3>4. EntryHasOwner'
      BY <2>14 DEF DisconnectRejects, RejectAll, EntryHasOwner, Inside
    <3>5. NoLostWaiter'
      BY <2>14 DEF DisconnectRejects, RejectAll, NoLostWaiter, HeldShape,
          OnePlace
    <3>6. IdleIsUnset'
      BY <2>14 DEF DisconnectRejects, RejectAll, IdleIsUnset, EntryHasOwner,
          Inside, OnePlace
    <3>7. UnsetUntilDelivered'
      BY <2>14 DEF DisconnectRejects, RejectAll, UnsetUntilDelivered,
          IdleIsUnset, HeldShape, OnePlace, EntryHasOwner, Inside
    <3>8. MainShape'
      BY <2>14 DEF DisconnectRejects, RejectAll, MainShape
    <3>9. OnlySilenceTimesOut'
      BY <2>14 DEF DisconnectRejects, RejectAll, OnlySilenceTimesOut,
          MainShape, NoLostWaiter, HeldShape
    <3>10. AbortNeedsDisconnect'
      BY <2>14 DEF DisconnectRejects, RejectAll, AbortNeedsDisconnect,
          MainShape, UnsetUntilDelivered
    <3>11. Provenance'
      BY <2>14 DEF DisconnectRejects, RejectAll, Provenance, Lost, HeldShape,
          OnePlace
    <3> QED
      BY <3>1, <3>2, <3>3, <3>4, <3>5, <3>6, <3>7, <3>8, <3>9, <3>10, <3>11
  <2>15. CASE DisconnectCloses
    <3>1. TypeOK'
      BY <2>15 DEF DisconnectCloses
    <3>2. HeldShape'
      BY <2>15 DEF DisconnectCloses, HeldShape
    <3>3. OnePlace'
      BY <2>15 DEF DisconnectCloses, OnePlace, HeldShape
    <3>4. EntryHasOwner'
      BY <2>15 DEF DisconnectCloses, EntryHasOwner, Inside
    <3>5. NoLostWaiter'
      BY <2>15 DEF DisconnectCloses, NoLostWaiter, HeldShape, OnePlace
    <3>6. IdleIsUnset'
      BY <2>15 DEF DisconnectCloses, IdleIsUnset, EntryHasOwner, Inside,
          OnePlace
    <3>7. UnsetUntilDelivered'
      BY <2>15 DEF DisconnectCloses, UnsetUntilDelivered, IdleIsUnset,
          HeldShape, OnePlace, EntryHasOwner, Inside
    <3>8. MainShape'
      BY <2>15 DEF DisconnectCloses, MainShape
    <3>9. OnlySilenceTimesOut'
      BY <2>15 DEF DisconnectCloses, OnlySilenceTimesOut, MainShape,
          NoLostWaiter, HeldShape
    <3>10. AbortNeedsDisconnect'
      BY <2>15 DEF DisconnectCloses, AbortNeedsDisconnect, MainShape,
          UnsetUntilDelivered
    <3>11. Provenance'
      BY <2>15 DEF DisconnectCloses, Provenance, Lost, HeldShape, OnePlace
    <3> QED
      BY <3>1, <3>2, <3>3, <3>4, <3>5, <3>6, <3>7, <3>8, <3>9, <3>10, <3>11
  <2>16. CASE DisconnectJoins
    <3>1. TypeOK'
      BY <2>16 DEF DisconnectJoins, Joinable
    <3>2. HeldShape'
      BY <2>16 DEF DisconnectJoins, Joinable, HeldShape
    <3>3. OnePlace'
      BY <2>16 DEF DisconnectJoins, Joinable, OnePlace, HeldShape
    <3>4. EntryHasOwner'
      BY <2>16 DEF DisconnectJoins, Joinable, EntryHasOwner, Inside
    <3>5. NoLostWaiter'
      BY <2>16 DEF DisconnectJoins, Joinable, NoLostWaiter, HeldShape, OnePlace
    <3>6. IdleIsUnset'
      BY <2>16 DEF DisconnectJoins, Joinable, IdleIsUnset, EntryHasOwner,
          Inside, OnePlace
    <3>7. UnsetUntilDelivered'
      BY <2>16 DEF DisconnectJoins, Joinable, UnsetUntilDelivered, IdleIsUnset,
          HeldShape, OnePlace, EntryHasOwner, Inside
    <3>8. MainShape'
      BY <2>16 DEF DisconnectJoins, Joinable, MainShape
    <3>9. OnlySilenceTimesOut'
      BY <2>16 DEF DisconnectJoins, Joinable, OnlySilenceTimesOut, MainShape,
          NoLostWaiter, HeldShape
    <3>10. AbortNeedsDisconnect'
      BY <2>16 DEF DisconnectJoins, Joinable, AbortNeedsDisconnect, MainShape,
          UnsetUntilDelivered
    <3>11. Provenance'
      BY <2>16 DEF DisconnectJoins, Joinable, Provenance, Lost, HeldShape,
          OnePlace
    <3> QED
      BY <3>1, <3>2, <3>3, <3>4, <3>5, <3>6, <3>7, <3>8, <3>9, <3>10, <3>11
  <2>17. CASE MarkRunning
    BY <2>17 DEF MarkRunning, HeldShape, OnePlace, EntryHasOwner, NoLostWaiter,
        IdleIsUnset, UnsetUntilDelivered, MainShape, OnlySilenceTimesOut,
        AbortNeedsDisconnect, Provenance, Lost, Inside
  <2>18. CASE RunLoop
    BY <2>18 DEF RunLoop, HeldShape, OnePlace, EntryHasOwner, NoLostWaiter,
        IdleIsUnset, UnsetUntilDelivered, MainShape, OnlySilenceTimesOut,
        AbortNeedsDisconnect, Provenance, Lost, Inside
  <2>19. CASE Opens
    <3>1. TypeOK'
      BY <2>19 DEF Opens, ReplaceSocket, Joinable
    <3>2. HeldShape'
      BY <2>19 DEF Opens, ReplaceSocket, Joinable, HeldShape
    <3>3. OnePlace'
      BY <2>19 DEF Opens, ReplaceSocket, Joinable, OnePlace, HeldShape
    <3>4. EntryHasOwner'
      BY <2>19 DEF Opens, ReplaceSocket, Joinable, EntryHasOwner, Inside
    <3>5. NoLostWaiter'
      BY <2>19 DEF Opens, ReplaceSocket, Joinable, NoLostWaiter, HeldShape,
          OnePlace
    <3>6. IdleIsUnset'
      BY <2>19 DEF Opens, ReplaceSocket, Joinable, IdleIsUnset, EntryHasOwner,
          Inside, OnePlace
    <3>7. UnsetUntilDelivered'
      BY <2>19 DEF Opens, ReplaceSocket, Joinable, UnsetUntilDelivered,
          IdleIsUnset, HeldShape, OnePlace, EntryHasOwner, Inside
    <3>8. MainShape'
      BY <2>19 DEF Opens, ReplaceSocket, Joinable, MainShape
    <3>9. OnlySilenceTimesOut'
      BY <2>19 DEF Opens, ReplaceSocket, Joinable, OnlySilenceTimesOut,
          MainShape, NoLostWaiter, HeldShape
    <3>10. AbortNeedsDisconnect'
      BY <2>19 DEF Opens, ReplaceSocket, Joinable, AbortNeedsDisconnect,
          MainShape, UnsetUntilDelivered
    <3>11. Provenance'
      BY <2>19 DEF Opens, ReplaceSocket, Joinable, Provenance, Lost, HeldShape,
          OnePlace
    <3> QED
      BY <3>1, <3>2, <3>3, <3>4, <3>5, <3>6, <3>7, <3>8, <3>9, <3>10, <3>11
  <2>20. CASE OpenFails
    <3>1. TypeOK'
      BY <2>20 DEF OpenFails, ReplaceSocket, Joinable
    <3>2. HeldShape'
      BY <2>20 DEF OpenFails, ReplaceSocket, Joinable, HeldShape
    <3>3. OnePlace'
      BY <2>20 DEF OpenFails, ReplaceSocket, Joinable, OnePlace, HeldShape
    <3>4. EntryHasOwner'
      BY <2>20 DEF OpenFails, ReplaceSocket, Joinable, EntryHasOwner, Inside
    <3>5. NoLostWaiter'
      BY <2>20 DEF OpenFails, ReplaceSocket, Joinable, NoLostWaiter, HeldShape,
          OnePlace
    <3>6. IdleIsUnset'
      BY <2>20 DEF OpenFails, ReplaceSocket, Joinable, IdleIsUnset,
          EntryHasOwner, Inside, OnePlace
    <3>7. UnsetUntilDelivered'
      BY <2>20 DEF OpenFails, ReplaceSocket, Joinable, UnsetUntilDelivered,
          IdleIsUnset, HeldShape, OnePlace, EntryHasOwner, Inside
    <3>8. MainShape'
      BY <2>20 DEF OpenFails, ReplaceSocket, Joinable, MainShape
    <3>9. OnlySilenceTimesOut'
      BY <2>20 DEF OpenFails, ReplaceSocket, Joinable, OnlySilenceTimesOut,
          MainShape, NoLostWaiter, HeldShape
    <3>10. AbortNeedsDisconnect'
      BY <2>20 DEF OpenFails, ReplaceSocket, Joinable, AbortNeedsDisconnect,
          MainShape, UnsetUntilDelivered
    <3>11. Provenance'
      BY <2>20 DEF OpenFails, ReplaceSocket, Joinable, Provenance, Lost,
          HeldShape, OnePlace
    <3> QED
      BY <3>1, <3>2, <3>3, <3>4, <3>5, <3>6, <3>7, <3>8, <3>9, <3>10, <3>11
  <2>21. CASE AuthSucceeds
    BY <2>21 DEF AuthSucceeds, HeldShape, OnePlace, EntryHasOwner,
        NoLostWaiter, IdleIsUnset, UnsetUntilDelivered, MainShape,
        OnlySilenceTimesOut, AbortNeedsDisconnect, Provenance, Lost, Inside
  <2>22. CASE AuthFails
    <3>1. TypeOK'
      BY <2>22 DEF AuthFails, Joinable
    <3>2. HeldShape'
      BY <2>22 DEF AuthFails, Joinable, HeldShape
    <3>3. OnePlace'
      BY <2>22 DEF AuthFails, Joinable, OnePlace, HeldShape
    <3>4. EntryHasOwner'
      BY <2>22 DEF AuthFails, Joinable, EntryHasOwner, Inside
    <3>5. NoLostWaiter'
      BY <2>22 DEF AuthFails, Joinable, NoLostWaiter, HeldShape, OnePlace
    <3>6. IdleIsUnset'
      BY <2>22 DEF AuthFails, Joinable, IdleIsUnset, EntryHasOwner, Inside,
          OnePlace
    <3>7. UnsetUntilDelivered'
      BY <2>22 DEF AuthFails, Joinable, UnsetUntilDelivered, IdleIsUnset,
          HeldShape, OnePlace, EntryHasOwner, Inside
    <3>8. MainShape'
      BY <2>22 DEF AuthFails, Joinable, MainShape
    <3>9. OnlySilenceTimesOut'
      BY <2>22 DEF AuthFails, Joinable, OnlySilenceTimesOut, MainShape,
          NoLostWaiter, HeldShape
    <3>10. AbortNeedsDisconnect'
      BY <2>22 DEF AuthFails, Joinable, AbortNeedsDisconnect, MainShape,
          UnsetUntilDelivered
    <3>11. Provenance'
      BY <2>22 DEF AuthFails, Joinable, Provenance, Lost, HeldShape, OnePlace
    <3> QED
      BY <3>1, <3>2, <3>3, <3>4, <3>5, <3>6, <3>7, <3>8, <3>9, <3>10, <3>11
  <2>23. CASE AuthFailsOnNull
    BY <2>23 DEF AuthFailsOnNull, HeldShape, OnePlace, EntryHasOwner,
        NoLostWaiter, IdleIsUnset, UnsetUntilDelivered, MainShape,
        OnlySilenceTimesOut, AbortNeedsDisconnect, Provenance, Lost, Inside
  <2>24. CASE UNCHANGED vars
    BY <2>24 DEF vars, HeldShape, OnePlace, EntryHasOwner, NoLostWaiter,
        IdleIsUnset, UnsetUntilDelivered, MainShape, OnlySilenceTimesOut,
        AbortNeedsDisconnect, Provenance, Lost, Inside
  <2> QED
    BY <2>1, <2>2, <2>3, <2>4, <2>5, <2>6, <2>7, <2>8, <2>9, <2>10, <2>11,
        <2>12, <2>13, <2>14, <2>15, <2>16, <2>17, <2>18, <2>19, <2>20, <2>21,
        <2>22, <2>23, <2>24 DEF Next, Caller, ReceiveThread, Disconnect, Main
<1>3. QED
  BY <1>1, <1>2, PTL DEF Spec

-----------------------------------------------------------------------------
\* Every variable stays in its range: callers, receive thread, disconnect().
THEOREM TypeCorrect == Spec => []TypeOK
BY Inductive, PTL DEF IInv

\* A caller without an outcome can be reached by the next rejection or is in
\* the hands of the receive thread (send_request, on_ws_message and
\* reject_all_pending on pending_requests_), and pending_requests_ holds
\* entries of callers inside send_request only.
THEOREM PendingIsExact == Spec => []PendingMatchesCallers
BY Inductive, PTL DEF IInv, PendingMatchesCallers

\* Without disconnect(), a caller waits on the open socket that carried its
\* request, or on_ws_close is about to reject it, or a failed authenticate()
\* closed its socket under it; the set_value of on_ws_message does not throw,
\* and run() closes no null ws_.
THEOREM OnlyOwnClosesDo == Spec => []OnlyOwnCloseInterferes
BY Inductive, PTL DEF IInv, OnlyOwnCloseInterferes

-----------------------------------------------------------------------------
\* Lost is what the contract calls lost; it stays true.
LEMMA LostForGood == IInv /\ [Next]_vars /\ Lost => Lost'
<1> SUFFICES ASSUME IInv, [Next]_vars, Lost PROVE Lost'
  OBVIOUS
<1> USE DEF IInv, TypeOK, Lost, callers, peer, socket, thread
<1>1. session \in Nat
  BY MaxSessionsAssumption
<1>2. CASE Opens
  BY <1>1, <1>2 DEF Opens, ReplaceSocket
<1>3. CASE OpenFails \/ AuthFails \/ SocketCloses
  BY <1>3 DEF OpenFails, AuthFails, SocketCloses
<1>4. CASE Disconnect
  BY <1>4 DEF Disconnect, DisconnectBegins, DisconnectRejects,
              DisconnectCloses, DisconnectJoins
<1>5. CASE UNCHANGED <<socket, disc>>
  BY <1>5
<1> QED
  BY <1>2, <1>3, <1>4, <1>5
  DEF Next, vars, Caller, ReceiveThread, Main, Register, SendOk, SendFails,
      EraseUnsent, Wake, Expire, Finish, PeerAnswers, FindPending, SetValue,
      OnWsClose, MarkRunning, RunLoop, AuthSucceeds, AuthFailsOnNull

\* send_request implements its contract: a caller gets the answer the peer gave
\* to its own request, once, or a rejection after the connection was lost, or
\* an exception.
THEOREM Refinement == Spec => ImplementsContract
<1>1. Init => Contract!Init
  BY DEF Init, Contract!Init
<1>2. IInv /\ [Next]_vars => [Contract!Next]_(Contract!vars)
  <2> SUFFICES ASSUME IInv, [Next]_vars PROVE [Contract!Next]_(Contract!vars)
    OBVIOUS
  <2> DEFINE Still == UNCHANGED <<answer, outcome>>
  <2>1. ASSUME Still PROVE [Contract!Next]_(Contract!vars)
    \* The connection is lost now, or it is as it was.
    <3>1. CASE Lost' = Lost
      BY <2>1, <3>1 DEF Contract!vars, Lost
    <3>2. CASE Lost' # Lost
      <4>1. Lost'
        BY <3>2, LostForGood DEF Lost
      <4>2. Contract!Lose
        BY <2>1, <4>1 DEF Contract!Lose, Lost
      <4>3. QED
        BY <4>2 DEF Contract!Next
    <3>3. QED
      BY <3>1, <3>2
  <2>2. ASSUME NEW r \in Req, PeerAnswers(r) PROVE [Contract!Next]_(Contract!vars)
    <3>1. answer[r] = "none"
      BY <2>2 DEF IInv, Provenance, PeerAnswers
    <3>2. Contract!Reply(r)
      BY <2>2, <3>1 DEF PeerAnswers, Contract!Reply, callers, socket
    <3>3. QED
      BY <3>2 DEF Contract!Next
  <2>3. ASSUME NEW r \in Req, EraseUnsent(r) PROVE [Contract!Next]_(Contract!vars)
    <3>1. Contract!Complete(r, "send_failed")
      BY <2>3 DEF IInv, Provenance, EraseUnsent, Contract!Complete, Failure,
                  peer, socket
    <3>2. QED
      BY <3>1 DEF Contract!Next, Failure
  <2>4. ASSUME NEW r \in Req, Finish(r) PROVE [Contract!Next]_(Contract!vars)
    <3>1. CASE pc[r] = "expired"
      <4>1. Contract!Complete(r, "timeout")
        BY <2>4, <3>1 DEF IInv, Provenance, Finish, Contract!Complete, Failure,
                          peer, socket
      <4>2. QED
        BY <4>1 DEF Contract!Next, Failure
    <3>2. CASE pc[r] = "ready"
      <4>1. \/ promise[r] \in Answer /\ promise[r] = answer[r]
            \/ promise[r] = "rejected" /\ Lost
        BY <3>2 DEF IInv, TypeOK, Provenance, Value
      <4>2. Contract!Complete(r, promise[r])
        BY <2>4, <3>2, <4>1 DEF IInv, Provenance, Finish, Contract!Complete,
                                Lost, Answer, peer, socket
      <4>3. QED
        BY <4>1, <4>2 DEF Contract!Next
    <3>3. QED
      BY <2>4, <3>1, <3>2 DEF Finish
  <2>5. CASE Still
    BY <2>1, <2>5
  <2>6. QED
    BY <2>2, <2>3, <2>4, <2>5
    DEF Next, vars, Caller, ReceiveThread, Disconnect, Main, callers, peer,
        Register, SendOk, SendFails, Wake, Expire, FindPending, SetValue,
        SocketCloses, OnWsClose, DisconnectBegins, DisconnectRejects,
        DisconnectCloses, DisconnectJoins, MarkRunning, RunLoop, ReplaceSocket,
        Opens, OpenFails, AuthSucceeds, AuthFails, AuthFailsOnNull
<1>3. QED
  BY <1>1, <1>2, Inductive, PTL DEF Spec, Contract!Spec, ImplementsContract

=============================================================================
