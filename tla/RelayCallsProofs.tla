-------------------------- MODULE RelayCallsProofs --------------------------
(***************************************************************************)
(* The safety properties of RelayCalls for any calls, dials, bound on the  *)
(* active calls and number of sockets.                                     *)
(*                                                                         *)
(* Each property is a fact about one hand-over between two threads; the    *)
(* invariant says where the thing handed over is at every moment: an entry *)
(* of pending_dials_ in the map, in the hands of the receive thread or     *)
(* fulfilled, and a Call in calls_ for as long as an event works on it.    *)
(***************************************************************************)
EXTENDS RelayCalls, TLAPS

\* disconnect() sweeps after it has joined the receive thread, for good unless
\* another socket is opened, and empties calls_ before it frees the objects.
JoinedIsGone ==
  disc \in {"calls", "owned", "done"} => late \/ recv \in {"gone", "null"}
SweptIsEmpty == disc \in {"owned", "done"} => late \/ calls = {}

\* The exemption is what it says.
LateAfterJoin == late => disc \in {"calls", "owned", "done"}

\* A late receive thread meets freed objects only when they have been freed.
RegistryLive == (late /\ disc = "done") \/ RegistryPointsToLive

\* An event that was routed is about a registered call until it is handled.
RouteIsRegistered ==
  recv = "route" => /\ late \/ subject \subseteq calls
                    /\ news \in CallState \union {"component"}

HandlersLive ==
  disc # "done" => \A c \in CallId : handler[c] = "running" => c \in owned

\* A pending dial is in the map, taken out or fulfilled: one of them, and none
\* before it is registered.
OnePlace ==
  /\ pendingDials \intersect held = {}
  /\ pendingDials \intersect fulfilled = {}
  /\ held \intersect fulfilled = {}
HeldByDial == /\ IF recv = "dial" THEN news \in DialState ELSE held = {}
              /\ \A d, e \in held : d = e
ProgressHeld == recv = "dial" /\ news = "dialing" => held \subseteq progressed
DialShape ==
  \A d \in Dialer :
    /\ dial[d] = "idle" => d \notin pendingDials \union held \union fulfilled
                             /\ placed[d] = "no"
    /\ dial[d] \in {"ready", "holding"} => d \in fulfilled
    /\ dial[d] = "holding" => promised[d] # NoCall

\* Without a progress event the entry of a dial that waits goes nowhere else.
StillThere ==
  \A d \in Dialer \ progressed :
    dial[d] \in {"registered", "waiting"}
      => d \in pendingDials \union held \union fulfilled
OverIsTaken == \A d \in pendingDials : placed[d] # "over"

\* What a promise or a result names is owned, and registered until it ended.
Routed(c) == c \in calls \/ state[c] = "ended"
PromisesLive ==
  disc # "done" =>
    \A d \in Dialer : promised[d] # NoCall => promised[d] \in owned
PromisesRouted ==
  disc = "no" =>
    \A d \in Dialer : /\ promised[d] # NoCall => Routed(promised[d])
                      /\ result[d] # NoCall => Routed(result[d])

PointerInv == /\ JoinedIsGone /\ SweptIsEmpty /\ LateAfterJoin /\ RegistryLive
              /\ RouteIsRegistered /\ HandlersLive
DialInv == /\ OnePlace /\ HeldByDial /\ ProgressHeld /\ DialShape
           /\ StillThere /\ OverIsTaken
PromiseInv == PromisesLive /\ PromisesRouted
IInv == TypeOK /\ PointerInv /\ DialInv /\ PromiseInv

-----------------------------------------------------------------------------
\* Every step keeps the types.
LEMMA TypeStep == ASSUME IInv, [Next]_vars PROVE TypeOK'
<1> USE CallsAssumption DEF IInv, TypeOK, CallState, DialState, PointerInv,
       RouteIsRegistered, registry, dials, receiver, link, remote, thread
<1>1. ASSUME NEW d \in Dialer, DialRegisters(d) PROVE TypeOK'
  BY <1>1 DEF DialRegisters
<1>2. ASSUME NEW d \in Dialer, DialReachesPeer(d) PROVE TypeOK'
  BY <1>2 DEF DialReachesPeer
<1>3. ASSUME NEW d \in Dialer, DialRpcReturns(d) PROVE TypeOK'
  BY <1>3 DEF DialRpcReturns
<1>4. ASSUME NEW d \in Dialer, DialRpcThrows(d) PROVE TypeOK'
  BY <1>4 DEF DialRpcThrows
<1>5. ASSUME NEW d \in Dialer, DialWakes(d) PROVE TypeOK'
  BY <1>5 DEF DialWakes
<1>6. ASSUME NEW d \in Dialer, DialErases(d) PROVE TypeOK'
  BY <1>6 DEF DialErases
<1>7. ASSUME NEW d \in Dialer, DialReturns(d) PROVE TypeOK'
  BY <1>7 DEF DialReturns
<1>8. ASSUME NEW c \in CallId, ReceiveCall(c) PROVE TypeOK'
  BY <1>8 DEF ReceiveCall, Create
<1>9. ASSUME NEW c \in CallId, FindForComponent(c) PROVE TypeOK'
  BY <1>9 DEF FindForComponent
<1>10. ASSUME NEW c \in CallId, UseCall(c) PROVE TypeOK'
  BY <1>10 DEF UseCall, Idle
<1>11. ASSUME NEW c \in CallId, NEW s \in CallState, FindForState(c, s)
      PROVE  TypeOK'
  BY <1>11 DEF FindForState, Create
<1>12. ASSUME NEW c \in CallId, NEW d \in Dialer, DialAnswered(d, c)
      PROVE  TypeOK'
  BY <1>12 DEF DialAnswered, TakeDial
<1>13. ASSUME NEW d \in Dialer, DialProgress(d) PROVE TypeOK'
  BY <1>13 DEF DialProgress, TakeDial
<1>14. ASSUME NEW d \in Dialer, DialFailed(d) PROVE TypeOK'
  BY <1>14 DEF DialFailed, TakeDial
<1>15. ASSUME NEW d \in Dialer, SettleDial(d) PROVE TypeOK'
  BY <1>15 DEF SettleDial, Create, Idle
<1>16. CASE SocketCloses
  BY <1>16 DEF SocketCloses
<1>17. CASE OnWsClose
  BY <1>17 DEF OnWsClose, RejectDials
<1>18. ASSUME NEW c \in CallId, HandlerReturns(c) PROVE TypeOK'
  BY <1>18 DEF HandlerReturns
<1>19. ASSUME NEW c \in CallId, PeerEndsUnheard(c) PROVE TypeOK'
  BY <1>19 DEF PeerEndsUnheard
<1>20. CASE Main
  <2>1. CASE Opens
    BY <1>20, <2>1 DEF Opens, ReplaceSocket
  <2>2. CASE LookAtRunning \/ AuthSucceeds
    BY <2>2 DEF LookAtRunning, AuthSucceeds
  <2>3. CASE OpenFails
    BY <2>3 DEF OpenFails, ReplaceSocket
  <2>4. CASE AuthFails
    BY <2>4 DEF AuthFails
  <2> QED
    BY <1>20, <2>1, <2>2, <2>3, <2>4 DEF Main
<1>21. CASE DisconnectBegins
  BY <1>21 DEF DisconnectBegins
<1>22. CASE DisconnectRejects
  BY <1>22 DEF DisconnectRejects, RejectDials
<1>23. CASE DisconnectCloses
  BY <1>23 DEF DisconnectCloses
<1>24. CASE DisconnectJoins
  BY <1>24 DEF DisconnectJoins
<1>25. CASE DisconnectClearsCalls
  BY <1>25 DEF DisconnectClearsCalls
<1>26. CASE DisconnectFreesCalls
  BY <1>26 DEF DisconnectFreesCalls
<1>27. CASE UNCHANGED vars
  BY <1>27 DEF vars
<1> QED BY <1>1, <1>2, <1>3, <1>4, <1>5, <1>6, <1>7, <1>8, <1>9, <1>10, <1>11,
     <1>12, <1>13, <1>14, <1>15, <1>16, <1>17, <1>18, <1>19, <1>20, <1>21,
     <1>22, <1>23, <1>24, <1>25, <1>26, <1>27 DEF Next, Dialing,
     ReceiveThread, Disconnect

\* The receive thread and disconnect() share the registry: whatever is taken
\* from it was looked up by the thread disconnect() joins before it sweeps, or
\* by a late one.
LEMMA PointerStep == ASSUME IInv, [Next]_vars PROVE PointerInv'
<1> USE CallsAssumption DEF IInv, TypeOK, PointerInv, JoinedIsGone,
       SweptIsEmpty, LateAfterJoin, RegistryLive, RegistryPointsToLive,
       RouteIsRegistered, HandlersLive, CallState, registry, dials, receiver,
       link, remote, thread
<1>1. ASSUME NEW c \in CallId, ReceiveCall(c) PROVE PointerInv'
  BY <1>1 DEF ReceiveCall, Create
<1>2. ASSUME NEW c \in CallId, FindForComponent(c) PROVE PointerInv'
  BY <1>2 DEF FindForComponent
<1>3. ASSUME NEW c \in CallId, UseCall(c) PROVE PointerInv'
  BY <1>3 DEF UseCall, Idle
<1>4. ASSUME NEW c \in CallId, NEW s \in CallState, FindForState(c, s)
      PROVE  PointerInv'
  BY <1>4 DEF FindForState, Create
<1>5. ASSUME NEW c \in CallId, NEW d \in Dialer, DialAnswered(d, c)
      PROVE  PointerInv'
  BY <1>5 DEF DialAnswered, TakeDial
<1>6. ASSUME NEW d \in Dialer, DialProgress(d) PROVE PointerInv'
  BY <1>6 DEF DialProgress, TakeDial
<1>7. ASSUME NEW d \in Dialer, DialFailed(d) PROVE PointerInv'
  BY <1>7 DEF DialFailed, TakeDial
<1>8. ASSUME NEW d \in Dialer, SettleDial(d) PROVE PointerInv'
  BY <1>8 DEF SettleDial, Create, Idle
<1>9. CASE SocketCloses
  BY <1>9 DEF SocketCloses
<1>10. CASE OnWsClose
  BY <1>10 DEF OnWsClose, RejectDials
<1>11. ASSUME NEW c \in CallId, HandlerReturns(c) PROVE PointerInv'
  BY <1>11 DEF HandlerReturns
<1>12. CASE Main
  <2>1. CASE Opens
    BY <2>1 DEF Opens, ReplaceSocket, Joinable
  <2>2. CASE LookAtRunning \/ AuthSucceeds
    BY <2>2 DEF LookAtRunning, AuthSucceeds
  <2>3. CASE OpenFails
    BY <2>3 DEF OpenFails, ReplaceSocket
  <2>4. CASE AuthFails
    BY <2>4 DEF AuthFails
  <2> QED
    BY <1>12, <2>1, <2>2, <2>3, <2>4 DEF Main
<1>13. CASE DisconnectBegins
  BY <1>13 DEF DisconnectBegins
<1>14. CASE DisconnectRejects
  BY <1>14 DEF DisconnectRejects, RejectDials
<1>15. CASE DisconnectCloses
  BY <1>15 DEF DisconnectCloses
<1>16. CASE DisconnectJoins
  BY <1>16 DEF DisconnectJoins
<1>17. CASE DisconnectClearsCalls
  BY <1>17 DEF DisconnectClearsCalls
<1>18. CASE DisconnectFreesCalls
  BY <1>18 DEF DisconnectFreesCalls
<1>19. CASE
       \/ \E d \in Dialer : DialRegisters(d) \/ DialReachesPeer(d)
       \/ \E d \in Dialer : DialRpcReturns(d) \/ DialRpcThrows(d)
       \/ \E d \in Dialer : DialWakes(d) \/ DialErases(d)
       \/ \E d \in Dialer : DialReturns(d)
       \/ \E c \in CallId : PeerEndsUnheard(c)
       \/ UNCHANGED vars
  BY <1>19 DEF DialRegisters, DialReachesPeer, DialRpcReturns, DialRpcThrows,
       DialWakes, DialErases, DialReturns, PeerEndsUnheard, vars
<1> QED BY <1>1, <1>2, <1>3, <1>4, <1>5, <1>6, <1>7, <1>8, <1>9, <1>10, <1>11,
     <1>12, <1>13, <1>14, <1>15, <1>16, <1>17, <1>18, <1>19 DEF Next, Dialing,
     ReceiveThread, Disconnect

\* The entry of a dial moves from the map to the receive thread and from there,
\* or at a rejection, into its promise.
LEMMA DialStep == ASSUME IInv, [Next]_vars PROVE DialInv'
<1> USE CallsAssumption DEF IInv, TypeOK, DialInv, OnePlace, HeldByDial,
       DialState, ProgressHeld, DialShape, StillThere, OverIsTaken, registry,
       dials, receiver, link, remote
<1>1. ASSUME NEW d \in Dialer, DialRegisters(d) PROVE DialInv'
  BY <1>1 DEF DialRegisters
<1>2. ASSUME NEW d \in Dialer, DialReachesPeer(d) PROVE DialInv'
  BY <1>2 DEF DialReachesPeer
<1>3. ASSUME NEW d \in Dialer, DialRpcReturns(d) PROVE DialInv'
  BY <1>3 DEF DialRpcReturns
<1>4. ASSUME NEW d \in Dialer, DialRpcThrows(d) PROVE DialInv'
  BY <1>4 DEF DialRpcThrows
<1>5. ASSUME NEW d \in Dialer, DialWakes(d) PROVE DialInv'
  BY <1>5 DEF DialWakes
<1>6. ASSUME NEW d \in Dialer, DialErases(d) PROVE DialInv'
  BY <1>6 DEF DialErases
<1>7. ASSUME NEW d \in Dialer, DialReturns(d) PROVE DialInv'
  BY <1>7 DEF DialReturns
<1>8. ASSUME NEW c \in CallId, ReceiveCall(c) PROVE DialInv'
  BY <1>8 DEF ReceiveCall, Create
<1>9. ASSUME NEW c \in CallId, FindForComponent(c) PROVE DialInv'
  BY <1>9 DEF FindForComponent
<1>10. ASSUME NEW c \in CallId, UseCall(c) PROVE DialInv'
  BY <1>10 DEF UseCall, Idle
<1>11. ASSUME NEW c \in CallId, NEW s \in CallState, FindForState(c, s)
      PROVE  DialInv'
  BY <1>11 DEF FindForState, Create
<1>12. ASSUME NEW c \in CallId, NEW d \in Dialer, DialAnswered(d, c)
      PROVE  DialInv'
  BY <1>12 DEF DialAnswered, TakeDial
<1>13. ASSUME NEW d \in Dialer, DialProgress(d) PROVE DialInv'
  BY <1>13 DEF DialProgress, TakeDial
<1>14. ASSUME NEW d \in Dialer, DialFailed(d) PROVE DialInv'
  BY <1>14 DEF DialFailed, TakeDial
<1>15. ASSUME NEW d \in Dialer, SettleDial(d) PROVE DialInv'
  BY <1>15 DEF SettleDial, Create, Idle
<1>16. CASE SocketCloses
  BY <1>16 DEF SocketCloses
<1>17. CASE OnWsClose
  BY <1>17 DEF OnWsClose, RejectDials
<1>18. CASE Main
  BY <1>18 DEF Main, LookAtRunning, Opens, OpenFails, AuthSucceeds, AuthFails,
       ReplaceSocket, Joinable
<1>19. CASE DisconnectRejects
  BY <1>19 DEF DisconnectRejects, RejectDials
<1>20. CASE DisconnectJoins
  BY <1>20 DEF DisconnectJoins, Joinable
<1>21. CASE
       \/ \E c \in CallId : HandlerReturns(c) \/ PeerEndsUnheard(c)
       \/ DisconnectBegins
       \/ DisconnectCloses
       \/ DisconnectClearsCalls
       \/ DisconnectFreesCalls
       \/ UNCHANGED vars
  BY <1>21 DEF HandlerReturns, PeerEndsUnheard, DisconnectBegins,
       DisconnectCloses, DisconnectClearsCalls, DisconnectFreesCalls, vars
<1> QED BY <1>1, <1>2, <1>3, <1>4, <1>5, <1>6, <1>7, <1>8, <1>9, <1>10, <1>11,
     <1>12, <1>13, <1>14, <1>15, <1>16, <1>17, <1>18, <1>19, <1>20, <1>21
     DEF Next, Dialing, ReceiveThread, Disconnect

\* The Call of a promise stays owned until disconnect() frees it, and registered
\* until it ends.
LEMMA PromiseStep == ASSUME IInv, [Next]_vars PROVE PromiseInv'
<1> USE CallsAssumption DEF IInv, TypeOK, PointerInv, DialInv, PromiseInv,
       JoinedIsGone, LateAfterJoin, RegistryLive, RegistryPointsToLive,
       RouteIsRegistered, PromisesLive, PromisesRouted, Routed, registry,
       dials, receiver, link, remote, thread
<1>1. ASSUME NEW d \in Dialer, DialReturns(d) PROVE PromiseInv'
  BY <1>1 DEF DialReturns
<1>2. ASSUME NEW c \in CallId, ReceiveCall(c) PROVE PromiseInv'
  BY <1>2 DEF ReceiveCall, Create
<1>3. ASSUME NEW c \in CallId, UseCall(c) PROVE PromiseInv'
  BY <1>3 DEF UseCall, Idle
<1>4. ASSUME NEW c \in CallId, NEW s \in CallState, FindForState(c, s)
      PROVE  PromiseInv'
  BY <1>4 DEF FindForState, Create
<1>5. ASSUME NEW d \in Dialer, SettleDial(d) PROVE PromiseInv'
  BY <1>5 DEF SettleDial, Create, Idle
<1>6. CASE OnWsClose
  BY <1>6 DEF OnWsClose, RejectDials
<1>7. CASE DisconnectBegins
  BY <1>7 DEF DisconnectBegins
<1>8. CASE DisconnectRejects
  BY <1>8 DEF DisconnectRejects, RejectDials
<1>9. CASE DisconnectClearsCalls
  BY <1>9 DEF DisconnectClearsCalls
<1>10. CASE DisconnectFreesCalls
  BY <1>10 DEF DisconnectFreesCalls
<1>11. CASE
       \/ \E d \in Dialer : DialRegisters(d) \/ DialReachesPeer(d)
       \/ \E d \in Dialer : DialRpcReturns(d) \/ DialRpcThrows(d)
       \/ \E d \in Dialer : DialWakes(d) \/ DialErases(d)
       \/ \E d \in Dialer : DialProgress(d) \/ DialFailed(d)
       \/ \E c \in CallId : FindForComponent(c) \/ HandlerReturns(c)
       \/ \E c \in CallId : PeerEndsUnheard(c)
       \/ \E c \in CallId, d \in Dialer : DialAnswered(d, c)
       \/ SocketCloses
       \/ DisconnectCloses
       \/ DisconnectJoins
       \/ UNCHANGED vars
  BY <1>11 DEF DialRegisters, DialReachesPeer, DialRpcReturns, DialRpcThrows,
       DialWakes, DialErases, FindForComponent, DialAnswered, DialProgress,
       DialFailed, SocketCloses, HandlerReturns, PeerEndsUnheard,
       DisconnectCloses, DisconnectJoins, TakeDial, vars
<1>12. CASE Main
  BY <1>12 DEF Main, LookAtRunning, Opens, OpenFails, AuthSucceeds, AuthFails,
       ReplaceSocket
<1> QED BY <1>1, <1>2, <1>3, <1>4, <1>5, <1>6, <1>7, <1>8, <1>9, <1>10, <1>11,
     <1>12 DEF Next, Dialing, ReceiveThread, Disconnect

-----------------------------------------------------------------------------
\* The strengthening is inductive.
THEOREM Inductive == Spec => []IInv
<1>1. Init => IInv
  <2> SUFFICES ASSUME Init PROVE IInv
    OBVIOUS
  <2> USE CallsAssumption DEF Init
  <2>1. TypeOK
    <3>1. 1 \in 1 .. MaxSessions
      OBVIOUS
    <3> QED
      BY <3>1 DEF TypeOK
  <2>2. PointerInv
    BY DEF PointerInv, JoinedIsGone, SweptIsEmpty, LateAfterJoin, RegistryLive,
           RegistryPointsToLive, RouteIsRegistered, HandlersLive
  <2>3. DialInv
    BY DEF DialInv, OnePlace, HeldByDial, ProgressHeld, DialShape, StillThere,
           OverIsTaken
  <2>4. PromiseInv
    BY DEF PromiseInv, PromisesLive, PromisesRouted
  <2> QED
    BY <2>1, <2>2, <2>3, <2>4 DEF IInv
<1>2. IInv /\ [Next]_vars => IInv'
  BY TypeStep, PointerStep, DialStep, PromiseStep DEF IInv
<1> QED
  BY <1>1, <1>2, PTL DEF Spec

\* Every variable has its type, for any calls and dials.
THEOREM TypeCorrect == Spec => []TypeOK
<1>1. IInv => TypeOK
  BY DEF IInv
<1> QED
  BY <1>1, Inductive, PTL

\* Every raw Call* is alive where the client uses it, as long as no socket is
\* opened after disconnect() has joined the receive thread, and those of user
\* threads until disconnect() has freed the objects.
THEOREM PointersAreLive == Spec => []PointersLive
<1>1. IInv => PointersLive
  BY DEF IInv, TypeOK, PointerInv, LateAfterJoin, RegistryLive,
  RegistryPointsToLive, RouteIsRegistered, HandlersLive, DialInv, DialShape,
  PromiseInv, PromisesLive, PointersLive, ReceiverPointerLive,
  PointersLiveUntilDisconnect
<1> QED
  BY <1>1, Inductive, PTL

\* A dial() that waits when its terminal event has been handled has its answer,
\* if no progress event came before.
THEOREM TerminalEventsResolve == Spec => []TerminalEventResolvesDial
<1>1. IInv => TerminalEventResolvesDial
  BY DEF IInv, DialInv, StillThere, OverIsTaken, TerminalEventResolvesDial,
         Settled
<1> QED
  BY <1>1, Inductive, PTL

\* handle_dial_event never sets a promise that is set.
THEOREM PromisesAreSetOnce == Spec => []DialPromiseOnce
<1>1. IInv => DialPromiseOnce
  BY DEF IInv, DialInv, OnePlace, DialPromiseOnce
<1> QED
  BY <1>1, Inductive, PTL

\* Without a disconnect() the Call that dial() returned gets its events until it
\* has ended.
THEOREM ReturnedCallsAreRouted == Spec => []ReturnedCallIsRouted
<1>1. IInv => ReturnedCallIsRouted
  BY DEF IInv, PromiseInv, PromisesRouted, Routed, ReturnedCallIsRouted
<1> QED
  BY <1>1, Inductive, PTL
=============================================================================
