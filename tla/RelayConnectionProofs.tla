----------------------- MODULE RelayConnectionProofs -----------------------
(***************************************************************************)
(* The safety properties of RelayConnection for any number of sockets,     *)
(* delays and attempts.                                                    *)
(*                                                                         *)
(* They rest on three hand-overs: a thread belongs to the socket ws_       *)
(* points to, which is what make_unique, close and reset join and destroy; *)
(* while nobody disconnects, the main thread works on that same socket;    *)
(* and a restart the peer asked for empties protocol_ for good, unless an  *)
(* answer of signalwire.connect was on its way to be stored.               *)
(***************************************************************************)
EXTENDS RelayConnection, FiniteSetTheorems, TLAPS

\* Only the socket of ws_ has a receive thread.
ThreadsOfWs == \A s \in Socket : thread[s] # "none" => s = ws

\* What the main thread works on, as long as nobody else touches ws_.
OpensWs == main = "opening" /\ disc = "no" => mine = ws /\ mine \in alive
HasWs   == main \in {"opened", "auth"} /\ disc = "no" => ws # NoSocket

\* protocol_ stays empty once a restart is asked for.
RestartIsKept == restart = "asked" => ~protocol /\ auth # "accepted"

PartsInv == ThreadsOfWs /\ OpensWs /\ HasWs /\ CrashNeedsDisconnect
              /\ RestartIsKept
IInv == TypeOK /\ PartsInv

-----------------------------------------------------------------------------
\* Every step keeps the types; the delay stays between base and cap, and the
\* attempts within their bound.
LEMMA TypeStep == ASSUME IInv, [Next]_vars PROVE TypeOK'
<1> USE ConnectionAssumption DEF IInv, TypeOK, OpensWs, PartsInv, mainVars,
       objects, flags, backoff, resume, discVars
<1>1. CASE ConnectBegins
  BY <1>1 DEF ConnectBegins
<1>2. CASE CreateSocket
  BY <1>2 DEF CreateSocket, Goto, Joinable
<1>3. CASE OpenReturns
  <2>1. up' \in [Socket -> BOOLEAN]
    BY <1>3, Zenon DEF OpenReturns
  <2> QED
    BY <1>3, <2>1 DEF OpenReturns, AttemptFails, Min2, Goto, Joinable
<1>4. CASE OpenInDestroyed
  BY <1>4 DEF OpenInDestroyed, Crash
<1>5. CASE SendConnect
  BY <1>5 DEF SendConnect, Goto
<1>6. CASE AuthFails
  BY <1>6 DEF AuthFails, AttemptFails, Min2, Goto, Joinable
<1>7. CASE AuthFailsOnNull
  BY <1>7 DEF AuthFailsOnNull, Crash
<1>8. CASE AuthSucceeds
  BY <1>8 DEF AuthSucceeds, Goto
<1>9. CASE PublishConnected
  BY <1>9 DEF PublishConnected, Goto
<1>10. CASE RunConnects
  BY <1>10 DEF RunConnects, Goto
<1>11. CASE MarkRunning
  BY <1>11 DEF MarkRunning, Goto
<1>12. CASE RunLoop
  BY <1>12 DEF RunLoop
<1>13. CASE ReconnectBegins
  BY <1>13 DEF ReconnectBegins, Goto
<1>14. CASE ReconnectWakes
  BY <1>14 DEF ReconnectWakes, Goto
<1>15. ASSUME NEW s \in Socket, Opens(s) PROVE TypeOK'
  BY <1>15 DEF Opens
<1>16. ASSUME NEW s \in Socket, OpenFails(s) PROVE TypeOK'
  BY <1>16 DEF OpenFails
<1>17. ASSUME NEW s \in Socket, AuthAnswered(s) PROVE TypeOK'
  BY <1>17 DEF AuthAnswered
<1>18. ASSUME NEW s \in Socket, ServerRestarts(s) PROVE TypeOK'
  <2>1. protocol' \in BOOLEAN
    BY <1>18, Zenon DEF ServerRestarts
  <2> QED
    BY <1>18, <2>1 DEF ServerRestarts
<1>19. ASSUME NEW s \in Socket, SocketDrops(s) PROVE TypeOK'
  BY <1>19 DEF SocketDrops
<1>20. ASSUME NEW s \in Socket, OnWsClose(s) PROVE TypeOK'
  <2>1. connected' \in BOOLEAN
    BY <1>20, Zenon DEF OnWsClose
  <2> QED
    BY <1>20, <2>1 DEF OnWsClose
<1>21. CASE DisconnectBegins
  <2>1. running' \in BOOLEAN
    BY <1>21, Zenon DEF DisconnectBegins
  <2> QED
    BY <1>21, <2>1 DEF DisconnectBegins
<1>22. CASE DisconnectLowers
  <2>1. connected' \in BOOLEAN
    BY <1>22, Zenon DEF DisconnectLowers
  <2> QED
    BY <1>22, <2>1 DEF DisconnectLowers
<1>23. CASE DisconnectRejects
  BY <1>23 DEF DisconnectRejects
<1>24. CASE DisconnectCloses
  <2>1. up' \in [Socket -> BOOLEAN]
    BY <1>24, Zenon DEF DisconnectCloses
  <2> QED
    BY <1>24, <2>1 DEF DisconnectCloses
<1>25. CASE DisconnectInDestroyed
  BY <1>25 DEF DisconnectInDestroyed, Crash
<1>26. CASE DisconnectJoins
  BY <1>26 DEF DisconnectJoins, Joinable
<1>27. CASE DisconnectResets
  BY <1>27 DEF DisconnectResets, Joinable
<1>28. CASE UNCHANGED vars
  BY <1>28 DEF vars
<1> QED BY <1>1, <1>2, <1>3, <1>4, <1>5, <1>6, <1>7, <1>8, <1>9, <1>10, <1>11,
     <1>12, <1>13, <1>14, <1>15, <1>16, <1>17, <1>18, <1>19, <1>20, <1>21,
     <1>22, <1>23, <1>24, <1>25, <1>26, <1>27, <1>28
     DEF Next, Main, ReceiveThread, Disconnect

\* A socket gets its thread as it becomes ws_, and ws_ moves on after a join.
LEMMA ThreadStep == ASSUME IInv, [Next]_vars PROVE ThreadsOfWs'
<1> USE ConnectionAssumption DEF IInv, TypeOK, PartsInv, ThreadsOfWs, mainVars,
       objects, flags, backoff, resume, discVars
<1>1. CASE CreateSocket
  BY <1>1 DEF CreateSocket, Goto, Joinable
<1>2. CASE OpenReturns
  BY <1>2 DEF OpenReturns, AttemptFails, Min2, Goto, Joinable
<1>3. CASE AuthFails
  BY <1>3 DEF AuthFails, AttemptFails, Min2, Goto, Joinable
<1>4. ASSUME NEW s \in Socket, Opens(s) PROVE ThreadsOfWs'
  BY <1>4 DEF Opens
<1>5. ASSUME NEW s \in Socket, OpenFails(s) PROVE ThreadsOfWs'
  BY <1>5 DEF OpenFails
<1>6. ASSUME NEW s \in Socket, SocketDrops(s) PROVE ThreadsOfWs'
  BY <1>6 DEF SocketDrops
<1>7. ASSUME NEW s \in Socket, OnWsClose(s) PROVE ThreadsOfWs'
  BY <1>7 DEF OnWsClose
<1>8. CASE DisconnectJoins
  BY <1>8 DEF DisconnectJoins, Joinable
<1>9. CASE DisconnectResets
  BY <1>9 DEF DisconnectResets, Joinable
<1>10. CASE
       \/ ConnectBegins \/ OpenInDestroyed \/ SendConnect
       \/ AuthFailsOnNull \/ AuthSucceeds \/ PublishConnected
       \/ RunConnects \/ MarkRunning \/ RunLoop
       \/ ReconnectBegins \/ ReconnectWakes \/ DisconnectBegins
       \/ DisconnectLowers \/ DisconnectRejects \/ DisconnectCloses
       \/ DisconnectInDestroyed
       \/ \E s \in Socket : AuthAnswered(s) \/ ServerRestarts(s)
       \/ UNCHANGED vars
  BY <1>10 DEF ConnectBegins, OpenInDestroyed, SendConnect, AuthFailsOnNull,
       AuthSucceeds, PublishConnected, RunConnects, MarkRunning, RunLoop,
       ReconnectBegins, ReconnectWakes, AuthAnswered, ServerRestarts,
       DisconnectBegins, DisconnectLowers, DisconnectRejects, DisconnectCloses,
       DisconnectInDestroyed, Crash, Goto, vars
<1> QED BY <1>1, <1>2, <1>3, <1>4, <1>5, <1>6, <1>7, <1>8, <1>9, <1>10
     DEF Next, Main, ReceiveThread, Disconnect

\* The main thread keeps its socket until a disconnect() begins.
LEMMA MainStep == ASSUME IInv, [Next]_vars PROVE (OpensWs /\ HasWs /\ CrashNeedsDisconnect)'
<1> USE ConnectionAssumption DEF IInv, TypeOK, PartsInv, OpensWs, HasWs,
       CrashNeedsDisconnect, mainVars, objects, flags, backoff, resume,
       discVars
<1>1. CASE ConnectBegins
  BY <1>1 DEF ConnectBegins
<1>2. CASE CreateSocket
  BY <1>2 DEF CreateSocket, Goto, Joinable
<1>3. CASE OpenReturns
  BY <1>3 DEF OpenReturns, AttemptFails, Min2, Goto, Joinable
<1>4. CASE OpenInDestroyed
  BY <1>4 DEF OpenInDestroyed, Crash
<1>5. CASE SendConnect
  BY <1>5 DEF SendConnect, Goto
<1>6. CASE AuthFails
  BY <1>6 DEF AuthFails, AttemptFails, Min2, Goto, Joinable
<1>7. CASE AuthFailsOnNull
  BY <1>7 DEF AuthFailsOnNull, Crash
<1>8. CASE AuthSucceeds
  BY <1>8 DEF AuthSucceeds, Goto
<1>9. CASE PublishConnected
  BY <1>9 DEF PublishConnected, Goto
<1>10. CASE RunConnects
  BY <1>10 DEF RunConnects, Goto
<1>11. CASE MarkRunning
  BY <1>11 DEF MarkRunning, Goto
<1>12. CASE RunLoop
  BY <1>12 DEF RunLoop
<1>13. CASE ReconnectBegins
  BY <1>13 DEF ReconnectBegins, Goto
<1>14. CASE ReconnectWakes
  BY <1>14 DEF ReconnectWakes, Goto
<1>15. CASE DisconnectBegins
  BY <1>15 DEF DisconnectBegins
<1>16. CASE DisconnectLowers
  BY <1>16 DEF DisconnectLowers
<1>17. CASE DisconnectRejects
  BY <1>17 DEF DisconnectRejects
<1>18. CASE DisconnectCloses
  BY <1>18 DEF DisconnectCloses
<1>19. CASE DisconnectInDestroyed
  BY <1>19 DEF DisconnectInDestroyed, Crash
<1>20. CASE DisconnectJoins
  BY <1>20 DEF DisconnectJoins, Joinable
<1>21. CASE DisconnectResets
  BY <1>21 DEF DisconnectResets, Joinable
<1>22. CASE
       \/ \E s \in Socket : Opens(s) \/ OpenFails(s) \/ AuthAnswered(s)
       \/ \E s \in Socket : ServerRestarts(s) \/ SocketDrops(s) \/ OnWsClose(s)
       \/ UNCHANGED vars
  BY <1>22 DEF Opens, OpenFails, AuthAnswered, ServerRestarts, SocketDrops,
       OnWsClose, vars
<1> QED BY <1>1, <1>2, <1>3, <1>4, <1>5, <1>6, <1>7, <1>8, <1>9, <1>10, <1>11,
     <1>12, <1>13, <1>14, <1>15, <1>16, <1>17, <1>18, <1>19, <1>20, <1>21,
     <1>22
     DEF Next, Main, ReceiveThread, Disconnect

\* A stored protocol is that of an answer, and an answer clears the restart.
LEMMA RestartStep == ASSUME IInv, [Next]_vars PROVE RestartIsKept'
<1> USE ConnectionAssumption DEF IInv, TypeOK, PartsInv, RestartIsKept,
       mainVars, objects, flags, backoff, resume, discVars
<1>1. CASE SendConnect
  BY <1>1 DEF SendConnect, Goto
<1>2. CASE AuthFails
  BY <1>2 DEF AuthFails, AttemptFails, Min2, Goto, Joinable
<1>3. CASE AuthSucceeds
  BY <1>3 DEF AuthSucceeds, Goto
<1>4. ASSUME NEW s \in Socket, AuthAnswered(s) PROVE RestartIsKept'
  BY <1>4 DEF AuthAnswered
<1>5. ASSUME NEW s \in Socket, ServerRestarts(s) PROVE RestartIsKept'
  BY <1>5 DEF ServerRestarts
<1>6. ASSUME NEW s \in Socket, OnWsClose(s) PROVE RestartIsKept'
  BY <1>6 DEF OnWsClose
<1>7. CASE DisconnectRejects
  BY <1>7 DEF DisconnectRejects
<1>8. CASE
       \/ ConnectBegins \/ CreateSocket \/ OpenReturns
       \/ OpenInDestroyed \/ AuthFailsOnNull \/ PublishConnected
       \/ RunConnects \/ MarkRunning \/ RunLoop
       \/ ReconnectBegins \/ ReconnectWakes \/ DisconnectBegins
       \/ DisconnectLowers \/ DisconnectCloses \/ DisconnectInDestroyed
       \/ DisconnectJoins \/ DisconnectResets
       \/ \E s \in Socket : Opens(s) \/ OpenFails(s) \/ SocketDrops(s)
       \/ UNCHANGED vars
  BY <1>8 DEF ConnectBegins, CreateSocket, OpenReturns, OpenInDestroyed,
       AuthFailsOnNull, PublishConnected, RunConnects, MarkRunning, RunLoop,
       ReconnectBegins, ReconnectWakes, Opens, OpenFails, SocketDrops,
       DisconnectBegins, DisconnectLowers, DisconnectCloses,
       DisconnectInDestroyed, DisconnectJoins, DisconnectResets, AttemptFails,
       Crash, Goto, Joinable, Min2, vars
<1> QED BY <1>1, <1>2, <1>3, <1>4, <1>5, <1>6, <1>7, <1>8
     DEF Next, Main, ReceiveThread, Disconnect

-----------------------------------------------------------------------------
\* The strengthening is inductive.
THEOREM Inductive == Spec => []IInv
<1>1. Init => IInv
  <2> SUFFICES ASSUME Init PROVE IInv
    OBVIOUS
  <2>1. /\ up \in [Socket -> BOOLEAN] /\ connected \in BOOLEAN
        /\ running \in BOOLEAN /\ protocol \in BOOLEAN
    BY Zenon DEF Init
  <2> QED
    BY <2>1, ConnectionAssumption
     DEF Init, IInv, TypeOK, PartsInv, ThreadsOfWs, OpensWs, HasWs,
         CrashNeedsDisconnect, RestartIsKept
<1>2. IInv /\ [Next]_vars => IInv'
  BY TypeStep, ThreadStep, MainStep, RestartStep DEF IInv, PartsInv
<1> QED
  BY <1>1, <1>2, PTL DEF Spec

\* Every variable has its type: in particular the backoff of reconnect() stays
\* within RECONNECT_MAX_DELAY_MS and MAX_RECONNECT_ATTEMPTS.
THEOREM TypeCorrect == Spec => []TypeOK
<1>1. IInv => TypeOK
  BY DEF IInv
<1> QED
  BY <1>1, Inductive, PTL

\* No two receive threads ever run on_ws_message for one client.
THEOREM OneThread == Spec => []OneReceiveThread
<1>1. IInv => OneReceiveThread
  <2> SUFFICES ASSUME IInv PROVE OneReceiveThread
    OBVIOUS
  <2> DEFINE T == {s \in Socket : thread[s] # "none"}
  <2>1. T = {} \/ T = {ws}
    BY DEF IInv, PartsInv, ThreadsOfWs
  <2>2. Cardinality(T) = 0 \/ Cardinality(T) = 1
    BY <2>1, FS_EmptySet, FS_Singleton
  <2> QED
    BY <2>2 DEF OneReceiveThread
<1> QED
  BY <1>1, Inductive, PTL

\* Without disconnect() the main thread uses no socket that is gone.
THEOREM CrashIsExplained == Spec => []CrashNeedsDisconnect
<1>1. IInv => CrashNeedsDisconnect
  BY DEF IInv, PartsInv
<1> QED
  BY <1>1, Inductive, PTL

\* A restart is honoured by the next signalwire.connect, or was raced.
THEOREM StaleSessionIsExplained == Spec => []StaleSessionNeedsRace
<1>1. IInv => StaleSessionNeedsRace
  BY DEF IInv, PartsInv, RestartIsKept, StaleSessionNeedsRace
<1> QED
  BY <1>1, Inductive, PTL
=============================================================================
