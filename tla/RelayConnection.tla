-------------------------- MODULE RelayConnection --------------------------
(***************************************************************************)
(* The connection of the RELAY client: connect(), run(), reconnect() with  *)
(* its backoff, authenticate() and disconnect() (src/relay/client.cpp),    *)
(* over the WebSocketClient objects they make and destroy                  *)
(* (src/relay/websocket.cpp).                                              *)
(*                                                                         *)
(* Actors: the main thread (a user's connect() followed by run()), the     *)
(* receive thread IXWebSocket starts for each socket, a user thread that   *)
(* calls disconnect() once, and the peer.  ws_, connected_ and running_    *)
(* are shared by the two user threads without a lock.  Of the requests     *)
(* only signalwire.connect matters here; RelayRpc has the others.          *)
(***************************************************************************)
EXTENDS Naturals, FiniteSets

CONSTANTS
  Socket,          \* WebSocketClient objects, reused once destroyed
  NoSocket,        \* the null ws_
  BaseDelay,       \* RECONNECT_BASE_DELAY_MS
  MaxDelay,        \* RECONNECT_MAX_DELAY_MS
  MaxAttempts,     \* MAX_RECONNECT_ATTEMPTS
  UserDisconnects  \* whether a user thread calls disconnect()

ASSUME ConnectionAssumption ==
  /\ NoSocket \notin Socket
  /\ BaseDelay \in Nat \ {0} /\ MaxDelay \in Nat /\ BaseDelay <= MaxDelay
  /\ MaxAttempts \in Nat
  /\ UserDisconnects \in BOOLEAN

VARIABLES
  main,       \* where the main thread is
  via,        \* the function whose open/authenticate steps it executes
  mine,       \* the socket whose member function the main thread is inside
  ws,         \* RelayClient::ws_
  alive,      \* the WebSocketClient objects not destroyed
  up,         \* WebSocketClient::connected_ of each object
  thread,     \* the receive thread of each object
  handshake,  \* connect_done_ and connect_ok_ of the object being opened
  auth,       \* the signalwire.connect request of authenticate()
  connected, running,   \* the two atomics of RelayClient
  delay, attempts,      \* reconnect_delay_ms_, reconnect_attempts_
  protocol,   \* protocol_ is non-empty
  restart,    \* the peer asked for a restart after its last connect answer:
              \* "no", "asked", or "raced" when protocol_ was not stored yet
  disc,       \* progress of the thread inside disconnect()
  closing     \* the socket that thread is closing

mainVars == <<main, via, mine>>
objects  == <<ws, alive, up, thread, handshake>>
flags    == <<connected, running>>
backoff  == <<delay, attempts>>
resume   == <<protocol, restart>>
discVars == <<disc, closing>>
vars     == <<mainVars, objects, auth, flags, backoff, resume, discVars>>

TypeOK ==
  /\ main \in {"start", "create", "opening", "opened", "auth", "authed",
               "mark", "run", "loop", "attempt", "sleep", "returned", "crashed"}
  /\ via \in {"connect", "reconnect"}
  /\ mine \in Socket \union {NoSocket}
  /\ ws \in Socket \union {NoSocket}
  /\ alive \subseteq Socket
  /\ up \in [Socket -> BOOLEAN]
  /\ thread \in [Socket -> {"none", "handshake", "live", "closing"}]
  /\ handshake \in {"no", "ok", "failed"}
  /\ auth \in {"none", "sent", "accepted", "refused", "rejected"}
  /\ connected \in BOOLEAN /\ running \in BOOLEAN
  /\ delay \in BaseDelay .. MaxDelay
  /\ attempts \in 0 .. MaxAttempts
  /\ protocol \in BOOLEAN /\ restart \in {"no", "asked", "raced"}
  /\ disc \in {"no", "connected", "reject", "close", "join", "reset", "done"}
  /\ closing \in Socket \union {NoSocket}

Init ==
  /\ main = "start" /\ via = "connect" /\ mine = NoSocket
  /\ ws = NoSocket /\ alive = {}
  /\ up = [s \in Socket |-> FALSE]
  /\ thread = [s \in Socket |-> "none"]
  /\ handshake = "no"
  /\ auth = "none"
  /\ connected = FALSE /\ running = FALSE
  /\ delay = BaseDelay /\ attempts = 0
  /\ protocol = FALSE /\ restart = "no"
  /\ disc = "no" /\ closing = NoSocket

Min2(a, b) == IF a <= b THEN a ELSE b

-----------------------------------------------------------------------------
(* Variants of the code a plausible mistake would produce *)

\* reconnect() makes the new socket beside the old one.
CreateSocket_KeepsOld ==
  /\ main = "create"
  /\ \E s \in Socket \ alive :
       /\ s # closing
       /\ ws' = s
       /\ mine' = s
       /\ alive' = alive \union {s}
       /\ thread' = [thread EXCEPT ![s] = "handshake"]
  /\ handshake' = "no"
  /\ main' = "opening"
  /\ UNCHANGED <<via, up, auth, flags, backoff, resume, discVars>>

\* The attempts are not counted.
ReconnectBegins_NoCount ==
  /\ main = "attempt"
  /\ main' = IF running /\ attempts < MaxAttempts THEN "sleep" ELSE "returned"
  /\ UNCHANGED <<via, mine, objects, auth, flags, backoff, resume, discVars>>

\* The restart flag of signalwire.disconnect is not looked at.
ServerRestarts_KeepsProtocol(s) ==
  /\ thread[s] = "live"
  /\ auth = "accepted" \/ protocol
  /\ restart' = IF auth = "accepted" THEN "raced" ELSE "asked"
  /\ UNCHANGED <<mainVars, objects, auth, flags, backoff, protocol, discVars>>

\* run() looks at the connection only, and leaves the end to reconnect().
RunLoop_Trusts ==
  /\ main = "loop"
  /\ ~connected
  /\ main' = "attempt" /\ via' = "reconnect"
  /\ UNCHANGED <<mine, objects, auth, flags, backoff, resume, discVars>>

\* on_ws_close drops the dead socket at once.
OnWsClose_ResetsSocket(s) ==
  /\ thread[s] = "closing"
  /\ connected' = FALSE
  /\ auth' = IF auth = "sent" THEN "rejected" ELSE auth
  /\ thread' = [thread EXCEPT ![s] = "none"]
  /\ ws' = NoSocket
  /\ alive' = alive \ {s}
  /\ UNCHANGED <<mainVars, up, handshake, running, backoff, resume, discVars>>

-----------------------------------------------------------------------------
\* The receive thread of s is out of its callbacks, so that stop() can join it.
Joinable(s) == thread[s] # "closing"

-----------------------------------------------------------------------------
(* connect(), run() and reconnect(), in the main thread *)

Goto(pc) == main' = pc /\ UNCHANGED via

ConnectBegins ==
  /\ main = "start"
  /\ main' = "create" /\ via' = "connect"
  /\ UNCHANGED <<mine, objects, auth, flags, backoff, resume, discVars>>

\* ws_ = make_unique<WebSocketClient>(): the object ws_ pointed to is closed,
\* its receive thread joined, and it is destroyed.  Then connect_impl starts
\* the new socket's thread.
CreateSocket ==
  /\ main = "create"
  /\ ws # NoSocket => Joinable(ws)
  /\ \E s \in Socket \ alive :
       /\ s # closing
       /\ ws' = s
       /\ mine' = s
       /\ alive' = (alive \ {ws}) \union {s}
       /\ up' = [o \in Socket |-> up[o] /\ o # ws]
       /\ thread' = [o \in Socket |-> IF o = s THEN "handshake"
                                      ELSE IF o = ws THEN "none"
                                      ELSE thread[o]]
  /\ handshake' = "no"
  /\ Goto("opening")
  /\ UNCHANGED <<auth, flags, backoff, resume, discVars>>

\* A variant: the delay doubles without the cap.
AttemptFails_Uncapped ==
  IF via = "connect"
    THEN main' = "returned" /\ UNCHANGED <<via, backoff>>
    ELSE /\ main' = "attempt" /\ UNCHANGED <<via, attempts>>
         /\ delay' = 2 * delay

\* The backoff of reconnect() after a failed attempt; connect() just fails.
AttemptFails ==
  IF via = "connect"
    THEN main' = "returned" /\ UNCHANGED <<via, backoff>>
    ELSE /\ main' = "attempt" /\ UNCHANGED <<via, attempts>>
         /\ delay' = Min2(2 * delay, MaxDelay)

\* What the main thread does to the memory of a destroyed object is undefined;
\* the process is lost.
Crash ==
  /\ main' = "crashed"
  /\ UNCHANGED <<via, mine, objects, auth, flags, backoff, resume, discVars>>

\* connect_impl returns: Open arrived, or Error, Close or its own time-out, on
\* which it stops the thread.  disconnect() may have destroyed the object.
OpenReturns ==
  /\ main = "opening"
  /\ mine \in alive
  /\ IF handshake = "ok"
       THEN Goto("opened") /\ UNCHANGED <<up, thread, backoff>>
       ELSE /\ Joinable(mine)
            /\ up' = [up EXCEPT ![mine] = FALSE]
            /\ thread' = [thread EXCEPT ![mine] = "none"]
            /\ AttemptFails
  /\ mine' = NoSocket
  /\ UNCHANGED <<ws, alive, handshake, auth, flags, resume, discVars>>

OpenInDestroyed ==
  /\ main = "opening"
  /\ mine \notin alive
  /\ Crash

\* authenticate() up to the wait: the request is registered and sent by ws_.
SendConnect ==
  /\ main = "opened"
  /\ auth' = IF ws # NoSocket /\ up[ws] THEN "sent" ELSE "none"
  /\ Goto("auth")
  /\ UNCHANGED <<mine, objects, flags, backoff, resume, discVars>>

\* A rejected authenticate(): both callers close ws_, connect() drops it too.
AuthFails ==
  /\ main = "auth"
  /\ auth # "accepted"        \* "sent" is the request's own time-out
  /\ ws # NoSocket /\ Joinable(ws)
  /\ up' = [o \in Socket |-> up[o] /\ o # ws]
  /\ thread' = [o \in Socket |-> IF o = ws THEN "none" ELSE thread[o]]
  /\ IF via = "connect" THEN ws' = NoSocket /\ alive' = alive \ {ws}
                        ELSE UNCHANGED <<ws, alive>>
  /\ auth' = "none"
  /\ AttemptFails
  /\ UNCHANGED <<mine, handshake, flags, resume, discVars>>

\* Both call ws_->close() without a look at ws_, which disconnect() may have
\* reset while they waited.
AuthFailsOnNull ==
  /\ main = "auth"
  /\ auth # "accepted"
  /\ ws = NoSocket
  /\ Crash

\* The caller of authenticate() has its result: protocol_ is stored.
AuthSucceeds ==
  /\ main = "auth"
  /\ auth = "accepted"
  /\ auth' = "none"
  /\ protocol' = TRUE
  /\ Goto("authed")
  /\ UNCHANGED <<mine, objects, flags, backoff, restart, discVars>>

\* connected_ goes up in a step of its own, after authenticate() returned.
PublishConnected ==
  /\ main = "authed"
  /\ connected' = TRUE
  /\ delay' = BaseDelay /\ attempts' = 0
  /\ Goto(IF via = "connect" THEN "run" ELSE "loop")
  /\ UNCHANGED <<mine, objects, auth, running, resume, discVars>>

\* run(): its connect() returns at once if the client is connected by then.
RunConnects ==
  /\ main = "run"
  /\ Goto(IF connected THEN "mark" ELSE "create")
  /\ UNCHANGED <<mine, objects, auth, flags, backoff, resume, discVars>>

MarkRunning ==
  /\ main = "mark"
  /\ running' = TRUE
  /\ Goto("loop")
  /\ UNCHANGED <<mine, objects, auth, connected, backoff, resume, discVars>>

\* The loop of run(): while connected there is nothing to do.
RunLoop ==
  /\ main = "loop"
  /\ ~running \/ ~connected
  /\ IF ~running THEN main' = "returned" /\ UNCHANGED via
                 ELSE main' = "attempt" /\ via' = "reconnect"
  /\ UNCHANGED <<mine, objects, auth, flags, backoff, resume, discVars>>

\* The loop of reconnect(); its caller gives up when it does.
ReconnectBegins ==
  /\ main = "attempt"
  /\ IF running /\ attempts < MaxAttempts
       THEN Goto("sleep") /\ attempts' = attempts + 1
       ELSE Goto("returned") /\ UNCHANGED attempts
  /\ UNCHANGED <<mine, objects, auth, flags, delay, resume, discVars>>

ReconnectWakes ==
  /\ main = "sleep"
  /\ Goto(IF running THEN "create" ELSE "returned")
  /\ UNCHANGED <<mine, objects, auth, flags, backoff, resume, discVars>>

Main ==
  \/ ConnectBegins \/ CreateSocket \/ OpenReturns \/ OpenInDestroyed
  \/ SendConnect \/ AuthFails \/ AuthFailsOnNull \/ AuthSucceeds \/ PublishConnected
  \/ RunConnects \/ MarkRunning \/ RunLoop \/ ReconnectBegins \/ ReconnectWakes

-----------------------------------------------------------------------------
(* The receive thread of socket s, and the peer behind it *)

Opens(s) ==
  /\ thread[s] = "handshake"
  /\ thread' = [thread EXCEPT ![s] = "live"]
  /\ up' = [up EXCEPT ![s] = TRUE]
  /\ handshake' = "ok"
  /\ UNCHANGED <<mainVars, ws, alive, auth, flags, backoff, resume, discVars>>

OpenFails(s) ==
  /\ thread[s] = "handshake"
  /\ thread' = [thread EXCEPT ![s] = "none"]
  /\ handshake' = "failed"
  /\ UNCHANGED <<mainVars, ws, alive, up, auth, flags, backoff, resume,
                 discVars>>

\* on_ws_message sets the promise of signalwire.connect.
AuthAnswered(s) ==
  /\ thread[s] = "live"
  /\ auth = "sent" /\ s = ws
  /\ \/ auth' = "accepted" /\ restart' = "no"
     \/ auth' = "refused" /\ UNCHANGED restart
  /\ UNCHANGED <<mainVars, objects, flags, backoff, protocol, discVars>>

\* signalwire.disconnect with restart: true.  The peer sends it to a client it
\* has let in.
ServerRestarts(s) ==
  /\ thread[s] = "live"
  /\ auth = "accepted" \/ protocol
  /\ protocol' = FALSE
  /\ restart' = IF auth = "accepted" THEN "raced" ELSE "asked"
  /\ UNCHANGED <<mainVars, objects, auth, flags, backoff, discVars>>

\* A Close event.  On a socket close() is working on it goes no further.
SocketDrops(s) ==
  /\ thread[s] = "live"
  /\ up[s]
  /\ up' = [up EXCEPT ![s] = FALSE]
  /\ thread' = [thread EXCEPT ![s] = "closing"]
  /\ UNCHANGED <<mainVars, ws, alive, handshake, auth, flags, backoff, resume,
                 discVars>>

OnWsClose(s) ==
  /\ thread[s] = "closing"
  /\ connected' = FALSE
  /\ auth' = IF auth = "sent" THEN "rejected" ELSE auth
  /\ thread' = [thread EXCEPT ![s] = "none"]
  /\ UNCHANGED <<mainVars, ws, alive, up, handshake, running, backoff, resume,
                 discVars>>

ReceiveThread(s) ==
  \/ Opens(s) \/ OpenFails(s) \/ AuthAnswered(s) \/ ServerRestarts(s)
  \/ SocketDrops(s) \/ OnWsClose(s)

-----------------------------------------------------------------------------
(* disconnect(), in the thread of its caller *)

\* Its caller has seen connect() return, and may have left run() to another
\* thread, as tools/relay_liveness_dump.cpp does.
DisconnectBegins ==
  /\ UserDisconnects
  /\ disc = "no"
  /\ via = "reconnect" \/ main \in {"run", "mark", "loop"}
  /\ running' = FALSE
  /\ disc' = "connected"
  /\ UNCHANGED <<mainVars, objects, auth, connected, backoff, resume, closing>>

DisconnectLowers ==
  /\ disc = "connected"
  /\ connected' = FALSE
  /\ disc' = "reject"
  /\ UNCHANGED <<mainVars, objects, auth, running, backoff, resume, closing>>

DisconnectRejects ==
  /\ disc = "reject"
  /\ auth' = IF auth = "sent" THEN "rejected" ELSE auth
  /\ disc' = "close"
  /\ UNCHANGED <<mainVars, objects, flags, backoff, resume, closing>>

\* if (ws_) ws_->close(): closing_ is up, connected_ down, the join begins.
DisconnectCloses ==
  /\ disc = "close"
  /\ IF ws = NoSocket
       THEN disc' = "done" /\ UNCHANGED <<closing, up>>
       ELSE /\ disc' = "join" /\ closing' = ws
            /\ up' = [up EXCEPT ![ws] = FALSE]
  /\ UNCHANGED <<mainVars, ws, alive, thread, handshake, auth, flags, backoff,
                 resume>>

DisconnectInDestroyed ==
  /\ disc = "join"
  /\ closing \notin alive
  /\ Crash

DisconnectJoins ==
  /\ disc = "join"
  /\ closing \in alive
  /\ Joinable(closing)
  /\ thread' = [thread EXCEPT ![closing] = "none"]
  /\ handshake' = IF thread[closing] = "handshake" THEN "failed" ELSE handshake
  /\ disc' = "reset"
  /\ UNCHANGED <<mainVars, ws, alive, up, auth, flags, backoff, resume, closing>>

\* ws_.reset() destroys the object ws_ points to by now.
DisconnectResets ==
  /\ disc = "reset"
  /\ ws # NoSocket => Joinable(ws)
  /\ alive' = alive \ {ws}
  /\ up' = [o \in Socket |-> up[o] /\ o # ws]
  /\ thread' = [o \in Socket |-> IF o = ws THEN "none" ELSE thread[o]]
  /\ ws' = NoSocket
  /\ closing' = NoSocket
  /\ disc' = "done"
  /\ UNCHANGED <<mainVars, handshake, auth, flags, backoff, resume>>

Disconnect ==
  \/ DisconnectBegins \/ DisconnectLowers \/ DisconnectRejects
  \/ DisconnectCloses \/ DisconnectInDestroyed \/ DisconnectJoins
  \/ DisconnectResets

Next ==
  /\ main # "crashed"
  /\ \/ Main
     \/ \E s \in Socket : ReceiveThread(s)
     \/ Disconnect

Spec == Init /\ [][Next]_vars

\* The threads are scheduled: the main thread's waits all have a deadline, and
\* on_ws_close, once entered, returns.  Of the peer nothing is assumed.
FairSpec ==
  /\ Spec
  /\ WF_vars(Main)
  /\ \A s \in Socket : WF_vars(OnWsClose(s))

-----------------------------------------------------------------------------
(* Properties *)

\* One WebSocket per client: the receive thread of a socket is gone before the
\* next socket has one, so that no two threads run on_ws_message.
OneReceiveThread == Cardinality({s \in Socket : thread[s] # "none"}) <= 1

\* Without a disconnect() in another thread, the main thread is never inside a
\* socket that has been destroyed: on_ws_close leaves the dead socket alone.
CrashNeedsDisconnect == main = "crashed" => disc # "no"

\* After signalwire.disconnect(restart) the next signalwire.connect resumes
\* nothing, unless that frame was handled before authenticate() stored the
\* protocol of the answer that came with it.
StaleSessionNeedsRace == main = "opened" /\ restart = "asked" => ~protocol

\* A reconnect comes to an end: with a connected client, or with run() given
\* up, even if no peer ever answers.
ReconnectSettles ==
  [](main = "attempt" => <>(main \in {"loop", "returned", "crashed"}))

\* A disconnect() that begins once run() is past its store to running_ makes
\* run() return, wherever reconnect() is at that moment: asleep, inside a
\* socket, or about to raise connected_ over the disconnect.
DisconnectStopsRun ==
  [](disc = "connected" /\ ~running /\ (via = "reconnect" \/ main = "loop")
       => <>(main \in {"returned", "crashed"}))

-----------------------------------------------------------------------------
(* What the documentation says, and the code does not do *)

\* relay/docs/client-reference.md: "On connection loss, the client reconnects".
\* A socket that closes between the end of authenticate() and the store to
\* connected_ is never missed: on_ws_close ran first.
LossIsRepaired ==
  [](main = "loop" /\ running /\ ws # NoSocket /\ ~up[ws]
       => <>(main # "loop"))

\* tests/test_relay_mock_connect.cpp, the clean teardown: once disconnect() has
\* returned, is_connected() is false.
DisconnectedStaysSo == disc = "done" => ~connected

\* client.cpp:431: a restart empties protocol_, so that the next
\* signalwire.connect resumes nothing.  The main thread may store protocol_
\* after the receive thread has emptied it.
RestartIsClean == main = "opened" /\ restart # "no" => ~protocol

\* The comment in run(): it blocks until disconnect.  A disconnect() between
\* run()'s connect() and its store to running_ is overwritten.
DisconnectEndsRun ==
  [](disc = "done" => <>(main \in {"returned", "crashed"}))
=============================================================================
