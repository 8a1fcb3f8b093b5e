----------------------------- MODULE RelayCalls -----------------------------
(***************************************************************************)
(* The call registry of the RELAY client: calls_ (raw pointers by call id),*)
(* owned_calls_ (the objects), inbound calls and their detached handler    *)
(* threads, and RelayClient::dial with pending_dials_                      *)
(* (src/relay/client.cpp).                                                 *)
(*                                                                         *)
(* Actors: the receive thread of the current socket, the threads inside    *)
(* dial(), the handler threads of inbound calls, the thread inside         *)
(* disconnect(), the main thread, which opens a new socket after a loss,   *)
(* and the peer.  A call id names at most one Call object: the peer sends  *)
(* nothing about a call after its `ended`, so no id is registered twice.   *)
(* The calling.dial RPC itself is RelayRpc's; here it succeeds or fails.   *)
(***************************************************************************)
EXTENDS Naturals, FiniteSets

CONSTANTS
  CallId,         \* the calls the peer talks about
  Dialer,         \* the calls of dial(); each has its own tag
  Inbound,        \* not a dialer: what LegOf says of an inbound call
  LegOf,          \* the dialer whose tag a call carries, or Inbound
  NoCall,         \* the null pointer, and the empty Call made of it
  MaxActiveCalls, \* RelayConfig::max_active_calls
  MaxSessions     \* bound on the sockets opened one after the other

ASSUME CallsAssumption ==
  /\ LegOf \in [CallId -> Dialer \union {Inbound}]
  /\ Inbound \notin Dialer
  /\ NoCall \notin CallId
  /\ MaxActiveCalls \in Nat
  /\ MaxSessions \in Nat \ {0}

VARIABLES
  calls,         \* the keys of calls_
  owned,         \* the calls whose object owned_calls_ keeps alive
  state,         \* Call::SharedState::state, as the client knows it
  peer,          \* the state of each call at the peer
  handler,       \* the detached thread of an inbound call, with its Call*
  dial,          \* where each caller of dial() is
  placed,        \* what the peer has done of each dial
  progressed,    \* the dials it sent a dial_state of "dialing" for
  pendingDials,  \* the keys of pending_dials_
  fulfilled,     \* the dials whose promise is set
  promised,      \* ... and its value: a Call*, or the null pointer
  result,        \* what dial() returned
  recv,          \* what the receive thread is doing
  held,          \* the PendingDial handle_dial_event took out of the map
  subject,       \* the call the event being handled is about
  news,          \* the state the event being handled carries
  session, open, \* number of sockets opened; is the current one connected
  disc,          \* progress of the thread inside disconnect()
  main,          \* where the main thread is in run() and reconnect()
  late           \* history: a socket was opened after disconnect() closed ws_

registry == <<calls, owned>>
dials    == <<dial, pendingDials, fulfilled, promised, result>>
receiver == <<recv, held, subject, news>>
link     == <<session, open>>
remote   == <<placed, progressed>>
thread   == <<main, late>>
vars     == <<registry, state, peer, handler, dials, remote, receiver, link,
              disc, thread>>

\* The lifecycle, without the states nothing below tells apart.
Rank       == [none |-> 0, created |-> 1, answered |-> 2, ended |-> 3]
CallState  == {"created", "answered", "ended"}
DialState  == {"dialing", "answered", "failed"}
IsLeg(c)   == LegOf[c] # Inbound

TypeOK ==
  /\ calls \subseteq CallId
  /\ owned \subseteq CallId
  /\ state \in [CallId -> CallState \union {"none"}]
  /\ peer \in [CallId -> CallState \union {"none"}]
  /\ handler \in [CallId -> {"none", "running", "done"}]
  /\ dial \in [Dialer -> {"idle", "registered", "waiting", "expired", "ready",
                          "holding", "done"}]
  /\ placed \in [Dialer -> {"no", "yes", "over"}]
  /\ progressed \subseteq Dialer
  /\ pendingDials \subseteq Dialer
  /\ fulfilled \subseteq Dialer
  /\ promised \in [Dialer -> CallId \union {NoCall}]
  /\ result \in [Dialer -> CallId \union {NoCall}]
  /\ recv \in {"idle", "route", "dial", "reject", "gone", "null"}
  /\ held \subseteq Dialer
  /\ subject \subseteq CallId
  /\ news \in CallState \union DialState \union {"none", "component"}
  /\ session \in 1 .. MaxSessions
  /\ open \in BOOLEAN
  /\ disc \in {"no", "reject", "close", "join", "calls", "owned", "done"}
  /\ main \in {"loop", "create", "auth"}
  /\ late \in BOOLEAN

\* run() has seen connect() return and is in its loop: from here running_ is up
\* until disconnect() lowers it.
Init ==
  /\ calls = {} /\ owned = {}
  /\ state = [c \in CallId |-> "none"]
  /\ peer = [c \in CallId |-> "none"]
  /\ handler = [c \in CallId |-> "none"]
  /\ dial = [d \in Dialer |-> "idle"]
  /\ placed = [d \in Dialer |-> "no"]
  /\ progressed = {} /\ pendingDials = {} /\ fulfilled = {}
  /\ promised = [d \in Dialer |-> NoCall]
  /\ result = [d \in Dialer |-> NoCall]
  /\ recv = "idle" /\ held = {} /\ subject = {} /\ news = "none"
  /\ session = 1 /\ open = TRUE
  /\ disc = "no"
  /\ main = "loop" /\ late = FALSE

-----------------------------------------------------------------------------
(* Variants of the code a plausible mistake would produce *)

\* The new Call is kept alive but not registered.
Create_Unregistered(c, s) ==
  /\ UNCHANGED calls
  /\ owned' = owned \union {c}
  /\ state' = [state EXCEPT ![c] = s]

\* handle_component_event goes through update_state like a call state.
UseCall_StoresAny(c) ==
  /\ recv = "route"
  /\ c \in subject
  /\ state' = [state EXCEPT ![c] = news]
  /\ calls' = IF news = "ended" THEN calls \ {c} ELSE calls
  /\ recv' = "idle" /\ held' = {} /\ subject' = {} /\ news' = "none"
  /\ UNCHANGED <<owned, peer, handler, dials, remote, link, disc, thread>>

\* handle_dial_event copies the entry and leaves it in the map.
TakeDial_KeepsEntry(d, s, about) ==
  /\ recv = "idle"
  /\ IF d \in pendingDials
       THEN recv' = "dial" /\ held' = {d} /\ subject' = about /\ news' = s
       ELSE UNCHANGED receiver
  /\ UNCHANGED <<registry, state, handler, dials, link, disc, thread>>

\* "failed" is logged and nothing else.
SettleDial_IgnoresFailed(d) ==
  /\ recv = "dial"
  /\ d \in held
  /\ IF news = "answered"
       THEN \E c \in subject :
              /\ IF c \in calls THEN UNCHANGED <<registry, state>>
                   ELSE /\ calls' = calls \union {c}
                        /\ owned' = owned \union {c}
                        /\ state' = [state EXCEPT ![c] = "answered"]
              /\ fulfilled' = fulfilled \union {d}
              /\ promised' = [promised EXCEPT ![d] = c]
       ELSE UNCHANGED <<registry, state, fulfilled, promised>>
  /\ recv' = "idle" /\ held' = {} /\ subject' = {} /\ news' = "none"
  /\ UNCHANGED <<peer, handler, dial, pendingDials, result, remote, link, disc,
                 thread>>

\* disconnect() sweeps without joining the receive thread first.
DisconnectJoins_SkipsJoin ==
  /\ disc = "join"
  /\ disc' = "calls"
  /\ UNCHANGED <<registry, state, peer, handler, dials, remote, receiver, link,
                 thread>>

-----------------------------------------------------------------------------
\* register_call and the push onto owned_calls_.
Create(c, s) ==
  /\ calls' = calls \union {c}
  /\ owned' = owned \union {c}
  /\ state' = [state EXCEPT ![c] = s]

Idle == recv' = "idle" /\ held' = {} /\ subject' = {} /\ news' = "none"

-----------------------------------------------------------------------------
(* dial(), in the thread of its caller *)

\* The pending dial is registered before the RPC is sent.
DialRegisters(d) ==
  /\ dial[d] = "idle"
  /\ dial' = [dial EXCEPT ![d] = "registered"]
  /\ pendingDials' = pendingDials \union {d}
  /\ UNCHANGED <<registry, state, peer, handler, fulfilled, promised, result,
                 remote, receiver, link, disc, thread>>

\* The frame reaches the peer; its events may overtake the RPC's response.
DialReachesPeer(d) ==
  /\ dial[d] = "registered"
  /\ open
  /\ placed[d] = "no"
  /\ placed' = [placed EXCEPT ![d] = "yes"]
  /\ UNCHANGED <<registry, state, peer, handler, dials, progressed, receiver,
                 link, disc, thread>>

DialRpcReturns(d) ==
  /\ dial[d] = "registered"
  /\ placed[d] # "no"
  /\ dial' = [dial EXCEPT ![d] = "waiting"]
  /\ UNCHANGED <<registry, state, peer, handler, pendingDials, fulfilled,
                 promised, result, remote, receiver, link, disc, thread>>

\* A RelayError, a send that failed or a timeout: the empty Call.
DialRpcThrows(d) ==
  /\ dial[d] = "registered"
  /\ dial' = [dial EXCEPT ![d] = "done"]
  /\ pendingDials' = pendingDials \ {d}
  /\ UNCHANGED <<registry, state, peer, handler, fulfilled, promised, result,
                 remote, receiver, link, disc, thread>>

DialWakes(d) ==
  /\ dial[d] = "waiting"
  /\ dial' = [dial EXCEPT ![d] = IF d \in fulfilled THEN "ready" ELSE "expired"]
  /\ UNCHANGED <<registry, state, peer, handler, pendingDials, fulfilled,
                 promised, result, remote, receiver, link, disc, thread>>

\* The erase after the wait; then the status of the wait decides.
DialErases(d) ==
  /\ dial[d] \in {"ready", "expired"}
  /\ pendingDials' = pendingDials \ {d}
  /\ dial' = [dial EXCEPT ![d] = IF dial[d] = "ready" /\ promised[d] # NoCall
                                   THEN "holding" ELSE "done"]
  /\ UNCHANGED <<registry, state, peer, handler, fulfilled, promised, result,
                 remote, receiver, link, disc, thread>>

\* `return *call_ptr`: the copy goes through the raw pointer.
DialReturns(d) ==
  /\ dial[d] = "holding"
  /\ dial' = [dial EXCEPT ![d] = "done"]
  /\ result' = [result EXCEPT ![d] = promised[d]]
  /\ UNCHANGED <<registry, state, peer, handler, pendingDials, fulfilled,
                 promised, remote, receiver, link, disc, thread>>

Dialing(d) ==
  \/ DialRegisters(d) \/ DialReachesPeer(d) \/ DialRpcReturns(d)
  \/ DialRpcThrows(d) \/ DialWakes(d) \/ DialErases(d) \/ DialReturns(d)

-----------------------------------------------------------------------------
(* The receive thread: one event at a time, in the order the peer sent them *)

\* handle_inbound_call: only this thread inserts, so its separate lock holds
\* for the bound, the registration and the ownership are one step.
ReceiveCall(c) ==
  /\ recv = "idle"
  /\ ~IsLeg(c)
  /\ peer[c] = "none"
  /\ peer' = [peer EXCEPT ![c] = "created"]
  /\ IF Cardinality(calls) >= MaxActiveCalls
       THEN UNCHANGED <<registry, state, handler>>
       ELSE /\ Create(c, "created")
            /\ handler' = [handler EXCEPT ![c] = "running"]
  /\ UNCHANGED <<dials, remote, receiver, link, disc, thread>>

\* handle_call_state up to find_call: a leg of a pending dial gets its object
\* under dials_mutex_, an event about an unknown call is dropped.
FindForState(c, s) ==
  /\ recv = "idle"
  /\ IF IsLeg(c) THEN placed[LegOf[c]] # "no" ELSE peer[c] # "none"
  /\ Rank[s] > Rank[peer[c]]
  /\ peer' = [peer EXCEPT ![c] = s]
  /\ LET leg == IsLeg(c) /\ LegOf[c] \in pendingDials /\ c \notin calls
     IN  /\ IF leg THEN Create(c, "created") ELSE UNCHANGED <<registry, state>>
         /\ IF leg \/ c \in calls
              THEN recv' = "route" /\ subject' = {c} /\ news' = s
              ELSE UNCHANGED <<recv, subject, news>>
  /\ UNCHANGED <<handler, dials, remote, held, link, disc, thread>>

\* handle_component_event up to find_call.
FindForComponent(c) ==
  /\ recv = "idle"
  /\ peer[c] \in {"created", "answered"}
  /\ c \in calls
  /\ recv' = "route" /\ subject' = {c} /\ news' = "component"
  /\ UNCHANGED <<registry, state, peer, handler, dials, remote, held, link,
                 disc, thread>>

\* update_state and dispatch_event through the raw pointer, then
\* unregister_call for `ended`.
UseCall(c) ==
  /\ recv = "route"
  /\ c \in subject
  /\ state' = IF news = "component" THEN state
                                    ELSE [state EXCEPT ![c] = news]
  /\ calls' = IF news = "ended" THEN calls \ {c} ELSE calls
  /\ Idle
  /\ UNCHANGED <<owned, peer, handler, dials, remote, link, disc, thread>>

\* handle_dial_event, first half: the entry leaves the map whatever the
\* dial_state is.  Without an entry the event is dropped.
TakeDial(d, s, about) ==
  /\ recv = "idle"
  /\ IF d \in pendingDials
       THEN /\ pendingDials' = pendingDials \ {d}
            /\ recv' = "dial" /\ held' = {d} /\ subject' = about /\ news' = s
       ELSE UNCHANGED <<pendingDials, receiver>>
  /\ UNCHANGED <<registry, state, handler, dial, fulfilled, promised, result,
                 link, disc, thread>>

DialProgress(d) ==
  /\ placed[d] = "yes"
  /\ d \notin progressed
  /\ progressed' = progressed \union {d}
  /\ TakeDial(d, "dialing", {})
  /\ UNCHANGED <<placed, peer>>

DialFailed(d) ==
  /\ placed[d] = "yes"
  /\ placed' = [placed EXCEPT ![d] = "over"]
  /\ TakeDial(d, "failed", {})
  /\ UNCHANGED <<progressed, peer>>

DialAnswered(d, c) ==
  /\ placed[d] = "yes"
  /\ LegOf[c] = d
  /\ peer[c] # "ended"
  /\ placed' = [placed EXCEPT ![d] = "over"]
  /\ peer' = [peer EXCEPT ![c] = "answered"]
  /\ TakeDial(d, "answered", {c})
  /\ UNCHANGED progressed

\* handle_dial_event, second half.
SettleDial(d) ==
  /\ recv = "dial"
  /\ d \in held
  /\ CASE news = "answered" ->
            \E c \in subject :
              /\ IF c \in calls THEN UNCHANGED <<registry, state>>
                                ELSE Create(c, "answered")
              /\ fulfilled' = fulfilled \union {d}
              /\ promised' = [promised EXCEPT ![d] = c]
       [] news = "failed" ->
            /\ fulfilled' = fulfilled \union {d}
            /\ promised' = [promised EXCEPT ![d] = NoCall]
            /\ UNCHANGED <<registry, state>>
       [] OTHER -> UNCHANGED <<registry, state, fulfilled, promised>>
  /\ Idle
  /\ UNCHANGED <<peer, handler, dial, pendingDials, result, remote, link, disc,
                 thread>>

\* reject_all_pending, the part that holds dials_mutex_.
RejectDials ==
  /\ fulfilled' = fulfilled \union pendingDials
  /\ promised' = [d \in Dialer |-> IF d \in pendingDials \ fulfilled
                                     THEN NoCall ELSE promised[d]]
  /\ pendingDials' = {}

SocketCloses ==
  /\ recv = "idle"
  /\ open
  /\ open' = FALSE
  /\ recv' = "reject"
  /\ UNCHANGED <<registry, state, peer, handler, dials, remote, held, subject,
                 news, session, disc, thread>>

\* on_ws_close: the calls stay registered.
OnWsClose ==
  /\ recv = "reject"
  /\ RejectDials
  /\ recv' = "gone"
  /\ UNCHANGED <<registry, state, peer, handler, dial, result, remote, held,
                 subject, news, link, disc, thread>>

ReceiveThread ==
  \/ \E c \in CallId : \/ ReceiveCall(c) \/ FindForComponent(c) \/ UseCall(c)
                       \/ \E s \in CallState : FindForState(c, s)
                       \/ \E d \in Dialer : DialAnswered(d, c)
  \/ \E d \in Dialer : DialProgress(d) \/ DialFailed(d) \/ SettleDial(d)
  \/ SocketCloses \/ OnWsClose

-----------------------------------------------------------------------------
(* Handler threads, the peer on its own, the main thread and disconnect() *)

HandlerReturns(c) ==
  /\ handler[c] = "running"
  /\ handler' = [handler EXCEPT ![c] = "done"]
  /\ UNCHANGED <<registry, state, peer, dials, remote, receiver, link, disc,
                 thread>>

\* A call ends while no socket is there to carry the event.
PeerEndsUnheard(c) ==
  /\ recv \in {"gone", "null"}
  /\ peer[c] \in {"created", "answered"}
  /\ peer' = [peer EXCEPT ![c] = "ended"]
  /\ UNCHANGED <<registry, state, handler, dials, remote, receiver, link, disc,
                 thread>>

\* The loop of run(), and that of reconnect() up to its last look at running_.
\* A disconnect() may begin, and end, between this look and the new socket.
\* When run() returns instead, it stays here.  connected_ is not a variable: a
\* close that authenticate() overwrites (RelayConnection) is not told apart.
LookAtRunning ==
  /\ main = "loop"
  /\ disc = "no"
  /\ ~open
  /\ main' = "create"
  /\ UNCHANGED <<registry, state, peer, handler, dials, remote, receiver, link,
                 disc, late>>

\* The receive thread of the current socket is out of its callbacks, so that
\* ix::WebSocket::stop can join it.
Joinable == recv \in {"idle", "gone", "null"}

\* ws_ = make_unique<WebSocketClient>() destroys the old socket, which joins
\* its receive thread.  With a disconnect() inside that socket's close() the
\* program has no further behaviour.
ReplaceSocket ==
  /\ main = "create"
  /\ Joinable
  /\ disc # "join"
  /\ UNCHANGED <<registry, state, peer, handler, dials, remote, held, subject,
                 news, disc>>

\* open_ws_transport: the new socket opens, or it does not.
Opens ==
  /\ ReplaceSocket
  /\ session < MaxSessions
  /\ session' = session + 1
  /\ open' = TRUE
  /\ recv' = "idle"
  /\ main' = "auth"
  /\ late' = (late \/ disc \in {"calls", "owned", "done"})

OpenFails ==
  /\ ReplaceSocket
  /\ open' = FALSE
  /\ recv' = "gone"
  /\ main' = "loop"
  /\ UNCHANGED <<session, late>>

AuthSucceeds ==
  /\ main = "auth"
  /\ main' = "loop"
  /\ UNCHANGED <<registry, state, peer, handler, dials, remote, receiver, link,
                 disc, late>>

\* ws_->close(): no on_ws_close, the dials stay pending.  The ws_ a disconnect()
\* has reset cannot be closed: the program ends there.
AuthFails ==
  /\ main = "auth"
  /\ Joinable
  /\ recv # "null"
  /\ open' = FALSE
  /\ recv' = "gone"
  /\ main' = "loop"
  /\ UNCHANGED <<registry, state, peer, handler, dials, remote, held, subject,
                 news, session, disc, late>>

Main == LookAtRunning \/ Opens \/ OpenFails \/ AuthSucceeds \/ AuthFails

\* running_ goes down.
DisconnectBegins ==
  /\ disc = "no"
  /\ disc' = "reject"
  /\ UNCHANGED <<registry, state, peer, handler, dials, remote, receiver, link,
                 thread>>

DisconnectRejects ==
  /\ disc = "reject"
  /\ RejectDials
  /\ disc' = "close"
  /\ UNCHANGED <<registry, state, peer, handler, dial, result, remote,
                 receiver, link, thread>>

DisconnectCloses ==
  /\ disc = "close"
  /\ open' = FALSE
  /\ disc' = "join"
  /\ UNCHANGED <<registry, state, peer, handler, dials, remote, receiver,
                 session, thread>>

\* ws_->close() returns when the receive thread is out of its callback, and
\* ws_.reset() follows.
DisconnectJoins ==
  /\ disc = "join"
  /\ Joinable
  /\ recv' = "null"
  /\ disc' = "calls"
  /\ UNCHANGED <<registry, state, peer, handler, dials, remote, held, subject,
                 news, link, thread>>

DisconnectClearsCalls ==
  /\ disc = "calls"
  /\ calls' = {}
  /\ disc' = "owned"
  /\ UNCHANGED <<owned, state, peer, handler, dials, remote, receiver, link,
                 thread>>

DisconnectFreesCalls ==
  /\ disc = "owned"
  /\ owned' = {}
  /\ disc' = "done"
  /\ UNCHANGED <<calls, state, peer, handler, dials, remote, receiver, link,
                 thread>>

Disconnect ==
  \/ DisconnectBegins \/ DisconnectRejects \/ DisconnectCloses
  \/ DisconnectJoins \/ DisconnectClearsCalls \/ DisconnectFreesCalls

Next ==
  \/ \E d \in Dialer : Dialing(d)
  \/ ReceiveThread
  \/ \E c \in CallId : HandlerReturns(c) \/ PeerEndsUnheard(c)
  \/ Main
  \/ Disconnect

Spec == Init /\ [][Next]_vars
-----------------------------------------------------------------------------
(* Properties *)

\* Whatever calls_ points to is alive, at every step of disconnect() too: it
\* empties calls_ before it frees the objects, and Action::call() and the
\* receive thread look calls up in between.
RegistryPointsToLive == calls \subseteq owned

\* The receive thread never works on a freed Call: between find_call and the
\* end of dispatch_event the object stays.
ReceiverPointerLive == recv = "route" => subject \subseteq owned

\* A handler thread, and a dial() about to copy the Call it was promised, hold
\* raw pointers for as long as they like; until a disconnect() has freed the
\* objects these are alive.  In particular the end of a call must not free it.
PointersLiveUntilDisconnect ==
  disc # "done" =>
    /\ \A c \in CallId : handler[c] = "running" => c \in owned
    /\ \A d \in Dialer : dial[d] = "holding" => promised[d] \in owned

\* The raw Call* of the client.  Those in calls_ and the receive thread's are
\* alive because disconnect() joins the thread before it sweeps, unless a
\* reconnect() that was past its look at running_ when disconnect() began opens
\* another socket after that join, whose thread nobody joins; those of user
\* threads are alive until a disconnect() frees the objects.
PointersLive ==
  /\ ~late => RegistryPointsToLive /\ ReceiverPointerLive
  /\ PointersLiveUntilDisconnect

Settled(d) ==
  placed[d] = "over" /\ dial[d] \in {"registered", "waiting"}
    => d \in fulfilled \union held

\* Once the receive thread is through with the terminal dial event of a tag,
\* the dial() that waits for it has its answer (handle_dial_event against the
\* time-out of dial() and against reject_all_pending), as long as the peer sent
\* no progress event before.
TerminalEventResolvesDial == \A d \in Dialer \ progressed : Settled(d)

\* The promise of a dial is set once: the one handle_dial_event took out of
\* the map is unsatisfied when it comes to set it, whatever disconnect() does
\* meanwhile.
DialPromiseOnce == recv = "dial" => held \intersect fulfilled = {}

\* The Call dial() returns is the one the receive thread routes events to,
\* until it ended: registered by a leg's call.state or by the dial event.
ReturnedCallIsRouted ==
  disc = "no" =>
    \A d \in Dialer : result[d] # NoCall
                        => \/ result[d] \in calls
                           \/ state[result[d]] = "ended"

-----------------------------------------------------------------------------
(* What the documentation and the comments say, and the code does not do *)

\* include/signalwire/relay/states.hpp:152-153: "Terminal == the dial RPC
\* resolves ...  `dialing` is the in-progress (non-terminal) state."  A progress
\* event takes the entry away too, and the terminal one finds none.
ProgressKeepsDial == \A d \in Dialer : Settled(d)

\* relay/docs/client-reference.md: max_active_calls "caps concurrent calls".
\* The objects of dial legs are registered without a look at the bound.
ActiveCallsCapped == Cardinality(calls) <= MaxActiveCalls

\* The comment above the close of disconnect(), "ORDER IS LOAD-BEARING":
\* "Joining first makes the subsequent registry clear race-free."  A reconnect()
\* that had looked at running_ before brings another receive thread.
SweepIsRaceFree == RegistryPointsToLive /\ ReceiverPointerLive

\* The comment of the sweep in disconnect(): an entry whose terminal event
\* never arrived must not survive the session and leak into a reconnect.
\* on_ws_close and reconnect() sweep nothing.
NoLeakIntoReconnect ==
  open => \A c \in calls : peer[c] = "ended" => c \in subject

\* The same comment: once the receive thread is joined, no callback can hold a
\* raw Call* into the containers.  The handler threads are detached, not
\* joined, and dial() copies through the pointer of its promise.
UserPointersLive ==
  /\ \A c \in CallId : handler[c] = "running" => c \in owned
  /\ \A d \in Dialer : dial[d] = "holding" => promised[d] \in owned
=============================================================================
