------------------------------ MODULE RelayRpc ------------------------------
(***************************************************************************)
(* The JSON-RPC layer of the RELAY client (src/relay/client.cpp).          *)
(*                                                                         *)
(* Every caller of RelayClient::send_request registers a promise under a   *)
(* fresh id in pending_requests_, sends the frame, waits for the promise   *)
(* with a deadline and erases the entry.  The receive thread of the        *)
(* WebSocket fulfils promises from the responses of the peer, and rejects  *)
(* all of them when the socket closes.  The thread that calls              *)
(* RelayClient::disconnect rejects all of them too, and then joins the     *)
(* receive thread.  The main thread, inside run(), authenticates each      *)
(* socket, closes it itself when that fails, and opens a new one after a   *)
(* loss.                                                                   *)
(*                                                                         *)
(* A request is identified with the caller that waits for it: ids are      *)
(* UUIDs, a caller that issues several requests is several requests, and   *)
(* nothing orders them but what a caller could also observe here.  So is   *)
(* the signalwire.connect of authenticate(): what authenticate() returns   *)
(* is a choice of the main thread here, and RelayConnection's subject, as  *)
(* are the delays and the number of attempts.                              *)
(***************************************************************************)
EXTENDS Naturals

CONSTANTS
  Req,          \* the requests ever issued
  MaxSessions   \* bound on the sockets opened one after the other

ASSUME MaxSessionsAssumption == MaxSessions \in Nat \ {0}

VARIABLES
  pc,        \* where the caller of request r is inside send_request
  pending,   \* the keys of pending_requests_
  promise,   \* PendingRequest::promise of r: "unset" or its value
  outcome,   \* what send_request gave its caller: a value or an exception
  answer,    \* what the peer answered to r, "none" if it did not (yet)
  wire,      \* requests the current socket carried to the peer, unanswered
  inbox,     \* requests whose response travels on the current socket
  session,   \* how many sockets were opened
  open,      \* WebSocketClient::connected_ of the current socket
  recv,      \* what the receive thread of the current socket is doing;
             \* "null" if ws_ is null
  held,      \* the PendingRequest on_ws_message took out of the map
  disc,      \* progress of the thread inside RelayClient::disconnect
  main,      \* where the main thread is in run(), connect() and reconnect()
  running, connected,   \* the two atomics of RelayClient
  left,      \* history: requests on a socket closed by a failed authenticate()
  aborted    \* an exception left the receive thread (std::terminate), or a
             \* thread used a destroyed socket or a null ws_

callers == <<pc, outcome>>
peer    == <<answer, wire, inbox>>
socket  == <<session, open>>
thread  == <<main, running, connected, left>>
vars    == <<pc, pending, promise, outcome, answer, wire, inbox, session,
             open, recv, held, disc, main, running, connected, left, aborted>>

\* What the peer puts in a response: a result, or a JSON-RPC error.
Answer   == {"result", "error"}
\* "rejected" is the stub reject_all_pending sets: code 503, Connection lost.
Value    == Answer \union {"rejected"}
\* The two exceptions of send_request.
Failure  == {"timeout", "send_failed"}

TypeOK ==
  /\ pc \in [Req -> {"idle", "registered", "waiting", "unsent", "ready",
                     "expired", "done"}]
  /\ pending \subseteq Req
  /\ promise \in [Req -> Value \union {"unset"}]
  /\ outcome \in [Req -> Value \union Failure \union {"none"}]
  /\ answer \in [Req -> Answer \union {"none"}]
  /\ wire \subseteq Req
  /\ inbox \subseteq Req
  /\ session \in 1 .. MaxSessions
  /\ open \in BOOLEAN
  /\ recv \in {"idle", "deliver", "reject", "gone", "null"}
  /\ held \subseteq Req
  /\ disc \in {"no", "reject", "close", "join", "done"}
  /\ main \in {"auth", "mark", "loop", "create", "reauth", "returned"}
  /\ running \in BOOLEAN /\ connected \in BOOLEAN
  /\ left \subseteq Req
  /\ aborted \in BOOLEAN

\* The first socket has just opened, and run() is in the authenticate() of its
\* connect().
Init ==
  /\ pc = [r \in Req |-> "idle"]
  /\ pending = {}
  /\ promise = [r \in Req |-> "unset"]
  /\ outcome = [r \in Req |-> "none"]
  /\ answer = [r \in Req |-> "none"]
  /\ wire = {}
  /\ inbox = {}
  /\ session = 1
  /\ open = TRUE
  /\ recv = "idle"
  /\ held = {}
  /\ disc = "no"
  /\ main = "auth"
  /\ running = FALSE /\ connected = FALSE
  /\ left = {}
  /\ aborted = FALSE

-----------------------------------------------------------------------------
(* Variants of the code a plausible mistake would produce *)

\* reject_all_pending forgets the promises and just clears the map.
RejectAll_ClearsOnly == promise' = promise /\ pending' = {}

\* on_ws_close only lowers the flag and leaves the waiters to the reconnect.
OnWsClose_NoReject ==
  /\ recv = "reject"
  /\ recv' = "gone"
  /\ wire' = {} /\ inbox' = {}
  /\ UNCHANGED <<callers, pending, promise, answer, socket, held, disc, thread,
                 aborted>>

\* on_ws_message does not look for "error" in the response.
SetValue_IgnoresError(r) ==
  /\ recv = "deliver"
  /\ r \in held
  /\ recv' = "idle"
  /\ held' = {}
  /\ IF promise[r] = "unset"
       THEN /\ promise' = [promise EXCEPT ![r] = "result"]
            /\ UNCHANGED aborted
       ELSE /\ aborted' = TRUE
            /\ UNCHANGED promise
  /\ UNCHANGED <<callers, pending, peer, socket, disc, thread>>

\* the status of the wait is not looked at.
Finish_Unchecked(r) ==
  /\ pc[r] \in {"ready", "expired"}
  /\ pc' = [pc EXCEPT ![r] = "done"]
  /\ pending' = pending \ {r}
  /\ outcome' = [outcome EXCEPT ![r] = promise[r]]
  /\ UNCHANGED <<promise, peer, socket, recv, held, disc, thread, aborted>>

\* future.wait() instead of future.wait_for().
Expire_Never(r) ==
  /\ pc[r] = "waiting"
  /\ FALSE
  /\ UNCHANGED vars

-----------------------------------------------------------------------------
(* send_request, in the thread of the caller *)

\* The promise is in the map before the frame is on the wire.
Register(r) ==
  /\ pc[r] = "idle"
  /\ pc' = [pc EXCEPT ![r] = "registered"]
  /\ pending' = pending \union {r}
  /\ UNCHANGED <<promise, outcome, peer, socket, recv, held, disc, thread,
                 aborted>>

\* A send that succeeds promises nothing about the peer answering it.
SendOk(r) ==
  /\ pc[r] = "registered"
  /\ open
  /\ pc' = [pc EXCEPT ![r] = "waiting"]
  /\ wire' = wire \union {r}
  /\ UNCHANGED <<pending, promise, outcome, answer, inbox, socket, recv, held,
                 disc, thread, aborted>>

\* No socket, a closed one, or a sendText that reports failure.
SendFails(r) ==
  /\ pc[r] = "registered"
  /\ pc' = [pc EXCEPT ![r] = "unsent"]
  /\ UNCHANGED <<pending, promise, outcome, peer, socket, recv, held, disc,
                 thread, aborted>>

EraseUnsent(r) ==
  /\ pc[r] = "unsent"
  /\ pc' = [pc EXCEPT ![r] = "done"]
  /\ pending' = pending \ {r}
  /\ outcome' = [outcome EXCEPT ![r] = "send_failed"]
  /\ UNCHANGED <<promise, peer, socket, recv, held, disc, thread, aborted>>

\* future.wait_for returns ready ...
Wake(r) ==
  /\ pc[r] = "waiting"
  /\ promise[r] # "unset"
  /\ pc' = [pc EXCEPT ![r] = "ready"]
  /\ UNCHANGED <<pending, promise, outcome, peer, socket, recv, held, disc,
                 thread, aborted>>

\* ... or the deadline request_timeout_ms passes first.
Expire(r) ==
  /\ pc[r] = "waiting"
  /\ promise[r] = "unset"
  /\ pc' = [pc EXCEPT ![r] = "expired"]
  /\ UNCHANGED <<pending, promise, outcome, peer, socket, recv, held, disc,
                 thread, aborted>>

\* The entry is erased, then the status of the wait decides: a value set
\* between the deadline and the erase is not looked at.
Finish(r) ==
  /\ pc[r] \in {"ready", "expired"}
  /\ pc' = [pc EXCEPT ![r] = "done"]
  /\ pending' = pending \ {r}
  /\ outcome' = [outcome EXCEPT ![r] =
                   IF pc[r] = "expired" THEN "timeout" ELSE promise[r]]
  /\ UNCHANGED <<promise, peer, socket, recv, held, disc, thread, aborted>>

Caller(r) ==
  \/ Register(r) \/ SendOk(r) \/ SendFails(r) \/ EraseUnsent(r)
  \/ Wake(r) \/ Expire(r) \/ Finish(r)

-----------------------------------------------------------------------------
(* The peer answers a request at most once, on the socket it came by. *)

PeerAnswers(r) ==
  /\ r \in wire
  /\ wire' = wire \ {r}
  /\ inbox' = inbox \union {r}
  /\ \E v \in Answer : answer' = [answer EXCEPT ![r] = v]
  /\ UNCHANGED <<callers, pending, promise, socket, recv, held, disc, thread,
                 aborted>>

-----------------------------------------------------------------------------
(* The receive thread *)

\* on_ws_message, first half: look the id up under pending_mutex_.  The entry
\* stays in the map; a response nobody waits for is dropped.
FindPending(r) ==
  /\ recv = "idle"
  /\ r \in inbox
  /\ inbox' = inbox \ {r}
  /\ IF r \in pending
       THEN recv' = "deliver" /\ held' = {r}
       ELSE UNCHANGED <<recv, held>>
  /\ UNCHANGED <<callers, pending, promise, answer, wire, socket, disc, thread,
                 aborted>>

\* on_ws_message, second half: set_value, outside the lock and outside any
\* try block.  On a satisfied promise it throws std::future_error, and nothing
\* between here and the entry of the receive thread catches it.
SetValue(r) ==
  /\ recv = "deliver"
  /\ r \in held
  /\ recv' = "idle"
  /\ held' = {}
  /\ IF promise[r] = "unset"
       THEN /\ promise' = [promise EXCEPT ![r] = answer[r]]
            /\ UNCHANGED aborted
       ELSE /\ aborted' = TRUE
            /\ UNCHANGED promise
  /\ UNCHANGED <<callers, pending, peer, socket, disc, thread>>

\* reject_all_pending, the part that holds pending_mutex_: an entry whose
\* promise is already satisfied is skipped, all entries go.
RejectAll ==
  /\ promise' = [r \in Req |-> IF r \in pending /\ promise[r] = "unset"
                                 THEN "rejected" ELSE promise[r]]
  /\ pending' = {}

\* The transport reports Close on a socket nobody is closing: connected_ of the
\* socket goes down, and that of the client as on_ws_close begins.
SocketCloses ==
  /\ recv = "idle"
  /\ open
  /\ open' = FALSE
  /\ connected' = FALSE
  /\ recv' = "reject"
  /\ UNCHANGED <<callers, pending, promise, peer, session, held, disc, main,
                 running, left, aborted>>

\* on_ws_close; it is the last thing the thread does, and nothing arrives on
\* this socket any more.
OnWsClose ==
  /\ recv = "reject"
  /\ RejectAll
  /\ recv' = "gone"
  /\ wire' = {} /\ inbox' = {}
  /\ UNCHANGED <<callers, answer, socket, held, disc, thread, aborted>>

ReceiveThread ==
  \/ \E r \in Req : FindPending(r) \/ SetValue(r)
  \/ SocketCloses \/ OnWsClose

-----------------------------------------------------------------------------
(* RelayClient::disconnect, in the thread of its caller *)

\* At any moment of the main thread.  running_ and connected_ go down.
DisconnectBegins ==
  /\ disc = "no"
  /\ running' = FALSE /\ connected' = FALSE
  /\ disc' = "reject"
  /\ UNCHANGED <<callers, pending, promise, peer, socket, recv, held, main,
                 left, aborted>>

DisconnectRejects ==
  /\ disc = "reject"
  /\ RejectAll
  /\ disc' = "close"
  /\ UNCHANGED <<callers, peer, socket, recv, held, thread, aborted>>

\* if (ws_) ws_->close(), before its join: sends fail from here on, and the
\* Close event of this socket no longer reaches on_ws_close.
DisconnectCloses ==
  /\ disc = "close"
  /\ IF recv = "null"
       THEN disc' = "done" /\ UNCHANGED open
       ELSE disc' = "join" /\ open' = FALSE
  /\ UNCHANGED <<callers, pending, promise, peer, session, recv, held, thread,
                 aborted>>

\* The receive thread of the current socket is out of its callbacks, so that
\* ix::WebSocket::stop can join it.
Joinable == recv \in {"idle", "gone", "null"}

\* ws_->close() returns and ws_.reset() destroys the socket.
DisconnectJoins ==
  /\ disc = "join"
  /\ Joinable
  /\ recv' = "null"
  /\ inbox' = {}
  /\ wire' = {}
  /\ disc' = "done"
  /\ UNCHANGED <<callers, pending, promise, answer, socket, held, thread,
                 aborted>>

Disconnect ==
  \/ DisconnectBegins \/ DisconnectRejects \/ DisconnectCloses
  \/ DisconnectJoins

-----------------------------------------------------------------------------
(* run() and what it calls, in the main thread *)

MarkRunning ==
  /\ main = "mark"
  /\ running' = TRUE
  /\ main' = "loop"
  /\ UNCHANGED <<callers, pending, promise, peer, socket, recv, held, disc,
                 connected, left, aborted>>

\* The loop of run(), and that of reconnect() up to its last look at running_
\* before it makes a socket.  A disconnect() may begin, and end, after it.
RunLoop ==
  /\ main = "loop"
  /\ \/ ~running /\ main' = "returned"
     \/ running /\ ~connected /\ main' = "create"
  /\ UNCHANGED <<callers, pending, promise, peer, socket, recv, held, disc,
                 running, connected, left, aborted>>

\* ws_ = make_unique<WebSocketClient>() destroys the old socket, which joins
\* its receive thread; a disconnect() inside it is left in freed memory.
ReplaceSocket ==
  /\ main = "create"
  /\ Joinable
  /\ wire' = {}
  /\ inbox' = {}
  /\ aborted' = (disc = "join")
  /\ UNCHANGED <<callers, pending, promise, answer, held, disc, running,
                 connected, left>>

\* open_ws_transport: the new socket opens, or it does not.
Opens ==
  /\ ReplaceSocket
  /\ session < MaxSessions
  /\ session' = session + 1
  /\ open' = TRUE
  /\ recv' = "idle"
  /\ main' = "reauth"

\* After a failed attempt reconnect() goes on until MAX_RECONNECT_ATTEMPTS.
OpenFails ==
  /\ ReplaceSocket
  /\ open' = FALSE
  /\ recv' = "gone"
  /\ main' \in {"loop", "returned"}
  /\ UNCHANGED session

\* connected_ goes up, whatever became of the socket since the answer came.
AuthSucceeds ==
  /\ main \in {"auth", "reauth"}
  /\ connected' = TRUE
  /\ main' = IF main = "auth" THEN "mark" ELSE "loop"
  /\ UNCHANGED <<callers, pending, promise, peer, socket, recv, held, disc,
                 running, left, aborted>>

\* ws_->close(): the Close event of a socket that is open does not reach
\* on_ws_close, and nobody rejects the requests it carried, nor those
\* registered by now.  connect() drops the socket as well, a disconnect()
\* inside it or not.
AuthFails ==
  /\ main \in {"auth", "reauth"}
  /\ recv # "null" /\ Joinable
  /\ left' = IF open THEN left \union wire \union inbox ELSE left
  /\ open' = FALSE
  /\ recv' = IF main = "auth" THEN "null" ELSE "gone"
  /\ wire' = {}
  /\ inbox' = {}
  /\ main' \in {"returned"} \union (IF main = "auth" THEN {} ELSE {"loop"})
  /\ aborted' = (main = "auth" /\ disc = "join")
  /\ UNCHANGED <<callers, pending, promise, answer, session, held, disc,
                 running, connected>>

\* disconnect() has reset ws_ meanwhile.
AuthFailsOnNull ==
  /\ main \in {"auth", "reauth"}
  /\ recv = "null"
  /\ aborted' = TRUE
  /\ UNCHANGED <<callers, pending, promise, peer, socket, recv, held, disc,
                 thread>>

Main ==
  \/ MarkRunning \/ RunLoop \/ Opens \/ OpenFails \/ AuthSucceeds
  \/ AuthFails \/ AuthFailsOnNull

-----------------------------------------------------------------------------
Next ==
  /\ ~aborted
  /\ \/ \E r \in Req : Caller(r) \/ PeerAnswers(r)
     \/ ReceiveThread
     \/ Disconnect
     \/ Main

Spec == Init /\ [][Next]_vars

\* A caller's thread is scheduled, and its deadline passes.  Nothing is
\* assumed of the peer, of the transport or of the receive thread.
CallerFairness == \A r \in Req : WF_vars(~aborted /\ Caller(r))

FairSpec == Spec /\ CallerFairness
-----------------------------------------------------------------------------
(* Properties *)

Inside(r) == pc[r] \notin {"idle", "done"}

\* A caller that still has nothing can be reached: its promise is in the map
\* the next rejection walks over, or in the hands of the receive thread
\* (send_request, on_ws_message and reject_all_pending share the map, each
\* under its own lock hold).
NoLostWaiter ==
  \A r \in Req : pc[r] \in {"registered", "waiting"} /\ promise[r] = "unset"
                   => r \in pending \union held

\* pending_requests_ does not leak: an entry is that of a caller still inside
\* send_request, on every way out of it, the two exceptions included.
EntryHasOwner == \A r \in pending : Inside(r)

\* pending_requests_ is what a rejection needs it to be: everybody who waits
\* can be reached through it, and nobody else is in it.
PendingMatchesCallers == NoLostWaiter /\ EntryHasOwner

\* As long as nobody calls disconnect(), a caller uses up its deadline because
\* the peer is silent or because an authenticate() failed on the socket that
\* carried its request, and for no other reason: whoever else waits for a
\* promise not yet set waits on the current socket, and that socket is open, or
\* has closed with on_ws_close still to run.  No request sent on an earlier
\* socket, and none sent once authenticate() has returned, is forgotten.
OnlySilenceTimesOut ==
  disc = "no" =>
    \A r \in Req \ left : pc[r] = "waiting" /\ promise[r] = "unset"
                           => /\ r \in wire \union inbox \union held
                              /\ open \/ recv = "reject"

\* The set_value of on_ws_message finds an unsatisfied promise and ws_ is not
\* null where it is used, so that the process survives, unless disconnect()
\* runs in another thread: on_ws_close rejects in the receive thread itself and
\* cannot come between the look-up and the set_value.
AbortNeedsDisconnect == aborted => disc # "no"

\* Only the closes of the client itself, disconnect() and a failed
\* authenticate(), do harm; a lost socket costs nobody a deadline, and without
\* disconnect() no promise is set twice.
OnlyOwnCloseInterferes == OnlySilenceTimesOut /\ AbortNeedsDisconnect

\* Every call of send_request comes back, whatever the peer and the transport
\* do (the bounded wait of request_timeout_ms).
RequestsReturn == \A r \in Req : [](Inside(r) => <>(pc[r] = "done" \/ aborted))

\* send_request implements its contract.
Contract == INSTANCE RequestContract
              WITH lost <- ~open \/ session > 1 \/ disc # "no"
ImplementsContract == Contract!Spec

\* relay/docs/client-reference.md, Connection Behavior: "Pending requests are
\* rejected on disconnect."  What the documentation says, not what holds: a
\* request registered and sent between reject_all_pending and ws_->close() of
\* disconnect(), and one sent while an authenticate() runs that fails, are left
\* to their deadlines.
RejectedOnDisconnect ==
  recv \in {"gone", "null"} =>
    \A r \in Req : ~(pc[r] = "waiting" /\ promise[r] = "unset")
=============================================================================
