-------------------------- MODULE ServerLifecycle --------------------------
(***************************************************************************)
(* Starting and stopping an HTTP service: swml::Service and                *)
(* agent::AgentBase (serve, stop) and server::AgentServer (run, stop),     *)
(* which are written alike.                                                *)
(*                                                                         *)
(* serve() builds an httplib::Server under server_mutex_, publishes it in  *)
(* server_ and listens on it with a reference of its own, the mutex        *)
(* released.  stop() takes server_ away under the mutex and stops that     *)
(* object outside it.  httplib::Server::stop() closes the socket of a      *)
(* server that is running, and does nothing to one that is not yet.        *)
(*                                                                         *)
(* stop() is called by any thread: one outside serve(), one that handles a *)
(* request, or, after AgentBase::setup_graceful_shutdown, by the handler   *)
(* of a signal, on top of whatever a thread is doing when it arrives:      *)
(* serve(), a request, a stop() of its own or another signal's handler.    *)
(***************************************************************************)
EXTENDS Naturals, FiniteSets

CONSTANTS
  Runner,     \* threads of the application, which call serve() and stop()
  Request,    \* requests handled at the same time
  Server,     \* httplib::Server objects, memory that is used again
  NoServer,   \* the null pointer
  Signal      \* signals handled at the same time, {} without
              \* setup_graceful_shutdown

Thread == Runner \union Request
Caller == Thread \union Signal    \* of stop()

ASSUME ThreadsAssumption ==
  /\ Runner \intersect Request = {}
  /\ Thread \intersect Signal = {}
ASSUME NoServerAssumption == NoServer \notin Server

VARIABLES
  pc,        \* where runner r is inside serve()
  srv,       \* srv in serve(): the reference the runner listens with
  mutex,     \* who is inside a critical section of server_mutex_, as a set
  server_,   \* the member
  frame,     \* where caller c is inside stop()
  taken,     \* srv in stop(): what c took from server_
  below,     \* what the handler of signal h interrupts, as a set
  sock,      \* Server::svr_sock_: "none", "open", "closed"
  running,   \* the servers with is_running_ up
  handles,   \* the server whose task queue runs request q
  missed,    \* history: servers a stop() was applied to before they ran
  replaced   \* history: servers another serve() took the place of in server_

runners  == <<pc, srv>>
stoppers == <<frame, taken, below>>
http     == <<sock, running>>
history  == <<missed, replaced>>
vars     == <<pc, srv, mutex, server_, frame, taken, below, sock, running,
              handles, missed, replaced>>

Pointer == Server \union {NoServer}

\* Every variable has its type; serve() holds a server from make_http_server to
\* its return, and the mutex for the first part of it; stop() holds the mutex
\* in the middle; nobody holds it beside another.
TypeOK ==
  /\ pc \in [Runner -> {"idle", "build", "bind", "start", "loop", "drain"}]
  /\ srv \in [Runner -> Pointer]
  /\ \A r \in Runner : srv[r] = NoServer <=> pc[r] = "idle"
  /\ mutex = {r \in Runner : pc[r] = "build"}
               \union {c \in Caller : frame[c] \in {"locked", "moved"}}
  /\ \A x, y \in mutex : x = y
  /\ server_ \in Pointer
  /\ frame \in [Caller -> {"none", "lock", "locked", "moved", "apply"}]
  /\ taken \in [Caller -> Pointer]
  /\ below \in [Signal -> SUBSET Caller]
  /\ sock \in [Server -> {"none", "open", "closed"}]
  /\ running \subseteq Server
  /\ handles \in [Request -> Pointer]
  /\ missed \subseteq Server
  /\ replaced \subseteq Server

Init ==
  /\ pc = [r \in Runner |-> "idle"]
  /\ srv = [r \in Runner |-> NoServer]
  /\ mutex = {}
  /\ server_ = NoServer
  /\ frame = [c \in Caller |-> "none"]
  /\ taken = [c \in Caller |-> NoServer]
  /\ below = [h \in Signal |-> {}]
  /\ sock = [s \in Server |-> "none"]
  /\ running = {}
  /\ handles = [q \in Request |-> NoServer]
  /\ missed = {}
  /\ replaced = {}

\* The references that keep a server alive: shared_ptrs.
Referenced(s) ==
  \/ server_ = s
  \/ \E r \in Runner : srv[r] = s
  \/ \E c \in Caller : taken[c] = s

\* A signal handler runs on top of c, which waits for it to return.
Suspended(c) == \E h \in Signal : c \in below[h]

\* The next step of r in serve() is at.
Proceeds(r, at) == pc[r] = at /\ frame[r] = "none" /\ ~Suspended(r)

\* The next step of c in stop() is at.
Reaches(c, at) == frame[c] = at /\ ~Suspended(c)

\* stop() returns; so does the handler that called it.
StopReturnsTo(c) ==
  /\ taken' = [taken EXCEPT ![c] = NoServer]
  /\ frame' = [frame EXCEPT ![c] = "none"]
  /\ below' = [h \in Signal |-> IF h = c THEN {} ELSE below[h]]

-----------------------------------------------------------------------------
(* Variants: the same steps with plausible mistakes *)

\* serve() returns for a bad certificate with the mutex held.
Publish_Leaks(r) ==
  /\ Proceeds(r, "build")
  /\ \/ mutex' = {} /\ pc' = [pc EXCEPT ![r] = "bind"] /\ UNCHANGED <<srv, server_>>
     \/ /\ pc' = [pc EXCEPT ![r] = "idle"]
        /\ srv' = [srv EXCEPT ![r] = NoServer]
        /\ server_' = NoServer
        /\ UNCHANGED mutex
  /\ UNCHANGED <<stoppers, http, handles, history>>

\* srv = std::move(server_): stop() has nothing to find.
Publish_Moves(r) ==
  /\ Proceeds(r, "build")
  /\ mutex' = {}
  /\ pc' = [pc EXCEPT ![r] = "bind"]
  /\ server_' = NoServer
  /\ UNCHANGED <<srv, stoppers, http, handles, history>>

\* The mutex is held while the server listens.
Publish_Holds(r) ==
  /\ Proceeds(r, "build")
  /\ pc' = [pc EXCEPT ![r] = "bind"]
  /\ UNCHANGED <<srv, mutex, server_, stoppers, http, handles, history>>

\* stop() drops its reference and relies on the destructor.
StopApplies_Drops(c) ==
  /\ Reaches(c, "apply")
  /\ StopReturnsTo(c)
  /\ UNCHANGED <<runners, mutex, server_, http, handles, history>>

-----------------------------------------------------------------------------
(* serve(); a signal handler that runs on its thread suspends it *)

\* server_ = make_http_server(tls), which drops what it pointed to.
Build(r) ==
  /\ Proceeds(r, "idle")
  /\ mutex = {}
  /\ mutex' = {r}
  /\ pc' = [pc EXCEPT ![r] = "build"]
  /\ \E s \in {x \in Server : ~Referenced(x)} :
       /\ server_' = s
       /\ srv' = [srv EXCEPT ![r] = s]
       /\ sock' = [sock EXCEPT ![s] = "none"]
       /\ running' = running \ {s}
       /\ missed' = missed \ {s}
       /\ replaced' = (replaced \ {s}) \union ({server_} \intersect Server)
  /\ UNCHANGED <<stoppers, handles>>

\* setup_routes and srv = server_, or the way out when the certificate or its
\* key do not load.  The mutex is released.
Publish(r) ==
  /\ Proceeds(r, "build")
  /\ mutex' = {}
  /\ \/ pc' = [pc EXCEPT ![r] = "bind"] /\ UNCHANGED <<srv, server_>>
     \/ /\ pc' = [pc EXCEPT ![r] = "idle"]
        /\ srv' = [srv EXCEPT ![r] = NoServer]
        /\ server_' = NoServer
  /\ UNCHANGED <<stoppers, http, handles, history>>

\* bind_to_port; when the port is taken serve() logs it and returns.
Bind(r) ==
  /\ Proceeds(r, "bind")
  /\ \/ /\ sock' = [sock EXCEPT ![srv[r]] = "open"]
        /\ pc' = [pc EXCEPT ![r] = "start"]
        /\ UNCHANGED srv
     \/ /\ pc' = [pc EXCEPT ![r] = "idle"]
        /\ srv' = [srv EXCEPT ![r] = NoServer]
        /\ UNCHANGED sock
  /\ UNCHANGED <<mutex, server_, stoppers, running, handles, history>>

\* listen_internal.
Start(r) ==
  /\ Proceeds(r, "start")
  /\ running' = running \union {srv[r]}
  /\ pc' = [pc EXCEPT ![r] = "loop"]
  /\ UNCHANGED <<srv, mutex, server_, stoppers, sock, handles, history>>

\* The accept loop hands a connection to the task queue.
Accept(r, q) ==
  /\ Proceeds(r, "loop")
  /\ sock[srv[r]] = "open"
  /\ handles[q] = NoServer
  /\ handles' = [handles EXCEPT ![q] = srv[r]]
  /\ UNCHANGED <<runners, mutex, server_, stoppers, http, history>>

LeaveLoop(r) ==
  /\ Proceeds(r, "loop")
  /\ sock[srv[r]] = "closed"
  /\ pc' = [pc EXCEPT ![r] = "drain"]
  /\ UNCHANGED <<srv, mutex, server_, stoppers, http, handles, history>>

\* task_queue->shutdown() returns when the requests that were accepted are
\* done; listen() and serve() return.
Return(r) ==
  /\ Proceeds(r, "drain")
  /\ \A q \in Request : handles[q] # srv[r]
  /\ running' = running \ {srv[r]}
  /\ srv' = [srv EXCEPT ![r] = NoServer]
  /\ pc' = [pc EXCEPT ![r] = "idle"]
  /\ UNCHANGED <<mutex, server_, stoppers, sock, handles, history>>

\* A handler returns.
Answer(q) ==
  /\ handles[q] # NoServer
  /\ frame[q] = "none" /\ ~Suspended(q)
  /\ handles' = [handles EXCEPT ![q] = NoServer]
  /\ UNCHANGED <<runners, mutex, server_, stoppers, http, history>>

-----------------------------------------------------------------------------
(* stop() *)

MayStop(t) ==
  \/ t \in Runner /\ pc[t] = "idle"
  \/ t \in Request /\ handles[t] # NoServer

StopBegins(t) ==
  /\ Reaches(t, "none")
  /\ MayStop(t)
  /\ frame' = [frame EXCEPT ![t] = "lock"]
  /\ UNCHANGED <<runners, mutex, server_, taken, below, http, handles, history>>

\* A signal arrives on the thread of c, wherever that is: its handler calls
\* stop().
SignalArrives(h, c) ==
  /\ frame[h] = "none"
  /\ h # c /\ ~Suspended(c)
  /\ c \in Signal => frame[c] # "none"
  /\ frame' = [frame EXCEPT ![h] = "lock"]
  /\ below' = [below EXCEPT ![h] = {c}]
  /\ UNCHANGED <<runners, mutex, server_, taken, http, handles, history>>

StopLocks(c) ==
  /\ Reaches(c, "lock")
  /\ mutex = {}
  /\ mutex' = {c}
  /\ frame' = [frame EXCEPT ![c] = "locked"]
  /\ UNCHANGED <<runners, server_, taken, below, http, handles, history>>

\* srv = std::move(server_).
StopTakes(c) ==
  /\ Reaches(c, "locked")
  /\ taken' = [taken EXCEPT ![c] = server_]
  /\ server_' = NoServer
  /\ frame' = [frame EXCEPT ![c] = "moved"]
  /\ UNCHANGED <<runners, mutex, below, http, handles, history>>

StopUnlocks(c) ==
  /\ Reaches(c, "moved")
  /\ mutex' = {}
  /\ frame' = [frame EXCEPT ![c] = "apply"]
  /\ UNCHANGED <<runners, server_, taken, below, http, handles, history>>

\* if (srv) srv->stop(): httplib looks at is_running_.
StopApplies(c) ==
  /\ Reaches(c, "apply")
  /\ IF taken[c] \in running
       THEN /\ sock' = [sock EXCEPT ![taken[c]] = "closed"]
            /\ UNCHANGED missed
       ELSE /\ missed' = missed \union ({taken[c]} \intersect Server)
            /\ UNCHANGED sock
  /\ StopReturnsTo(c)
  /\ UNCHANGED <<runners, mutex, server_, running, handles, replaced>>

-----------------------------------------------------------------------------
Serve(r) ==
  \/ Build(r) \/ Publish(r) \/ Bind(r) \/ Start(r) \/ LeaveLoop(r) \/ Return(r)
Stop(c) == StopLocks(c) \/ StopTakes(c) \/ StopUnlocks(c) \/ StopApplies(c)

Next ==
  \/ \E r \in Runner : Serve(r) \/ \E q \in Request : Accept(r, q)
  \/ \E q \in Request : Answer(q)
  \/ \E t \in Thread : StopBegins(t)
  \/ \E h \in Signal, c \in Caller : SignalArrives(h, c)
  \/ \E c \in Caller : Stop(c)

Spec == Init /\ [][Next]_vars

\* Threads are scheduled; a handler returns, however many times it calls
\* stop(); a thread that waits for a mutex that is free again and again gets
\* it; and signals come finitely often.  Nobody has to call serve() or stop().
FairSpec ==
  /\ Spec
  /\ \A r \in Runner : WF_vars(pc[r] # "idle" /\ Serve(r))
  /\ \A q \in Request : SF_vars(Answer(q))
  /\ \A c \in Caller : SF_vars(StopLocks(c)) /\ WF_vars(Stop(c))
  /\ <>[][\A h \in Signal, c \in Caller : ~SignalArrives(h, c)]_vars
-----------------------------------------------------------------------------
(* Properties *)

Listens(s) == s \in running /\ sock[s] = "open"

\* A server that listens is one that stop() still finds, or is about to close,
\* with two exceptions: a stop() that came between the unlock in serve() and
\* listen_internal, and a second serve() beside the first.
Stoppable(s) == server_ = s \/ \E c \in Caller : taken[c] = s
UnstoppableNeedsRace ==
  \A s \in Server : Listens(s) => Stoppable(s) \/ s \in missed \union replaced

\* A signal handler that interrupts serve() or another stop() inside its
\* critical section waits for the mutex of the thread it runs on.
SelfDeadlock ==
  \E h \in Signal : frame[h] = "lock" /\ below[h] \intersect mutex # {}

\* stop() comes back, whatever the servers do: the mutex is never held across
\* listen() or across the stop of a server.  Only a signal handler on top of a
\* critical section is caught by it, and everybody else with it.
StopReturns ==
  \A c \in Caller :
    [](frame[c] # "none" => <>(frame[c] = "none" \/ SelfDeadlock))

\* A stop() that has taken a server that runs makes serve() return, once the
\* requests accepted by then are answered: by another thread, by one of
\* these requests, or by a signal; unless a signal catches a thread inside a
\* critical section, be it that of this very stop() between its move of
\* server_ and the unlock.
StopEndsServe ==
  \A s \in Server :
    (s \in running /\ \E c \in Caller : taken[c] = s)
      ~> (s \notin running \/ SelfDeadlock)

\* The comment of setup_graceful_shutdown: the handlers stop the running server
\* so that an in-flight request drains before the process exits.  A handler on
\* top of a critical section stops nothing, and nothing else does from then on.
SignalNeverDeadlocks == ~SelfDeadlock

\* include/signalwire/swml/service.hpp:483: "`stop()` unblocks `listen()`".
\* A stop() before listen_internal is forgotten, and with server_ gone so is
\* every later one.
StopUnblocksListen == \A s \in Server : Listens(s) => Stoppable(s)
=============================================================================
