----------------------- MODULE ServerLifecycleProofs -----------------------
(***************************************************************************)
(* Proofs about ServerLifecycle, for any set of threads, requests and      *)
(* server objects: type correctness, and that a server that listens can be *)
(* stopped unless one of two races happened.                               *)
(***************************************************************************)
EXTENDS ServerLifecycle, TLAPS

-----------------------------------------------------------------------------
(* The strengthening *)

\* No two runners listen on one object.
OneRunner ==
  \A r1, r2 \in Runner : srv[r1] = srv[r2] /\ srv[r1] # NoServer => r1 = r2

\* A server runs only inside its runner's listen(), and one that has left the
\* accept loop was closed.
RunsInListen ==
  /\ \A s \in running : \E r \in Runner : srv[r] = s /\ pc[r] \in {"loop", "drain"}
  /\ \A r \in Runner : pc[r] = "drain" => sock[srv[r]] = "closed"

\* Inside the critical section the member and the local agree.
BuilderOwnsMember == \A r \in Runner : pc[r] = "build" => server_ = srv[r]

\* stop() holds a reference from the move to its return only.
TakenToApply ==
  \A c \in Caller : frame[c] \notin {"moved", "apply"} => taken[c] = NoServer

\* A runner inside serve() is not inside a stop() of its own.
OneFrame == \A r \in Runner : pc[r] # "idle" => frame[r] = "none"

\* Who holds the mutex, as in TypeOK.
Holders == {r \in Runner : pc[r] = "build"}
             \union {c \in Caller : frame[c] \in {"locked", "moved"}}

Excused(s) == s \in missed \union replaced

\* What a runner is going to listen on, or listens on, can be stopped.
ServedIsStoppable ==
  \A r \in Runner :
    pc[r] \in {"build", "bind", "start", "loop"} =>
      \/ Stoppable(srv[r]) \/ Excused(srv[r])
      \/ srv[r] \in running /\ sock[srv[r]] = "closed"

IInv ==
  /\ TypeOK /\ OneRunner /\ RunsInListen /\ BuilderOwnsMember /\ TakenToApply
  /\ OneFrame /\ ServedIsStoppable

-----------------------------------------------------------------------------
LEMMA InitHolds == Init => IInv
  BY NoServerAssumption DEF Init, IInv, TypeOK, OneRunner, RunsInListen,
     BuilderOwnsMember, TakenToApply, OneFrame, ServedIsStoppable, Pointer,
     Caller, Thread

\* The invariant gives the property: a server that listens has a runner in the
\* loop, and its socket is not closed.
LEMMA Gives == IInv => UnstoppableNeedsRace
<1> SUFFICES ASSUME IInv, NEW s \in Server, Listens(s)
             PROVE  Stoppable(s) \/ s \in missed \union replaced
  BY DEF UnstoppableNeedsRace
<1>1. PICK r \in Runner : srv[r] = s /\ pc[r] \in {"loop", "drain"}
  BY DEF IInv, RunsInListen, Listens
<1>2. sock[s] # "closed"
  BY DEF Listens
<1>3. pc[r] = "loop"
  BY <1>1, <1>2 DEF IInv, RunsInListen
<1> QED
  BY <1>1, <1>2, <1>3 DEF IInv, ServedIsStoppable, Excused

-----------------------------------------------------------------------------
(* The steps of serve() *)

LEMMA BuildKeeps == ASSUME IInv, NEW r \in Runner, Build(r) PROVE IInv'
<1> USE DEF IInv, Build, Proceeds, stoppers
<1>1. PICK s \in Server :
        /\ ~Referenced(s)
        /\ server_' = s
        /\ srv' = [srv EXCEPT ![r] = s]
        /\ sock' = [sock EXCEPT ![s] = "none"]
        /\ running' = running \ {s}
        /\ missed' = missed \ {s}
        /\ replaced' = (replaced \ {s}) \union ({server_} \intersect Server)
  OBVIOUS
<1>2. s # NoServer /\ \A x \in Runner : srv[x] # s
  BY <1>1, NoServerAssumption DEF Referenced
<1>3. mutex = {} /\ \A x \in Runner : pc[x] # "build"
  BY DEF TypeOK
<1>4. pc' \in [Runner -> {"idle", "build", "bind", "start", "loop", "drain"}]
  BY DEF TypeOK
<1>5. /\ srv' \in [Runner -> Pointer]
      /\ \A x \in Runner : srv'[x] = NoServer <=> pc'[x] = "idle"
  BY <1>1, <1>2 DEF TypeOK, Pointer
<1>6. mutex' = Holders' /\ \A x, y \in mutex' : x = y
  BY <1>3 DEF TypeOK, Holders
<1>7. /\ sock' \in [Server -> {"none", "open", "closed"}]
      /\ running' \subseteq Server /\ missed' \subseteq Server
      /\ replaced' \subseteq Server /\ server_' \in Pointer
  BY <1>1 DEF TypeOK, Pointer
<1>8. TypeOK'
  BY <1>4, <1>5, <1>6, <1>7 DEF TypeOK, Holders
<1>9. OneRunner'
  BY <1>1, <1>2 DEF OneRunner, TypeOK
<1>10. RunsInListen'
  BY <1>1, <1>2 DEF RunsInListen, TypeOK
<1>11. BuilderOwnsMember'
  BY <1>1, <1>3 DEF BuilderOwnsMember, TypeOK
<1>12. TakenToApply' /\ OneFrame'
  BY DEF TakenToApply, OneFrame, TypeOK
<1>13. ServedIsStoppable'
  <2> SUFFICES ASSUME NEW x \in Runner, pc'[x] \in {"build", "bind", "start", "loop"}
               PROVE  \/ Stoppable(srv[x])' \/ Excused(srv[x])'
                      \/ srv'[x] \in running' /\ sock'[srv'[x]] = "closed"
    BY DEF ServedIsStoppable
  <2>1. CASE x = r
    BY <1>1, <2>1 DEF Stoppable, TypeOK
  <2>2. CASE x # r
    <3>1. srv'[x] = srv[x] /\ pc'[x] = pc[x] /\ srv[x] # s /\ srv[x] # NoServer
      BY <1>1, <1>2, <2>2 DEF TypeOK
    <3>2. srv[x] \in Server
      BY <3>1 DEF TypeOK, Pointer
    <3>3. \/ Stoppable(srv[x]) \/ Excused(srv[x])
          \/ srv[x] \in running /\ sock[srv[x]] = "closed"
      BY <3>1 DEF ServedIsStoppable
    <3>4. CASE server_ = srv[x]
      BY <1>1, <3>1, <3>2, <3>4 DEF Excused
    <3>5. CASE \E c \in Caller : taken[c] = srv[x]
      BY <3>1, <3>5 DEF Stoppable
    <3>6. CASE Excused(srv[x])
      BY <1>1, <3>1, <3>6 DEF Excused
    <3>7. CASE srv[x] \in running /\ sock[srv[x]] = "closed"
      BY <1>1, <3>1, <3>2, <3>7 DEF TypeOK
    <3> QED
      BY <3>3, <3>4, <3>5, <3>6, <3>7 DEF Stoppable
  <2> QED
    BY <2>1, <2>2
<1> QED
  BY <1>8, <1>9, <1>10, <1>11, <1>12, <1>13

LEMMA PublishKeeps == ASSUME IInv, NEW r \in Runner, Publish(r) PROVE IInv'
<1> USE DEF IInv, Publish, Proceeds, stoppers, http, history
<1>1. \/ /\ pc' = [pc EXCEPT ![r] = "bind"] /\ UNCHANGED <<srv, server_>>
      \/ /\ pc' = [pc EXCEPT ![r] = "idle"] /\ srv' = [srv EXCEPT ![r] = NoServer]
         /\ server_' = NoServer
  OBVIOUS
<1>2. /\ \A x \in Runner : pc[x] = "build" <=> x = r
      /\ \A c \in Caller : frame[c] \notin {"locked", "moved"}
  <2>1. r \in mutex /\ frame[r] = "none"
    BY DEF TypeOK
  <2> QED
    BY <2>1 DEF TypeOK
<1>3. server_ = srv[r]
  BY DEF BuilderOwnsMember
<1>4. TypeOK'
  <2>1. /\ pc' \in [Runner -> {"idle", "build", "bind", "start", "loop", "drain"}]
        /\ srv' \in [Runner -> Pointer] /\ server_' \in Pointer
    BY <1>1 DEF TypeOK, Pointer
  <2>2. \A x \in Runner : srv'[x] = NoServer <=> pc'[x] = "idle"
    BY <1>1 DEF TypeOK
  <2>3. mutex' = Holders' /\ \A x, y \in mutex' : x = y
    BY <1>1, <1>2 DEF TypeOK, Holders
  <2> QED
    BY <2>1, <2>2, <2>3 DEF TypeOK, Holders
<1>5. OneRunner' /\ TakenToApply' /\ OneFrame'
  BY <1>1 DEF OneRunner, TakenToApply, OneFrame, TypeOK
<1>6. RunsInListen'
  BY <1>1 DEF RunsInListen, TypeOK
<1>7. BuilderOwnsMember'
  BY <1>1, <1>2 DEF BuilderOwnsMember, TypeOK
<1>8. ServedIsStoppable'
  <2> SUFFICES ASSUME NEW x \in Runner, pc'[x] \in {"build", "bind", "start", "loop"}
               PROVE  \/ Stoppable(srv[x])' \/ Excused(srv[x])'
                      \/ srv'[x] \in running' /\ sock'[srv'[x]] = "closed"
    BY DEF ServedIsStoppable
  <2>1. /\ pc[x] \in {"build", "bind", "start", "loop"}
        /\ srv'[x] = srv[x]
    BY <1>1 DEF TypeOK
  <2>2. server_' = server_ \/ (server_ # srv[x] /\ srv[x] # NoServer)
    BY <1>1, <1>3, <2>1 DEF OneRunner, TypeOK
  <2> QED
    BY <2>1, <2>2 DEF ServedIsStoppable, Stoppable, Excused
<1> QED
  BY <1>4, <1>5, <1>6, <1>7, <1>8

LEMMA BindKeeps == ASSUME IInv, NEW r \in Runner, Bind(r) PROVE IInv'
<1> USE DEF IInv, Bind, Proceeds, stoppers, history
<1>1. \/ /\ pc' = [pc EXCEPT ![r] = "start"] /\ srv' = srv
         /\ sock' = [sock EXCEPT ![srv[r]] = "open"]
      \/ /\ pc' = [pc EXCEPT ![r] = "idle"] /\ srv' = [srv EXCEPT ![r] = NoServer]
         /\ sock' = sock
  OBVIOUS
<1>2. pc[r] = "bind" /\ srv[r] \in Server /\ srv[r] # NoServer
  BY DEF TypeOK, Pointer
<1>3. TypeOK'
  <2>1. /\ pc' \in [Runner -> {"idle", "build", "bind", "start", "loop", "drain"}]
        /\ srv' \in [Runner -> Pointer]
        /\ sock' \in [Server -> {"none", "open", "closed"}]
    BY <1>1, <1>2 DEF TypeOK, Pointer
  <2>2. \A x \in Runner : srv'[x] = NoServer <=> pc'[x] = "idle"
    BY <1>1, <1>2 DEF TypeOK
  <2>3. mutex' = Holders' /\ \A x, y \in mutex' : x = y
    BY <1>1, <1>2 DEF TypeOK, Holders
  <2> QED
    BY <2>1, <2>2, <2>3 DEF TypeOK, Holders
<1>4. OneRunner' /\ TakenToApply' /\ BuilderOwnsMember' /\ OneFrame'
  BY <1>1 DEF OneRunner, TakenToApply, BuilderOwnsMember, OneFrame, TypeOK
<1>5. srv[r] \notin running
  BY <1>2 DEF RunsInListen, OneRunner
<1>6. RunsInListen'
  <2>1. \A s \in running' : \E x \in Runner : srv'[x] = s /\ pc'[x] \in {"loop", "drain"}
    BY <1>1, <1>2 DEF RunsInListen, TypeOK
  <2>2. ASSUME NEW x \in Runner, pc'[x] = "drain" PROVE sock'[srv'[x]] = "closed"
    <3>1. x # r /\ pc[x] = "drain" /\ srv'[x] = srv[x]
      BY <1>1, <2>2 DEF TypeOK
    <3>2. srv[x] # srv[r]
      BY <1>2, <3>1 DEF OneRunner
    <3>3. srv[x] \in Server /\ sock[srv[x]] = "closed"
      BY <3>1 DEF TypeOK, Pointer, RunsInListen
    <3>4. sock'[srv[x]] = sock[srv[x]]
      BY <1>1, <3>2, <3>3 DEF TypeOK
    <3> QED
      BY <3>1, <3>3, <3>4
  <2> QED
    BY <2>1, <2>2 DEF RunsInListen
<1>7. ServedIsStoppable'
  <2> SUFFICES ASSUME NEW x \in Runner, pc'[x] \in {"build", "bind", "start", "loop"}
               PROVE  \/ Stoppable(srv[x])' \/ Excused(srv[x])'
                      \/ srv'[x] \in running' /\ sock'[srv'[x]] = "closed"
    BY DEF ServedIsStoppable
  <2>1. pc[x] \in {"build", "bind", "start", "loop"} /\ srv'[x] = srv[x]
    BY <1>1, <1>2 DEF TypeOK
  <2>2. srv[x] \in running => sock'[srv[x]] = sock[srv[x]]
    BY <1>1, <1>5 DEF TypeOK
  <2> QED
    BY <2>1, <2>2 DEF ServedIsStoppable, Stoppable, Excused
<1> QED
  BY <1>3, <1>4, <1>6, <1>7

LEMMA StartKeeps == ASSUME IInv, NEW r \in Runner, Start(r) PROVE IInv'
<1> USE DEF IInv, Start, Proceeds, stoppers, history
<1>1. pc[r] = "start" /\ srv[r] \in Server
  BY DEF TypeOK, Pointer
<1>2. TypeOK'
  <2>1. /\ pc' \in [Runner -> {"idle", "build", "bind", "start", "loop", "drain"}]
        /\ running' \subseteq Server
    BY <1>1 DEF TypeOK
  <2>2. \A x \in Runner : srv'[x] = NoServer <=> pc'[x] = "idle"
    BY <1>1 DEF TypeOK
  <2>3. mutex' = Holders' /\ \A x, y \in mutex' : x = y
    BY <1>1 DEF TypeOK, Holders
  <2> QED
    BY <2>1, <2>2, <2>3 DEF TypeOK, Holders
<1>3. OneRunner' /\ TakenToApply' /\ BuilderOwnsMember' /\ OneFrame'
  BY DEF OneRunner, TakenToApply, BuilderOwnsMember, OneFrame, TypeOK
<1>4. RunsInListen'
  BY <1>1 DEF RunsInListen, TypeOK
<1>5. ServedIsStoppable'
  BY <1>1 DEF ServedIsStoppable, Stoppable, Excused, TypeOK
<1> QED
  BY <1>2, <1>3, <1>4, <1>5

LEMMA LeaveLoopKeeps == ASSUME IInv, NEW r \in Runner, LeaveLoop(r) PROVE IInv'
<1> USE DEF IInv, LeaveLoop, Proceeds, stoppers, http, history
<1>1. pc[r] = "loop" /\ srv[r] \in Server /\ sock[srv[r]] = "closed"
  BY DEF TypeOK, Pointer
<1>2. TypeOK'
  <2>1. pc' \in [Runner -> {"idle", "build", "bind", "start", "loop", "drain"}]
    BY DEF TypeOK
  <2>2. \A x \in Runner : srv'[x] = NoServer <=> pc'[x] = "idle"
    BY <1>1 DEF TypeOK
  <2>3. mutex' = Holders' /\ \A x, y \in mutex' : x = y
    BY <1>1 DEF TypeOK, Holders
  <2> QED
    BY <2>1, <2>2, <2>3 DEF TypeOK, Holders
<1>3. OneRunner' /\ TakenToApply' /\ BuilderOwnsMember' /\ OneFrame'
  BY DEF OneRunner, TakenToApply, BuilderOwnsMember, OneFrame, TypeOK
<1>4. RunsInListen'
  BY <1>1 DEF RunsInListen, TypeOK
<1>5. ServedIsStoppable'
  BY DEF ServedIsStoppable, Stoppable, Excused, TypeOK
<1> QED
  BY <1>2, <1>3, <1>4, <1>5

LEMMA ReturnKeeps == ASSUME IInv, NEW r \in Runner, Return(r) PROVE IInv'
<1> USE DEF IInv, Return, Proceeds, stoppers, history
<1>1. pc[r] = "drain" /\ srv[r] # NoServer
  BY DEF TypeOK, Pointer
<1>2. TypeOK'
  <2>1. /\ pc' \in [Runner -> {"idle", "build", "bind", "start", "loop", "drain"}]
        /\ srv' \in [Runner -> Pointer] /\ running' \subseteq Server
    BY DEF TypeOK, Pointer
  <2>2. \A x \in Runner : srv'[x] = NoServer <=> pc'[x] = "idle"
    BY <1>1 DEF TypeOK
  <2>3. mutex' = Holders' /\ \A x, y \in mutex' : x = y
    BY <1>1 DEF TypeOK, Holders
  <2> QED
    BY <2>1, <2>2, <2>3 DEF TypeOK, Holders
<1>3. OneRunner' /\ TakenToApply' /\ BuilderOwnsMember' /\ OneFrame'
  BY <1>1 DEF OneRunner, TakenToApply, BuilderOwnsMember, OneFrame, TypeOK
<1>4. RunsInListen'
  BY DEF RunsInListen, TypeOK
<1>5. ServedIsStoppable'
  <2> SUFFICES ASSUME NEW x \in Runner, pc'[x] \in {"build", "bind", "start", "loop"}
               PROVE  \/ Stoppable(srv[x])' \/ Excused(srv[x])'
                      \/ srv'[x] \in running' /\ sock'[srv'[x]] = "closed"
    BY DEF ServedIsStoppable
  <2>1. /\ pc[x] \in {"build", "bind", "start", "loop"}
        /\ x # r /\ srv'[x] = srv[x]
    BY DEF TypeOK
  <2>2. srv[x] # srv[r]
    BY <1>1, <2>1 DEF OneRunner
  <2> QED
    BY <2>1, <2>2 DEF ServedIsStoppable, Stoppable, Excused
<1> QED
  BY <1>2, <1>3, <1>4, <1>5

-----------------------------------------------------------------------------
(* Requests and stop() *)

LEMMA RequestsKeep ==
  ASSUME IInv, NEW q \in Request, \/ \E r \in Runner : Accept(r, q)
                                  \/ Answer(q)
  PROVE  IInv'
<1>1. /\ UNCHANGED <<runners, mutex, server_, stoppers, http, history>>
      /\ handles' \in [Request -> Pointer]
  BY DEF IInv, TypeOK, Accept, Answer, Pointer, Proceeds
<1> QED
  BY <1>1 DEF IInv, TypeOK, OneRunner, RunsInListen, BuilderOwnsMember,
     TakenToApply, OneFrame, ServedIsStoppable, Stoppable, Excused, runners,
     stoppers, http, history

\* A step of c that moves nothing but c itself, in or out of the mutex.
LEMMA FrameMoves ==
  ASSUME IInv, NEW c \in Caller, NEW to \in {"lock", "locked", "apply"},
         frame' = [frame EXCEPT ![c] = to],
         mutex' = Holders', \A x, y \in mutex' : x = y,
         to # "apply" => frame[c] \notin {"moved", "apply"},
         frame[c] = "none" /\ c \in Runner => pc[c] = "idle",
         below' \in [Signal -> SUBSET Caller],
         UNCHANGED <<runners, server_, taken, http, handles, history>>
  PROVE  IInv'
<1> USE DEF IInv, runners, http, history
<1>1. TypeOK'
  BY DEF TypeOK, Holders
<1>2. TakenToApply'
  BY DEF TakenToApply, TypeOK
<1>3. OneFrame'
  BY DEF OneFrame, TypeOK
<1>4. OneRunner' /\ RunsInListen' /\ BuilderOwnsMember' /\ ServedIsStoppable'
  BY DEF OneRunner, RunsInListen, BuilderOwnsMember, ServedIsStoppable,
     Stoppable, Excused
<1> QED
  BY <1>1, <1>2, <1>3, <1>4

LEMMA StopBeginsKeeps == ASSUME IInv, NEW t \in Thread, StopBegins(t) PROVE IInv'
<1>1. t \in Caller /\ frame[t] = "none" /\ frame' = [frame EXCEPT ![t] = "lock"]
  BY DEF StopBegins, Reaches, Caller
<1>2. t \in Runner => pc[t] = "idle"
  BY ThreadsAssumption DEF StopBegins, MayStop
<1>3. mutex' = Holders' /\ \A x, y \in mutex' : x = y
  BY <1>1 DEF IInv, TypeOK, StopBegins, Holders, runners
<1> QED
  BY <1>1, <1>2, <1>3, FrameMoves DEF StopBegins, IInv, TypeOK

LEMMA SignalKeeps ==
  ASSUME IInv, NEW h \in Signal, NEW c \in Caller, SignalArrives(h, c)
  PROVE  IInv'
<1>1. h \in Caller /\ frame[h] = "none" /\ frame' = [frame EXCEPT ![h] = "lock"]
  BY DEF SignalArrives, Caller
<1>2. h \notin Runner
  BY ThreadsAssumption DEF Thread
<1>3. mutex' = Holders' /\ \A x, y \in mutex' : x = y
  BY <1>1 DEF IInv, TypeOK, SignalArrives, Holders, runners
<1>4. below' \in [Signal -> SUBSET Caller]
  BY DEF IInv, TypeOK, SignalArrives
<1> QED
  BY <1>1, <1>2, <1>3, <1>4, FrameMoves DEF SignalArrives

LEMMA StopLocksKeeps == ASSUME IInv, NEW c \in Caller, StopLocks(c) PROVE IInv'
<1>1. frame[c] = "lock" /\ frame' = [frame EXCEPT ![c] = "locked"]
  BY DEF StopLocks, Reaches
<1>2. mutex' = Holders' /\ \A x, y \in mutex' : x = y
  BY <1>1 DEF IInv, TypeOK, StopLocks, Holders, runners
<1> QED
  BY <1>1, <1>2, FrameMoves DEF StopLocks, IInv, TypeOK

LEMMA StopUnlocksKeeps == ASSUME IInv, NEW c \in Caller, StopUnlocks(c) PROVE IInv'
<1>1. frame[c] = "moved" /\ frame' = [frame EXCEPT ![c] = "apply"]
  BY DEF StopUnlocks, Reaches
<1>2. c \in mutex /\ mutex' = {}
  BY <1>1 DEF IInv, TypeOK, StopUnlocks
<1>3. \A r \in Runner : pc[r] # "build"
  BY <1>1, <1>2 DEF IInv, TypeOK, OneFrame
<1>4. Holders' = {}
  BY <1>1, <1>2, <1>3 DEF IInv, TypeOK, StopUnlocks, Holders, runners
<1> QED
  BY <1>1, <1>2, <1>4, FrameMoves DEF StopUnlocks, IInv, TypeOK

LEMMA StopTakesKeeps == ASSUME IInv, NEW c \in Caller, StopTakes(c) PROVE IInv'
<1> USE DEF IInv, StopTakes, Reaches, runners, http, history
<1>1. c \in mutex /\ \A r \in Runner : pc[r] # "build"
  BY DEF TypeOK, OneFrame
<1>2. /\ frame' \in [Caller -> {"none", "lock", "locked", "moved", "apply"}]
      /\ taken' \in [Caller -> Pointer] /\ server_' \in Pointer
      /\ mutex' = Holders'
  BY DEF TypeOK, Pointer, Holders
<1>3. TypeOK'
  BY <1>2 DEF TypeOK, Holders
<1>4. /\ OneRunner' /\ RunsInListen' /\ BuilderOwnsMember' /\ TakenToApply'
      /\ OneFrame'
  BY <1>1 DEF OneRunner, RunsInListen, BuilderOwnsMember, TakenToApply,
     OneFrame, TypeOK
<1>5. taken[c] = NoServer
  BY DEF TakenToApply
<1>6. ASSUME NEW s, s # NoServer, Stoppable(s) PROVE Stoppable(s)'
  BY <1>5, <1>6 DEF Stoppable, TypeOK
<1>7. \A r \in Runner :
        pc[r] \in {"build", "bind", "start", "loop"} => srv[r] # NoServer
  BY DEF TypeOK
<1>8. ServedIsStoppable'
  BY <1>6, <1>7 DEF ServedIsStoppable, Excused
<1> QED
  BY <1>3, <1>4, <1>8

\* The server is closed if it runs, and counted as missed if not.
LEMMA StopAppliesKeeps == ASSUME IInv, NEW c \in Caller, StopApplies(c) PROVE IInv'
<1> USE DEF IInv, StopApplies, Reaches, StopReturnsTo, runners
<1>1. \/ /\ taken[c] \in running
         /\ sock' = [sock EXCEPT ![taken[c]] = "closed"] /\ missed' = missed
      \/ /\ taken[c] \notin running /\ sock' = sock
         /\ missed' = missed \union ({taken[c]} \intersect Server)
  OBVIOUS
<1>2. /\ frame' \in [Caller -> {"none", "lock", "locked", "moved", "apply"}]
      /\ taken' \in [Caller -> Pointer] /\ below' \in [Signal -> SUBSET Caller]
      /\ sock' \in [Server -> {"none", "open", "closed"}] /\ missed' \subseteq Server
  BY <1>1 DEF TypeOK, Pointer
<1>3. TypeOK'
  <2>1. mutex' = Holders' /\ \A x, y \in mutex' : x = y
    BY DEF TypeOK, Holders
  <2> QED
    BY <1>2, <2>1 DEF TypeOK, Holders
<1>4. OneRunner' /\ BuilderOwnsMember' /\ TakenToApply' /\ OneFrame'
  BY DEF OneRunner, BuilderOwnsMember, TakenToApply, OneFrame, TypeOK
<1>5. \A s \in Server : sock[s] = "closed" => sock'[s] = "closed"
  BY <1>1 DEF TypeOK
<1>6. RunsInListen'
  BY <1>5 DEF RunsInListen, TypeOK, Pointer
<1>7. ASSUME NEW s \in Server, Stoppable(s)
      PROVE  Stoppable(s)' \/ Excused(s)' \/ (s \in running' /\ sock'[s] = "closed")
  <2>1. CASE server_ = s
    BY <2>1 DEF Stoppable
  <2>2. CASE \E u \in Caller \ {c} : taken[u] = s
    BY <2>2 DEF Stoppable, TypeOK
  <2>3. CASE taken[c] = s
    BY <1>1, <2>3 DEF Excused, TypeOK
  <2> QED
    BY <1>7, <2>1, <2>2, <2>3 DEF Stoppable
<1>8. ServedIsStoppable'
  <2> SUFFICES ASSUME NEW x \in Runner, pc[x] \in {"build", "bind", "start", "loop"}
               PROVE  \/ Stoppable(srv[x])' \/ Excused(srv[x])'
                      \/ srv'[x] \in running' /\ sock'[srv'[x]] = "closed"
    BY DEF ServedIsStoppable
  <2>1. srv[x] \in Server
    BY NoServerAssumption DEF TypeOK, Pointer
  <2>2. Excused(srv[x]) => Excused(srv[x])'
    BY <1>1 DEF Excused
  <2> QED
    BY <1>5, <1>7, <2>1, <2>2 DEF ServedIsStoppable
<1> QED
  BY <1>3, <1>4, <1>6, <1>8

-----------------------------------------------------------------------------
(* The theorems *)

LEMMA StepKeeps == IInv /\ [Next]_vars => IInv'
<1> SUFFICES ASSUME IInv, [Next]_vars PROVE IInv'
  OBVIOUS
<1>1. ASSUME NEW r \in Runner, Serve(r) PROVE IInv'
  BY <1>1, BuildKeeps, PublishKeeps, BindKeeps, StartKeeps, LeaveLoopKeeps,
       ReturnKeeps
     DEF Serve
<1>2. ASSUME NEW c \in Caller, Stop(c) PROVE IInv'
  BY <1>2, StopLocksKeeps, StopTakesKeeps, StopUnlocksKeeps, StopAppliesKeeps
     DEF Stop
<1>3. CASE UNCHANGED vars
  BY <1>3 DEF vars, IInv, TypeOK, OneRunner, RunsInListen, BuilderOwnsMember,
     TakenToApply, OneFrame, ServedIsStoppable, Stoppable, Excused
<1> QED
  BY <1>1, <1>2, <1>3, RequestsKeep, StopBeginsKeeps, SignalKeeps DEF Next

\* The strengthening is an invariant of serve() and stop().
THEOREM Inductive == Spec => []IInv
  BY InitHolds, StepKeeps, PTL DEF Spec

\* Type correctness: among others, the mutex is held by one at a time, the runner
\* that builds or the stop() that takes, and never while a server listens.
THEOREM TypeCorrect == Spec => []TypeOK
<1>1. IInv => TypeOK
  BY DEF IInv
<1> QED
  BY <1>1, Inductive, PTL

\* A server that listens can be stopped, but for a stop() that came before
\* listen_internal or a second serve() that took its place in server_.
THEOREM UnstoppableIsExplained == Spec => []UnstoppableNeedsRace
  BY Gives, Inductive, PTL
=============================================================================
