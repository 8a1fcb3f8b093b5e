# signalwire-cpp in TLA+

A verification development for the C++ SDK in this repository. Paths are those of the
repository (`src/relay/client.cpp`, `include/signalwire/...`); `PROJECT.json` maps every
definition to the lines it stands for.

- [1. The system](#1-the-system)
- [2. The modules](#2-the-modules)
- [3. What is checked](#3-what-is-checked)
- [4. Where code and documentation disagree](#4-where-code-and-documentation-disagree)
- [5. What is proved](#5-what-is-proved)
- [6. What is not modelled](#6-what-is-not-modelled)
- [7. Plan](#7-plan)

To run: `tlc -config RelayRpc.cfg MCRelayRpc.tla` (any `.cfg` with the MC module of the
table below) and `tlapm RelayRpcProofs.tla` (any of the eight `...Proofs` modules).

## 1. The system

The SDK has a concurrent half, RELAY (a WebSocket client for live calls and messages), a
synchronous REST client, and a large half that builds SWML and AI agent documents and
serves them over HTTP. The first is where order, loss and timing decide correctness; of the
last it is the life of a server and the life of a tool, from its registration to its call.

### RELAY: threads and shared state

| thread | runs |
|---|---|
| main | `connect()`, then `run()`: the loop that reconnects when `connected_` is low |
| receive thread, one per socket (IXWebSocket) | `on_ws_message` and every event handler, `on_ws_close` |
| user threads | `dial`, `send_message`, the verbs of a `Call`, `wait`, `disconnect()` |
| handler threads, detached | the user's handler of each inbound call or message |

| component | state | operations | guarded by |
|---|---|---|---|
| JSON-RPC requests | `pending_requests_`: id to promise | `send_request`, responses in `on_ws_message`, `reject_all_pending` (from `on_ws_close` and `disconnect`) | `pending_mutex_`; the promise is set outside it |
| call registry | `calls_` (raw pointers), `owned_calls_` (objects) | inbound call, call event, dial event, `disconnect` | `calls_mutex_`; the pointers are used outside it |
| dial | `pending_dials_`: tag to promise | `dial`, `handle_dial_event`, `disconnect` | `dials_mutex_`; the promise is set outside it |
| connection | `ws_`, `connected_`, `running_`, `protocol_`, back-off | `connect`, `run`, `reconnect`, `authenticate`, `on_ws_close`, `disconnect` | atomics for the flags; nothing for `ws_` |
| actions of a call | `SharedState::actions`: control id to `Action`, the flags of each | verbs (`execute_action`), `handle_component_event`, the end of the call, `wait`, `on_completed` | `actions_mutex`; `find_action` hands out a pointer used outside it |
| call state | `SharedState::state`, `ended_cv`, `state_cv` | `update_state`, `wait_for_state`, `wait_for_ended` | `ended_mutex`; the notify is outside it |
| outbound messages | `messages_`, the `SyncState` of each | `send_message`, `messaging.state` events, `wait`, `on_completed` | `messages_mutex_`, one mutex per message |

Interaction: a verb, `dial`, `send_message` and `authenticate` are requests of the RPC layer;
the receive thread is the only one that delivers their responses *and* the only one that
handles events, in the order of the socket. A response handed over by promise wakes another
thread, so an event that came *after* it may be handled *before* the woken thread has
recorded what the response meant. Most of the hazards below are of that shape:

- a completion, a rejection and a time-out race for the same promise;
- an event overtakes the bookkeeping of the verb or message it is about;
- a flag (`connected_`, `running_`) is raised after a check another thread has outdated;
- a raw pointer leaves the lock that protects its object;
- entries of a map are taken away, or left behind, by an exceptional path;
- a notify is outside the mutex, and there are two condition variables.

### REST

`HttpClient::request` is the one loop all verbs go through: abort check, attempt, retry on a
transport failure or a retryable status, error or document. `PaginatedIterator` walks
`links.next` with it. State: the attempt counter; for the iterator `params_`, `items_`,
`index_`, `done_`, `seen_next_`. Hard: lost answers of requests that were carried out, the
abort signal of another thread, pages without items, cyclic links, failures half-way.

### Agents and servers

| component | state | operations | guarded by |
|---|---|---|---|
| servers (`swml::Service`, `AgentBase`, `AgentServer`) | `server_`, the `httplib::Server` it shares with the thread that listens | `serve` / `run`, `stop`, the signal handler of `setup_graceful_shutdown` | `server_mutex_`, released before `listen` and before `srv->stop()` |
| tool registry (`Service`, `AgentBase`) | `tools_`, `tool_order_`, the DataMap functions | `define_tool`, `register_swaig_function`, `remove_function`, `/swaig` | nothing (`state_mutex_` is declared and never locked) |
| skills (`AgentBase::add_skill`, `SkillManager`) | `loaded_skills_` of the agent, `loaded_skills_` of the manager, the skill objects | `add_skill`, `remove_skill`, `load_skill`, `unload_skill` | nothing |
| tokens (`SessionManager`) | the secret drawn at construction | `create_token` when rendering, `validate_token` in `/swaig` | nothing: stateless but for the secret |

An agent renders a document for a call; the platform keeps it and posts to `/swaig` with the
token it found on the tool. Two requests, minutes apart, with the registry, the skills, the
clock and the process changing in between. Hard: what was promised by one handler is judged by
another; a copy of the agent (dynamic configuration) or a new process signs with another
secret; handlers capture objects somebody else owns; `stop()` comes at any point of `serve()`,
from a signal handler or from a request of the very server it stops.

### The rest

SWML documents, contexts, DataMap, POM, prefabs, SWAIG results, schema utilities,
authentication helpers and the C API build JSON in one thread. Correctness there is the shape
of a document, which unit tests enumerate. `PROJECT.json` lists each component with its status
and the reason.

## 2. The modules

Every component module declares its constants with named assumptions, its variables, a type
invariant, `Init`, one action per atomic step, `Next`, `Spec`, where used `FairSpec`, and its
properties. An action is what a thread does between two points where another can see the
difference: one hold of a lock, one store to an atomic, one use of a pointer. A section near
the top of each holds *variants*: operators that write a step the way a plausible mistake
would; no specification uses them. They serve to show that each property notices the
mistake. Each `MC` module gives the constants values.

| module | models | actions and code |
|---|---|---|
| `RequestContract` | what `send_request` promises: started once, over once, with the peer's own answer, a rejection after a loss, or an exception | abstract |
| `CompletionContract` | what a handle (`Message`, `Action`) promises: it completes once, for something the peer said of it or of its call, and its `on_completed` callback runs once, then or at once | abstract |
| `RelayRpc` | JSON-RPC requests | `Register`, `SendOk`, `SendFails`, `EraseUnsent`, `Wake`, `Expire`, `Finish`: the steps of `send_request`; `FindPending` and `SetValue`: `on_ws_message`; `SocketCloses`, `OnWsClose`, `RejectAll`; the stages of `disconnect()`; `PeerAnswers`; the main thread, which marks `running_`, looks at it, replaces the socket, and authenticates or closes it again (`Opens`, `OpenFails`, `AuthSucceeds`, `AuthFails`) |
| `RelayCalls` | registry and dial | the steps of `dial()`, of `handle_inbound_call`, `handle_call_state`, `handle_dial_event` (take the entry, settle the promise), the detached handlers, `disconnect()` from the rejection of the dials to the destruction of the objects; the main thread, which looks at `running_` (`LookAtRunning`) and opens another socket later (`Opens`, `OpenFails`, `AuthSucceeds`, `AuthFails`) |
| `RelayConnection` | connection | `connect()`, `run()`, `reconnect()` (count, sleep, create, open, authenticate, publish), the callbacks, the restart the server asks for, `disconnect()` in its order |
| `CallActions` | actions | the verb's steps (register, RPC, flags), the RPC's failures, `find_action` then apply then erase, the end of the call in two steps, `on_completed` |
| `CallWaits` | waiting | `Store` under the mutex, the notifies, look, sleep, wake, deadline |
| `MessageTracking` (its names begin with `Message`, so that `RelayWaitsProofs` can extend it with `CallWaits`) | messages | execute, track, failed send, look-up, reason, state, `wait`, `on_completed` |
| `RestClient` | request loop and pagination | one action per outcome of an attempt, `FetchNext`, `ContinueIteration` |
| `ServerLifecycle` | servers | `Build` and `Publish`: the two halves of the critical section of `serve()`; `Bind`, `Start`, `Accept`, `LeaveLoop`, `Return`: httplib's `listen` as far as stopping depends on it; `StopBegins`, `StopLocks`, `StopTakes`, `StopUnlocks`, `StopApplies`: `stop()` in any thread, its critical section step by step; `SignalArrives`: the handler runs `stop()` on top of whatever its thread is in, `serve()` or another `stop()` |
| `AgentServing` | tools, skills, tokens | `DefineTool`, `RegisterSwaigFunction`, `RemoveFunction`; `AddSkill`, `RemoveSkill`, `LoadSkill`, `UnloadSkill`; `HandleSwmlRequest` (the route of a served agent), `HandleRequest` (a host with the whole URL), each with or without a configured copy; `HandleSwaigRequest`, `HandlerReturns`; `Tick`, `Restart` |
| `RelayRpcProofs`, `RelayCallsProofs`, `RelayConnectionProofs`, `CallActionsProofs`, `RelayWaitsProofs`, `RestClientProofs`, `ServerLifecycleProofs`, `AgentServingProofs` | the theorems of section 5 | |

Conventions. A request, call, message, action, page, tool or skill is identified with its id.
Payloads are left out but for the words the code branches on; a page is
identified with its query, where `seen_next_` compares URL strings; a message has an id, where
`send_message` keeps one with an empty id out of `messages_` (`src/relay/client.cpp:867`); each
skill defines one tool. `RelayCalls` has the part of `run()` and `reconnect()` that bears on the
calls; `connected_` and the attempts are in `RelayConnection`. Sleeping, logging and JSON are
left out. A deadline may pass at any moment. The peer follows the protocol the code is written
for (events of a thing after its creation, nothing about a call after `ended`) and is
otherwise free to be silent, close the socket, refuse, or emit events before a response. The
platform calls tools it was offered, with the tokens it was given. A token is the fields the
code joins and its signature a pair of secret and fields: HMAC is taken to be perfect.

Composition. `MessageTracking` and `CallActions` both implement `CompletionContract`, the first
for every message, the second for every action that is no collect (a collect may complete
again, section 4). `RelayRpc` implements `RequestContract`; the modules above it (`RelayCalls`,
`CallActions`, `MessageTracking`, `RelayConnection`) take a request to be what that contract
says: it comes back with an answer, a rejection or an exception, once, whatever happens in
between. That is what lets them be separate. `AgentServing` composes four components that
share no lock: registry, skills, tokens and the two HTTP handlers. `ServerLifecycle` stands
for three classes whose `serve` and `stop` are written alike.

## 3. What is checked

Twelve runs, each under four minutes with two workers. For each property of a passing run
`PROJECT.json` names a variant that breaks it.

| run | cfg | question |
|---|---|---|
| rpc | RelayRpc | Is any caller of `send_request` left behind, and does the layer keep its contract? |
| calls | RelayCalls | Are the pointers of the registry valid, and does a dial get its own answer once? |
| connection | RelayConnection | One receive thread, no crash, settled reconnects, and a `disconnect()` that ends `run()` |
| connection_loss | RelayConnectionLoss | violated: is every loss repaired? |
| actions | CallActions | Does the end of a call settle every action, and is the contract of a handle kept? |
| waits | CallWaits | Is a wake-up lost, or a wait told something wrong? |
| messages | MessageTracking | Is the reason there in time, the contract of a handle kept, the waiter released? |
| rest | RestClient | Are POSTs repeated only where they must be, aborts obeyed, lists complete? |
| servers | ServerLifecycle | Does `stop()` come back, and end the `serve()` it found? When does it miss one? |
| agents | AgentServing | Why can a token be refused, and do the tools of a loaded skill run on a live object? |
| agent_tokens | AgentTokens | violated: is a token that was rendered accepted? |
| skill_tools | AgentSkillTools | violated: does a tool of an added skill run on a live object? |

What the properties say:

- `PendingMatchesCallers`: a caller without a value is in the map the next rejection walks over
  or in the hands of the receive thread, at every instant, including between the two lock holds
  of a response; and an entry is that of a caller still inside `send_request`.
  `OnlyOwnCloseInterferes`: without `disconnect()` a request can stay unanswered only on a
  socket that is still open, or on one that a failed `authenticate()` closed under it (its
  `ws_->close()` keeps `on_ws_close` from running), and the receive thread survives. With
  `disconnect()`, a rejection between the look-up and the `set_value` makes `set_value` throw
  where nothing catches it, and a failed `authenticate()` may find `ws_` null.
- `PointersLive`: raw `Call*` outlive their lock but not their object; `disconnect()` keeps
  that true of the receive thread by joining it before freeing, and of user threads until it
  frees. The exemption is `late`: `reconnect()` looked at `running_` before the `disconnect()`
  and opens its socket after the join, so that a new receive thread runs beside the sweep.
  `TerminalEventResolvesDial`, `DialPromiseOnce`, `ReturnedCallIsRouted`: the hand-over
  of a dial from `pending_dials_` over the receive thread to its promise, against deadlines and
  rejections.
- `CrashNeedsDisconnect`, `StaleSessionNeedsRace`: the two bad outcomes of the unsynchronised
  `ws_` and `protocol_` have exactly one cause each. `DisconnectStopsRun`: a `disconnect()`
  that begins after `run()` raised `running_` ends it, wherever `reconnect()` is.
- `EndedSettlesAll`: an action registered, accepted, refused or completed at the moment the
  call ends is completed all the same. `ImplementsCompletion`: `on_completed` against the
  completion, for messages too; nothing completes before the peer said so, and nothing twice.
  `ActionPointerLive`: the pointer from `find_action` dangles only if a rejection by
  `disconnect()` lets the verb erase the entry meanwhile.
- `NoLostWakeup`, `NoTimeoutAfterReached`: the notify outside the mutex, and the last look
  after the deadline.
- `WalkIsSound`: over all links among three pages, cycles and empty pages included, with
  failed fetches the user repeats: the list is complete, in order and once, and the walk ends.
  `PostRepeatedOnlyUnanswered`: each repeat of a POST is paid for by an unanswered attempt.
- `UnstoppableNeedsRace`: a server that listens is one `stop()` still finds, unless a `stop()`
  came between the unlock in `serve()` and the start of `listen`, or a second `serve()`
  replaced it. `StopReturns`, `StopEndsServe`: no `stop()` waits for a `listen()`, and one that
  has a running server ends its `serve()`; the only way to hang is a signal handler on top of
  a critical section of its own thread, that of `serve()` or that of `stop()` (`SelfDeadlock`).
  In the second case the server that was taken is never stopped.
- `RefusalHasReason`: a 403 for a secure tool has one of five listed reasons; in particular no
  sequence of definitions, removals, loads and renderings makes the agent refuse what it
  rendered itself. `LoadedSkillServes`: load, unload and load again never leaves the tool of a
  loaded skill with the handler of a destroyed object, if no other skill defines a tool of that
  name. (Of two skills with one tool name, the one loaded last has the tool, and unloading it
  leaves the other with a handler of the destroyed object: `unload_skill` takes no tool back.)

### Bounds

| run | bound | why it is enough |
|---|---|---|
| rpc | 2 requests, 2 sockets | one request in the hands of the receive thread while another is registered; a request registered on the socket after the loss, or under an `authenticate()` that fails |
| calls | 1 inbound call, 1 dial with 2 legs, cap 1, 2 sockets | a winning and a losing leg, an inbound call at the cap, a loss or a replaced socket in the middle of each |
| connection | 3 socket objects, 6 attempts, 1000 to 30000 ms | the cap of the back-off is reached at the fifth doubling; an old, a current and a next socket can coexist |
| actions | a collect and a detect | the two kinds that are filtered; actions touch each other only in the loop at the end of the call (`MCPlayCollect` has the third kind) |
| waits | 3 waiters, one on `ended_cv` | both condition variables, a timed and an untimed waiter |
| messages | 2 messages | messages share `messages_` and the receive thread only |
| rest | 3 pages, 1 retry, one status of each kind | a cycle that returns to the first page, to a later one, and a page alone; each status the code tells apart |
| servers | 2 threads that serve and stop, 1 request, 2 server objects, 1 signal | a second `serve()` beside the first, a `stop()` from a third place; an object that is used again while another is referenced |
| agents | 2 names, one of them dotted and a DataMap function; 1 skill with 2 objects (two skills take five minutes; the proof covers any number); 1 call, 1 request; life time 1, clock to 2 | a tool of the user beside one of the skill with the same name; an object loaded after another was destroyed; a document from before, in and after the second its tokens expire in |

`MaxSessions` bounds the number of sockets (RelayRpc, RelayCalls), `MaxTime` the clock
(AgentServing). They and the finite sets are the bounds of the models; `MaxAttempts` is a
constant of the code and given a smaller value. The safety properties are also proved for every
value (section 5). The runs of AgentServing take the two skill objects as
symmetric, that of RelayCalls the two legs of the dial: nothing orders them, and the properties
of these runs are invariants. The runs with
`CHECK_DEADLOCK FALSE` are of systems that really may stop: everything was asked for and
answered, the client disconnected, or a signal handler waits for its own thread. RestClient and
AgentServing never stop: the user may always call again.

### Fairness

- RelayRpc: each caller goes on (`WF` of its own steps unless the process aborted). The
  deadline of `send_request` makes the wait end, so no fairness of peer or receive thread is
  needed for `RequestsReturn`.
- RelayConnection: the main thread and the close callback of each socket go on. Nothing is
  assumed of the peer but that a handshake or an authentication that is not answered
  times out, which is the main thread's step.
- CallWaits: the receive thread ends its notifies, a waiter that was woken runs, and a waiter
  that competes for `ended_mutex` gets it in the end (strong fairness: the mutex is free
  again and again, and the holders keep it for a bounded time only).
- MessageTracking: the receive thread handles what arrived, waiters run, and `Track`, which
  competes with the receive thread for `messages_mutex_`, gets it in the end.
- ServerLifecycle: a thread inside `serve()` or `stop()` goes on; a handler returns, however
  often it calls `stop()`, and a `stop()` that waits for a mutex that is free again and again
  gets it (strong fairness); signals come finitely often. Nobody has to call `serve` or `stop`.
- RelayCalls, CallActions, RestClient, AgentServing: safety only.

## 4. Where code and documentation disagree

Three disagreements have a run that shows them (`findings` in `PROJECT.json`):

1. **A loss during authentication is overwritten** (`src/relay/client.cpp:955`, `:156`).
   `connected_.store(true)` comes after `authenticate()` and overwrites the `false` of a close
   in between; `run()` idles on a dead socket. `LossIsRepaired`.
2. **A served agent's secure tools are refused** (`src/agent/agent_base.cpp:1957`). The route
   passes the path without its query to `handle_request`, the call id never arrives, the tools
   are rendered without tokens, and `/swaig` answers 403. `tests/test_agent.cpp:744-747` says
   the token the render puts on the wire is the one the validator accepts, and tests it with a
   host that passes the whole URL. `RenderedTokenValidates`.
3. **`add_skill` destroys the skill its tools use** (`src/agent/agent_base.cpp:897`). The
   object is a local `unique_ptr`; handlers that capture `this` stay in `tools_`: that of
   `native_vector_search` (`src/skills/skill_registry.cpp:875`), and those of a user's own skill
   written alike. `docs/skills_system.md:155-156` shows `add_skill("native_vector_search")`.
   (Most skills registered there copy what they need; the class registered for `web_search` is
   one of them, not the one in `src/skills/builtin/`.) `SkillToolRunsLive`.

The following are stated in the modules, under the comment that quotes the claim, and are
false of the models too; to see the counterexample name the definition in the module's `.cfg`:

| definition | module | what happens |
|---|---|---|
| `RejectedOnDisconnect` | RelayRpc | a request registered and sent after `disconnect()` rejected what was pending, or while an `authenticate()` runs that fails, waits for its own deadline |
| `ProgressKeepsDial` | RelayCalls | a `dialing` progress event erases the pending entry before `dial_state` is looked at (`src/relay/client.cpp:578`); the terminal event finds none and `dial()` times out |
| `SweepIsRaceFree` | RelayCalls | `reconnect()` opens a socket after `disconnect()` has joined the last one; its receive thread uses calls while they are swept |
| `UserPointersLive` | RelayCalls | the detached handler of an inbound call, and `dial()` until it has copied, use a pointer whose object `disconnect()` frees |
| `ActiveCallsCapped` | RelayCalls | the legs of dials are registered without a look at `max_active_calls` |
| `NoLeakIntoReconnect` | RelayCalls | a call that ended while no socket was open stays in `calls_` |
| `DisconnectedStaysSo`, `DisconnectEndsRun` | RelayConnection | `connect()` and `run()` raise `connected_` and `running_` after a `disconnect()` |
| `RestartIsClean` | RelayConnection | `authenticate()` stores `protocol_` after the receive thread has emptied it for a restart; the next connect resumes that session |
| `FailedVerbLeavesNoEntry` | CallActions | `execute_action` unregisters for `RelayError` only, and time-outs are `std::runtime_error` |
| `PlayNeverResolvesCollect` | CallActions | a play(finished) handled before the event filter is set completes the collect |
| `FirstPayloadResolves` | CallActions | `resolve_on_detect` is set after the RPC returned (`src/relay/call.cpp:488`); an earlier payload is taken for an update |
| `UpdatesDontTerminate` | CallActions | a terminal word without a result completes a collect, whose entry stays |
| `UnknownNeverSatisfies` | CallWaits | a wait for a state outside the lifecycle (rank -1) is satisfied at once; give `Waiter` the value `MCOther` and `OnEnded`, `Timed` the value `MCNone` |
| `TerminalIsNoticed` | MessageTracking | a terminal event before the message is in `messages_` (`src/relay/client.cpp:872`) is dropped, and `wait()` does not return |
| `DoneMeansCalledBack` | MessageTracking | a failed send stores `failed` without completing the message |
| `ErrorStatusThrows` | RestClient | an error status with an empty body is returned as an empty object (`handle_response` looks at the body first) |
| `StopUnblocksListen` | ServerLifecycle | a `stop()` between the unlock in `serve()` and the start of `listen` does nothing to the server and has taken it from `server_`, so that no later `stop()` finds it either |
| `SignalNeverDeadlocks` | ServerLifecycle | the signal handler takes `server_mutex_` in the thread that holds it, in `serve()` or in `stop()` |
| `TokensSurviveRestart` | AgentServing | the secret is drawn at random in the constructor of `SessionManager` |

Seen while reading, and not modelled: `AgentBase::create_tool_token` uses the default expiry of
`create_token` (3600 s) and not `token_expiry_secs`; the routes of `AgentServer` hold a
reference to an agent (`[&ag = *agent]`) that `unregister_agent` may destroy; `WebService::start`
and `stop` use `server_` and `server_thread_` without a lock; `tools_` is changed and looked up
without one (`AgentServing` takes each operation as one step); a tool handler that redefines
its own tool destroys the closure it runs in.

## 5. What is proved

With TLAPS, for every value of the constants that satisfies the named assumptions: every
invariant the passing runs check, in all nine components, the action property of `CallWaits`,
the refinement of `RequestContract` and both refinements of `CompletionContract`.
No invariant of interest is inductive alone. Each proof
module states a strengthening (`IInv`, `MessageInv`, `WalkInv`, `AgentInv`), proves it
inductive, with one step per action, and draws the properties from it; TLC checked each
strengthening first.

Recursive functions. What `walk`, `ListedAll` and `Without` compute is proved with
`NatLeast` and `IntervalInduction`: a set of naturals that holds 0 and the successor of each of
its elements below m holds all of 0..m, because the set of exceptions has no least element.
The statement quantifies over a set, not over a predicate, so a proof cites it with the set of
the numbers up to which the claim holds. With it a recursive definition is shown to define a
function at all (`WalkFollowsLinks`, `RecursionExists`), and then what that function does.

**`RelayRpcProofs`** (any set of requests, any number of sockets): `TypeCorrect`,
`PendingIsExact`, `OnlyOwnClosesDo`, and `Refinement`: `Spec => ImplementsContract`. `IInv`
adds

- `HeldShape`: the receive thread holds an entry only between look-up and `set_value`, and
  one at a time;
- `OnePlace`: a request is on the wire, in the inbox or in the receive thread's hands, one of
  them, and nowhere before it was sent;
- `IdleIsUnset`: nothing fulfils a promise before it is registered;
- `UnsetUntilDelivered`: without `disconnect()`, a promise in the map whose response may still
  come is unset, and so is the one in hand. This is why only a `disconnect()` can make
  `set_value` throw: a close rejects only when its own thread is past every response;
- `MainShape`: without `disconnect()`, `run()` replaces a socket only once it is closed, and
  `ws_` is null only after a failed `connect()`;
- `Provenance`: a value is the peer's answer or a rejection after a loss. The refinement needs
  it to map a return of `send_request` to a step of the contract.

The refinement maps the initial states and each step to a step of the contract or a stutter;
the final step combines them.

**`RelayCallsProofs`** (any calls, dials, cap and number of sockets): `TypeCorrect`,
`PointersAreLive`, `TerminalEventsResolve`, `PromisesAreSetOnce`, `ReturnedCallsAreRouted`.
`PointerInv` says that an event that was routed is about a registered call until it is handled,
which only the join in `disconnect()` guarantees (`JoinedIsGone`), and that a socket is `late`
only after that join (`LateAfterJoin`); `DialInv` that the entry of a
dial is in the map, in the hands of the receive thread or fulfilled, one of them; `PromiseInv`
that the Call a promise names stays owned and routed.

**`RelayConnectionProofs`** (any number of sockets, delays and attempts): `TypeCorrect`, which
bounds back-off and attempts, `OneThread`, `CrashIsExplained`, `StaleSessionIsExplained`. The
strengthening: only the socket of `ws_` has a receive thread; until somebody disconnects the
main thread works on that socket; a restart that was asked for keeps `protocol_` empty as long
as no answer of `signalwire.connect` waits to be stored.

**`CallActionsProofs`** (any actions of any kind): `TypeCorrect`, `TheEndSettlesAll`,
`ThePointerIsLive`, `CallbacksRunOnce`, and `ActionsKeepContract`: `Spec =>
ImplementsCompletion`. The order of the inbox carries them: nothing is
accepted behind the end of the call, no event comes behind a refusal (`InboxOrder`,
`RefusalIsLast`). `KeptOrDone`: an action leaves the map completed, refused or rejected.
`DoneIsOut`: but for a collect, whoever completes an action is about to erase it. The refinement
needs one more invariant, `SaidByPeer`: what the receive thread works on was sent, and sent in
the order of the protocol; with it each of the three places that complete an action
(`ResolveGone`, `UseAction`, `ResolveAllActions`) is a step of the contract. An action that
`ResolveAllActions` completed is completed again when its verb then gets a 404; that is a
stutter because its verb has not returned, so that nobody has called `on_completed` yet.

**`RelayWaitsProofs`** has two components.

- `CallWaits` (any set of waiters and targets): `TypeCorrect`, `NoWakeupIsLost`, `TrueIsTrue`
  and the action property `NoLateTimeout`. The strengthening adds `LookersHoldMutex`: who has
  looked and not yet slept holds the mutex, and the state was not reached when it looked. So
  `Store` cannot come between the look and the sleep. The lemma `ReachedIsStable` rests on the
  lifecycle order: states only move forward.
- `MessageTracking` (any set of messages): `MessageTypeCorrect`, `ReasonComesFirst`,
  `CompletionCallsBackOnce`, and `MessagesKeepContract`: `MessageSpec => ImplementsCompletion`.
  `CallbackExactlyOnce` is not inductive because `Complete` adds one
  to `fired` without a look at `completed`: what keeps it from coming twice is that the peer
  ends a message once (`OneTerminal`), that an event is in the inbox or in hand, never in both
  and never twice (`InboxWasSent`, `HandWasSent`), and that of a completed message no terminal
  event is left in either (`CompletedIsOver`). `CompletedHasReason` carries the order of
  `set_reason` and `update_state` from the receive thread to the waiter.

**`RestClientProofs`** (any list of pages, set of statuses, number of retries):
`TypeCorrect`, with the bound `Retries + 1` on attempts, `PostsArePaid` and `AbortsStop`. The
strengthening relates the counters to `attempt` (`PostCounted`, `AttemptsLeft`), says that
while a POST is under way everything carried out was paid for (`PostPaid`), and that after a
late attempt no other can start (`LateIsOver`). `WalksAreSound` is about the iterator, for any
links among any finite set of pages, cycles included. `WalkInv` counts: each answer applied
followed a link not seen before or was the last one (`OneFetchPerLink`), which bounds the walk
by the number of pages; a page was visited as the first one or for the link that led to it
(`Visits`), its items are there as often (`ItemsCounted`), and the links of visited pages were
followed (`LinksFollowed`). At the end the visited pages are closed under links, and by
induction along `walk` they are all the linked ones (`WalkStaysInside`).

**`ServerLifecycleProofs`** (any threads, requests and server objects): `TypeCorrect`, which
includes the mutual exclusion of the set-up in `serve()`, and `UnstoppableIsExplained`. The
strengthening: a server belongs to one runner (`OneRunner`), runs only inside `listen`
(`RunsInListen`), and is stoppable, excused or closed from the moment it is built
(`ServedIsStoppable`); the mutex is held by whoever is in a critical section (`Holders`), and a
thread in `serve()` is in no `stop()` of its own (`OneFrame`).

**`AgentServingProofs`** (any tools, skills, calls, life time and clock): `PromiseIsKept`, a
document the agent rendered for a call carries the agent's token on each tool that was secure
then, whatever the registry has become; `RefusalIsExplained` draws `RefusalHasReason` from it.
`TypeCorrect` includes that `tool_order_` lists each tool once and nothing else but DataMap
functions; it rests on what `Listed`, `ListedAll` and `Without` do to a sequence without
repetitions (`ListedKeeps`, `ListedAllKeeps`, `WithoutKeeps`). `LoadedSkillsServe` needs two
facts about the skills: a tool whose object is owned belongs to the manager's entry with that
object, and that entry's skill defines a tool of that name (`ToolsOfSkills`); and the manager
holds a skill once, unless it supports several instances (`OneEntry`). So unloading an object
takes it from the tools of its own skill only, and no entry of that skill is left.

Only model-checked:

- liveness (`RequestsReturn`, `ReconnectSettles`, `DisconnectStopsRun`, `ReachedReturns`,
  `TerminalReleasesWaiter`, `StopReturns`, `StopEndsServe`), which is outside the prover's
  reach;
- the three violations of section 4, which are counterexamples.

## 6. What is not modelled

- IXWebSocket, OpenSSL and nlohmann::json; TLS, frames, URLs, JSON shapes. Of cpp-httplib,
  `listen` and `stop` as far as serving and stopping depend on them.
- The user's callbacks. They can cause deadlocks no model here shows: callbacks of
  messages run under `messages_mutex_`, those of actions under `actions_mutex` at the end of a
  call, and event handlers in the receive thread, where an RPC waits for a response that only
  this thread can read.
- Commands without state (`stop`, `pause`, `execute_simple`), inbound messages, devices,
  typed events; `authorization_state_`, which is stored and sent together with `protocol_`.
- REST: the merge of request options, the delays (back-off, Retry-After), the generated
  namespaces.
- Agents: document content (prompts, verbs, hints, contexts), authentication, MCP, debug and
  post-prompt end points, serverless dispatch; the metadata map of `SessionManager`, which
  nothing in the SDK calls; the table of agents and SIP routes of `AgentServer`.
- Builders and conversions: contexts (`ContextBuilder::validate` is one pass over a JSON
  object), `FunctionResult`, DataMap, POM, prefabs, schema, type inference, the C API.

Most of the lines of the repository are of the last two kinds: generated REST wrappers and
relay types, fluent builders that append to a JSON object, built-in skills that are one HTTP
call each, and vendored code. They keep no state across calls and run in one thread, so a model
would repeat the text of the code and have nothing to explore. That is why the map covers a
small share of the lines, and most of the code with a protocol.

## 7. Plan

Done, in this order because it follows what the rest depends on: `RelayRpc` with its contract;
`RelayCalls`; `RelayConnection`; `CallActions`; `CallWaits`; `MessageTracking`; `RestClient`;
`ServerLifecycle`; `AgentServing`; the proofs of every invariant of these.

What could follow, should the code in question change:

1. The table of agents of `AgentServer`, with routes that are served while agents are
   registered and unregistered, on top of `ServerLifecycle`.
2. Bounds in place of liveness, which can be proved: a variant that each step of a waiting
   `dial()`, of `reconnect()` or of `stop()` makes smaller, as an action property.
3. A composition of `RelayConnection` with `RelayRpc`: `authenticate` as a request, in place
   of the contract.
4. An abstract specification of `dial()`: one answer, that of its own tag, or a rejection or a
   time-out, shown to be implemented by `RelayCalls`.
