# SF-Twin core: TLA+ models and proofs

This directory holds TLA+ models of the SF-Twin core (edge control, digital twin,
simulation, procurement, their plugins, the ROS 2 nodes and the dashboard), the TLC
configurations that check them on small instances, and theorems about them that the
TLA+ proof system checks for every value of the constants. Every definition is
translated from the code under `src/`; `PROJECT.json` gives for each one the lines
it stands for.

    tlc -workers 2 -config viewport.cfg MCThreeViewport     # check a run
    tlapm ThreeViewportProofs.tla                           # check the proofs

Where a file name below has no directory it is unique in `src/`.

## 1. The system

The core is a modular monolith in Python and C++: domain packages with use cases
behind facades, ports that plugins implement, an in-process event bus, two ROS 2
packages, and a TypeScript dashboard. What runs concurrently is

* the request threads of the HTTP server, which call the facades;
* the C++ telemetry loop at the edge, beside commands that enter from Python;
* the ROS 2 executors: the node's callbacks, and the thread that completes the
  futures of the core's service calls;
* the worker threads of `asyncio.to_thread`, which block in service calls and use cases;
* the browser: one thread, but callbacks, timers and awaits in any order;
* the physical plant, the database, the broker: ports that fail on their own.

| component | state it keeps | operations | hard behaviour | correct means | module |
|---|---|---|---|---|---|
| Edge interlock (`core/src/edge_control/anomaly_failsafe`) | interlock state, relay, what was announced | evaluate telemetry, manual E-stop, recovery, reset | no lock between telemetry loop and commands; ports missing or throwing between two steps | latched implies cut power and an announcement; nothing dangerous passes quietly; power returns by a full reset only | `EdgeInterlock`, `FailsafeRules`, `SafetyLatch` |
| Dashboard ROS connection (`ros_websocket_client.ts`) | socket, timer, attempts, subscriptions | connect, subscribe, disconnect, browser events | late events of sockets and timers no longer referred to; backoff | subscriptions survive, disconnect is final, retries end | `RosWebSocketClient` |
| B2B procurement (`core/src/kpi_b2b/b2b_procurement`) | stock, orders, quotes, idempotency cache | process order, generate quote, expert session | read-modify-write over ports, partial failure, retry under a key | no overdraft, no unpaid order, one quote per key | `Procurement` |
| Asset persistence (`plugins/aas_persistence`) | row, AAS file, temporary file | save, delete, load | two stores without a common transaction, crash, overlapping saves on one temporary name | file whole, file and row agree | `AssetStore` |
| 3D viewport (`web_ui`: `ThreeViewport.tsx`, its controller, scene graph, asset loader, ring buffer, telemetry bridge, simulation engine) | scene, E-stop material, cache, ring, frames requested | mount, unmount, new props, load, message, simulate, render | asynchronous loads that outlive their view; cache and ring at their limits | alert shown, torn-down view quiet, playback forward | `ThreeViewport`, `TransformRingBuffer` |
| Physics service (`ros2_ws/src/simulation/mujoco_sim`, `ros2_service_client_manager.py`) | engine lock, run in progress, futures | simulate, E-stop by topic and directly | client timeout against late answer; lock read outside the mutex; node death | E-stop final, answers truthful, calls return | `PhysicsService` |
| Operator gateway and teleoperation (`fast_api`: `edge_router.py`, `webrtc_router.py`, `ros2_edge_client.py`, `ros2_webrtc_client.py`, interceptor, exception handlers) | worker pool, requests at the nodes, peer of each socket, sessions | E-stop, resume, reset, telemetry; offer, ICE, close, signalling socket | 504 while the request stays queued; blocked pool; sockets that end by exception or change peers | an answer is true and final, a closed socket leaves no session, calls end | `OperatorGateway`, `OperatorCalls` |
| Simulation use cases (`core/src/simulation`: facade, five use cases, layout optimiser) | none; engine, fleet and audit trail behind ports | run, inject fault, fault recovery, deploy, optimise, status | a port that raises before or after its effect, an audit that fails | what was done is audited, what is answered happened, layouts fit | `Simulation`, `LayoutOptimizer`, `AccessControl` |
| Digital twin (`core/src/digital_twin`, baseline and asset adapters of `aas_persistence`) | baselines, assets, the source log | reconstruct, calibrate, layout, register, get | one log in two reconstructions, a row read in one session and merged in another, failure after any step | answer, row and event agree, rows consistent, companies apart, log removed | `TwinReconstruction` |
| KAMP sensor parser (`plugins/kamp_sensor_parser`) | none | validate, stream, resample, frames | order of the checks, grid and end of the log | frames keep the log's time | `KampLog` |
| Event bus (`core/src/shared/ipc/event_bus.py`) | subscribers by topic | subscribe, unsubscribe, publish | handlers that raise, list changed during a round | every handler subscribed at the publication is called | `EventBus` |
| Roles (`core/src/shared/security`) | none | decisions | – | refused calls have no effect | `AccessControl` |
| Foxglove bridge, shared memory driver, DDS publisher, KPI dashboard, expert sessions, realtime telemetry queries, payload mapper | see section 6 | | | | – |

`PROJECT.json` lists all components, the ones without behaviour to model too (DTO
routers, protobuf codec, message mappers, exceptions and logging, infrastructure).

**How they interact.** The telemetry loop and the Python commands share one
`InterlockManager`; the interlock's announcements go out on a topic and reach the
dashboard, whose E-stop scene they drive through the telemetry bridge on top of the
ROS connection, and the physics node, whose engine they lock. Simulation use cases
reach that node by synchronous service calls. Procurement reaches its repositories
and its cache through ports; asset persistence is the port of the asset library.
The gateway reaches the edge and the WebRTC node by
service calls through a pool of threads and keeps nothing itself. The twin use cases
go from the parser to the database and then to the bus, in one thread per call.
Each module takes its neighbours as an environment that does anything the code of
the neighbour allows: `ThreeViewport` receives E-stop messages in any order, what the
connection below it loses is `RosWebSocketClient`'s subject.

## 2. Modules

| module | what | proofs in |
|---|---|---|
| `FailsafeRules` | the telemetry verdict and the reset policy, as operators | `EdgeInterlockProofs` |
| `EdgeInterlock` | the four use cases, step by step, over one interlock | `EdgeInterlockProofs` |
| `SafetyLatch` | the abstract promise of the interlock | `EdgeInterlockProofs` (safety) |
| `RosWebSocketClient` | the dashboard's connection | `RosWebSocketClientProofs` |
| `Procurement` | orders and quotes | `ProcurementProofs` |
| `AssetStore` | row and file of one asset | `DigitalTwinProofs` |
| `TransformRingBuffer` | the ring buffer as operators on a record | `ThreeViewportProofs` |
| `ThreeViewport` | the views of the dashboard | `ThreeViewportProofs` |
| `PhysicsService` | service calls, node and engine | `PhysicsServiceProofs` |
| `OperatorGateway` | handlers, thread pool, nodes and signalling sockets | `OperatorGatewayProofs` |
| `OperatorCalls` | the abstract promise of a remote command: what its answer means | `OperatorGatewayProofs` (safety) |
| `Simulation` | the command facade and its use cases, step by step | `SimulationProofs` |
| `LayoutOptimizer` | placement of assets, as operators | `SimulationProofs` |
| `AccessControl` | the role hierarchy | – |
| `TwinReconstruction` | the two facades of the digital twin, down to its tables | `DigitalTwinProofs` |
| `KampLog` | the parser: checks, series, frames, as operators | `DigitalTwinProofs` |
| `EventBus` | the bus, with several publishers | `DigitalTwinProofs` |
| `MCEdgeInterlock`, `MCProcurement`, `MCThreeViewport`, `MCOperatorGateway`, `MCSimulation`, `MCTwinReconstruction` | instances for TLC | |

`TwinReconstruction` composes `KampLog`, `EventBus` and `AccessControl`; `Simulation`
composes `LayoutOptimizer` and `AccessControl`; `EdgeInterlock` uses `FailsafeRules`, and
`ThreeViewport` uses `TransformRingBuffer`. Two modules are abstract specifications:
`SafetyLatch` (`Latch == INSTANCE SafetyLatch WITH ...` in `EdgeInterlock`) and
`OperatorCalls` (`Calls == INSTANCE OperatorCalls WITH ...` in `OperatorGateway`).

An operator named `X_Something` just before `X` is a mutation of `X`: a plausible bug
in the lines `X` models. `PROJECT.json` pairs one with each property of each passing
run; replacing `X` by it makes TLC violate that property. They have no other use.

Variables that a comment calls *history* are not in the code. They only record what
happened (no two saves overlapped, no failure hit this key), so that a property can
say under which circumstances the code keeps its promise. No guard reads them.

### EdgeInterlock

State: `interlock` is `InterlockManager::_state`; `relay` the hardware E-stop relay;
`announced` the last `FailsafeCommand`; `pc`, `given`, `judged`, `reply` the program
counter, locals and result of each thread's call.

* `EvaluateTelemetry`, `ManualEstop`, `ResumeRecovery`, `ResetInterlock` are the entry of the
  four use cases up to their first port call, with every early return.
* `TriggerRelay`, `AnnounceEstop`, `EngageEstop`, `ReleaseRelay`, `ReleaseInterlock`,
  `SequenceSucceeds`, `SequenceFails`, `SequenceThrows`, `AnnounceResume` are the steps after
  it, in the order of the code. Each access to the shared manager or to a port is a
  step of its own: the manager has no lock.
* `Ports`, `Faulty` and `Late`: the use cases accept null ports, and a port may throw: before
  it acts (`Throw`) or, at the steps of `Late`, after (`ThrowLate`). Nothing is undone. The
  properties on latch and power exclude one case by name: a relay that closes in a reset
  and then throws (`reset_interlock_usecase.cpp:50`) leaves a latched robot with power.
* `Exclusive`: commands enter through `pybind_edge`, which never releases the
  interpreter lock, so commanders exclude each other; `evaluate_failsafe` is not bound
  to Python and runs beside them. `interlock_serial` puts every thread into `Exclusive`:
  the deployment in which one executor makes all calls.
* `FailsafeRules` keeps the order of the rules (age, torque, distance, score), the
  strict and non-strict comparisons, and the default distance of an empty scan.

`SafetyLatch` knows a latch and a power switch only. The mapping: *set* is ENGAGED, *opening* a
reset between closing the relay and releasing the interlock, *open* the rest; power is the relay.

### RosWebSocketClient

State: the fields of the class, plus what the browser keeps: the `readyState` of every
socket that still exists, the pending timer the client refers to and the number of
those it does not (`strays`). `Connect`, `Subscribe`, `Disconnect` are the methods;
`SocketOpens`, `SocketCloses`, `TimerFires` the handlers, for current and stale sockets
alike. `accepted` says whether the `WebSocket` constructor accepts the URL or throws.

### Procurement

`job[c]` is what a request thread is doing between two port calls. An order goes through
`TakeFromCopy` (validation and `check_and_consume` on the copy it read), `UpdateStock`,
`SaveOrder`, `Dispatch`; a quote through `QuoteFromCache` or `CacheMiss`, `StoreQuote`,
`CacheAndAnswer`. `Refuse` and `RejectOrder` are the early exits. `Abort` is a port call that
raises or the death of the process, after any step. `Expire` is the cache forgetting a key.

### AssetStore

A file system of inodes and two names: `tmp` (`<asset_id>.json.tmp`) and `target`
(`<asset_id>.json`) refer to an inode, so a thread writes into the inode it opened whatever its
name has become. `OpenTemp`, `WriteTemp`, `Replace`, `Commit`, `CommitFails`, `Undo` are the
lines of `save`; `FileFails` a failure of the file part; `CommitFails` also covers a commit that
took place and was reported as an error. A thread holds an inode only between `OpenTemp` and the
end of the write (in `TypeOK`: a rename inside the `with` block would break it). `Delete` and
`Crash` happen at any time. The specification is `StoreSpec`, so that one module of proofs can
extend this module and `TwinReconstruction`.

### ThreeViewport

Every run of the effect in `ThreeViewport.tsx` makes a *view*: controller, bridge and
simulation engine, torn down together by the cleanup. `view[v]` keeps the fields of
these objects that matter to each other: the E-stop flag and the objects drawn in the
alert material, the node each asset id maps to, the loader's place in
`initViewport`, its cache, the animation frames requested. `Mount`, `Unmount`,
`ChangeProps`, `ToggleEstop` are React; `FetchSucceeds`, `FetchFails`, `MountLoaded`,
`GoOn` the continuations of the loader's awaits; `SafetyMessage`, `TelemetryMessage`
the bridge; `StartSimulation` … `ResetSimulation` the engine; `RenderFrame` the loop.
The ring buffer keeps timestamps only. `told` is history: who spoke last to the view of
an E-stop.

### PhysicsService

`call[c]` is where a thread of the core is in `_call_service_sync`; `inbox` and
`outbox` are what the middleware holds; `run` is the simulate callback, of which
every engine method, holding the engine's mutex, is one step; `locked` is
`is_locked_`, which the loop reads without the mutex. `OnFailsafeEstopReceived`
shares the default callback group with the service, so it waits for a run to end;
`TriggerFailsafeStop` is the direct call, at any moment. `TimesOut` cancels the future
and nothing else. `Die` and `Restart` lose what the node held.

### OperatorGateway

A task is an HTTP request or a signalling socket. `Receive` is everything before the
call: the interceptor (`Headers`, `Authenticated`), the client made for the request,
the schema; the call then waits in `pool` for one of `Workers` threads (`StartCall`).
`EdgeServes` and `PeerServes` are the nodes, which are not in the repository: modelled
from the clients, they serve what they have received in any order, refuse, or never
answer. `Returned` and `TimesOut` end the wait in the thread; a request given up on stays in
`atNode`, so `EdgeServes` may carry it out after the operator was told 504. `Open`,
`Message`, `UnreadableMessage` and `Disconnect` are the loop of the signalling socket,
which remembers the last peer it was told of (`active`) and closes only that one.

`OperatorCalls` promises: *done* and *refused* are final and true, only *unknown* leaves
a command that may still happen, each command happens at most once and is
answered. The mapping reads the verdict off the HTTP status: 200 is done, 504 is unknown,
anything else is refused; *happened* is what the edge carried out.

### Simulation, LayoutOptimizer, AccessControl

`Enter` is the facade: role, then company, then the use case up to its first port call.
`TriggerFailsafeStop`, `PlanBypassRecovery`, `SimulateScenario`, `DeployToFleet` are the port
calls, each of which may raise, before its effect or after it; `EnforceEstop` and
`AuditDeployment` are the audit records after them, whose own failure is swallowed (`Log`). A
logger without a repository writes to the system log only (`global_audit_logger.py:108`): the
role guard's is always one, those of the fault injection and of the deployment are unless the
use case was given another. `stored` says which have a repository, any choice of the two in
`Init`; a refused call is in no trail. `OptimizePlacement` is in millimetres; a tie of Python's
`round` goes either way, because the binary fraction decides it.

### TwinReconstruction, KampLog, EventBus

`Calls[c]` is the set of requests caller c may make; `phase[c]` is its next step. A
reconstruction goes `CheckLog`, `StreamLog` (the file is opened twice), `SaveReconstruction`,
`PublishEvent`, `TellHandler` for each handler, `AllTold`, and whatever happened, `CleanUp` or
`CleanUpFails`, the `finally` of the use case. A calibration goes `CheckLog`, `StreamLog`,
`LoadBaseline`, `SaveCalibration` and leaves its log. A call that the role or the company guard
refuses (`Refuse`) never reaches the `try` and leaves it too. `SaveBaseline` has every outcome
of a save: a rate the validation refuses, one the column `Numeric(5, 4)` has no room for, a
transaction that fails, one that took place and is reported as an error. `Finish` is the answer;
a reconstruction is over when its log has been dealt with. Rates are hundredths of a percent.

A log is a record of what the parser tells apart. Nothing checks or sorts its clock: where the
clock goes back the interpolated readings may be any (`ResampleSeries` is a set). `FirstFailure`
lists the checks in the order of the code, since the first that fails decides the answer. Times
are thirds of a sampling period. `EventBus` has one topic, because handlers of different topics
never meet; the list is copied at `Publish` and walked later, beside `Subscribe` and
`Unsubscribe`.

## 3. Runs

Deadlock is checked where a caller can always begin another call (the interlock runs).
The others have a bounded number of calls or views after which nothing is left to do, hence
`CHECK_DEADLOCK FALSE`. `simulation`, which checks no liveness, is reduced by the symmetry
of its callers; no other run is.

| run | question | bounds and why they are enough |
|---|---|---|
| `interlock_serial` | With one executor, do latch, relay and announcement agree through every fault? Is `SafetyLatch` implemented? | 2 commanders, 1 loop; 7 snapshots: every limit at its value and just past it, an empty scan, a warning that hides a high score; all ports may throw, before acting or after (the release of the relay only before) |
| `interlock_concurrent` | What survives the missing lock? | the same, loop beside commands, recovery port returns, the others may throw before or after acting everywhere |
| `interlock_race` | **violated**: does latched imply cut power with the loop running beside commands? | the same, and no port throws |
| `websocket_client` | Do subscriptions survive, is disconnect final, do retries end? | 2 connects make at most 2 lines, so 2 slots never run out; 2 topics, 2 callbacks each (first and further); 2 attempts: below and at the limit |
| `procurement` | What holds in every interleaving, and what while calls do not overlap? | 2 callers, 4 calls (an order and a quote each retried, or overlapped), 2 order ids, quantities −1..2, stock for two units and a half: the second order fits or not; one key and no key |
| `asset_store` | When is the file whole, when does it belong to the row? | 2 threads, 4 saves: two overlap after a successful one, and one alone follows |
| `asset_rollback` | **violated**: does a failed save restore the file? | as above |
| `viewport` | Alert, teardown, cache, playback, loading | 2 views (a stale one and its successor); assets `robot, robot, amr`: a cache hit and an object replaced by its namesake; cache of 1 and ring of 2 overflow; clock to 2, delay 1 |
| `physics_service` | Is an E-stop final, are answers truthful, do calls return? | 2 callers, 2 requests of up to 2 steps (a run can be cut before, in the middle and after), 2 E-stops, 1 death |
| `operator_gateway` | Are answers true and final, do sessions end with their sockets, do calls end? | 2 requests and 1 socket over 1 thread (a call waits behind a blocked one; the other service of a socket), 2 peers (a socket changes peers), 4 of the 7 services: two edge commands and the two ends of a session |
| `simulation` | Is everything done audited and everything answered true, with any failing port? Do layouts fit? | 2 callers; a role below and one above each requirement; scenarios valid, invalid, unreadable; faults on both sides of the critical distance; formats in the enumeration and the default that is not; any choice of loggers with a repository; up to 2 assets anywhere and 3 to 6 placed automatically on canvases too small, exact and roomy |
| `twin_reconstruction` | Do answer, row and event agree; are rows consistent, companies apart, logs removed? | 2 callers of 2 companies, one log that both use, good or bad in every way the parser tells apart (13 logs), rates within, above, past the column and past 100 %, one earlier baseline, 2 handlers that come and go |

**Properties.**

* *Interlock.* `LatchedMeansStopped` (`LatchedMeansPowerCut`, `LatchedMeansAnnounced`): once
  latched, the robot has no power and the field was told, whichever port threw (but for the
  release that acts and then throws, section 2).
  `QuietMeansSafe`: an evaluation that ends quietly judged a snapshot within every hard
  limit. `PowerNeedsBothApprovals` (action property). `PendingHasOwner`: the state in
  which no command is accepted always belongs to a running recovery. `EstopLatches`,
  `PendingResolves` (liveness). `ImplementsLatch` (refinement).
* *Connection.* `CurrentSocketSubscribed`, `NeverForgotten` hold however the client is
  used; `UsedInOrder` (`OneLine`, `DisconnectIsFinal`, `RetriesBounded`) while `connect` is
  only called with nothing left of an earlier connection (`orderly`), because `connect`
  does not close the socket it replaces. `ConnectSettles` (liveness).
* *Procurement.* `RecordsAgree` (`SavedIsPaid`, `AnnouncedIsSaved`, `AnsweredIsSaved`) holds
  always. `StockSound` is `NoOverdraft`, always, and `StockAccounted`, while no stock is
  read during another call's read-modify-write; `OneQuotePerKey` while calls under the key
  do not overlap and its cache does not fail.
* *Assets.* `FileSound`: while saves do not overlap, the file is never torn, crash
  included (`FileWhole`), and a successful save that ran alone repairs whatever came
  before (`FileMatchesRow`).
* *Viewport.* `AlertFollowsButton`: in a view the button spoke to last, state (`ButtonShown`)
  and colour of every asset (`AlertShown`) follow the button. It is not the promise that an
  E-stop that is on is seen: a view that replaced another one meanwhile shows none
  (section 4). `NothingKept` (`NothingAfterDispose`, `CacheWithinBounds`), `PlaybackForward`
  (action property), `AssetsSettle` (liveness).
* *Physics.* `EstopEndsRun`: an E-stop in the gap between the loop's look at the lock and
  the step still ends the motion (`StopIsFinal`), with one stale point at most
  (`TrajectoryEnds`). `SuccessIsWhole`: a success no E-stop struck is the whole run.
  `CallsReturn`, `StopsHandled` (liveness).
* *Gateway.* `AnswersAreTrue`: the gateway implements `OperatorCalls`, its fairness included.
  `NoOrphanSession`: a session outlives the socket that opened it only if the socket
  went on to another peer or one of its calls failed. `CallsEnd` (liveness): a call that waits
  for a thread is made and ends, although every thread may be blocked by a dead node.
* *Simulation.* `EffectsAudited`: what a call did to the plant is in the trail if its logger
  has a repository and this one takes the record; a port that raises what is not an
  `OSError` leaves no record, and the answer "error"; a refused call leaves no record and has
  no effect; the trail claims nothing that did not happen. `AnswersTellTheTruth`: a hazardous fault
  ends with a stop, never with a bypass or a run, and "ok" is what happened. `LayoutsFit`.
* *Twin.* `ReconstructionsHold`: a success is in the table under its company and every handler
  subscribed at its publication was called; a refusal for its rate is in the table and
  nobody was told. `RowsAreSound`: rate, status and summary of a row agree through any
  calibration. `OwnRowsOnly` (action property): a row changes only by its own company's
  calibration, and a read shows the own company's data. `LogsCleaned` (liveness).

**Fairness.** All of it is weak fairness of steps that the program itself has already begun:

* a thread inside an interlock call goes on (`Continue(t)`); nobody is obliged to call;
* the browser fires pending timers and delivers the outcome of a pending socket;
* the browser completes or rejects a fetch, and runs the continuation;
* a thread waiting for a future is woken or times out (the wait has a timeout), the
  executor takes what is ready, and a callback that runs ends. No fairness is given to `Deliver` or
  `Restart`: answers may never come and a dead node may stay dead;
* a free worker thread takes the oldest call (`StartCall`), and a wait ends by its response or
  its timeout (`Ends(t)`). No node is obliged to serve;
* a thread inside a twin use case goes on (`Step(c)`): file system, database and handlers
  return or raise. A handler that never returns would block its publisher.

`Procurement`, `AssetStore` and `Simulation` promise nothing eventual, so they have no
fairness: any call of theirs may stop for ever.

## 4. Findings

Each is a run with the expectation *violation*; the counterexample is the run's trace.

1. **Latched with power** (`interlock_race`). The telemetry loop checks the state, a manual
   E-stop and its approved reset run, and only then the loop latches: ENGAGED with the
   relay closed. `evaluate_telemetry_failsafe_usecase.cpp:27` then ignores all
   telemetry because the robot is "already stopped".
2. **Rollback** (`asset_rollback`). An update whose transaction fails removes the file of
   the version that is still in the row.

Four more statements are defined beside the others and are violated when a
run asks for them (add the name as an INVARIANT, or as a PROPERTY for the second):

* `ResumedMeansPowered` in `interlock_serial.cfg`. A successful recovery releases the
  interlock and announces RESUME, but has no hardware port; the reset that could close
  the relay is refused because the state is already RELEASED.
* `FailedRecoveryKeepsEngaged` in `interlock_serial.cfg`. A recovery port that throws leaves
  PENDING_RESET_APPROVAL, in which E-stop, recovery and reset are refused and telemetry is
  ignored.
* `DuplicatesPrevented` in `procurement.cfg`. Overlapping requests under one key both miss.
* `ScreenShowsEstop` in `viewport.cfg`. While an E-stop is on, new `wsUrl` or `defaultAssets`
  replace the view, and the effect that would tell it of the E-stop does not run
  (`ThreeViewport.tsx:108`, `:114`): the new view shows none until the button or the topic
  speaks again. No text of the repository promises more, so no run claims it.

Met while modelling, each part of the model as the code has it:

* *Physics.* Loading a model unlocks the engine, so an E-stop handled just before a queued
  simulation is forgotten (this is why `SuccessIsWhole` speaks of E-stops that strike the run
  itself). A run cut by an E-stop is answered as a success. `ros2_outbound_adapter.py`
  reads a field `success` from responses that have `is_success`, and its methods are not named
  as the ports they stand for.
* *Gateway.* A command answered with 504 may still be carried out: this is why the promise has a
  verdict *unknown*. `/offer` answers 200 with an empty SDP when the node refuses. The
  socket ignores CLOSE; a JSON array ends its handler with a TypeError and without
  closing the session. The clients made for each request are never destroyed. The facades are
  never wired in `app.py`, so as shipped the twin, asset and simulation routes end in
  `NotImplementedError` (`facades.py`).
* *Simulation.* The default format of the deploy schema is "VDA5050" (`requests.py:224`; its
  description lists three names), no member of the enumeration, so a deployment by default is
  refused. The records of refused calls (ACCESS_DENIED) reach no repository. The HTTP recovery
  hands over no assets, and a scenario without assets is invalid. An empty trajectory counts as
  a success. An exception of the fleet gateway that is no `OSError` leaves no audit record.
* *Twin.* The summary of the KAMP parser never has the two figures the rate is worked out from,
  so every rate is 0 and COMPLETED; rates above come from another parser behind the port, and
  the instance has both. A calibration answers the fitted rate and stores the one recomputed
  from the old summary. A rate of 10 % and more has no room in the column and ends as an
  internal error instead of OVER_LIMIT. The log of a failed reconstruction is removed too, so it
  cannot be tried again. A merge writes the whole row, so of two calibrations that overlap the
  earlier is lost; `RowsAreSound` shows that the row stays consistent all the same. A
  registration must name the keys the entity asks for and the two the adapter asks for. The
  clock of a log is never checked, and the frames of one that goes back promise nothing. Headers
  in snake case pass the schema (`kamp_raw_schema.py:5` promises full compatibility) and fail
  when streamed. A cell below the first row that is not a number is not caught.

## 5. Proofs

All theorems are for every value of the constants that satisfies the named
assumptions in the modules. Each follows the pattern *Init implies the invariant, every step
keeps it, the invariant implies the property*, with the type invariant first.

* **Interlock** (`EdgeInterlockProofs`). `PendingOwned`, `QuietSafe`, `PowerApproved` hold for
  any `Exclusive` and `Late`; the invariant `ConcurrentInv` adds `CallShape`: which thread can
  be at which step, with which snapshot judged and which approvals given. Without it a thread of
  the wrong kind could be inside a recovery. `PowerCut`, `LatchStops` and `LatchSafety` assume
  `Serial` and exclude the release that acts and then throws; `SerialInv` adds that at most one
  call is in progress (`OneCall`) and what the interlock, relay and announcement are at each of
  its steps (`CallState`). `VerdictSound` is the lemma about the rules.
* **Connection**. `NotForgotten` is inductive with the type invariant, and so is
  `Subscribed`. The orderly ones, joined in `OrderHeld`, need `LineInv`, which says where the
  one line is (a socket connecting, a socket open, one closing, or a timer) and that it
  agrees with `ws` and `explicit`; the bound on retries follows from a budget that trades a
  pending timer for an attempt.
* **Procurement**. `LedgerInv` accounts for what each call in progress holds
  (`Held`), has paid and has saved; with no overlap at most one call holds a copy, and it
  equals the stock less its own demand (`StockStaysSound`, `RecordsAlwaysAgree`). `QuoteInv`
  says that what is cached or stored by a call is in the saved quotes, and, key by key while
  healthy and apart, which of the three places has the quote (`KeyWorks`).
* **Assets** (`DigitalTwinProofs`, with the twin whose rows and files they are). `StoreInv`: the
  two names never share an inode (`Names`), a save that has run alone so far owns what it wrote
  (`Lone`), and file and row agree when nothing went wrong (`Agree`). `FileAlwaysSound` follows.
* **Viewport**. `Sound(view)` is the invariant of one view; the ring invariant `InStep` ties
  head, tail and size together, and `Sorted`, `Past` give the order of frames that playback
  needs. `AlertAlwaysFollowsButton` rests on `Heard`: a view is in the state it was told last.
  `PushAppends` and `PutFits` are the lemmas about the ring and the LRU cache.
* **Physics**. `LockInv` (inside the loop, locked exactly if an E-stop struck this run) and
  `PaceInv` (points against moves at each place of the loop). Types depend on it: that
  no run records more points than asked rests on the loop's look before each step.
* **Twin** (`DigitalTwinProofs`). `FramesAlwaysKeepTime` is about logs of any length whose clock
  ends after it began and never goes back (`NeverGoesBack`): `GridEnds` bounds the last point of
  the grid by half a period, and the rest is that frame i and grid point i have one time. The
  invariant is `Types`, `Table` (the rows are sound) and, call by call, `CallInv`: which
  operation can be at which step (`Place`), that what is about to be saved would be sound if it
  fits its column and belongs to the caller's company (`Saving`: needed, because the row was
  read in another session than it is written in), when a caller's own row is there (`Owned`),
  who was told (`Told`) and what was answered (`Answer`). `Others` shows once for all actions
  that a step of one call leaves `CallInv` of the others: it adds at most its own row, and no
  row changes hands (`Grows`). The theorems assume `CallersAssumption` (publishers are the
  callers, earlier baselines have other identifiers), `RequestsAssumption` (the schema's limit
  on the target) and `StoredAssumption` (earlier rows are sound). `ReconstructionsAlwaysHold`,
  `RowsStaySound` and `CompaniesKeepApart` follow, the last from two lemmas about steps,
  `WriteOwnRows` and `ShowOwnRows`.

* **Gateway** (`OperatorGatewayProofs`). The invariant follows the last call of each task
  through pool, node and response (`PoolHolds`, `NodesHold`, `RepliesFit`): a node may hold
  calls that were given up on, but of a request only its one call. `RequestsOnce` adds that a
  command still with the edge has not been carried out, and that its operator waits or was told
  504; with it every step is one of `OperatorCalls` or a stutter (`AnswersSafety`), and
  `AnswersAreMeant` and `AnswersAreFinal` are drawn from the abstract steps alone.
  `NoSessionLeft` needs `SocketsWait` (a socket that has not failed has no call at a node but
  the one it waits for, and what it closes is the session it last spoke for) and `ClosedIsGone`
  (a session whose closing was confirmed is gone, or another task has opened it again). They
  assume `TasksAssumption` and `WorkersAssumption`; nothing is assumed of `Endpoints`.
* **Simulation** (`SimulationProofs`). `SoFar` says what can have happened and be recorded at
  each point of a call, `Asked` which operation can be at which port; a fault on its way to the
  planner is not hazardous. `OnlyFor` and `OthersKeep` show once for all actions that a step is
  about one caller. `TrailIsTrue` and `AnswersAreHonest` follow. `AnsweredLayoutsFit` rests on a
  fact about the optimiser alone, `PlacedWithinFits`: a rounded position is a multiple of ten
  within half a centimetre (`RoundedIsNear`), so order is kept, and positions a centimetre or
  more apart before the rounding differ after it (`RoundedKeepsOrder`; exactly one centimetre
  apart, none of them is a tie). They assume `FaultsAssumption`, `LayoutsAssumption` (integer
  distances and lengths, as section 6 abstracts the floats) and `PointsAssumption`.

Out of the prover's reach and model-checked only: liveness (`EstopLatches`, `PendingResolves`,
`ConnectSettles`, `AssetsSettle`, `CallsReturn`, `StopsHandled`, `CallsEnd`, `LogsCleaned`) and
the fairness part of the two refinements `ImplementsLatch` and `AnswersAreTrue`; the violations
are TLC's traces. Every invariant and action property that a passing run checks is a theorem,
those of the interlock that speak of a serial deployment under `Serial`.

## 6. What is left out

* Floating point, geometry, payloads, formatting and logging: a snapshot is
  its integers, a payload the number of its save, a frame its timestamp. Joint angles and
  quaternions of the KAMP parser are among them.
* A joint missing from one telemetry frame is interpolated from 0
  (`transform_ring_buffer.ts:145`): frames carry no joints here.
* Real time: timeouts and backoff delays fire in any order; `PhysicsService` counts points.
* Authorisation and audit in the procurement calls are one refusal (`Refuse`).
* The expert session of procurement: a lookup and an insert that nothing else reads.
* Publishing of simulation states and real-time playback: no effect on the engine.
* The nodes behind the gateway are not in the repository; they are the environment.
* The outbound adapter and its payload mapper: no operation of them completes against the
  services of `ros2_ws`, so `Simulation` takes its ports as external.
* The heat map of a layout (nothing places assets in a baseline), and deletion, listing and
  counting in the persistence adapters (no caller).
* The shared memory driver and the DDS publisher: abstract, without a subclass.
* Default assets without an id or a url, which the asset loader refuses with an exception
  that ends `initViewport` (`asset_loader_manager.ts:22`).
* Foxglove bridge: channels are registered before the server listens, its callbacks
  all run in the one thread of its websocket server, and the throttling is never called.
* KPI dashboard, realtime telemetry queries, message mappers, protobuf codec: functions of one
  request without state.

## 7. Plan

The order is that of consequence: what can move a machine first, then what loses
data, then what shows it.

1. *Done:* interlock, connection, procurement, asset store, viewport, physics service; gateway
   and teleoperation; simulation; digital twin with parser and bus; the proofs of their
   invariants and action properties, and of the safety part of both refinements.
2. **What the abstract latch means**, as theorems beside `LatchSafety`, as `AnswersAreMeant` is
   beside `AnswersSafety`.
3. **Lemmas on the parser's checks** (`FirstFailure`): which of two failures of a log is answered.
4. **Foxglove bridge**, if its throttling comes into use.
