---------------------------- MODULE ThreeViewport -----------------------------
(***************************************************************************)
(* The 3D viewport of the dashboard: the React component ThreeViewport and *)
(* what each run of its effect creates - a ThreeViewportController (asset  *)
(* loader with its LRU cache, scene graph, ring buffer, render loop), a    *)
(* telemetry bridge and a simulation engine.  Together they are a view.    *)
(*                                                                         *)
(* JavaScript runs every callback to completion; the callbacks come in any *)
(* order.  A view is torn down by the effect's cleanup while its loader    *)
(* may be waiting for a model: the loader of a torn-down view goes on.     *)
(*                                                                         *)
(* An object in the scene is named by its place in defaultAssets.  What    *)
(* the connection under the bridge does is RosWebSocketClient's subject.   *)
(***************************************************************************)
EXTENDS TransformRingBuffer, Sequences

CONSTANTS
  Assets,
  DefaultAssets,  \* the asset ids of the prop defaultAssets, in order
  CacheCapacity,  \* maxCapacity of the asset loader
  Delay,          \* bufferDelayMs
  MaxViews,       \* bound: runs of the effect
  MaxNow          \* bound: the clock

ASSUME ViewportAssumption ==
  /\ DefaultAssets \in Seq(Assets)
  /\ CacheCapacity \in Nat \ {0}
  /\ Delay \in Nat /\ MaxViews \in Nat /\ MaxNow \in Nat

VARIABLES
  isEstop,  \* the prop, which the operator's button toggles
  current,  \* the mounted view, 0 when there is none
  born,     \* runs of the effect so far
  view,     \* every view there has been
  ring,     \* the ring buffer of the current view
  shown,    \* the timestamp of the frame the scene shows, 0 before the first
  now       \* performance.now()

vars == <<isEstop, current, born, view, ring, shown, now>>

Views == 1..MaxViews
Objects == 1..Len(DefaultAssets)
NoObject == 0

\* phase: broken is a controller whose initialize threw.
\* loader: what initViewport awaits; taken: the assets it is done with.
\* raf, simRaf: an animation frame is requested by the render loop, by the
\* simulation engine.  told: history, who spoke last to the view of an E-stop.
View ==
  [phase : {"none", "live", "broken", "disposed"},
   estop : BOOLEAN, nodes : [Assets -> Objects \cup {NoObject}], red : SUBSET Objects,
   cache : Seq(Assets), loader : {"idle", "fetching", "loaded", "mounted", "done"},
   taken : 0..Len(DefaultAssets), linked : BOOLEAN, observing : BOOLEAN,
   raf : BOOLEAN, simulating : BOOLEAN, simRaf : BOOLEAN,
   told : {"nobody", "button", "topic"}]

Empty == [a \in Assets |-> NoObject]

Unborn ==
  [phase |-> "none", estop |-> FALSE, nodes |-> Empty, red |-> {}, cache |-> <<>>,
   loader |-> "idle", taken |-> 0, linked |-> FALSE, observing |-> FALSE,
   raf |-> FALSE, simulating |-> FALSE, simRaf |-> FALSE, told |-> "nobody"]

TypeOK ==
  /\ isEstop \in BOOLEAN
  /\ current \in 0..MaxViews
  /\ born \in 0..MaxViews
  /\ view \in [Views -> View]
  /\ ring \in Ring
  /\ shown \in Nat
  /\ now \in 0..MaxNow

Init ==
  /\ isEstop = FALSE
  /\ current = 0
  /\ born = 0
  /\ view = [v \in Views |-> Unborn]
  /\ ring = EmptyRing
  /\ shown = 0
  /\ now = 0

-----------------------------------------------------------------------------
(* The scene graph and the asset cache.                                    *)

Mounted(c) == {o \in Objects : \E a \in Assets : c.nodes[a] = o}

\* applySafetyVisualState, on the objects the scene graph knows by name.
SafetyState(c, estop) ==
  [c EXCEPT !.estop = estop,
            !.red = IF estop THEN @ \cup Mounted(c) ELSE @ \ Mounted(c)]

\* Mutation: an object that arrives during an E-stop keeps its own material.
MountAsset_KeepsMaterial(c) ==
  [c EXCEPT !.nodes[DefaultAssets[c.taken + 1]] = c.taken + 1, !.taken = @ + 1]

\* mountAsset: an object of the same name is no longer known, and stays drawn.
MountAsset(c) ==
  LET d == [c EXCEPT !.nodes[DefaultAssets[c.taken + 1]] = c.taken + 1,
                     !.taken = @ + 1]
  IN IF c.estop THEN SafetyState(d, TRUE) ELSE d

Cached(cache, a) == \E i \in 1..Len(cache) : cache[i] = a
Place(cache, a) == CHOOSE i \in 1..Len(cache) : cache[i] = a

\* The cache without the entry of a.
Others(cache, a) ==
  IF Cached(cache, a)
    THEN [i \in 1..(Len(cache) - 1) |-> cache[IF i < Place(cache, a) THEN i ELSE i + 1]]
    ELSE cache

\* The newest entry is the last; at capacity the oldest goes.
PutCache(cache, a) ==
  Append(IF ~ Cached(cache, a) /\ Len(cache) >= CacheCapacity THEN Tail(cache)
         ELSE Others(cache, a), a)

\* The part of initViewport up to its next await: the next asset, from the cache
\* or from its url; after the last one the resize observer.
LoadNext(c) ==
  IF c.taken = Len(DefaultAssets) THEN [c EXCEPT !.loader = "done", !.observing = TRUE]
  ELSE LET a == DefaultAssets[c.taken + 1] IN
       IF Cached(c.cache, a)
         THEN [c EXCEPT !.cache = Append(Others(@, a), a), !.loader = "loaded"]
         ELSE [c EXCEPT !.loader = "fetching"]

-----------------------------------------------------------------------------
(* The component's effects.                                                *)

\* How initialize and bridgeService.start end: WebGL may be missing, and the
\* client refuses an empty wsUrl.
Outcome == {"ok", "no_webgl", "no_url"}

\* The first effect: initialize, start the bridge, start the loop, load.
Started(outcome) ==
  CASE outcome = "no_webgl" -> [Unborn EXCEPT !.phase = "broken", !.loader = "done"]
    [] outcome = "no_url" -> [Unborn EXCEPT !.phase = "live", !.loader = "done"]
    [] outcome = "ok" ->
         LoadNext([Unborn EXCEPT !.phase = "live", !.linked = TRUE, !.raf = TRUE])

\* The second effect, which runs on the first mount and when isEstop changes.
Prompt(c, estop) ==
  IF c.phase = "live" THEN [SafetyState(c, estop) EXCEPT !.told = "button"] ELSE c

\* The cleanup: the observer, the simulation, the bridge, then the controller,
\* which stops its loop, clears the cache and lets go of the scene.  The promise
\* its loader waits for is not cancelled.
Disposed(c) ==
  [Unborn EXCEPT !.phase = "disposed", !.loader = c.loader, !.taken = c.taken]

FreshView ==
  /\ born < MaxViews
  /\ born' = born + 1
  /\ current' = born + 1
  /\ ring' = EmptyRing
  /\ shown' = 0

\* The component is mounted: both effects run.
Mount(outcome) ==
  /\ current = 0
  /\ FreshView
  /\ view' = [view EXCEPT ![born + 1] = Prompt(Started(outcome), isEstop)]
  /\ UNCHANGED <<isEstop, now>>

Unmount ==
  /\ current # 0
  /\ view' = [view EXCEPT ![current] = Disposed(@)]
  /\ current' = 0
  /\ ring' = EmptyRing
  /\ shown' = 0
  /\ UNCHANGED <<isEstop, born, now>>

\* New wsUrl or defaultAssets: cleanup and first effect, and the second one only
\* if isEstop changes as well; otherwise nobody tells the new view of the E-stop.
ChangeProps(outcome, estop) ==
  /\ current # 0
  /\ FreshView
  /\ isEstop' = estop
  /\ view' = [view EXCEPT
       ![current] = Disposed(@),
       ![born + 1] = IF estop = isEstop THEN Started(outcome)
                     ELSE Prompt(Started(outcome), estop)]
  /\ UNCHANGED now

ToggleEstop ==
  /\ isEstop' = ~ isEstop
  /\ view' = IF current = 0 THEN view
             ELSE [view EXCEPT ![current] = Prompt(@, ~ isEstop)]
  /\ UNCHANGED <<current, born, ring, shown, now>>

-----------------------------------------------------------------------------
(* The loader of a view, current or not.                                   *)

Step(v, c) ==
  /\ view' = [view EXCEPT ![v] = c]
  /\ UNCHANGED <<isEstop, current, born, ring, shown, now>>

\* The model arrives and is cached.
FetchSucceeds(v) ==
  /\ view[v].loader = "fetching"
  /\ Step(v, [view[v] EXCEPT !.loader = "loaded",
                !.cache = PutCache(@, DefaultAssets[view[v].taken + 1])])

\* Mutation: a model that does not arrive ends initViewport.
FetchFails_GivesUp(v) ==
  /\ view[v].loader = "fetching"
  /\ Step(v, [view[v] EXCEPT !.loader = "done"])

\* A wireframe stands in for it, and is not cached.
FetchFails(v) ==
  /\ view[v].loader = "fetching"
  /\ Step(v, [view[v] EXCEPT !.loader = "loaded"])

\* loadAndMountAsset goes on: a scene that is gone is passed over.
MountLoaded(v) ==
  /\ view[v].loader = "loaded"
  /\ Step(v, [IF view[v].phase = "live" THEN MountAsset(view[v])
              ELSE [view[v] EXCEPT !.taken = @ + 1]
              EXCEPT !.loader = "mounted"])

\* Mutation: the asset after the last one is counted as well.
GoOn_OneMore(v) ==
  /\ view[v].loader = "mounted"
  /\ Step(v, IF view[v].phase = "live" THEN [LoadNext(view[v]) EXCEPT !.taken =
                IF @ = Len(DefaultAssets) THEN @ + 1 ELSE @]
             ELSE [view[v] EXCEPT !.loader = "done"])

\* Mutation: initViewport does not ask whether it was cleaned up meanwhile.
GoOn_Unasked(v) ==
  /\ view[v].loader = "mounted"
  /\ Step(v, LoadNext(view[v]))

\* initViewport goes on with the next asset, unless it was cleaned up meanwhile.
GoOn(v) ==
  /\ view[v].loader = "mounted"
  /\ Step(v, IF view[v].phase = "live" THEN LoadNext(view[v])
             ELSE [view[v] EXCEPT !.loader = "done"])

-----------------------------------------------------------------------------
(* Telemetry, simulation, rendering: only the current view.                *)

\* A message on /safety/estop.
SafetyMessage(estop) ==
  /\ current # 0
  /\ view[current].linked
  /\ Step(current, [SafetyState(view[current], estop) EXCEPT !.told = "topic"])

\* Mutation: a frame is stamped by its sender, and messages may be late.
TelemetryMessage_SenderTime ==
  /\ current # 0
  /\ view[current].linked
  /\ \E t \in 0..now : ring' = Push(ring, t)
  /\ UNCHANGED <<isEstop, current, born, view, shown, now>>

\* A message on /joint_states or /tf, stamped when it arrives.
TelemetryMessage ==
  /\ current # 0
  /\ view[current].linked
  /\ ring' = Push(ring, now)
  /\ UNCHANGED <<isEstop, current, born, view, shown, now>>

StartSimulation ==
  /\ current # 0
  /\ ~ view[current].simulating
  /\ Step(current, [view[current] EXCEPT !.simulating = TRUE, !.simRaf = TRUE])

\* A controller that was never initialized refuses the frame, and no further
\* animation frame is requested.
SimulationFrame ==
  /\ current # 0
  /\ view[current].simRaf
  /\ IF view[current].phase = "live"
       THEN ring' = Push(ring, now) /\ UNCHANGED view
       ELSE view' = [view EXCEPT ![current].simRaf = FALSE] /\ UNCHANGED ring
  /\ UNCHANGED <<isEstop, current, born, shown, now>>

StopSimulation ==
  /\ current # 0
  /\ Step(current, [view[current] EXCEPT !.simulating = FALSE, !.simRaf = FALSE])

\* Stop, and a frame with everything at its origin.
ResetSimulation ==
  /\ current # 0
  /\ view' = [view EXCEPT ![current] =
                [@ EXCEPT !.simulating = FALSE, !.simRaf = FALSE]]
  /\ ring' = IF view[current].phase = "live" THEN Push(ring, now) ELSE ring
  /\ UNCHANGED <<isEstop, current, born, shown, now>>

\* tick: what was buffered Delay ago is drawn, and the next frame is requested.
RenderFrame ==
  /\ current # 0
  /\ view[current].raf
  /\ ring.size # 0
  /\ shown' = Interpolate(ring, now - Delay)
  /\ UNCHANGED <<isEstop, current, born, view, ring, now>>

TimePasses ==
  /\ now < MaxNow
  /\ now' = now + 1
  /\ UNCHANGED <<isEstop, current, born, view, ring, shown>>

-----------------------------------------------------------------------------

Loader(v) == FetchSucceeds(v) \/ FetchFails(v) \/ MountLoaded(v) \/ GoOn(v)

Next ==
  \/ \E o \in Outcome : Mount(o)
  \/ Unmount
  \/ \E o \in Outcome, e \in BOOLEAN : ChangeProps(o, e)
  \/ ToggleEstop
  \/ \E v \in Views : Loader(v)
  \/ \E e \in BOOLEAN : SafetyMessage(e)
  \/ TelemetryMessage
  \/ StartSimulation
  \/ SimulationFrame
  \/ StopSimulation
  \/ ResetSimulation
  \/ RenderFrame
  \/ TimePasses

\* A request for a model is answered, with the model or an error, and promises
\* that are resolved are continued.
Fairness == \A v \in Views : WF_vars(Loader(v))

Spec == Init /\ [][Next]_vars /\ Fairness

-----------------------------------------------------------------------------
(* Properties.                                                             *)

\* Every asset the scene knows is drawn in the alert material exactly while its
\* scene is in E-stop, also one whose model arrives in the middle of an E-stop
\* or just after it was lifted.
AlertShown ==
  \A v \in Views, a \in Assets :
    view[v].nodes[a] # NoObject => (view[v].nodes[a] \in view[v].red <=> view[v].estop)

\* What the view shows is what it was told: the E-stop e of the button, if the
\* button spoke to it last; none, if nobody has.
Heard(c, e) ==
  /\ c.told = "button" => c.estop = e
  /\ c.told = "nobody" => ~ c.estop

\* A view the button spoke to last shows the button as it is now: mounting, loading
\* and simulating do not lose it.  A view nobody has spoken to shows no E-stop.
ButtonShown ==
  current # 0 /\ view[current].phase = "live" => Heard(view[current], isEstop)

\* An E-stop of the button is seen in the view that heard it, in state and in the
\* colour of every asset.  This is not a promise that an E-stop that is on is seen:
\* a view that replaces another one while it is on is not told of it.
AlertFollowsButton == AlertShown /\ ButtonShown

\* What an operator would want, and the code does not keep (no run checks it): every
\* view that the topic did not speak to last shows the E-stop of the application.
ScreenShowsEstop ==
  current # 0 /\ view[current].phase = "live" /\ view[current].told # "topic" =>
    view[current].estop = isEstop

\* A view that was cleaned up is left with nothing that runs: no animation frame,
\* no connection, no observer, nothing in its scene - whatever its loader was
\* waiting for at that time.
NothingAfterDispose ==
  \A v \in Views \ {current} :
    /\ ~ view[v].raf /\ ~ view[v].simRaf /\ ~ view[v].linked /\ ~ view[v].observing
    /\ view[v].nodes = Empty

\* The cache holds at most its capacity, each asset once, and after the cleanup
\* at most the one model that was on its way.
CacheWithinBounds ==
  \A v \in Views :
    /\ Len(view[v].cache) <= IF view[v].phase = "disposed" THEN 1 ELSE CacheCapacity
    /\ \A i, j \in 1..Len(view[v].cache) :
         view[v].cache[i] = view[v].cache[j] => i = j

\* A view keeps nothing it should have let go of, living or cleaned up.
NothingKept == NothingAfterDispose /\ CacheWithinBounds

\* The motion shown never goes back in time while a view is up, however frames
\* arrive and are dropped.
PlaybackForward == [][current' = current => shown' >= shown]_vars

\* A view that comes up and stays shows every default asset in the end, whichever
\* models fail to load.
AssetsSettle ==
  \A v \in Views :
    view[v].linked ~> \/ current # v
                      \/ \A o \in Objects : view[v].nodes[DefaultAssets[o]] # NoObject
=============================================================================
