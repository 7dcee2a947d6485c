----------------------------- MODULE PhysicsService -----------------------------
(***************************************************************************)
(* The physics simulation behind its ROS 2 service: the synchronous calls  *)
(* of the core (ros2_adapter_py Ros2ServiceClientManager), the node that   *)
(* serves them (ros2_ws MujocoPhysicsAdapterNode) and the engine it steps  *)
(* (MujocoEngineWrapper).                                                  *)
(*                                                                         *)
(* Callers are threads of the core.  A call waits for an answer up to a    *)
(* timeout and then forgets it; the request stays where it is.  The node   *)
(* runs one callback at a time, the simulate service and the E-stop        *)
(* subscription among them, since all are in its default callback group;   *)
(* trigger_failsafe_stop is called from any thread.  Each method of the    *)
(* engine holds its mutex and is one step; the node reads is_locked        *)
(* between them without it.  The node may die and start again.  ROS 2      *)
(* delivers to a node that lives and to nobody else.                       *)
(*                                                                         *)
(* Time in a run is the number of points recorded.  Publishing the state   *)
(* (the timer, real_time_playback) changes nothing here and is left out.   *)
(***************************************************************************)
EXTENDS Naturals

CONSTANTS Callers,
          MaxSteps,   \* bound: steps a request asks for (max_duration_sec / dt_sec)
          MaxCalls,   \* bound: requests sent
          QueueDepth, \* QoS of /failsafe/estop
          MaxStops,   \* bound: E-stops, on the topic and direct
          MaxDeaths   \* bound: deaths of the node

ASSUME ServiceAssumption ==
  /\ MaxSteps \in Nat /\ MaxCalls \in Nat /\ QueueDepth \in Nat
  /\ MaxStops \in Nat /\ MaxDeaths \in Nat

VARIABLES call,     \* call[c]: where caller c is in _call_service_sync
          inbox,    \* requests that wait at the service
          outbox,   \* answers on their way
          calls,    \* requests sent so far
          up,       \* does the node live?
          run,      \* the simulate callback in progress
          locked,   \* is_locked_ of the engine
          queued,   \* E-stop messages that wait for their callback
          stops,    \* E-stops so far
          deaths    \* deaths so far

clientVars == <<call, calls>>
nodeVars == <<run, locked>>
budget == <<stops, deaths>>
vars == <<call, inbox, outbox, calls, up, run, locked, queued, stops, deaths>>

Ids == 1 .. MaxCalls
\* A run has recorded points and moved the model; cut is history, the moves made
\* when an E-stop struck it.
Requests == [id : Ids, todo : 0 .. MaxSteps]
Answers == [id : Ids, todo : 0 .. MaxSteps, success : BOOLEAN,
            points : 0 .. MaxSteps, moves : 0 .. MaxSteps, cut : SUBSET (0 .. MaxSteps)]
Runs == [at : {"load", "check", "step", "record"}, id : Ids, todo : 0 .. MaxSteps,
         points : 0 .. MaxSteps, moves : 0 .. MaxSteps, cut : SUBSET (0 .. MaxSteps)]

Idle == [at |-> "idle"]
Finding(i) == [at |-> "finding", id |-> i]
Pending(i) == [at |-> "pending", id |-> i]
Done(a) == [at |-> "done", answer |-> a]

Init ==
  /\ call = [c \in Callers |-> Idle]
  /\ inbox = {} /\ outbox = {}
  /\ calls = 0
  /\ up = TRUE
  /\ run = Idle
  /\ locked = FALSE
  /\ queued = 0
  /\ stops = 0 /\ deaths = 0

-----------------------------------------------------------------------------
\* A thread of the core makes a call.

\* It looks for the service; where there is none the call raises and nothing has
\* changed.
WaitForService(c) ==
  /\ call[c] = Idle
  /\ calls < MaxCalls
  /\ up
  /\ calls' = calls + 1
  /\ call' = [call EXCEPT ![c] = Finding(calls')]
  /\ UNCHANGED <<inbox, outbox, nodeVars, queued, budget>>

\* The request is sent; it is lost when the node has died since.
CallAsync(c, todo) ==
  /\ call[c].at = "finding"
  /\ LET i == call[c].id IN
       /\ call' = [call EXCEPT ![c] = Pending(i)]
       /\ inbox' = IF up THEN inbox \cup {[id |-> i, todo |-> todo]} ELSE inbox
  /\ UNCHANGED <<outbox, calls, nodeVars, queued, budget>>

\* An answer completes the future that waits for it, if one still does.
Deliver(a) ==
  /\ outbox' = outbox \ {a}
  /\ call' = [c \in Callers |-> IF call[c] = Pending(a.id) THEN Done(a) ELSE call[c]]
  /\ UNCHANGED <<inbox, calls, nodeVars, queued, budget>>

\* Mutant: event.wait() without a timeout.
TimesOut_Never(c) == FALSE /\ UNCHANGED vars

\* No answer in time: the future is cancelled and the call raises.  The request is
\* still wherever it was.
TimesOut(c) ==
  /\ call[c].at = "pending"
  /\ call' = [call EXCEPT ![c] = Idle]
  /\ UNCHANGED <<inbox, outbox, calls, nodeVars, queued, budget>>

\* The answer is there, or could not be read (future.exception()): the call
\* returns it or raises.
Return(c) ==
  /\ call[c].at = "done"
  /\ call' = [call EXCEPT ![c] = Idle]
  /\ UNCHANGED <<inbox, outbox, calls, nodeVars, queued, budget>>

\* Mutant: every message is kept.
PublishEstop_KeepAll ==
  /\ stops < MaxStops
  /\ stops' = stops + 1
  /\ queued' = IF up THEN queued + 1 ELSE queued
  /\ UNCHANGED <<call, inbox, outbox, calls, nodeVars, deaths>>

\* publish_estop: the topic keeps the last QueueDepth messages, which are alike.
PublishEstop ==
  /\ stops < MaxStops
  /\ stops' = stops + 1
  /\ queued' = IF up /\ queued < QueueDepth THEN queued + 1 ELSE queued
  /\ UNCHANGED <<call, inbox, outbox, calls, nodeVars, deaths>>

-----------------------------------------------------------------------------
\* The node runs the simulate callback, one method of the engine at a time.

In(place) == run.at = place

TakeRequest(r) ==
  /\ In("idle") /\ up
  /\ inbox' = inbox \ {r}
  /\ run' = [at |-> "load", id |-> r.id, todo |-> r.todo, points |-> 0, moves |-> 0,
             cut |-> {}]
  /\ UNCHANGED <<clientVars, outbox, locked, queued, budget>>

Answer(success) ==
  LET a == [id |-> run.id, todo |-> run.todo, success |-> success,
            points |-> run.points, moves |-> run.moves, cut |-> run.cut]
  IN /\ outbox' = outbox \cup {a}
     /\ run' = Idle

\* Mutant: the lock of an earlier E-stop stays.
LockLoaded_Kept == locked

\* A new model is not locked, whatever happened to the one before it.
LockLoaded == FALSE

LoadModel ==
  /\ In("load")
  /\ locked' = LockLoaded
  /\ run' = [run EXCEPT !.at = "check"]
  /\ UNCHANGED <<clientVars, inbox, outbox, queued, budget>>

\* The loader throws before the engine has changed.
LoadFails ==
  /\ In("load")
  /\ Answer(FALSE)
  /\ UNCHANGED <<clientVars, inbox, locked, queued, budget>>

\* The condition of the loop; the engine is not held while it is read.
Continues == run.points < run.todo /\ ~locked

EnterLoop ==
  /\ In("check") /\ Continues
  /\ run' = [run EXCEPT !.at = "step"]
  /\ UNCHANGED <<clientVars, inbox, outbox, locked, queued, budget>>

\* The loop has ended, for either reason: the answer is a success.
FinishRun ==
  /\ In("check") /\ ~Continues
  /\ Answer(TRUE)
  /\ UNCHANGED <<clientVars, inbox, locked, queued, budget>>

\* Mutant: step_simulation relies on the loop's look at the lock.
Advance_Unchecked == 1

\* What step_simulation does to the model: nothing when it is locked by now.
Advance == IF locked THEN 0 ELSE 1

StepSimulation ==
  /\ In("step")
  /\ run' = [run EXCEPT !.at = "record", !.moves = @ + Advance]
  /\ UNCHANGED <<clientVars, inbox, outbox, locked, queued, budget>>

\* The physics diverged in this step: an exception, and a failure.
StepDiverges ==
  /\ In("step") /\ ~locked
  /\ Answer(FALSE)
  /\ UNCHANGED <<clientVars, inbox, locked, queued, budget>>

\* The contacts and the point are recorded and the time goes on, whether or not
\* the step moved anything.
RecordPoint ==
  /\ In("record")
  /\ run' = [run EXCEPT !.at = "check", !.points = @ + 1]
  /\ UNCHANGED <<clientVars, inbox, outbox, locked, queued, budget>>

-----------------------------------------------------------------------------
\* The E-stop, and the death of the node.

FreezeAndBrake ==
  /\ locked' = TRUE
  /\ run' = IF In("idle") \/ In("load") THEN run ELSE [run EXCEPT !.cut = @ \cup {run.moves}]

\* Mutant: the message is logged and nothing is locked.
OnFailsafeEstopReceived_LogsOnly ==
  /\ In("idle") /\ up
  /\ queued > 0
  /\ queued' = queued - 1
  /\ UNCHANGED <<clientVars, inbox, outbox, nodeVars, budget>>

\* The callback of the subscription runs when no other does.
OnFailsafeEstopReceived ==
  /\ In("idle") /\ up
  /\ queued > 0
  /\ queued' = queued - 1
  /\ FreezeAndBrake
  /\ UNCHANGED <<clientVars, inbox, outbox, budget>>

\* trigger_failsafe_stop, from another thread at any moment.
TriggerFailsafeStop ==
  /\ up
  /\ stops < MaxStops
  /\ stops' = stops + 1
  /\ FreezeAndBrake
  /\ UNCHANGED <<clientVars, inbox, outbox, queued, deaths>>

Die ==
  /\ up
  /\ deaths < MaxDeaths
  /\ deaths' = deaths + 1
  /\ up' = FALSE
  /\ run' = Idle /\ locked' = FALSE
  /\ inbox' = {} /\ queued' = 0
  /\ UNCHANGED <<clientVars, outbox, stops>>

Restart ==
  /\ ~up
  /\ up' = TRUE
  /\ UNCHANGED <<clientVars, inbox, outbox, nodeVars, queued, budget>>

-----------------------------------------------------------------------------
ClientStep ==
  \/ \E c \in Callers :
       \/ WaitForService(c)
       \/ \E todo \in 0 .. MaxSteps : CallAsync(c, todo)
       \/ TimesOut(c)
       \/ Return(c)
  \/ \E a \in outbox : Deliver(a)
  \/ PublishEstop

NodeStep ==
  \/ \E r \in inbox : TakeRequest(r)
  \/ LoadModel \/ LoadFails
  \/ EnterLoop \/ FinishRun
  \/ StepSimulation \/ StepDiverges
  \/ RecordPoint
  \/ OnFailsafeEstopReceived
  \/ TriggerFailsafeStop

Next ==
  \/ (ClientStep \/ NodeStep) /\ UNCHANGED up
  \/ Die \/ Restart

\* A thread that waits is woken or times out, and a callback that runs, or may,
\* goes on.
Fairness ==
  /\ \A c \in Callers :
       /\ WF_vars(\E todo \in 0 .. MaxSteps : CallAsync(c, todo) /\ UNCHANGED up)
       /\ WF_vars(TimesOut(c) /\ UNCHANGED up)
       /\ WF_vars(Return(c) /\ UNCHANGED up)
  /\ WF_vars((LoadModel \/ LoadFails \/ EnterLoop \/ FinishRun \/ StepSimulation
                \/ StepDiverges \/ RecordPoint) /\ UNCHANGED up)
  /\ WF_vars((\E r \in inbox : TakeRequest(r)) /\ UNCHANGED up)
  /\ WF_vars(OnFailsafeEstopReceived /\ UNCHANGED up)

Spec == Init /\ [][Next]_vars /\ Fairness

-----------------------------------------------------------------------------
TypeOK ==
  /\ call \in [Callers -> {Idle} \cup {Finding(i) : i \in Ids}
                            \cup {Pending(i) : i \in Ids} \cup {Done(a) : a \in Answers}]
  /\ inbox \subseteq Requests /\ outbox \subseteq Answers
  /\ calls \in 0 .. MaxCalls
  /\ up \in BOOLEAN
  /\ run \in {Idle} \cup Runs
  /\ locked \in BOOLEAN
  /\ queued \in 0 .. QueueDepth
  /\ stops \in 0 .. MaxStops /\ deaths \in 0 .. MaxDeaths

\* Once an E-stop has struck a run the physics moves no further in it, although the
\* loop that steps it looked at the lock before and does not hold it.
StopIsFinal ==
  /\ ~In("idle") => run.cut \subseteq {run.moves}
  /\ \A a \in outbox : a.cut \subseteq {a.moves}

\* The trajectory of a run that was struck ends there too: no more than one point
\* follows that shows no step of the physics, and without an E-stop there is none.
TrajectoryEnds ==
  \A a \in outbox : a.points <= a.moves + (IF a.cut = {} THEN 0 ELSE 1)

\* An E-stop ends the run it strikes, in the physics and in what is reported of it.
EstopEndsRun == StopIsFinal /\ TrajectoryEnds

\* A success is the whole run that was asked for, unless an E-stop struck that very
\* run: one that was handled before, or in an earlier run, does not shorten it.
SuccessIsWhole ==
  \A a \in outbox : a.success /\ a.cut = {} => a.points = a.todo /\ a.moves = a.todo

\* Every call comes back: with the answer, or with an error when the node is gone,
\* busy for too long or has lost the request.
CallsReturn == \A c \in Callers : (call[c] # Idle) ~> (call[c] = Idle)

\* E-stop messages that reached the node are all handled and leave the engine
\* locked, unless it dies first: a run in progress delays them but ends.
StopsHandled == (queued > 0) ~> ((queued = 0 /\ locked) \/ ~up)
================================================================================
