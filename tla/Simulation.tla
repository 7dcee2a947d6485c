----------------------------- MODULE Simulation ------------------------------
(***************************************************************************)
(* The simulation component: the command facade and the five use cases     *)
(* behind it, with the role and tenant guards they are decorated with and  *)
(* the audit trail they leave.                                             *)
(*                                                                         *)
(* A call runs in a worker thread of its own.  A use case keeps no state;  *)
(* what calls share is behind the ports - the physics engine, the bypass   *)
(* planner, the fleet gateway and the audit repository - and a port may    *)
(* answer, answer badly, or raise before or after the effect took place.   *)
(***************************************************************************)
EXTENDS LayoutOptimizer, AccessControl, FiniteSets, FiniteSetsExt

CONSTANTS
  Callers,    \* threads that call the facade
  Roles,      \* roles of the users who call
  Scenarios,  \* scenarios to run
  Faults,     \* faults to inject
  Packages,   \* packages to deploy
  Layouts,    \* layouts to optimise
  MaxPoints,  \* bound: points of a trajectory
  NoRequest

\* Distances are in decimetres, times in milliseconds, positions in millimetres.
ASSUME FaultsAssumption ==
  \A f \in Faults : f.named \in BOOLEAN /\ f.trigger \in Int /\ f.distance \in Int
ASSUME LayoutsAssumption == \A l \in Layouts :
  l.assets \in Seq([Axes -> {Unset} \cup Int]) /\ l.bounds \in [Axes -> Int]
ASSUME PointsAssumption == MaxPoints \in Nat

VARIABLES
  request,   \* what each caller asks for
  phase,     \* the next port call of each caller
  answer,    \* what each caller was answered
  layout,    \* the layout each caller was answered
  stored,    \* the use cases whose audit logger was built with a repository
  trail,     \* records the audit repository has, oldest first
  stops,     \* history: callers whose failsafe stop reached the engine
  runs,      \* history: callers with a run, and the collisions it showed
  fleet,     \* history: callers whose package the fleet has
  lost,      \* history: callers one of whose records the repository refused
  raised     \* history: callers to whom the engine or the fleet raised

vars == <<request, phase, answer, layout, stored, trail, stops, runs, fleet, lost, raised>>

-----------------------------------------------------------------------------
(* Roles.                                                                  *)

RequiredRole == [run |-> "FIELD_ENGINEER", fault |-> "FIELD_ENGINEER",
                 recovery |-> "FIELD_ENGINEER", deploy |-> "FACTORY_MANAGER",
                 layout |-> "CREATOR", status |-> "CREATOR"]

CheckPermission(r) == HasPermission(r.role, RequiredRole[r.op])

-----------------------------------------------------------------------------
(* What the operations take.                                               *)

\* A raw asset is numeric if float() reads its limits; if not, it raises a TypeError,
\* which no use case catches.
AssetKinematics(k) == k.numeric /\ k.velocity > 0 /\ k.acceleration > 0
Validate(s) == s.named /\ s.assets # <<>>

\* The assets are read one by one, then the scenario is validated.
CreateScenario(s) ==
  LET bad == {i \in DOMAIN s.assets : ~AssetKinematics(s.assets[i])}
  IN IF bad # {} THEN IF s.assets[Min(bad)].numeric THEN "invalid" ELSE "error"
     ELSE IF Validate(s) THEN "valid" ELSE "invalid"

Detect(points) == Cardinality({i \in DOMAIN points : points[i].collided})

FaultTypes == {"OBSTACLE_APPEARANCE", "NETWORK_DELAY", "TORQUE_EXCEEDED"}
FaultScenario(f) ==
  f.named /\ f.type \in FaultTypes /\ f.trigger >= 0 /\ f.distance >= 0

\* Decimetres.
CriticalObstacleDistance == 5

\* Mutant: an obstacle gets its bypass before its distance is looked at.
EvaluateFaultScenario_ObstacleFirst(f) ==
  IF f.type = "OBSTACLE_APPEARANCE" THEN "EXECUTE_BYPASS_RECOVERY" ELSE "MAINTAIN_ESTOP"

EvaluateFaultScenario(f) ==
  IF f.type = "OBSTACLE_APPEARANCE" /\ f.distance >= CriticalObstacleDistance
    THEN "EXECUTE_BYPASS_RECOVERY" ELSE "MAINTAIN_ESTOP"

Formats == {"ROS2_WS", "VDA_5050", "OPEN_RMF"}
DeployPackage(p) == p.named /\ p.format \in Formats /\ (p.format = "ROS2_WS" => p.path)

\* The requests the HTTP handlers and other callers of the facade make.  The recovery
\* handler hands over no assets at all; another caller may.
RunRequests      == [op : {"run"}, role : Roles, scenario : Scenarios]
FaultRequests    == [op : {"fault"}, role : Roles, fault : Faults]
RecoveryRequests == [op : {"recovery"}, role : Roles, fault : Faults,
                     assets : {<<>>} \cup {s.assets : s \in Scenarios}]
DeployRequests   == [op : {"deploy"}, role : Roles, package : Packages]
LayoutRequests   == [op : {"layout"}, role : Roles, layout : Layouts]
StatusRequests   == [op : {"status"}, role : Roles]

Requests == UNION {RunRequests, FaultRequests, RecoveryRequests, DeployRequests,
                   LayoutRequests, StatusRequests}

-----------------------------------------------------------------------------
(* How a call goes on.                                                     *)

Goto(c, p) == phase' = [phase EXCEPT ![c] = p] /\ UNCHANGED answer
Finish(c, a) == phase' = [phase EXCEPT ![c] = "over"] /\ answer' = [answer EXCEPT ![c] = a]

\* The record goes to the system log, and to the repository of the logger if it has one.
\* The failure of a repository is swallowed.
Log(c, logger, action) ==
  \/ logger \notin stored /\ UNCHANGED <<trail, lost>>
  \/ /\ logger \in stored
     /\ trail' = Append(trail, [by |-> c, action |-> action])
     /\ UNCHANGED lost
  \/ logger \in stored /\ lost' = lost \cup {c} /\ UNCHANGED trail

\* The facade checks the role, with a manager that builds a logger of its own; a use case
\* checks the company; what is left is the use case.
Enter(c, r, usecase) ==
  /\ phase[c] = "new"
  /\ request' = [request EXCEPT ![c] = r]
  /\ \/ ~CheckPermission(r) /\ Log(c, "guard", "ACCESS_DENIED") /\ Finish(c, "forbidden")
     \/ CheckPermission(r) /\ r.op # "status" /\ Finish(c, "invalid") /\ UNCHANGED <<trail, lost>>
     \/ CheckPermission(r) /\ usecase /\ UNCHANGED <<trail, lost>>
  /\ UNCHANGED <<stored, stops, runs, fleet, raised>>

RunScenario(c, s) ==
  CASE CreateScenario(s) = "valid"   -> Goto(c, "simulating")
    [] CreateScenario(s) = "invalid" -> Finish(c, "invalid")
    [] OTHER                         -> Finish(c, "error")

InjectFault(c, f, bypass) ==
  CASE ~FaultScenario(f) -> Finish(c, "invalid")
    [] FaultScenario(f) /\ EvaluateFaultScenario(f) = "MAINTAIN_ESTOP" -> Goto(c, "stopping")
    [] OTHER -> bypass

-----------------------------------------------------------------------------
(* The operations, as far as their first port call.                        *)

RunFmsSimulation(c) ==
  \E r \in RunRequests : Enter(c, r, RunScenario(c, r.scenario)) /\ UNCHANGED layout

InjectFaultOnly(c) ==
  \E r \in FaultRequests :
    Enter(c, r, InjectFault(c, r.fault, Finish(c, "bypass"))) /\ UNCHANGED layout

SimulateFaultRecovery(c) ==
  \E r \in RecoveryRequests :
    Enter(c, r, InjectFault(c, r.fault, Goto(c, "planning"))) /\ UNCHANGED layout

DeploySim2Real(c) ==
  \E r \in DeployRequests :
    /\ Enter(c, r, IF DeployPackage(r.package) THEN Goto(c, "deploying")
                                               ELSE Finish(c, "invalid"))
    /\ UNCHANGED layout

OptimizeLayout(c) ==
  \E r \in LayoutRequests : \E l \in OptimizePlacement(r.layout.assets, r.layout.bounds) :
    LET fits == /\ CanvasBounds(r.layout.bounds)
                /\ \A i \in DOMAIN l : IsWithinBounds(l[i], r.layout.bounds)
    IN /\ Enter(c, r, Finish(c, IF fits THEN "ok" ELSE "invalid"))
       /\ layout' = IF answer'[c] = "ok" THEN [layout EXCEPT ![c] = l] ELSE layout

\* The status is made up: nothing is looked up.
GetSimulationStatus(c) ==
  \E r \in StatusRequests : Enter(c, r, Finish(c, "ok")) /\ UNCHANGED layout

-----------------------------------------------------------------------------
(* The port calls.  One that raises may have had its effect before.        *)

At(c, p) == phase[c] = p /\ UNCHANGED <<request, layout, stored>>
MayAdd(s, c) == {s, s \cup {c}}

\* Mutant: the audit record of a stop is left out.
TriggerFailsafeStop_Unaudited(c) ==
  /\ At(c, "stopping")
  /\ stops' = stops \cup {c}
  /\ Finish(c, "stopped")
  /\ UNCHANGED <<trail, runs, fleet, lost, raised>>

TriggerFailsafeStop(c) ==
  /\ At(c, "stopping")
  /\ \/ stops' = stops \cup {c} /\ Goto(c, "stopped") /\ UNCHANGED raised
     \/ /\ stops' \in MayAdd(stops, c)
        /\ raised' = raised \cup {c}
        /\ Finish(c, "error")
  /\ UNCHANGED <<trail, runs, fleet, lost>>

EnforceEstop(c) ==
  /\ At(c, "stopped")
  /\ Log(c, "fault", "ENFORCE_ESTOP")
  /\ Finish(c, "stopped")
  /\ UNCHANGED <<stops, runs, fleet, raised>>

\* No waypoints are a failure; with waypoints the recovery is run like any scenario.
PlanBypassRecovery(c) ==
  /\ At(c, "planning")
  /\ \/ Finish(c, "error")
     \/ Finish(c, "no recovery")
     \/ RunScenario(c, [named |-> TRUE, assets |-> request[c].assets])
  /\ UNCHANGED <<trail, stops, runs, fleet, lost, raised>>

Trajectories == UNION {[1..n -> [collided : BOOLEAN]] : n \in 0..MaxPoints}

SimulateScenario(c) ==
  /\ At(c, "simulating")
  /\ \/ Finish(c, "error") /\ raised' = raised \cup {c} /\ UNCHANGED runs
     \/ /\ \E points \in Trajectories :
             /\ runs' = [runs EXCEPT ![c] = Detect(points)]
             /\ Finish(c, IF Detect(points) > 0 THEN "collision" ELSE "ok")
        /\ UNCHANGED raised
  /\ UNCHANGED <<trail, stops, fleet, lost>>

\* An OSError is audited as a failure; any other exception passes through.
DeployToFleet(c) ==
  /\ At(c, "deploying")
  /\ \/ fleet' = fleet \cup {c} /\ Goto(c, "deployed") /\ UNCHANGED raised
     \/ fleet' \in MayAdd(fleet, c) /\ Goto(c, "not deployed") /\ UNCHANGED raised
     \/ /\ fleet' \in MayAdd(fleet, c)
        /\ raised' = raised \cup {c}
        /\ Finish(c, "error")
  /\ UNCHANGED <<trail, stops, runs, lost>>

AuditDeployment(c) ==
  /\ \/ At(c, "deployed") /\ Log(c, "deploy", "DEPLOY_PACKAGE_SUCCESS") /\ Finish(c, "ok")
     \/ At(c, "not deployed") /\ Log(c, "deploy", "DEPLOY_PACKAGE_FAILED") /\ Finish(c, "error")
  /\ UNCHANGED <<stops, runs, fleet, raised>>

-----------------------------------------------------------------------------

NoRun == -1

\* A use case is given a logger, or makes one without a repository.
Init ==
  /\ stored \in SUBSET {"fault", "deploy"}
  /\ request = [c \in Callers |-> NoRequest]
  /\ phase = [c \in Callers |-> "new"]
  /\ answer = [c \in Callers |-> "none"]
  /\ layout = [c \in Callers |-> <<>>]
  /\ trail = <<>>
  /\ stops = {}
  /\ runs = [c \in Callers |-> NoRun]
  /\ fleet = {}
  /\ lost = {}
  /\ raised = {}

Next == \E c \in Callers :
  \/ RunFmsSimulation(c)
  \/ InjectFaultOnly(c)
  \/ SimulateFaultRecovery(c)
  \/ DeploySim2Real(c)
  \/ OptimizeLayout(c)
  \/ GetSimulationStatus(c)
  \/ TriggerFailsafeStop(c)
  \/ EnforceEstop(c)
  \/ PlanBypassRecovery(c)
  \/ SimulateScenario(c)
  \/ DeployToFleet(c)
  \/ AuditDeployment(c)

Spec == Init /\ [][Next]_vars

-----------------------------------------------------------------------------
(* Properties.                                                             *)

Records(c) == {trail[i].action : i \in {i \in DOMAIN trail : trail[i].by = c}}
Over(c) == phase[c] = "over"

Audited(c) ==
  /\ c \in stops /\ "fault" \in stored =>
       "ENFORCE_ESTOP" \in Records(c) \/ c \in lost \cup raised
  /\ c \in fleet /\ "deploy" \in stored =>
       \/ Records(c) \cap {"DEPLOY_PACKAGE_SUCCESS", "DEPLOY_PACKAGE_FAILED"} # {}
       \/ c \in lost \cup raised
  /\ c \in raised => Records(c) = {} /\ answer[c] = "error"
  /\ "ENFORCE_ESTOP" \in Records(c) => c \in stops /\ answer[c] = "stopped"
  /\ "DEPLOY_PACKAGE_SUCCESS" \in Records(c) => c \in fleet /\ answer[c] = "ok"
  /\ "DEPLOY_PACKAGE_FAILED" \in Records(c) => answer[c] = "error"
  /\ answer[c] = "forbidden" => Records(c) = {} /\ c \notin stops \cup fleet

\* Where the use case's logger has a repository, a stop or a deployment of a call that is
\* over is in the trail, unless the repository refused the record or the port raised;
\* after a port raised - for the fleet, anything but an OSError - there is no record, and
\* the caller was answered an error, never a success.  The trail claims nothing that did
\* not happen.  A refused role did nothing, and is in no trail, because the role guard's
\* logger has no repository (deploy_sim2real_usecase.py:83, global_audit_logger.py:108).
EffectsAudited == \A c \in Callers : Over(c) => Audited(c)

Hazardous(f) == f.type # "OBSTACLE_APPEARANCE" \/ f.distance < CriticalObstacleDistance

Truthful(c) ==
  /\ answer[c] = "ok" /\ request[c].op \in {"run", "recovery"} => runs[c] = 0
  /\ answer[c] = "ok" /\ request[c].op = "deploy" => c \in fleet
  /\ answer[c] = "stopped" => c \in stops /\ runs[c] = NoRun
  /\ request[c].op \in {"fault", "recovery"} /\ Hazardous(request[c].fault) =>
       answer[c] \in {"forbidden", "invalid", "stopped"} \/ c \in raised

\* An answer says what happened: "ok" is a run without collision or a package with the
\* fleet, and a hazardous fault that is accepted ends with a stop, never with a bypass
\* or a run (failsafe_recovery_policy.py:31, fault_recovery_scenario_usecase.py:57).
AnswersTellTheTruth == \A c \in Callers : Over(c) => Truthful(c)

Fits(given, bounds, placed) ==
  LET auto == {i \in DOMAIN given : given[i].x = Unset}
  IN /\ DOMAIN placed = DOMAIN given
     /\ \A i \in DOMAIN given, a \in Axes :
          /\ placed[i][a] \in 0..bounds[a]
          /\ given[i][a] # Unset => placed[i][a] = given[i][a]
     /\ \A i, j \in auto :
          i < j => /\ placed[i].x <= placed[j].x
                   /\ bounds.x >= 10 * (Len(given) + 1) => placed[i].x # placed[j].x

\* A layout that is answered lies within the canvas and keeps what was given; assets
\* placed automatically keep their order and never share a position as long as the
\* canvas has a centimetre for each of them (layout_optimizer.py:71).
LayoutsFit ==
  \A c \in Callers : Over(c) /\ request[c].op = "layout" /\ answer[c] = "ok" =>
    Fits(request[c].layout.assets, request[c].layout.bounds, layout[c])
=============================================================================
