---------------------------- MODULE FailsafeRules ----------------------------
(***************************************************************************)
(* The decision rules of the edge failsafe: what one telemetry snapshot    *)
(* means (FailsafeEvaluator::evaluate_violations, fed by the use case's    *)
(* _extract_min_distance) and when an E-stop may be reset                  *)
(* (EstopResetPolicy::validate_reset_request).                             *)
(*                                                                         *)
(* Quantities are integers in any fixed unit; only their order against the *)
(* limits of failsafe_rule.hpp matters.                                    *)
(***************************************************************************)
EXTENDS Integers, FiniteSets

CONSTANTS
  MaxTorque,         \* FailsafeRule::max_torque_limit_nm
  HeartbeatTimeout,  \* FailsafeRule::heartbeat_timeout_ns
  CriticalDistance,  \* FailsafeRule::vision_critical_distance_m
  WarningDistance,   \* FailsafeRule::vision_warning_distance_m
  MaxScore,          \* FailsafeRule::max_anomaly_score
  Far                \* "nothing seen": the 999 the minimum search starts from

ASSUME RuleAssumption ==
  /\ {MaxTorque, HeartbeatTimeout, CriticalDistance, WarningDistance, MaxScore,
      Far} \subseteq Int
  /\ HeartbeatTimeout >= 0
  /\ 0 < CriticalDistance
  /\ CriticalDistance <= WarningDistance
  /\ WarningDistance < Far

(***************************************************************************)
(* A snapshot: the age of the packet when it is judged (negative when its  *)
(* clock is ahead), the joint torques, the distances the vision system     *)
(* reported (0 or less: no measurement), and the anomaly score.            *)
(***************************************************************************)
Snapshot == [age: Int, torques: SUBSET Int, distances: SUBSET Int, score: Int]

Measured(distances) == {d \in distances : 0 < d /\ d < Far}

\* Is the closest measured object nearer than limit?  (limit never exceeds Far,
\* so an empty field of view is never "nearer".)
NearerThan(distances, limit) == \E d \in Measured(distances) : d < limit

HeartbeatLost(s)  == s.age > 0 /\ s.age > HeartbeatTimeout
TorqueExceeded(s) == \E q \in s.torques : q > MaxTorque

Critical(s) ==
  \/ HeartbeatLost(s)
  \/ TorqueExceeded(s)
  \/ NearerThan(s.distances, CriticalDistance)

\* Mutation: the intrusion warning is decided before everything else.
Evaluate_WarningFirst(s) ==
  IF NearerThan(s.distances, WarningDistance) THEN "BYPASS"
  ELSE IF Critical(s) \/ s.score > MaxScore THEN "ESTOP"
  ELSE "NONE"

\* The intrusion warning is decided before the anomaly score is looked at.
Evaluate(s) ==
  IF Critical(s) THEN "ESTOP"
  ELSE IF NearerThan(s.distances, WarningDistance) THEN "BYPASS"
  ELSE IF s.score > MaxScore THEN "ESTOP"
  ELSE "NONE"

Approvals == {"field_inspection", "manager_approval"}

\* Mutations: one approval is enough; the state is not checked.
ResetVerdict_OneApproval(state, given) ==
  IF state # "ENGAGED" THEN "INVALID_INPUT"
  ELSE IF given = {} THEN "RESET_DENIED" ELSE "GRANTED"

ResetVerdict_AnyState(state, given) ==
  IF given # Approvals THEN "RESET_DENIED" ELSE "GRANTED"

\* validate_reset_request: the state is judged before the approvals.
ResetVerdict(state, given) ==
  IF state # "ENGAGED" THEN "INVALID_INPUT"
  ELSE IF given # Approvals THEN "RESET_DENIED" ELSE "GRANTED"

=============================================================================
