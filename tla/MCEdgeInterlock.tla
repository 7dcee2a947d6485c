--------------------------- MODULE MCEdgeInterlock ---------------------------
(***************************************************************************)
(* Instances of EdgeInterlock for TLC.  Distances and limits are in        *)
(* decimetres, torques in Nm, ages in ms, scores in hundredths, as in      *)
(* failsafe_rule.hpp.                                                      *)
(***************************************************************************)
EXTENDS EdgeInterlock

CONSTANTS c1, c2, e1

MCCommanders == {c1, c2}
MCEvaluators == {e1}
AllThreads == {c1, c2, e1}
AllPorts == {"hw", "pub", "recovery"}
HwAndPub == {"hw", "pub"}
NoPorts == {}
LateButRelease == {"trigger_relay", "announce_estop", "announce_resume"}
AlwaysLate == LateButRelease \cup {"release_relay"}
NoSteps == {}

\* Each limit at its boundary and just past it, a packet from the future, an
\* unmeasured distance, and the warning that hides a high score.
SnapshotsAtTheLimits ==
  { [age |-> 100, torques |-> {150, -200}, distances |-> {0, 5}, score |-> 85],
    [age |-> -5, torques |-> {}, distances |-> {}, score |-> 0],
    [age |-> 101, torques |-> {0}, distances |-> {20}, score |-> 0],
    [age |-> 10, torques |-> {10, 151}, distances |-> {10}, score |-> 0],
    [age |-> 10, torques |-> {150}, distances |-> {4, 20}, score |-> 0],
    [age |-> 10, torques |-> {0}, distances |-> {14}, score |-> 99],
    [age |-> 10, torques |-> {0}, distances |-> {15}, score |-> 86] }
=============================================================================
