---------------------------- MODULE MCSimulation ----------------------------
EXTENDS Simulation, TLC

\* No caller is distinguished.
Symmetry == Permutations(Callers)

MCRoles == {"CREATOR", "FACTORY_MANAGER"}

Asset(n, v, a) == [numeric |-> n, velocity |-> v, acceleration |-> a]
MCScenarios ==
  [named : {TRUE}, assets : {<<Asset(TRUE, 1, 1)>>, <<Asset(TRUE, 0, 1), Asset(FALSE, 1, 1)>>,
                             <<Asset(FALSE, 1, 1)>>, <<>>}]
    \cup {[named |-> FALSE, assets |-> <<Asset(TRUE, 1, 1)>>]}

MCFaults ==
  [named : {TRUE}, type : FaultTypes, trigger : {0}, distance : {4, 5}]
    \cup {[named |-> TRUE, type |-> "CONVEYOR_JAM", trigger |-> 0, distance |-> 9990],
          [named |-> TRUE, type |-> "OBSTACLE_APPEARANCE", trigger |-> 0, distance |-> -1]}

MCPackages ==
  [named : {TRUE}, format : {"ROS2_WS", "VDA_5050", "VDA5050"}, path : BOOLEAN]

\* Canvases of half a centimetre (too small for two assets), three and four centimetres.
MCTargets == [x : {Unset, -1, 30}, y : {Unset, 20}, z : {Unset}]
MCLayouts ==
  [assets : UNION {[1..n -> MCTargets] : n \in 0..2},
   bounds : {[x |-> x, y |-> 10, z |-> 10] : x \in {5, 25, 30}}]
   \cup [assets : {[i \in 1..n |-> [x |-> Unset, y |-> Unset, z |-> Unset]] : n \in 3..6},
         bounds : {[x |-> x, y |-> 10, z |-> 10] : x \in {0, 7, 15, 50, 70}}]

=============================================================================
