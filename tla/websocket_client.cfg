\* Two calls of connect, in any order with everything else: two lines at most, so
\* two slots never run out.
SPECIFICATION Spec
CONSTANTS
  Sockets = {s1, s2}
  NoSocket = NoSocket
  Topics = {joint_states, estop}
  MaxAttempts = 2
  MaxConnects = 2
  MaxCallbacks = 2
INVARIANTS TypeOK CurrentSocketSubscribed UsedInOrder NeverForgotten
PROPERTY ConnectSettles
CHECK_DEADLOCK FALSE
