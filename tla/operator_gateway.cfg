\* Two requests and a socket share one worker thread.  The socket makes one call and
\* the closing one; a ping is enough to make it go on to another peer.
SPECIFICATION Spec
CONSTANTS
  Requests = {r1, r2}
  Sockets = {s1}
  Peers = {p1, p2}
  NoPeer = NoPeer
  Workers = 1
  Endpoints <- MCEndpoints
  MaxMessages = 1
INVARIANTS TypeOK NoOrphanSession
PROPERTIES AnswersAreTrue CallsEnd
CHECK_DEADLOCK FALSE
