-------------------------- MODULE OperatorGatewayProofs --------------------------
(***************************************************************************)
(* Proofs about OperatorGateway, for any number of requests, sockets,      *)
(* peers, worker threads and messages: its types, that a closed socket     *)
(* leaves no session, and, step by step, that it keeps the safety part of  *)
(* OperatorCalls, with what that means for an operator.                    *)
(***************************************************************************)
EXTENDS OperatorGateway, FiniteSetTheorems, SequenceTheorems, TLAPS

--------------------------------------------------------------------------------
(* The invariant: where the calls of a task can be.                        *)

Phases == {"new", "reading", "queued", "calling", "over"}

AllCalls == [task : Tasks, nr : Nat \ {0}, op : EdgeServices \cup PeerServices,
             peer : Peers \cup {NoPeer}]

\* A call to the WebRTC node is about a peer, and only requests call the edge.
CallRecords == {c \in AllCalls : /\ c.op \in PeerServices => c.peer \in Peers
                                 /\ c.op \in EdgeServices => c.task \in Requests}

Types ==
  /\ phase \in [Tasks -> Phases]
  /\ call \in [Tasks -> CallRecords \cup {NoCall}]
  /\ pool \in Seq(CallRecords)
  /\ atNode \subseteq CallRecords
  /\ replies \subseteq [call : CallRecords, ok : BOOLEAN]
  /\ answer \in [Requests -> Nat]
  /\ active \in [Sockets -> Peers \cup {NoPeer}]
  /\ sessions \subseteq Peers
  /\ executed \subseteq Requests
  /\ opener \in [Peers -> Tasks \cup {NoPeer}]
  /\ failed \subseteq Sockets

\* A task has one call that counts, its last; before the first, nothing is anywhere.
LastCalls == \A t \in Tasks :
  /\ call[t] # NoCall => call[t].task = t
  /\ phase[t] = "new" => call[t] = NoCall
  /\ phase[t] \in {"queued", "calling"} => call[t] # NoCall

\* The pool holds the last call of each task that is queued, once.
PoolHolds ==
  /\ \A i \in DOMAIN pool : pool[i] = call[pool[i].task] /\ phase[pool[i].task] = "queued"
  /\ \A t \in Tasks : phase[t] = "queued" => \E i \in DOMAIN pool : pool[i].task = t
  /\ \A i, j \in DOMAIN pool : pool[i].task = pool[j].task => i = j

\* A node may hold calls that were given up on; of the last call it holds no more than the
\* task waits for or has given up on.
NodesHold == \A c \in atNode :
  /\ c.nr <= call[c.task].nr
  /\ c.nr = call[c.task].nr =>
       c = call[c.task] /\ phase[c.task] \in {"calling", "over"}

\* A response that is looked at is the one to the last call, which has left the node.
RepliesFit ==
  /\ \A a \in replies : /\ phase[a.call.task] = "calling"
                        /\ a.call = call[a.call.task]
                        /\ a.call \notin atNode
  /\ \A a, b \in replies : a.call.task = b.call.task => a = b

\* A request makes one call.  While it is with the edge the command has not been carried
\* out, and the operator is waiting or was told that nobody knows.
RequestsOnce ==
  /\ \A r \in Requests : call[r].nr <= 1 /\ phase[r] # "reading"
  /\ \A c \in atNode : c.task \in Requests =>
       /\ c.task \notin executed
       /\ phase[c.task] = "over" => answer[c.task] = 504
  /\ \A r \in executed : phase[r] \in {"calling", "over"} /\ call[r] # NoCall
  /\ \A a \in replies : a.call.op \in EdgeServices => (a.ok <=> a.call.task \in executed)

\* A socket whose handler has not failed has no call at a node but the one it waits for,
\* and what it closes is the session of the peer it last spoke for.
SocketsWait == \A s \in Sockets :
  /\ s \in failed => phase[s] = "over"
  /\ s \notin failed => \A c \in atNode : c.task = s => c = call[s] /\ phase[s] = "calling"
  /\ phase[s] \in {"queued", "calling"} /\ call[s].op = ClosePeerSession =>
       call[s].peer = active[s]

\* A session whose closing was confirmed is gone, or somebody else has opened it again.
ClosedIsGone == \A a \in replies :
  a.ok /\ a.call.op = ClosePeerSession /\ a.call.peer \in sessions =>
    opener[a.call.peer] # a.call.task

ThreadsBusy == IsFiniteSet(Busy) /\ Cardinality(Busy) <= Workers

IInv ==
  /\ Types /\ LastCalls /\ PoolHolds /\ NodesHold /\ RepliesFit /\ RequestsOnce
  /\ SocketsWait /\ ClosedIsGone /\ NoOrphanSession /\ ThreadsBusy

--------------------------------------------------------------------------------
(* Facts about the services and the calls.                                 *)

\* No status of a refused edge command is 200 or 504, and the two nodes' services
\* are different ones.
LEMMA Services ==
  /\ \A op \in EdgeServices : op \notin PeerServices /\ op.refused \notin {200, 504}
  /\ \A op \in EdgeServices \cup PeerServices : op.refused \in Nat
  /\ {HandleSdpOffer, HandleIceCandidate, ClosePeerSession} = PeerServices
  /\ ClosePeerSession # HandleSdpOffer /\ ClosePeerSession # HandleIceCandidate
  /\ GetTelemetry \in EdgeServices
BY DEF EdgeServices, PeerServices, TriggerEstop, ResetInterlock, ResumeRecovery,
       GetTelemetry, HandleSdpOffer, HandleIceCandidate, ClosePeerSession

LEMMA NoCallIsNone ==
  NoCall.nr = 0 /\ NoCall.op = GetTelemetry /\ NoCall \notin CallRecords
BY DEF NoCall, CallRecords, AllCalls

\* What a call record has.
LEMMA RecordFields ==
  ASSUME NEW c \in CallRecords
  PROVE  /\ c.task \in Tasks /\ c.nr \in Nat /\ c.nr >= 1
         /\ c.op \in EdgeServices \cup PeerServices
         /\ c.peer \in Peers \cup {NoPeer}
         /\ c.op \in PeerServices => c.peer \in Peers
         /\ c.op \in EdgeServices => c.task \in Requests
BY DEF CallRecords, AllCalls

LEMMA CallNumbers ==
  ASSUME Types, NEW t \in Tasks
  PROVE  /\ call[t].nr \in Nat
         /\ call[t] # NoCall => call[t] \in CallRecords
         /\ call[t] # NoCall <=> call[t].nr # 0
<1>1. call[t] \in CallRecords \cup {NoCall}
  BY DEF Types
<1>2. CASE call[t] \in CallRecords
  BY <1>2, RecordFields, NoCallIsNone
<1>3. CASE call[t] = NoCall
  BY <1>3, NoCallIsNone
<1> QED
  BY <1>1, <1>2, <1>3

\* The call a handler makes next.
LEMMA NextCall ==
  ASSUME Types, NEW t \in Tasks, NEW op \in EdgeServices \cup PeerServices,
         NEW p \in Peers \cup {NoPeer},
         op \in PeerServices => p \in Peers, op \in EdgeServices => t \in Requests
  PROVE  /\ Call(t, op, p) \in CallRecords
         /\ Call(t, op, p).task = t /\ Call(t, op, p).nr = call[t].nr + 1
         /\ Call(t, op, p).op = op /\ Call(t, op, p).peer = p
<1> DEFINE k == call[t].nr + 1
<1>1. k \in Nat \ {0}
  BY CallNumbers
<1>2. Call(t, op, p) = [task |-> t, nr |-> k, op |-> op, peer |-> p]
  BY DEF Call
<1> HIDE DEF k
<1>3. [task |-> t, nr |-> k, op |-> op, peer |-> p] \in CallRecords
  BY <1>1 DEF CallRecords, AllCalls
<1> QED
  BY <1>2, <1>3 DEF k

\* The one call of a request is its last.
LEMMA RequestAtNode ==
  ASSUME Types, NodesHold, RequestsOnce, NEW c \in atNode, c.task \in Requests
  PROVE  c = call[c.task] /\ phase[c.task] \in {"calling", "over"}
<1>1. c \in CallRecords
  BY DEF Types
<1>2. call[c.task].nr \in Nat /\ call[c.task].nr <= 1 /\ c.nr <= call[c.task].nr
  BY <1>1, RecordFields, CallNumbers DEF NodesHold, RequestsOnce
<1>3. c.nr = call[c.task].nr
  BY <1>1, <1>2, RecordFields
<1> QED
  BY <1>3 DEF NodesHold

\* A response that is looked at came for the only call of its task at a node.
LEMMA RepliedIsGone ==
  ASSUME IInv, NEW a \in replies, NEW c \in atNode
  PROVE  c.task # a.call.task
<1> SUFFICES ASSUME c.task = a.call.task PROVE FALSE
  OBVIOUS
<1>1. c.task \in Tasks /\ phase[c.task] = "calling" /\ a.call = call[c.task] /\ a.call # c
  BY RecordFields DEF IInv, Types, RepliesFit
<1>2. CASE c.task \in Requests
  BY <1>1, <1>2, RequestAtNode DEF IInv
<1>3. CASE c.task \in Sockets
  BY <1>1, <1>3 DEF IInv, SocketsWait
<1> QED
  BY <1>1, <1>2, <1>3 DEF Tasks

\* A thread less, or none more.
LEMMA NoMoreBusy ==
  ASSUME ThreadsBusy, Busy' \subseteq Busy
  PROVE  ThreadsBusy'
<1>1. IsFiniteSet(Busy') /\ Cardinality(Busy') <= Cardinality(Busy)
  BY FS_Subset DEF ThreadsBusy
<1>2. Cardinality(Busy) \in Nat /\ Cardinality(Busy') \in Nat
  BY <1>1, FS_CardinalityType DEF ThreadsBusy
<1> QED
  BY <1>1, <1>2, WorkersAssumption DEF ThreadsBusy

--------------------------------------------------------------------------------
(* The invariant: the start, and the steps several actions share.          *)

LEMMA InitIInv == Init => IInv
<1> SUFFICES ASSUME Init PROVE IInv
  OBVIOUS
<1>1. Busy = {}
  BY DEF Init, Busy
<1>2. ThreadsBusy
  BY <1>1, FS_EmptySet, WorkersAssumption DEF ThreadsBusy
<1>3. Types
  BY DEF Init, Types, Phases, NoAnswer, Tasks
<1>4. LastCalls /\ PoolHolds /\ NodesHold /\ RepliesFit /\ SocketsWait /\ ClosedIsGone
      /\ NoOrphanSession
  BY DEF Init, LastCalls, PoolHolds, NodesHold, RepliesFit, SocketsWait, ClosedIsGone,
         NoOrphanSession, Tasks
<1>5. RequestsOnce
  BY NoCallIsNone DEF Init, RequestsOnce, Tasks
<1> QED
  BY <1>2, <1>3, <1>4, <1>5 DEF IInv

\* A handler makes its next call: an HTTP handler its only one, a socket's handler the
\* next about the peer it names, and the closing one about the peer it last spoke for.
LEMMA EnqueuedIInv ==
  ASSUME IInv, NEW t \in Tasks, NEW op \in EdgeServices \cup PeerServices,
         NEW p \in Peers \cup {NoPeer},
         op \in PeerServices => p \in Peers, op \in EdgeServices => t \in Requests,
         phase[t] \in {"new", "reading"}, t \in Requests => phase[t] = "new",
         Enqueue(t, Call(t, op, p)),
         active' \in [Sockets -> Peers \cup {NoPeer}],
         \A s \in Sockets : s # t => active'[s] = active[s],
         t \in Sockets /\ op = ClosePeerSession => active'[t] = p,
         UNCHANGED <<atNode, replies, answer, sessions, executed, opener, failed>>
  PROVE  IInv'
<1> DEFINE c == Call(t, op, p)
<1>1. c \in CallRecords /\ c.task = t /\ c.nr = call[t].nr + 1 /\ c.op = op /\ c.peer = p
  BY NextCall DEF IInv
<1>2. call[t].nr \in Nat /\ c # NoCall /\ c # call[t]
  BY <1>1, CallNumbers, NoCallIsNone DEF IInv
<1>3. Enqueue(t, c)
  OBVIOUS
<1> HIDE DEF c
<1>4. Types'
  BY <1>1, <1>3 DEF IInv, Types, Enqueue, Phases
<1>5. LastCalls'
  BY <1>1, <1>2, <1>3 DEF IInv, Types, LastCalls, Enqueue
<1>6. \A i \in DOMAIN pool : pool[i].task \in Tasks /\ pool[i].task # t
  BY RecordFields DEF IInv, Types, PoolHolds
<1>7. /\ DOMAIN pool' = 1..(Len(pool) + 1) /\ DOMAIN pool = 1..Len(pool) /\ Len(pool) \in Nat
      /\ \A i \in DOMAIN pool : pool'[i] = pool[i]
      /\ pool'[Len(pool) + 1] = c
  BY <1>1, <1>3 DEF IInv, Types, Enqueue
<1>8. PoolHolds'
  <2>1. \A i \in DOMAIN pool' : i \in DOMAIN pool \/ i = Len(pool) + 1
    BY <1>7
  <2>2. \A i \in DOMAIN pool' :
           pool'[i] = call'[pool'[i].task] /\ phase'[pool'[i].task] = "queued"
    BY <1>1, <1>3, <1>6, <1>7, <2>1 DEF IInv, Types, PoolHolds, Enqueue
  <2>3. ASSUME NEW u \in Tasks, phase'[u] = "queued"
        PROVE  \E i \in DOMAIN pool' : pool'[i].task = u
    <3>1. CASE u = t
      BY <1>1, <1>7, <3>1
    <3>2. CASE u # t
      <4>1. phase[u] = "queued"
        BY <1>3, <2>3, <3>2 DEF IInv, Types, Enqueue
      <4>2. PICK i \in DOMAIN pool : pool[i].task = u
        BY <4>1 DEF IInv, PoolHolds
      <4> QED
        BY <1>7, <4>2
    <3> QED
      BY <3>1, <3>2
  <2>4. \A i, j \in DOMAIN pool' : pool'[i].task = pool'[j].task => i = j
    BY <1>1, <1>6, <1>7, <2>1 DEF IInv, PoolHolds
  <2> QED
    BY <2>2, <2>3, <2>4 DEF PoolHolds
<1>9. NodesHold'
  <2> SUFFICES ASSUME NEW d \in atNode
               PROVE  /\ d.nr <= call'[d.task].nr
                      /\ d.nr = call'[d.task].nr =>
                           d = call'[d.task] /\ phase'[d.task] \in {"calling", "over"}
    BY DEF NodesHold
  <2>1. d.task \in Tasks /\ d.nr \in Nat /\ d.nr <= call[d.task].nr
    BY RecordFields DEF IInv, Types, NodesHold
  <2>2. CASE d.task = t
    <3>1. call'[d.task].nr = call[t].nr + 1
      BY <1>1, <1>3, <2>2 DEF IInv, Types, Enqueue
    <3> QED
      BY <1>2, <2>1, <2>2, <3>1
  <2>3. CASE d.task # t
    BY <1>3, <2>1, <2>3 DEF IInv, Types, NodesHold, Enqueue
  <2> QED
    BY <2>2, <2>3
<1>10. \A a \in replies : a.call.task \in Tasks /\ a.call.task # t
  BY RecordFields DEF IInv, Types, RepliesFit
<1>11. RepliesFit'
  BY <1>3, <1>10 DEF IInv, Types, RepliesFit, Enqueue
<1>12. RequestsOnce'
  <2>1. t \in Requests => call[t].nr = 0 /\ call[t] = NoCall
    BY NoCallIsNone DEF IInv, LastCalls
  <2>2. \A d \in atNode : d.task \in Requests => d.task # t
    BY RequestAtNode DEF IInv
  <2>3. \A r \in Requests : call'[r].nr <= 1 /\ phase'[r] # "reading"
    BY <1>1, <1>3, <2>1 DEF IInv, Types, RequestsOnce, Enqueue, Tasks
  <2>4. \A d \in atNode : d.task \in Requests =>
           d.task \notin executed /\ (phase'[d.task] = "over" => answer[d.task] = 504)
    BY <1>3, <2>2 DEF IInv, Types, RequestsOnce, Enqueue, Tasks
  <2>5. \A r \in executed : r \in Requests /\ r # t
    BY DEF IInv, Types, RequestsOnce
  <2>6. \A r \in executed : phase'[r] \in {"calling", "over"} /\ call'[r] # NoCall
    BY <1>3, <2>5 DEF IInv, Types, RequestsOnce, Enqueue, Tasks
  <2>7. \A a \in replies : a.call.op \in EdgeServices => (a.ok <=> a.call.task \in executed)
    BY DEF IInv, RequestsOnce
  <2> QED
    BY <2>3, <2>4, <2>6, <2>7 DEF RequestsOnce
<1>13. SocketsWait'
  <2> SUFFICES ASSUME NEW s \in Sockets
               PROVE  /\ s \in failed => phase'[s] = "over"
                      /\ s \notin failed => \A d \in atNode : d.task = s =>
                           d = call'[s] /\ phase'[s] = "calling"
                      /\ phase'[s] \in {"queued", "calling"}
                         /\ call'[s].op = ClosePeerSession => call'[s].peer = active'[s]
    BY DEF SocketsWait
  <2>1. CASE s = t
    BY <1>1, <1>3, <2>1 DEF IInv, Types, SocketsWait, Enqueue
  <2>2. CASE s # t
    BY <1>3, <2>2 DEF IInv, Types, SocketsWait, Enqueue, Tasks
  <2> QED
    BY <2>1, <2>2
<1>14. ClosedIsGone'
  BY DEF IInv, ClosedIsGone
<1>15. NoOrphanSession'
  <2> SUFFICES ASSUME NEW q \in sessions, opener[q] \in Sockets, phase'[opener[q]] = "over"
               PROVE  opener[q] \in failed \/ active'[opener[q]] # q
    BY DEF NoOrphanSession
  <2>1. opener[q] # t /\ phase[opener[q]] = "over"
    BY <1>3 DEF IInv, Types, Enqueue, Tasks
  <2> QED
    BY <2>1 DEF IInv, NoOrphanSession
<1>16. ThreadsBusy'
  <2>1. Busy' \subseteq Busy
    BY <1>3 DEF IInv, Types, Busy, Enqueue
  <2> QED
    BY <2>1, NoMoreBusy DEF IInv
<1> QED
  BY <1>4, <1>5, <1>8, <1>9, <1>11, <1>12, <1>13, <1>14, <1>15, <1>16 DEF IInv

\* An exception ends the handler: nothing has come back to the call it may have waited
\* for, the request is told so, and the socket's session is left alone.
LEMMA RaisedIInv ==
  ASSUME IInv, NEW t \in Tasks, phase[t] \in {"calling", "reading"},
         \A a \in replies : a.call # call[t], Raise(t),
         UNCHANGED <<call, pool, atNode, replies, sessions, executed, opener>>
  PROVE  IInv'
<1>1. Types'
  BY DEF IInv, Types, Raise, Phases
<1>2. LastCalls'
  BY DEF IInv, Types, LastCalls, Raise
<1>3. PoolHolds'
  <2>1. \A i \in DOMAIN pool : pool[i].task # t
    BY DEF IInv, PoolHolds
  <2> QED
    BY <2>1, RecordFields DEF IInv, Types, PoolHolds, Raise
<1>4. NodesHold'
  BY RecordFields DEF IInv, Types, NodesHold, Raise
<1>5. \A a \in replies : a.call.task \in Tasks /\ a.call.task # t
  BY RecordFields DEF IInv, Types, RepliesFit
<1>6. RepliesFit'
  BY <1>5 DEF IInv, Types, RepliesFit, Raise
<1>7. RequestsOnce'
  <2>1. \A r \in Requests : call[r].nr <= 1 /\ phase'[r] # "reading"
    BY DEF IInv, Types, RequestsOnce, Raise, Tasks
  <2>2. \A d \in atNode : d.task \in Requests =>
           d.task \notin executed /\ (phase'[d.task] = "over" => answer'[d.task] = 504)
    BY DEF IInv, Types, RequestsOnce, Raise, Tasks
  <2>3. \A r \in executed : phase'[r] \in {"calling", "over"} /\ call[r] # NoCall
    BY DEF IInv, Types, RequestsOnce, Raise, Tasks
  <2> QED
    BY <2>1, <2>2, <2>3 DEF IInv, RequestsOnce
<1>8. SocketsWait'
  BY TasksAssumption DEF IInv, Types, SocketsWait, Raise, Tasks
<1>9. ClosedIsGone'
  BY DEF IInv, ClosedIsGone
<1>10. NoOrphanSession'
  <2> SUFFICES ASSUME NEW q \in sessions, opener[q] \in Sockets, phase'[opener[q]] = "over"
               PROVE  opener[q] \in failed' \/ active[opener[q]] # q
    BY DEF NoOrphanSession, Raise
  <2>1. CASE opener[q] = t
    BY <2>1 DEF Raise
  <2>2. CASE opener[q] # t
    BY <2>2 DEF IInv, Types, NoOrphanSession, Raise, Tasks
  <2> QED
    BY <2>1, <2>2
<1>11. ThreadsBusy'
  <2>1. Busy' \subseteq Busy
    BY DEF IInv, Types, Busy, Raise
  <2> QED
    BY <2>1, NoMoreBusy DEF IInv
<1> QED
  BY <1>1, <1>2, <1>3, <1>4, <1>6, <1>7, <1>8, <1>9, <1>10, <1>11 DEF IInv

\* What stays when a node is done with a call, whatever it did with it.
LEMMA RespondedIInv ==
  ASSUME IInv, NEW c \in atNode, NEW ok \in BOOLEAN, Respond(c, ok)
  PROVE  /\ LastCalls' /\ PoolHolds' /\ NodesHold' /\ RepliesFit' /\ ThreadsBusy'
         /\ replies' \subseteq [call : CallRecords, ok : BOOLEAN]
         /\ \A a \in replies' : a \in replies \/ a = [call |-> c, ok |-> ok]
<1>1. c \in CallRecords
  BY DEF IInv, Types
<1>2. replies' \subseteq [call : CallRecords, ok : BOOLEAN]
  BY <1>1 DEF IInv, Types, Respond
<1>3. \A a \in replies' : a \in replies \/ a = [call |-> c, ok |-> ok]
  BY DEF Respond
<1>4. LastCalls' /\ PoolHolds'
  BY DEF IInv, LastCalls, PoolHolds, Respond
<1>5. NodesHold'
  BY DEF IInv, NodesHold, Respond
<1>6. RepliesFit'
  <2>1. ASSUME NEW a \in replies'
        PROVE  /\ phase[a.call.task] = "calling" /\ a.call = call[a.call.task]
               /\ a.call \notin atNode'
    <3>1. CASE a \in replies
      BY <3>1 DEF IInv, RepliesFit, Respond
    <3>2. CASE a \notin replies
      BY <1>3, <3>2 DEF Respond
    <3> QED
      BY <3>1, <3>2
  <2>2. \A a, b \in replies' : a.call.task = b.call.task => a = b
    BY <1>3, RepliedIsGone DEF IInv, RepliesFit
  <2> QED
    BY <2>1, <2>2 DEF RepliesFit, Respond
<1>7. ThreadsBusy'
  <2>1. Busy' \subseteq Busy
    BY DEF Busy, Respond
  <2> QED
    BY <2>1, NoMoreBusy DEF IInv
<1> QED
  BY <1>2, <1>3, <1>4, <1>5, <1>6, <1>7

\* A socket that has not failed waits for the only call it has at a node.
LEMMA SocketsWaitOn ==
  ASSUME IInv, UNCHANGED <<phase, call, active, failed>>, atNode' \subseteq atNode
  PROVE  SocketsWait'
BY DEF IInv, SocketsWait

--------------------------------------------------------------------------------
(* The steps.                                                              *)

\* An HTTP request is turned down before its call, or makes it.
LEMMA ReceiveIInv ==
  ASSUME IInv, NEW r \in Requests, NEW op \in EdgeServices \cup PeerServices,
         NEW p \in Peers \cup {NoPeer}, op \in PeerServices => p \in Peers,
         Receive(r, op, p)
  PROVE  IInv'
<1>1. r \in Tasks /\ r \notin Sockets /\ phase[r] = "new" /\ call[r] = NoCall
  BY TasksAssumption DEF IInv, LastCalls, Receive, Tasks
<1>2. CASE Enqueue(r, Call(r, op, p))
  <2>1. op \in EdgeServices => r \in Requests
    OBVIOUS
  <2>2. UNCHANGED <<active, atNode, replies, answer, sessions, executed, opener, failed>>
    BY <1>1, <1>2 DEF Receive, Enqueue, IInv, Types
  <2>3. active' \in [Sockets -> Peers \cup {NoPeer}]
    BY <2>2 DEF IInv, Types
  <2> QED
    BY <1>1, <1>2, <2>1, <2>2, <2>3, EnqueuedIInv
<1>3. CASE ~Enqueue(r, Call(r, op, p))
  <2>1. PICK h \in Headers : \E a \in Rejections(h, op) : answer' = [answer EXCEPT ![r] = a]
    BY <1>3 DEF Receive
  <2>2. PICK a \in Rejections(h, op) : answer' = [answer EXCEPT ![r] = a]
    BY <2>1
  <2>3. a \in Nat
    BY DEF Rejections
  <2>4. /\ phase' = [phase EXCEPT ![r] = "over"]
        /\ UNCHANGED <<call, pool, atNode, replies, active, sessions, executed, opener, failed>>
    BY <1>3 DEF Receive
  <2>5. Types'
    BY <2>2, <2>3, <2>4 DEF IInv, Types, Phases
  <2>6. LastCalls'
    BY <2>4 DEF IInv, Types, LastCalls
  <2>7. \A d \in atNode : d.task \in Requests => d.task # r
    BY <1>1, RequestAtNode DEF IInv
  <2>8. PoolHolds'
    BY <1>1, <2>4, RecordFields DEF IInv, Types, PoolHolds
  <2>9. NodesHold'
    BY <2>4, RecordFields DEF IInv, Types, NodesHold
  <2>10. RepliesFit'
    BY <1>1, <2>4, RecordFields DEF IInv, Types, RepliesFit
  <2>11. RequestsOnce'
    <3>1. \A q \in Requests : call[q].nr <= 1 /\ phase'[q] # "reading"
      BY <1>1, <2>4 DEF IInv, Types, RequestsOnce, Tasks
    <3>2. \A d \in atNode : d.task \in Requests =>
             d.task \notin executed /\ (phase'[d.task] = "over" => answer'[d.task] = 504)
      BY <2>2, <2>4, <2>7 DEF IInv, Types, RequestsOnce, Tasks
    <3>3. \A q \in executed : phase'[q] \in {"calling", "over"} /\ call[q] # NoCall
      BY <1>1, <2>4 DEF IInv, Types, RequestsOnce, Tasks
    <3> QED
      BY <2>4, <3>1, <3>2, <3>3 DEF IInv, RequestsOnce
  <2>12. SocketsWait'
    BY <1>1, <2>4 DEF IInv, Types, SocketsWait, Tasks
  <2>13. ClosedIsGone'
    BY <2>4 DEF IInv, ClosedIsGone
  <2>14. NoOrphanSession'
    BY <1>1, <2>4 DEF IInv, Types, NoOrphanSession, Tasks
  <2>15. ThreadsBusy'
    <3>1. Busy' \subseteq Busy
      BY <2>4 DEF IInv, Types, Busy
    <3> QED
      BY <3>1, NoMoreBusy DEF IInv
  <2> QED
    BY <2>5, <2>6, <2>8, <2>9, <2>10, <2>11, <2>12, <2>13, <2>14, <2>15 DEF IInv
<1> QED
  BY <1>2, <1>3

\* A thread takes the oldest call.
LEMMA StartCallIInv == IInv /\ StartCall => IInv'
<1> SUFFICES ASSUME IInv, StartCall PROVE IInv'
  OBVIOUS
<1> DEFINE c == Head(pool)
<1>1. /\ pool # <<>> /\ Cardinality(Busy) < Workers
      /\ phase' = [phase EXCEPT ![c.task] = "calling"]
      /\ atNode' = atNode \cup {c} /\ pool' = Tail(pool)
      /\ UNCHANGED <<call, replies, answer, active, sessions, executed, opener, failed>>
  BY DEF StartCall
<1>2. /\ DOMAIN pool = 1..Len(pool) /\ Len(pool) \in Nat /\ 1 \in DOMAIN pool /\ c = pool[1]
      /\ DOMAIN pool' = 1..(Len(pool) - 1)
      /\ \A i \in DOMAIN pool' : pool'[i] = pool[i + 1] /\ i + 1 \in DOMAIN pool
      /\ pool' \in Seq(CallRecords)
  BY <1>1 DEF IInv, Types
<1> HIDE DEF c
<1>3. c \in CallRecords /\ c.task \in Tasks /\ c = call[c.task] /\ phase[c.task] = "queued"
  BY <1>2, RecordFields DEF IInv, Types, PoolHolds
<1>4. Types'
  BY <1>1, <1>2, <1>3 DEF IInv, Types, Phases
<1>5. LastCalls'
  BY <1>1, <1>3, NoCallIsNone DEF IInv, Types, LastCalls
<1>6. PoolHolds'
  <2>1. \A i \in DOMAIN pool' : pool'[i].task # c.task /\ pool'[i].task \in Tasks
    <3> SUFFICES ASSUME NEW i \in DOMAIN pool'
                 PROVE  pool'[i].task # c.task /\ pool'[i].task \in Tasks
      OBVIOUS
    <3>1. i \in Nat /\ i + 1 # 1 /\ i + 1 \in DOMAIN pool /\ pool'[i] = pool[i + 1]
      BY <1>2
    <3>2. pool[i + 1].task # pool[1].task
      BY <1>2, <3>1 DEF IInv, PoolHolds
    <3>3. pool[i + 1] \in CallRecords
      BY <1>2, <3>1 DEF IInv, Types
    <3> QED
      BY <1>2, <3>1, <3>2, <3>3, RecordFields
  <2>2. \A i \in DOMAIN pool' :
           pool'[i] = call[pool'[i].task] /\ phase'[pool'[i].task] = "queued"
    BY <1>1, <1>2, <2>1 DEF IInv, Types, PoolHolds
  <2>3. ASSUME NEW u \in Tasks, phase'[u] = "queued"
        PROVE  \E i \in DOMAIN pool' : pool'[i].task = u
    <3>1. phase[u] = "queued" /\ u # c.task
      BY <1>1, <2>3 DEF IInv, Types
    <3>2. PICK i \in DOMAIN pool : pool[i].task = u
      BY <3>1 DEF IInv, PoolHolds
    <3>3. i - 1 \in DOMAIN pool'
      BY <1>2, <3>1, <3>2
    <3>4. pool'[i - 1] = pool[i]
      BY <1>2, <3>3
    <3> QED
      BY <3>2, <3>3, <3>4
  <2>4. ASSUME NEW i \in DOMAIN pool', NEW j \in DOMAIN pool', pool'[i].task = pool'[j].task
        PROVE  i = j
    <3>1. i + 1 = j + 1
      BY <1>2, <2>4 DEF IInv, PoolHolds
    <3> QED
      BY <1>2, <3>1
  <2> QED
    BY <1>1, <2>2, <2>3, <2>4 DEF PoolHolds
<1>7. NodesHold'
  <2> SUFFICES ASSUME NEW d \in atNode'
               PROVE  /\ d.nr <= call[d.task].nr
                      /\ d.nr = call[d.task].nr =>
                           d = call[d.task] /\ phase'[d.task] \in {"calling", "over"}
    BY <1>1 DEF NodesHold
  <2>1. CASE d = c
    BY <1>1, <1>3, <2>1, RecordFields DEF IInv, Types
  <2>2. CASE d # c
    BY <1>1, <1>3, <2>2, RecordFields DEF IInv, Types, NodesHold
  <2> QED
    BY <2>1, <2>2
<1>8. RepliesFit'
  <2> SUFFICES ASSUME NEW a \in replies
               PROVE  /\ phase'[a.call.task] = "calling" /\ a.call = call[a.call.task]
                      /\ a.call \notin atNode'
    BY <1>1 DEF IInv, RepliesFit
  <2>1. a.call.task \in Tasks /\ a.call.task # c.task
    BY <1>3, RecordFields DEF IInv, Types, RepliesFit
  <2> QED
    BY <1>1, <2>1 DEF IInv, Types, RepliesFit
<1>9. RequestsOnce'
  <2>1. \A r \in Requests : call[r].nr <= 1 /\ phase'[r] # "reading"
    BY <1>1, <1>3 DEF IInv, Types, RequestsOnce, Tasks
  <2>2. \A d \in atNode' : d.task \in Requests =>
           d.task \notin executed /\ (phase'[d.task] = "over" => answer[d.task] = 504)
    <3>1. c.task \notin executed
      BY <1>3 DEF IInv, RequestsOnce
    <3> QED
      BY <1>1, <1>3, <3>1, RecordFields DEF IInv, Types, RequestsOnce
  <2>3. \A r \in executed : phase'[r] \in {"calling", "over"} /\ call[r] # NoCall
    BY <1>1 DEF IInv, Types, RequestsOnce, Tasks
  <2> QED
    BY <1>1, <2>1, <2>2, <2>3 DEF IInv, RequestsOnce
<1>10. SocketsWait'
  <2> SUFFICES ASSUME NEW s \in Sockets
               PROVE  /\ s \in failed => phase'[s] = "over"
                      /\ s \notin failed => \A d \in atNode' : d.task = s =>
                           d = call[s] /\ phase'[s] = "calling"
                      /\ phase'[s] \in {"queued", "calling"}
                         /\ call[s].op = ClosePeerSession => call[s].peer = active[s]
    BY <1>1 DEF SocketsWait
  <2>1. CASE s = c.task
    BY <1>1, <1>3, <2>1 DEF IInv, Types, SocketsWait
  <2>2. CASE s # c.task
    BY <1>1, <2>2 DEF IInv, Types, SocketsWait, Tasks
  <2> QED
    BY <2>1, <2>2
<1>11. ClosedIsGone'
  BY <1>1 DEF IInv, ClosedIsGone
<1>12. NoOrphanSession'
  BY <1>1, <1>3 DEF IInv, Types, NoOrphanSession, Tasks
<1>13. ThreadsBusy'
  <2>1. Busy' = Busy \cup {c.task}
    BY <1>1, <1>3 DEF IInv, Types, Busy
  <2>2. IsFiniteSet(Busy) /\ Cardinality(Busy) \in Nat
    BY FS_CardinalityType DEF IInv, ThreadsBusy
  <2>3. /\ IsFiniteSet(Busy \cup {c.task})
        /\ \/ Cardinality(Busy \cup {c.task}) = Cardinality(Busy)
           \/ Cardinality(Busy \cup {c.task}) = Cardinality(Busy) + 1
    BY <2>2, FS_AddElement
  <2> QED
    BY <1>1, <2>1, <2>2, <2>3, WorkersAssumption DEF ThreadsBusy
<1> QED
  BY <1>4, <1>5, <1>6, <1>7, <1>8, <1>9, <1>10, <1>11, <1>12, <1>13 DEF IInv

\* The edge node carries a request's command out, which it has not done before.
LEMMA EdgeServesIInv ==
  ASSUME IInv, NEW c \in atNode, EdgeServes(c)
  PROVE  IInv'
<1>1. PICK ok \in BOOLEAN :
        Respond(c, ok) /\ executed' = IF ok THEN executed \cup {c.task} ELSE executed
  BY DEF EdgeServes
<1>2. /\ UNCHANGED <<phase, call, pool, answer, active, sessions, opener, failed>>
      /\ atNode' = atNode \ {c}
  BY <1>1 DEF EdgeServes, Respond
<1>3. c \in CallRecords /\ c.task \in Requests /\ c.op \in EdgeServices
      /\ c = call[c.task] /\ phase[c.task] \in {"calling", "over"}
      /\ c.task \notin executed
  BY RecordFields, RequestAtNode DEF IInv, Types, EdgeServes, RequestsOnce
<1>4. /\ LastCalls' /\ PoolHolds' /\ NodesHold' /\ RepliesFit' /\ ThreadsBusy'
      /\ replies' \subseteq [call : CallRecords, ok : BOOLEAN]
      /\ \A a \in replies' : a \in replies \/ a = [call |-> c, ok |-> ok]
  BY <1>1, RespondedIInv
<1>5. Types'
  BY <1>1, <1>2, <1>3, <1>4 DEF IInv, Types
<1>6. RequestsOnce'
  <2>1. \A d \in atNode' : d.task \in Requests =>
           d.task \notin executed' /\ (phase[d.task] = "over" => answer[d.task] = 504)
    BY <1>1, <1>2, <1>3, RequestAtNode DEF IInv, RequestsOnce
  <2>2. \A r \in executed' : phase[r] \in {"calling", "over"} /\ call[r] # NoCall
    BY <1>1, <1>3, NoCallIsNone DEF IInv, RequestsOnce
  <2>3. ASSUME NEW a \in replies', a.call.op \in EdgeServices
        PROVE  a.ok <=> a.call.task \in executed'
    <3>1. CASE a \in replies
      BY <1>1, <2>3, <3>1, RepliedIsGone DEF IInv, RequestsOnce
    <3>2. CASE a = [call |-> c, ok |-> ok]
      BY <1>1, <1>3, <3>2
    <3> QED
      BY <1>4, <3>1, <3>2
  <2> QED
    BY <1>2, <2>1, <2>2, <2>3 DEF IInv, RequestsOnce
<1>7. SocketsWait'
  BY <1>2, SocketsWaitOn
<1>8. ClosedIsGone'
  BY <1>2, <1>3, <1>4, Services DEF IInv, ClosedIsGone
<1>9. NoOrphanSession'
  BY <1>2 DEF IInv, NoOrphanSession
<1> QED
  BY <1>4, <1>5, <1>6, <1>7, <1>8, <1>9 DEF IInv

\* The WebRTC node opens, keeps or closes a session.  It can do so late only for a socket
\* that has failed.
LEMMA PeerServesIInv ==
  ASSUME IInv, NEW c \in atNode, PeerServes(c)
  PROVE  IInv'
<1>1. PICK ok \in BOOLEAN :
        /\ Respond(c, ok)
        /\ sessions' = CASE ok /\ c.op = HandleSdpOffer -> sessions \cup {c.peer}
                         [] ok /\ c.op = ClosePeerSession -> sessions \ {c.peer}
                         [] OTHER -> sessions
        /\ opener' = IF ok /\ c.op = HandleSdpOffer
                       THEN [opener EXCEPT ![c.peer] = c.task] ELSE opener
  BY DEF PeerServes
<1>2. /\ UNCHANGED <<phase, call, pool, answer, active, executed, failed>>
      /\ atNode' = atNode \ {c}
  BY <1>1 DEF PeerServes, Respond
<1>3. c \in CallRecords /\ c.task \in Tasks /\ c.op \in PeerServices /\ c.peer \in Peers
  BY RecordFields DEF IInv, Types, PeerServes
<1>4. /\ LastCalls' /\ PoolHolds' /\ NodesHold' /\ RepliesFit' /\ ThreadsBusy'
      /\ replies' \subseteq [call : CallRecords, ok : BOOLEAN]
      /\ \A a \in replies' : a \in replies \/ a = [call |-> c, ok |-> ok]
  BY <1>1, RespondedIInv
<1>5. \/ ok /\ c.op = HandleSdpOffer /\ c.op # ClosePeerSession
         /\ sessions' = sessions \cup {c.peer} /\ opener' = [opener EXCEPT ![c.peer] = c.task]
      \/ ok /\ c.op = ClosePeerSession /\ sessions' = sessions \ {c.peer} /\ opener' = opener
      \/ ~(ok /\ c.op = ClosePeerSession) /\ sessions' = sessions /\ opener' = opener
  BY <1>1, Services
<1>6. Types'
  BY <1>2, <1>3, <1>4, <1>5 DEF IInv, Types
<1>7. RequestsOnce'
  <2>1. \A a \in replies' : a.call.op \in EdgeServices => (a.ok <=> a.call.task \in executed)
    BY <1>3, <1>4, Services DEF IInv, RequestsOnce
  <2> QED
    BY <1>2, <2>1 DEF IInv, RequestsOnce
<1>8. SocketsWait'
  BY <1>2, SocketsWaitOn
<1>9. ClosedIsGone'
  <2> SUFFICES ASSUME NEW a \in replies', a.ok, a.call.op = ClosePeerSession,
                      a.call.peer \in sessions'
               PROVE  opener'[a.call.peer] # a.call.task
    BY DEF ClosedIsGone
  <2>1. CASE a = [call |-> c, ok |-> ok]
    BY <1>5, <2>1
  <2>2. CASE a \in replies
    <3>1. c.task # a.call.task
      BY <2>2, RepliedIsGone
    <3> QED
      BY <1>3, <1>5, <2>2, <3>1 DEF IInv, Types, ClosedIsGone
  <2> QED
    BY <1>4, <2>1, <2>2
<1>10. NoOrphanSession'
  <2>1. c.task \in Sockets /\ phase[c.task] = "over" => c.task \in failed
    BY DEF IInv, SocketsWait
  <2> QED
    BY <1>2, <1>3, <1>5, <2>1 DEF IInv, Types, NoOrphanSession
<1> QED
  BY <1>4, <1>6, <1>7, <1>8, <1>9, <1>10 DEF IInv

\* The handler goes on with its response: a request answers, a socket reads on, or has
\* closed the session it was responsible for.
LEMMA ReturnedIInv ==
  ASSUME IInv, NEW t \in Tasks, Returned(t)
  PROVE  IInv'
<1> USE DEF EndsCall
<1>1. PICK a \in replies :
        /\ a.call = call[t] /\ replies' = replies \ {a}
        /\ IF t \in Requests
             THEN /\ answer' = [answer EXCEPT ![t] = IF a.ok THEN 200 ELSE a.call.op.refused]
                  /\ phase' = [phase EXCEPT ![t] = "over"]
                  /\ UNCHANGED failed
             ELSE /\ phase' = [phase EXCEPT ![t] =
                       IF a.call.op = ClosePeerSession THEN "over" ELSE "reading"]
                  /\ failed' = IF a.call.op = ClosePeerSession /\ ~a.ok
                                 THEN failed \cup {t} ELSE failed
                  /\ UNCHANGED answer
  BY DEF Returned
<1>2. /\ phase[t] = "calling"
      /\ UNCHANGED <<call, pool, atNode, sessions, executed, opener, active>>
  BY DEF Returned
<1>3. a.call \in CallRecords /\ a.call.task = t /\ a.call.op \in EdgeServices \cup PeerServices
  <2>1. a.call \in CallRecords /\ call[t] # NoCall
    BY <1>1, <1>2 DEF IInv, Types, LastCalls
  <2> QED
    BY <1>1, <2>1, RecordFields DEF IInv, LastCalls
<1>4. \A d \in atNode : d.task # t
  BY <1>1, <1>3, RepliedIsGone
<1> DEFINE v == phase'[t]
<1>5. /\ phase' = [phase EXCEPT ![t] = v] /\ v \in {"over", "reading"}
      /\ t \in Requests => v = "over"
      /\ failed' \subseteq failed \cup {t} /\ failed \subseteq failed'
      /\ failed' # failed => t \in Sockets /\ v = "over"
  BY <1>1 DEF IInv, Types, Tasks
<1>6. answer' \in [Requests -> Nat]
  <2>1. a.call.op.refused \in Nat
    BY <1>3, Services
  <2> QED
    BY <1>1, <2>1 DEF IInv, Types
<1>7. \A r \in Requests : r # t => answer'[r] = answer[r]
  BY <1>1 DEF IInv, Types
<1> HIDE DEF v
<1>8. Types'
  BY <1>1, <1>2, <1>5, <1>6 DEF IInv, Types, Phases
<1>9. LastCalls'
  BY <1>2, <1>5 DEF IInv, Types, LastCalls
<1>10. PoolHolds'
  <2>1. \A i \in DOMAIN pool : pool[i].task # t
    BY <1>2 DEF IInv, PoolHolds
  <2> QED
    BY <1>2, <1>5, <2>1, RecordFields DEF IInv, Types, PoolHolds
<1>11. NodesHold'
  BY <1>2, <1>4, <1>5, RecordFields DEF IInv, Types, NodesHold
<1>12. RepliesFit'
  <2>1. \A b \in replies' : b \in replies /\ b.call.task \in Tasks
    BY <1>1, RecordFields DEF IInv, Types
  <2>2. \A b \in replies' : b.call.task # t
    BY <1>1, <1>2, <1>3 DEF IInv, Types, RepliesFit, RequestsOnce
  <2> QED
    BY <1>2, <1>5, <2>1, <2>2 DEF IInv, Types, RepliesFit
<1>13. RequestsOnce'
  <2>1. \A r \in Requests : call[r].nr <= 1 /\ phase'[r] # "reading"
    BY <1>5 DEF IInv, Types, RequestsOnce, Tasks
  <2>2. \A d \in atNode : d.task \in Requests =>
           d.task \notin executed /\ (phase'[d.task] = "over" => answer'[d.task] = 504)
    BY <1>4, <1>5, <1>7 DEF IInv, Types, RequestsOnce, Tasks
  <2>3. \A r \in executed : phase'[r] \in {"calling", "over"} /\ call[r] # NoCall
    BY <1>5 DEF IInv, Types, RequestsOnce, Tasks
  <2>4. \A b \in replies' : b.call.op \in EdgeServices => (b.ok <=> b.call.task \in executed)
    BY <1>1 DEF IInv, RequestsOnce
  <2> QED
    BY <1>2, <2>1, <2>2, <2>3, <2>4 DEF RequestsOnce
<1>14. SocketsWait'
  BY <1>2, <1>4, <1>5, TasksAssumption DEF IInv, Types, SocketsWait, Tasks
<1>15. ClosedIsGone'
  BY <1>1, <1>2 DEF IInv, ClosedIsGone
<1>16. NoOrphanSession'
  <2> SUFFICES ASSUME NEW q \in sessions, opener[q] \in Sockets, phase'[opener[q]] = "over"
               PROVE  opener[q] \in failed' \/ active[opener[q]] # q
    BY <1>2 DEF NoOrphanSession
  <2>1. CASE opener[q] # t
    BY <1>5, <2>1 DEF IInv, Types, NoOrphanSession, Tasks
  <2>2. CASE opener[q] = t
    <3>1. t \in Sockets /\ t \notin Requests
      BY <2>2, TasksAssumption
    <3>2. a.call.op = ClosePeerSession
      BY <1>1, <2>2, <3>1 DEF IInv, Types
    <3>3. CASE a.ok
      BY <1>1, <1>2, <1>3, <2>2, <3>1, <3>2, <3>3 DEF IInv, SocketsWait, ClosedIsGone
    <3>4. CASE ~a.ok
      BY <1>1, <2>2, <3>1, <3>2, <3>4
    <3> QED
      BY <3>3, <3>4
  <2> QED
    BY <2>1, <2>2
<1>17. ThreadsBusy'
  <2>1. Busy' \subseteq Busy
    BY <1>5 DEF IInv, Types, Busy
  <2> QED
    BY <2>1, NoMoreBusy DEF IInv
<1> QED
  BY <1>8, <1>9, <1>10, <1>11, <1>12, <1>13, <1>14, <1>15, <1>16, <1>17 DEF IInv

\* The socket's handler starts to read.
LEMMA OpenIInv ==
  ASSUME IInv, NEW s \in Sockets, Open(s)
  PROVE  IInv'
<1>1. /\ phase[s] = "new" /\ phase' = [phase EXCEPT ![s] = "reading"]
      /\ UNCHANGED <<call, pool, atNode, replies, answer, active, sessions, executed,
                     opener, failed>>
  BY DEF Open
<1>2. s \in Tasks /\ s \notin Requests /\ call[s] = NoCall
  BY <1>1, TasksAssumption DEF IInv, LastCalls, Tasks
<1>3. s \notin failed /\ \A d \in atNode : d.task # s
  BY <1>1, <1>2 DEF IInv, SocketsWait
<1>4. Types' /\ LastCalls' /\ ClosedIsGone'
  BY <1>1, <1>2 DEF IInv, Types, Phases, LastCalls, ClosedIsGone
<1>5. PoolHolds' /\ NodesHold' /\ RepliesFit'
  BY <1>1, <1>2, <1>3, RecordFields DEF IInv, Types, PoolHolds, NodesHold, RepliesFit
<1>6. RequestsOnce'
  <2>1. \A r \in Requests : phase'[r] = phase[r]
    BY <1>1, <1>2 DEF IInv, Types, Tasks
  <2>2. \A r \in executed : phase'[r] = phase[r]
    BY <2>1 DEF IInv, Types
  <2> QED
    BY <1>1, <2>1, <2>2 DEF IInv, RequestsOnce
<1>7. SocketsWait'
  BY <1>1, <1>3 DEF IInv, Types, SocketsWait, Tasks
<1>8. NoOrphanSession'
  BY <1>1 DEF IInv, Types, NoOrphanSession, Tasks
<1>9. ThreadsBusy'
  <2>1. Busy' \subseteq Busy
    BY <1>1 DEF IInv, Types, Busy
  <2> QED
    BY <2>1, NoMoreBusy DEF IInv
<1> QED
  BY <1>4, <1>5, <1>6, <1>7, <1>8, <1>9 DEF IInv

\* A message names the peer the socket speaks for from then on.
LEMMA MessageIInv ==
  ASSUME IInv, NEW s \in Sockets, NEW p \in Peers, Message(s, p)
  PROVE  IInv'
<1>1. /\ phase[s] = "reading" /\ active' = [active EXCEPT ![s] = p]
      /\ UNCHANGED <<atNode, replies, answer, sessions, executed, opener, failed>>
  BY DEF Message
<1>2. s \in Tasks /\ s \notin Requests
  BY TasksAssumption DEF Tasks
<1>3. active' \in [Sockets -> Peers \cup {NoPeer}] /\ active'[s] = p
      /\ \A u \in Sockets : u # s => active'[u] = active[u]
  BY <1>1 DEF IInv, Types
<1>4. ASSUME NEW op \in {HandleSdpOffer, HandleIceCandidate}, Enqueue(s, Call(s, op, p))
      PROVE  IInv'
  <2>1. op \in EdgeServices \cup PeerServices /\ op \notin EdgeServices /\ op # ClosePeerSession
    BY Services
  <2> QED
    BY <1>1, <1>2, <1>3, <1>4, <2>1, EnqueuedIInv
<1>5. ASSUME UNCHANGED <<phase, call, pool>>
      PROVE  IInv'
  <2>1. Types'
    BY <1>1, <1>3, <1>5 DEF IInv, Types
  <2>2. LastCalls' /\ PoolHolds' /\ NodesHold' /\ RepliesFit' /\ RequestsOnce' /\ ClosedIsGone'
    BY <1>1, <1>5
       DEF IInv, LastCalls, PoolHolds, NodesHold, RepliesFit, RequestsOnce, ClosedIsGone
  <2>3. SocketsWait' /\ NoOrphanSession'
    BY <1>1, <1>3, <1>5 DEF IInv, SocketsWait, NoOrphanSession
  <2>4. ThreadsBusy'
    BY <1>5 DEF IInv, ThreadsBusy, Busy
  <2> QED
    BY <2>1, <2>2, <2>3, <2>4 DEF IInv
<1> QED
  BY <1>4, <1>5 DEF Message

\* The browser leaves: nothing was opened, or the closing call is on its way.
LEMMA DisconnectIInv ==
  ASSUME IInv, NEW s \in Sockets, Disconnect(s)
  PROVE  IInv'
<1>1. /\ phase[s] = "reading"
      /\ UNCHANGED <<atNode, replies, answer, active, sessions, executed, opener, failed>>
  BY DEF Disconnect
<1>2. s \in Tasks /\ s \notin Requests /\ active[s] \in Peers \cup {NoPeer}
  BY TasksAssumption DEF IInv, Types, Tasks
<1>3. CASE active[s] # NoPeer
  <2>1. Enqueue(s, Call(s, ClosePeerSession, active[s])) /\ active[s] \in Peers
    BY <1>2, <1>3 DEF Disconnect
  <2>2. ClosePeerSession \in EdgeServices \cup PeerServices /\ ClosePeerSession \notin EdgeServices
    BY Services
  <2>3. active' \in [Sockets -> Peers \cup {NoPeer}]
    BY <1>1 DEF IInv, Types
  <2> QED
    BY <1>1, <1>2, <2>1, <2>2, <2>3, EnqueuedIInv
<1>4. CASE active[s] = NoPeer
  <2>1. phase' = [phase EXCEPT ![s] = "over"] /\ UNCHANGED <<call, pool>>
    BY <1>4 DEF Disconnect
  <2>2. s \notin failed /\ \A d \in atNode : d.task # s
    BY <1>1 DEF IInv, SocketsWait
  <2>3. Types' /\ LastCalls' /\ ClosedIsGone'
    BY <1>1, <2>1 DEF IInv, Types, Phases, LastCalls, ClosedIsGone
  <2>4. PoolHolds'
    BY <1>1, <2>1, RecordFields DEF IInv, Types, PoolHolds
  <2>5. NodesHold' /\ RepliesFit'
    BY <1>1, <2>1, RecordFields DEF IInv, Types, NodesHold, RepliesFit
  <2>6. RequestsOnce'
    <3>1. \A r \in Requests : phase'[r] = phase[r]
      BY <1>2, <2>1 DEF IInv, Types, Tasks
    <3>2. \A r \in executed : phase'[r] = phase[r]
      BY <3>1 DEF IInv, Types
    <3> QED
      BY <1>1, <2>1, <3>1, <3>2 DEF IInv, RequestsOnce
  <2>7. SocketsWait'
    BY <1>1, <2>1, <2>2 DEF IInv, Types, SocketsWait, Tasks
  <2>8. NoOrphanSession'
    BY <1>1, <1>4, <2>1, TasksAssumption DEF IInv, Types, NoOrphanSession, Tasks
  <2>9. ThreadsBusy'
    <3>1. Busy' \subseteq Busy
      BY <2>1 DEF IInv, Types, Busy
    <3> QED
      BY <3>1, NoMoreBusy DEF IInv
  <2> QED
    BY <2>3, <2>4, <2>5, <2>6, <2>7, <2>8, <2>9 DEF IInv
<1> QED
  BY <1>3, <1>4

LEMMA NextIInv == IInv /\ [Next]_vars => IInv'
<1> SUFFICES ASSUME IInv, [Next]_vars PROVE IInv'
  OBVIOUS
<1>1. ASSUME NEW r \in Requests, EdgeRequest(r) PROVE IInv'
  <2>1. PICK op \in Endpoints \cap EdgeServices : Receive(r, op, NoPeer)
    BY <1>1 DEF EdgeRequest
  <2>2. op \in EdgeServices \cup PeerServices /\ op \notin PeerServices
    BY Services
  <2> QED
    BY <2>1, <2>2, ReceiveIInv
<1>2. ASSUME NEW r \in Requests, PeerRequest(r) PROVE IInv'
  BY <1>2, ReceiveIInv DEF PeerRequest
<1>3. CASE StartCall
  BY <1>3, StartCallIInv
<1>4. ASSUME NEW c \in atNode, EdgeServes(c) PROVE IInv'
  BY <1>4, EdgeServesIInv
<1>5. ASSUME NEW c \in atNode, PeerServes(c) PROVE IInv'
  BY <1>5, PeerServesIInv
<1>6. ASSUME NEW t \in Tasks, Returned(t) PROVE IInv'
  BY <1>6, ReturnedIInv
<1>7. ASSUME NEW t \in Tasks, TimesOut(t) PROVE IInv'
  BY <1>7, RaisedIInv DEF TimesOut, EndsCall
<1>8. ASSUME NEW s \in Sockets, Open(s) PROVE IInv'
  BY <1>8, OpenIInv
<1>9. ASSUME NEW s \in Sockets, UnreadableMessage(s) PROVE IInv'
  <2>1. s \in Tasks /\ phase[s] = "reading" /\ Raise(s)
        /\ UNCHANGED <<call, pool, atNode, replies, sessions, executed, opener>>
    BY <1>9 DEF UnreadableMessage, Tasks
  <2>2. \A a \in replies : a.call # call[s]
    <3> SUFFICES ASSUME NEW a \in replies, a.call = call[s] PROVE FALSE
      OBVIOUS
    <3>1. a.call \in CallRecords
      BY DEF IInv, Types
    <3>2. a.call.task = s
      BY <2>1, <3>1, NoCallIsNone DEF IInv, LastCalls
    <3> QED
      BY <2>1, <3>2 DEF IInv, RepliesFit
  <2> QED
    BY <2>1, <2>2, RaisedIInv
<1>10. ASSUME NEW s \in Sockets, NEW p \in Peers, Message(s, p) PROVE IInv'
  BY <1>10, MessageIInv
<1>11. ASSUME NEW s \in Sockets, Disconnect(s) PROVE IInv'
  BY <1>11, DisconnectIInv
<1>12. CASE UNCHANGED vars
  BY <1>12 DEF vars, IInv, Types, LastCalls, PoolHolds, NodesHold, RepliesFit, RequestsOnce,
               SocketsWait, ClosedIsGone, NoOrphanSession, ThreadsBusy, Busy
<1> QED
  BY <1>1, <1>2, <1>3, <1>4, <1>5, <1>6, <1>7, <1>8, <1>9, <1>10, <1>11, <1>12 DEF Next

--------------------------------------------------------------------------------
(* The theorems.                                                           *)

\* The invariant of the gateway: where the calls of every request and socket can be.
THEOREM GatewayInvariant == Spec => []IInv
BY InitIInv, NextIInv, PTL DEF Spec

\* Every queued task has its last call in the pool and no other task has, and the pool
\* runs no more calls than it has threads.
THEOREM GatewayTypeOK == Spec => []TypeOK
<1>1. IInv => TypeOK
  <2> SUFFICES ASSUME IInv PROVE TypeOK
    OBVIOUS
  <2>1. \A t \in Tasks : phase[t] = "queued" <=> \E i \in DOMAIN pool : pool[i].task = t
    BY DEF IInv, PoolHolds
  <2> QED
    BY <2>1 DEF IInv, Types, Phases, LastCalls, PoolHolds, ThreadsBusy, TypeOK
<1> QED
  BY <1>1, GatewayInvariant, PTL

\* A session outlives the socket that opened it only if the socket went on to speak for
\* another peer, or one of its calls failed.
THEOREM NoSessionLeft == Spec => []NoOrphanSession
<1>1. IInv => NoOrphanSession
  BY DEF IInv
<1> QED
  BY <1>1, GatewayInvariant, PTL

--------------------------------------------------------------------------------
(* The gateway implements OperatorCalls: its safety part, step by step.    *)

LEMMA InitCalls == Init => Calls!Init
BY NoCallIsNone, Services DEF Init, Calls!Init, Verdict, Tasks

\* A verdict changes only with the handler of its request.
LEMMA VerdictStays ==
  ASSUME NEW r \in Requests, phase'[r] = phase[r], call'[r] = call[r], answer'[r] = answer[r]
  PROVE  Verdict(r)' = Verdict(r)
BY DEF Verdict

\* What a step that leaves every command and every verdict alone is to the operator.
LEMMA NothingDecided ==
  ASSUME UNCHANGED executed, \A r \in Requests : Verdict(r)' = Verdict(r)
  PROVE  UNCHANGED Calls!callVars
BY DEF Calls!callVars

LEMMA OneDecided ==
  ASSUME UNCHANGED executed, NEW r \in Requests, NEW v, Verdict(r)' = v,
         \A q \in Requests : q # r => Verdict(q)' = Verdict(q)
  PROVE  Calls!Decide(r, v)
<1> DEFINE before == [q \in Requests |-> Verdict(q)]
<1>1. before' = [before EXCEPT ![r] = v]
  OBVIOUS
<1> QED
  BY <1>1 DEF Calls!Decide

\* The steps of sockets, and of requests to the WebRTC node, are nothing to the operator
\* of the edge.
LEMMA SocketStep ==
  ASSUME IInv, NEW s \in Sockets, NEW v, phase' = [phase EXCEPT ![s] = v],
         \A t \in Tasks : t # s => call'[t] = call[t], UNCHANGED <<answer, executed>>
  PROVE  UNCHANGED Calls!callVars
<1>1. \A r \in Requests : r \in Tasks /\ r # s
  BY TasksAssumption DEF Tasks
<1>2. \A r \in Requests : Verdict(r)' = Verdict(r)
  BY <1>1, VerdictStays DEF IInv, Types
<1> QED
  BY <1>2, NothingDecided

\* A request is turned down, or its command is submitted; a request to the WebRTC node
\* that is turned down counts as a command that never happens.
LEMMA ReceiveCalls ==
  ASSUME IInv, NEW r \in Requests, NEW op \in EdgeServices \cup PeerServices,
         NEW p \in Peers \cup {NoPeer}, op \in PeerServices => p \in Peers,
         Receive(r, op, p)
  PROVE  Calls!Submit(r) \/ UNCHANGED Calls!callVars
<1>1. r \in Tasks /\ phase[r] = "new" /\ UNCHANGED executed
  BY DEF Receive, Tasks
<1>2. Verdict(r) = "none"
  BY <1>1 DEF Verdict
<1>3. CASE Enqueue(r, Call(r, op, p))
  <2>1. Call(r, op, p).op = op
    BY <1>1, NextCall DEF IInv
  <2>2. UNCHANGED answer
    BY <1>1, <1>3 DEF Receive, Enqueue, IInv, Types
  <2>3. \A q \in Requests : q # r => Verdict(q)' = Verdict(q)
    BY <1>3, <2>2, VerdictStays DEF IInv, Types, Enqueue, Tasks
  <2>4. phase'[r] = "queued" /\ call'[r].op = op
    BY <1>1, <1>3, <2>1 DEF IInv, Types, Enqueue
  <2>5. CASE op \in PeerServices
    <3>1. Verdict(r)' = "none"
      BY <2>4, <2>5 DEF Verdict
    <3> QED
      BY <1>1, <1>2, <2>3, <3>1, NothingDecided
  <2>6. CASE op \notin PeerServices
    <3>1. Verdict(r)' = "open"
      BY <2>4, <2>6 DEF Verdict
    <3>2. Calls!Decide(r, "open")
      BY <1>1, <2>3, <3>1, OneDecided
    <3> QED
      BY <1>2, <3>2 DEF Calls!Submit
  <2> QED
    BY <2>5, <2>6
<1>4. CASE ~Enqueue(r, Call(r, op, p))
  <2>1. /\ \E h \in Headers : \E a \in Rejections(h, op) : answer' = [answer EXCEPT ![r] = a]
        /\ phase' = [phase EXCEPT ![r] = "over"] /\ UNCHANGED <<call, executed>>
    BY <1>4 DEF Receive
  <2>2. PICK a \in Nat \ {200, 504} : answer' = [answer EXCEPT ![r] = a]
    <3>1. PICK h \in Headers : \E a \in Rejections(h, op) : answer' = [answer EXCEPT ![r] = a]
      BY <2>1
    <3>2. \A a \in Rejections(h, op) : a \in Nat \ {200, 504}
      BY DEF Rejections
    <3> QED
      BY <3>1, <3>2
  <2>3. \A q \in Requests : q # r => Verdict(q)' = Verdict(q)
    BY <2>1, <2>2, VerdictStays DEF IInv, Types, Tasks
  <2>4. call[r].op \notin PeerServices
    BY <1>1, NoCallIsNone, Services DEF IInv, LastCalls
  <2>5. phase'[r] = "over" /\ call'[r] = call[r] /\ answer'[r] \notin {200, 504}
    BY <1>1, <2>1, <2>2 DEF IInv, Types
  <2>6. Verdict(r)' = "refused"
    BY <2>4, <2>5 DEF Verdict
  <2>7. Calls!Decide(r, "refused")
    BY <1>1, <2>3, <2>6, OneDecided
  <2> QED
    BY <1>2, <2>7 DEF Calls!Submit
<1> QED
  BY <1>3, <1>4

\* A command happens while the operator waits for it, or was told that nobody knows.
LEMMA EdgeServesCalls ==
  ASSUME IInv, NEW c \in atNode, EdgeServes(c)
  PROVE  (\E r \in Requests : Calls!Happen(r)) \/ UNCHANGED Calls!callVars
<1>1. PICK ok \in BOOLEAN :
        Respond(c, ok) /\ executed' = IF ok THEN executed \cup {c.task} ELSE executed
  BY DEF EdgeServes
<1>2. UNCHANGED <<phase, call, answer>>
  BY <1>1 DEF Respond
<1>3. c.task \in Requests /\ c.op \in EdgeServices /\ c.op \notin PeerServices
      /\ c = call[c.task] /\ phase[c.task] \in {"calling", "over"} /\ c.task \notin executed
      /\ (phase[c.task] = "over" => answer[c.task] = 504)
  BY RecordFields, RequestAtNode, Services DEF IInv, Types, EdgeServes, RequestsOnce
<1>4. \A r \in Requests : Verdict(r)' = Verdict(r)
  BY <1>2, VerdictStays
<1>5. CASE ~ok
  BY <1>1, <1>4, <1>5, NothingDecided
<1>6. CASE ok
  <2>1. Verdict(c.task) \in {"open", "unknown"}
    BY <1>3 DEF Verdict
  <2>2. Calls!Happen(c.task)
    BY <1>1, <1>3, <1>4, <1>6, <2>1 DEF Calls!Happen
  <2> QED
    BY <1>3, <2>2
<1> QED
  BY <1>5, <1>6

\* The operator is told what happened, or, when the wait has ended first, that nobody
\* knows.
LEMMA EndsCalls ==
  ASSUME IInv, NEW t \in Tasks, Ends(t)
  PROVE  (\E r \in Requests : Calls!Answer(r)) \/ UNCHANGED Calls!callVars
<1>1. phase[t] = "calling" /\ UNCHANGED <<call, executed>>
  BY DEF Ends, Returned, TimesOut, EndsCall
<1>2. CASE t \in Sockets
  <2>1. t \notin Requests
    BY <1>2, TasksAssumption
  <2>2. answer' = answer /\ phase' = [phase EXCEPT ![t] = phase'[t]]
    BY <1>1, <2>1 DEF Ends, Returned, TimesOut, Raise, IInv, Types
  <2> QED
    BY <1>1, <1>2, <2>2, SocketStep
<1>3. CASE t \in Requests
  <2>1. /\ phase' = [phase EXCEPT ![t] = "over"]
        /\ \E a \in Nat : answer' = [answer EXCEPT ![t] = a]
    <3>1. CASE Returned(t)
      <4>1. PICK a \in replies :
              /\ a.call = call[t] /\ phase' = [phase EXCEPT ![t] = "over"]
              /\ answer' = [answer EXCEPT ![t] = IF a.ok THEN 200 ELSE a.call.op.refused]
        BY <1>3, <3>1 DEF Returned
      <4>2. a.call.op.refused \in Nat
        BY Services, RecordFields DEF IInv, Types
      <4> QED
        BY <4>1, <4>2
    <3>2. CASE TimesOut(t)
      <4>1. answer' = [answer EXCEPT ![t] = 504] /\ 504 \in Nat
        BY <1>3, <3>2 DEF TimesOut, Raise
      <4> QED
        BY <3>2, <4>1 DEF TimesOut, Raise
    <3> QED
      BY <3>1, <3>2 DEF Ends
  <2>2. \A q \in Requests : q # t => Verdict(q)' = Verdict(q)
    BY <1>1, <2>1, VerdictStays DEF IInv, Types, Tasks
  <2>3. CASE call[t].op \in PeerServices
    <3>1. Verdict(t) = "none" /\ Verdict(t)' = "none"
      BY <1>1, <2>3 DEF Verdict
    <3> QED
      BY <1>1, <2>2, <3>1, NothingDecided
  <2>4. CASE call[t].op \notin PeerServices
    <3>1. Verdict(t) = "open" /\ phase'[t] = "over"
      BY <1>1, <2>1, <2>4 DEF Verdict, IInv, Types
    <3>2. CASE TimesOut(t)
      <4>1. answer'[t] = 504
        BY <1>3, <3>2 DEF TimesOut, Raise, IInv, Types
      <4>2. Verdict(t)' = "unknown"
        BY <1>1, <2>4, <3>1, <4>1 DEF Verdict
      <4>3. Calls!Decide(t, "unknown")
        BY <1>1, <1>3, <2>2, <4>2, OneDecided
      <4> QED
        BY <1>3, <3>1, <4>3 DEF Calls!Answer
    <3>3. CASE Returned(t)
      <4>1. PICK a \in replies :
              /\ a.call = call[t]
              /\ answer' = [answer EXCEPT ![t] = IF a.ok THEN 200 ELSE a.call.op.refused]
        BY <1>3, <3>3 DEF Returned
      <4>2. a.call \in CallRecords /\ a.call.op \in EdgeServices /\ a.call.task = t
        <5>1. a.call \in CallRecords
          BY DEF IInv, Types
        <5> QED
          BY <1>1, <2>4, <4>1, <5>1, RecordFields DEF IInv, LastCalls
      <4>3. a.ok <=> t \in executed
        BY <4>2 DEF IInv, RequestsOnce
      <4>4. answer'[t] = IF t \in executed THEN 200 ELSE a.call.op.refused
        BY <1>3, <4>1, <4>3 DEF IInv, Types
      <4>5. a.call.op.refused \notin {200, 504}
        BY <4>2, Services
      <4>6. Verdict(t)' = IF t \in executed THEN "done" ELSE "refused"
        BY <1>1, <2>4, <3>1, <4>4, <4>5 DEF Verdict
      <4>7. Calls!Decide(t, IF t \in executed THEN "done" ELSE "refused")
        BY <1>1, <1>3, <2>2, <4>6, OneDecided
      <4> QED
        BY <1>3, <3>1, <4>7 DEF Calls!Answer
    <3> QED
      BY <3>2, <3>3 DEF Ends
  <2> QED
    BY <2>3, <2>4
<1> QED
  BY <1>2, <1>3 DEF Tasks

LEMMA StepCalls == IInv /\ [Next]_vars => [Calls!Next]_(Calls!callVars)
<1> SUFFICES ASSUME IInv, [Next]_vars PROVE [Calls!Next]_(Calls!callVars)
  OBVIOUS
<1>1. ASSUME NEW r \in Requests, EdgeRequest(r)
      PROVE  Calls!Submit(r) \/ UNCHANGED Calls!callVars
  <2>1. PICK op \in Endpoints \cap EdgeServices : Receive(r, op, NoPeer)
    BY <1>1 DEF EdgeRequest
  <2>2. op \in EdgeServices \cup PeerServices /\ op \notin PeerServices
    BY Services
  <2> QED
    BY <2>1, <2>2, ReceiveCalls
<1>2. ASSUME NEW r \in Requests, PeerRequest(r)
      PROVE  Calls!Submit(r) \/ UNCHANGED Calls!callVars
  BY <1>2, ReceiveCalls DEF PeerRequest
<1>3. ASSUME StartCall PROVE UNCHANGED Calls!callVars
  <2>1. PICK u \in Tasks : /\ phase[u] = "queued" /\ phase' = [phase EXCEPT ![u] = "calling"]
                           /\ UNCHANGED <<call, answer, executed>>
    <3>1. 1 \in DOMAIN pool /\ Head(pool) = pool[1] /\ pool[1] \in CallRecords
      BY <1>3 DEF StartCall, IInv, Types
    <3>2. pool[1].task \in Tasks /\ phase[pool[1].task] = "queued"
      BY <3>1, RecordFields DEF IInv, PoolHolds
    <3> QED
      BY <1>3, <3>1, <3>2 DEF StartCall
  <2>2. \A r \in Requests : Verdict(r)' = Verdict(r)
    BY <2>1 DEF Verdict, IInv, Types, Tasks
  <2> QED
    BY <2>1, <2>2, NothingDecided
<1>4. ASSUME NEW c \in atNode, EdgeServes(c)
      PROVE  (\E r \in Requests : Calls!Happen(r)) \/ UNCHANGED Calls!callVars
  BY <1>4, EdgeServesCalls
<1>5. ASSUME NEW c \in atNode, PeerServes(c) PROVE UNCHANGED Calls!callVars
  <2>1. UNCHANGED <<phase, call, answer, executed>>
    BY <1>5 DEF PeerServes, Respond
  <2> QED
    BY <2>1, VerdictStays, NothingDecided
<1>6. ASSUME NEW t \in Tasks, Ends(t)
      PROVE  (\E r \in Requests : Calls!Answer(r)) \/ UNCHANGED Calls!callVars
  BY <1>6, EndsCalls
<1>7. ASSUME NEW s \in Sockets, Open(s) PROVE UNCHANGED Calls!callVars
  BY <1>7, SocketStep DEF Open
<1>8. ASSUME NEW s \in Sockets, UnreadableMessage(s) PROVE UNCHANGED Calls!callVars
  <2>1. s \notin Requests
    BY TasksAssumption
  <2> QED
    BY <1>8, <2>1, SocketStep DEF UnreadableMessage, Raise
<1>9. ASSUME NEW s \in Sockets, NEW p \in Peers, Message(s, p)
      PROVE  UNCHANGED Calls!callVars
  <2>1. phase' = [phase EXCEPT ![s] = phase'[s]] /\ UNCHANGED <<answer, executed>>
    BY <1>9 DEF Message, Enqueue, IInv, Types
  <2>2. \A t \in Tasks : t # s => call'[t] = call[t]
    BY <1>9 DEF Message, Enqueue, IInv, Types
  <2> QED
    BY <2>1, <2>2, SocketStep
<1>10. ASSUME NEW s \in Sockets, Disconnect(s) PROVE UNCHANGED Calls!callVars
  <2>1. phase' = [phase EXCEPT ![s] = phase'[s]] /\ UNCHANGED <<answer, executed>>
    BY <1>10 DEF Disconnect, Enqueue, IInv, Types
  <2>2. \A t \in Tasks : t # s => call'[t] = call[t]
    BY <1>10 DEF Disconnect, Enqueue, IInv, Types
  <2> QED
    BY <2>1, <2>2, SocketStep
<1>11. ASSUME UNCHANGED vars PROVE UNCHANGED Calls!callVars
  BY <1>11, VerdictStays, NothingDecided DEF vars
<1>12. Calls!Next \/ UNCHANGED Calls!callVars
  BY <1>1, <1>2, <1>3, <1>4, <1>5, <1>6, <1>7, <1>8, <1>9, <1>10, <1>11
     DEF Next, Ends, Calls!Next
<1> QED
  BY <1>12

\* Every answer to an edge command says what OperatorCalls lets it say: 200 was carried
\* out, 504 may be or come to be, every other was not and never will be, and no command
\* is carried out twice (that each is answered, its fairness, stays with the model checker).
THEOREM AnswersSafety == Spec => Calls!Init /\ [][Calls!Next]_(Calls!callVars)
BY InitCalls, StepCalls, GatewayInvariant, PTL DEF Spec

--------------------------------------------------------------------------------
(* What that means for the operator.                                       *)

\* "Done" has happened; a command never made, or refused, has not.
AnswersMeanIt == \A r \in Requests :
  /\ Verdict(r) = "done" => r \in executed
  /\ Verdict(r) \in {"none", "refused"} => r \notin executed

LEMMA InitMeanIt == Init => AnswersMeanIt
BY NoCallIsNone, Services DEF Init, AnswersMeanIt, Verdict, Tasks

LEMMA StepMeansIt == AnswersMeanIt /\ [Calls!Next]_(Calls!callVars) => AnswersMeanIt'
<1> DEFINE verdict == [r \in Requests |-> Verdict(r)]
<1> SUFFICES ASSUME AnswersMeanIt, [Calls!Next]_(Calls!callVars) PROVE AnswersMeanIt'
  OBVIOUS
<1>1. \A r \in Requests : verdict[r] = Verdict(r) /\ verdict'[r] = Verdict(r)'
  OBVIOUS
<1>2. ASSUME NEW c \in Requests, NEW v, Calls!Decide(c, v),
             v = "done" => c \in executed, v \in {"none", "refused"} => c \notin executed
      PROVE  AnswersMeanIt'
  <2>1. verdict' = [verdict EXCEPT ![c] = v] /\ executed' = executed
    BY <1>2 DEF Calls!Decide
  <2>2. \A r \in Requests : Verdict(r)' = IF r = c THEN v ELSE Verdict(r)
    BY <2>1
  <2> QED
    BY <1>2, <2>1, <2>2 DEF AnswersMeanIt
<1>3. ASSUME NEW c \in Requests, Calls!Submit(c) PROVE AnswersMeanIt'
  <2>1. PICK v \in {"open", "refused"} : Calls!Decide(c, v)
    BY <1>3 DEF Calls!Submit
  <2>2. Verdict(c) = "none"
    BY <1>3 DEF Calls!Submit
  <2> QED
    BY <1>2, <2>1, <2>2 DEF AnswersMeanIt
<1>4. ASSUME NEW c \in Requests, Calls!Happen(c) PROVE AnswersMeanIt'
  <2>1. /\ Verdict(c) \in {"open", "unknown"} /\ executed' = executed \cup {c}
        /\ \A r \in Requests : Verdict(r)' = Verdict(r)
    <3>1. verdict' = verdict /\ verdict[c] \in {"open", "unknown"} /\ executed' = executed \cup {c}
      BY <1>4 DEF Calls!Happen
    <3> QED
      BY <1>1, <3>1
  <2> QED
    BY <2>1 DEF AnswersMeanIt
<1>5. ASSUME NEW c \in Requests, Calls!Answer(c) PROVE AnswersMeanIt'
  <2>1. CASE Calls!Decide(c, "unknown")
    BY <1>2, <2>1
  <2>2. CASE Calls!Decide(c, IF c \in executed THEN "done" ELSE "refused")
    BY <1>2, <2>2
  <2> QED
    BY <1>5, <2>1, <2>2 DEF Calls!Answer
<1>6. ASSUME UNCHANGED Calls!callVars PROVE AnswersMeanIt'
  <2>1. verdict' = verdict /\ executed' = executed
    BY <1>6 DEF Calls!callVars
  <2>2. \A r \in Requests : Verdict(r)' = Verdict(r)
    BY <1>1, <2>1
  <2> QED
    BY <2>1, <2>2 DEF AnswersMeanIt
<1> QED
  BY <1>3, <1>4, <1>5, <1>6 DEF Calls!Next

\* An edge command answered with 200 has been carried out; one that was never made, or was
\* answered with anything but 200 and 504, has not.
THEOREM AnswersAreMeant == Spec => []AnswersMeanIt
BY InitMeanIt, StepMeansIt, AnswersSafety, PTL DEF Spec

\* No step goes back on an answer, and 504 stays 504 whatever the node does later.
AnswersStay == \A r \in Requests :
  Verdict(r) \in {"done", "refused", "unknown"} => Verdict(r)' = Verdict(r)

LEMMA StepStays == [Calls!Next]_(Calls!callVars) => AnswersStay
<1> DEFINE verdict == [r \in Requests |-> Verdict(r)]
<1> SUFFICES ASSUME [Calls!Next]_(Calls!callVars) PROVE AnswersStay
  OBVIOUS
<1>1. \A r \in Requests : verdict[r] = Verdict(r) /\ verdict'[r] = Verdict(r)'
  OBVIOUS
<1>2. ASSUME NEW c \in Requests, NEW v, Calls!Decide(c, v), Verdict(c) \in {"none", "open"}
      PROVE  AnswersStay
  <2>1. verdict' = [verdict EXCEPT ![c] = v]
    BY <1>2 DEF Calls!Decide
  <2>2. \A r \in Requests : r # c => Verdict(r)' = Verdict(r)
    BY <2>1
  <2> QED
    BY <1>2, <2>2 DEF AnswersStay
<1>3. ASSUME verdict' = verdict PROVE AnswersStay
  BY <1>1, <1>3 DEF AnswersStay
<1>4. ASSUME NEW c \in Requests, Calls!Submit(c) PROVE AnswersStay
  <2>1. verdict[c] = "none" /\ \E v \in {"open", "refused"} : Calls!Decide(c, v)
    BY <1>4 DEF Calls!Submit
  <2> QED
    BY <1>1, <1>2, <2>1
<1>5. ASSUME NEW c \in Requests, Calls!Happen(c) PROVE AnswersStay
  BY <1>3, <1>5 DEF Calls!Happen
<1>6. ASSUME NEW c \in Requests, Calls!Answer(c) PROVE AnswersStay
  <2>1. verdict[c] = "open" /\ \E v \in {"unknown", "done", "refused"} : Calls!Decide(c, v)
    BY <1>6 DEF Calls!Answer
  <2> QED
    BY <1>1, <1>2, <2>1
<1>7. ASSUME UNCHANGED Calls!callVars PROVE AnswersStay
  BY <1>3, <1>7 DEF Calls!callVars
<1> QED
  BY <1>4, <1>5, <1>6, <1>7 DEF Calls!Next

\* No step of the gateway goes back on an answer.
THEOREM AnswersAreFinal == Spec => [][AnswersStay]_vars
BY StepStays, StepCalls, GatewayInvariant, PTL DEF Spec

================================================================================
