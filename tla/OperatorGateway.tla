--------------------------- MODULE OperatorGateway ---------------------------
(***************************************************************************)
(* The FastAPI gateway between the operator's browser and the ROS nodes:   *)
(* the edge and WebRTC routers, the two service clients behind them, and   *)
(* what they share - authentication, the exception handlers, and the       *)
(* worker threads of asyncio.to_thread.                                    *)
(*                                                                         *)
(* A handler hands its service call to a worker thread and awaits it.  The *)
(* thread sends the request to the node and blocks until the response is   *)
(* there or the timeout has passed; the request it has given up on stays   *)
(* with the node.  The nodes are not in this repository: a node serves     *)
(* what it received in any order, accepts or refuses it, or never answers. *)
(*                                                                         *)
(* A task is an HTTP request, which makes one call, or a signalling socket,*)
(* which makes one call at a time until the browser leaves.                *)
(***************************************************************************)
EXTENDS Naturals, Sequences, FiniteSets

CONSTANTS
  Requests,    \* HTTP requests
  Sockets,     \* signalling sockets
  Peers,       \* WebRTC peers
  NoPeer,      \* active_peer_id is None
  Workers,     \* threads of the pool
  Endpoints,   \* the services the HTTP requests ask for
  MaxMessages  \* bound: messages of one socket that make a call

Tasks == Requests \cup Sockets

ASSUME TasksAssumption == Requests \cap Sockets = {} /\ NoPeer \notin Peers
ASSUME WorkersAssumption == Workers \in Nat \ {0} /\ MaxMessages \in Nat

VARIABLES
  phase,     \* where the handler of each task is
  call,      \* the last service call of each task
  pool,      \* calls waiting for a worker thread, oldest first
  atNode,    \* calls the nodes have received and not served yet
  replies,   \* responses that have come back
  answer,    \* the HTTP answer to each request
  active,    \* active_peer_id of each socket
  sessions,  \* peers with a session at the WebRTC node
  executed,  \* history: HTTP requests whose command the edge carried out
  opener,    \* history: the task whose offer last opened a peer's session
  failed     \* history: sockets whose handler raised (by a call or a message that could not
             \* be read), or whose close was refused

vars == <<phase, call, pool, atNode, replies, answer, active, sessions,
          executed, opener, failed>>

-----------------------------------------------------------------------------
(* The services, with the status a refused response is turned into.        *)

TriggerEstop    == [svc |-> "trigger_manual_estop", refused |-> 503]
ResetInterlock  == [svc |-> "reset_interlock", refused |-> 409]
ResumeRecovery  == [svc |-> "resume_recovery", refused |-> 422]
GetTelemetry    == [svc |-> "get_telemetry", refused |-> 502]

\* The signalling client turns a refusal into FALSE (and an empty SDP answer),
\* which the REST handlers still answer with 200.
HandleSdpOffer     == [svc |-> "handle_sdp_offer", refused |-> 200]
HandleIceCandidate == [svc |-> "handle_ice_candidate", refused |-> 200]
ClosePeerSession   == [svc |-> "close_peer_session", refused |-> 200]

EdgeServices == {TriggerEstop, ResetInterlock, ResumeRecovery, GetTelemetry}
PeerServices == {HandleSdpOffer, HandleIceCandidate, ClosePeerSession}

\* The services whose HTTP request has a body for a schema to check.
Bodies == {TriggerEstop, ResetInterlock, ResumeRecovery, HandleSdpOffer, HandleIceCandidate}

NoCall == [task |-> NoPeer, nr |-> 0, op |-> GetTelemetry, peer |-> NoPeer]
Call(t, op, p) == [task |-> t, nr |-> call[t].nr + 1, op |-> op, peer |-> p]

-----------------------------------------------------------------------------
(* HTTP: the interceptor, body validation, and how an outcome is answered. *)

\* What JwtAuthInterceptor looks at.
Headers == [bearer : BOOLEAN, signed : BOOLEAN, claims : BOOLEAN, role : BOOLEAN]
Authenticated(h) == h.bearer /\ h.signed /\ h.claims /\ h.role

NoAnswer == 0

\* Dependencies before the body: authentication, then the ROS clients (made anew
\* for every request), then the schema.  A handler turns each into an answer.
Rejections(h, op) ==
  IF ~Authenticated(h) THEN {401}
  ELSE {500} \cup (IF op \in Bodies THEN {400} ELSE {})

Enqueue(t, c) ==
  /\ call' = [call EXCEPT ![t] = c]
  /\ pool' = Append(pool, c)
  /\ phase' = [phase EXCEPT ![t] = "queued"]

Receive(r, op, p) ==
  /\ phase[r] = "new"
  /\ \/ /\ \E h \in Headers : \E a \in Rejections(h, op) :
             answer' = [answer EXCEPT ![r] = a]
        /\ phase' = [phase EXCEPT ![r] = "over"]
        /\ UNCHANGED <<call, pool>>
     \/ /\ \E h \in Headers : Authenticated(h)
        /\ Enqueue(r, Call(r, op, p))
        /\ UNCHANGED answer
  /\ UNCHANGED <<atNode, replies, active, sessions, executed, opener, failed>>

EdgeRequest(r) == \E op \in Endpoints \cap EdgeServices : Receive(r, op, NoPeer)
PeerRequest(r) == \E op \in Endpoints \cap PeerServices, p \in Peers : Receive(r, op, p)

-----------------------------------------------------------------------------
(* The worker threads and the nodes.                                       *)

Busy == {t \in Tasks : phase[t] = "calling"}

\* Mutant: a thread for every call.
StartCall_NoLimit ==
  /\ pool # <<>>
  /\ LET c == Head(pool) IN
     /\ phase' = [phase EXCEPT ![c.task] = "calling"]
     /\ atNode' = atNode \cup {c}
  /\ pool' = Tail(pool)
  /\ UNCHANGED <<call, replies, answer, active, sessions, executed, opener, failed>>

\* A thread takes the oldest call and sends the request.
StartCall ==
  /\ pool # <<>>
  /\ Cardinality(Busy) < Workers
  /\ LET c == Head(pool) IN
     /\ phase' = [phase EXCEPT ![c.task] = "calling"]
     /\ atNode' = atNode \cup {c}
  /\ pool' = Tail(pool)
  /\ UNCHANGED <<call, replies, answer, active, sessions, executed, opener, failed>>

\* The node is done with c.  Nobody looks at a response that comes too late.
Respond(c, ok) ==
  /\ atNode' = atNode \ {c}
  /\ replies' = IF phase[c.task] = "calling" /\ call[c.task] = c
                  THEN replies \cup {[call |-> c, ok |-> ok]} ELSE replies
  /\ UNCHANGED <<phase, call, pool, answer, active>>

\* The edge node carries the command out, or refuses it.
EdgeServes(c) ==
  /\ c.op \in EdgeServices
  /\ \E ok \in BOOLEAN :
       /\ Respond(c, ok)
       /\ executed' = IF ok THEN executed \cup {c.task} ELSE executed
  /\ UNCHANGED <<sessions, opener, failed>>

\* The WebRTC node opens, keeps or closes the session of a peer.
PeerServes(c) ==
  /\ c.op \in PeerServices
  /\ \E ok \in BOOLEAN :
       /\ Respond(c, ok)
       /\ sessions' = CASE ok /\ c.op = HandleSdpOffer -> sessions \cup {c.peer}
                        [] ok /\ c.op = ClosePeerSession -> sessions \ {c.peer}
                        [] OTHER -> sessions
       /\ opener' = IF ok /\ c.op = HandleSdpOffer
                      THEN [opener EXCEPT ![c.peer] = c.task] ELSE opener
  /\ UNCHANGED <<executed, failed>>

-----------------------------------------------------------------------------
(* The awaited call ends and the handler goes on.                          *)

EndsCall(t) == phase[t] = "calling" /\ UNCHANGED <<call, pool, atNode, sessions, executed, opener>>

\* An HTTP handler answers; a socket reads on, unless it was closing the session
\* of a browser that has left.
Returned(t) ==
  /\ EndsCall(t)
  /\ \E a \in replies :
       /\ a.call = call[t]
       /\ replies' = replies \ {a}
       /\ IF t \in Requests
            THEN /\ answer' = [answer EXCEPT ![t] =
                      IF a.ok THEN 200 ELSE a.call.op.refused]
                 /\ phase' = [phase EXCEPT ![t] = "over"]
                 /\ UNCHANGED failed
            ELSE /\ phase' = [phase EXCEPT ![t] =
                      IF a.call.op = ClosePeerSession THEN "over" ELSE "reading"]
                 /\ failed' = IF a.call.op = ClosePeerSession /\ ~a.ok
                                THEN failed \cup {t} ELSE failed
                 /\ UNCHANGED answer
  /\ UNCHANGED active

\* Mutant: the command that timed out is reported as one that failed.
Raise_AsRefusal(t) ==
  /\ phase' = [phase EXCEPT ![t] = "over"]
  /\ answer' = IF t \in Requests
                 THEN [answer EXCEPT ![t] = call[t].op.refused] ELSE answer
  /\ failed' = IF t \in Sockets THEN failed \cup {t} ELSE failed
  /\ UNCHANGED active

\* The exception of a call: 504 to the browser, or the end of the socket's handler,
\* which only a disconnect takes through close_session.
Raise(t) ==
  /\ phase' = [phase EXCEPT ![t] = "over"]
  /\ answer' = IF t \in Requests THEN [answer EXCEPT ![t] = 504] ELSE answer
  /\ failed' = IF t \in Sockets THEN failed \cup {t} ELSE failed
  /\ UNCHANGED active

\* Mutant: the edge client waits for the response without a timeout.
TimesOut_Never(t) ==
  /\ EndsCall(t)
  /\ t \in Sockets
  /\ \A a \in replies : a.call # call[t]
  /\ Raise(t)
  /\ UNCHANGED replies

\* event.wait returns FALSE, or the future ends with an exception: nothing has come
\* back.  The request stays with the node.
TimesOut(t) ==
  /\ EndsCall(t)
  /\ \A a \in replies : a.call # call[t]
  /\ Raise(t)
  /\ UNCHANGED replies

-----------------------------------------------------------------------------
(* The signalling socket.                                                  *)

Open(s) ==
  /\ phase[s] = "new"
  /\ phase' = [phase EXCEPT ![s] = "reading"]
  /\ UNCHANGED <<call, pool, atNode, replies, answer, active, sessions,
                 executed, opener, failed>>

\* Text that is not a JSON object: an array raises TypeError, which nobody catches.
\* (A text the schema refuses is answered and read over: no state changes.)
UnreadableMessage(s) ==
  /\ phase[s] = "reading"
  /\ Raise(s)
  /\ UNCHANGED <<call, pool, atNode, replies, sessions, executed, opener>>

\* A message that is understood names the peer from then on.  An offer with SDP
\* and a candidate with data make a call; a ping, an empty offer or candidate and
\* every other type (CLOSE among them) do not.
Message(s, p) ==
  /\ phase[s] = "reading"
  /\ active' = [active EXCEPT ![s] = p]
  /\ \/ /\ call[s].nr < MaxMessages
        /\ \E op \in {HandleSdpOffer, HandleIceCandidate} : Enqueue(s, Call(s, op, p))
     \/ UNCHANGED <<phase, call, pool>>
  /\ UNCHANGED <<atNode, replies, answer, sessions, executed, opener, failed>>

\* Mutant: the socket's handler does not look after the session it opened.
Disconnect_LeavesSession(s) ==
  /\ phase[s] = "reading"
  /\ phase' = [phase EXCEPT ![s] = "over"]
  /\ UNCHANGED <<call, pool, atNode, replies, answer, active, sessions,
                 executed, opener, failed>>

\* The browser has left, noticed when the handler reads or sends: the session of
\* the last peer it named is closed.
Disconnect(s) ==
  /\ phase[s] = "reading"
  /\ IF active[s] = NoPeer
       THEN phase' = [phase EXCEPT ![s] = "over"] /\ UNCHANGED <<call, pool>>
       ELSE Enqueue(s, Call(s, ClosePeerSession, active[s]))
  /\ UNCHANGED <<atNode, replies, answer, active, sessions, executed, opener, failed>>

-----------------------------------------------------------------------------

Init ==
  /\ phase = [t \in Tasks |-> "new"]
  /\ call = [t \in Tasks |-> NoCall]
  /\ pool = <<>>
  /\ atNode = {}
  /\ replies = {}
  /\ answer = [r \in Requests |-> NoAnswer]
  /\ active = [s \in Sockets |-> NoPeer]
  /\ sessions = {}
  /\ executed = {}
  /\ opener = [p \in Peers |-> NoPeer]
  /\ failed = {}

Ends(t) == Returned(t) \/ TimesOut(t)

Next ==
  \/ \E r \in Requests : EdgeRequest(r)
  \/ \E r \in Requests : PeerRequest(r)
  \/ StartCall
  \/ \E c \in atNode : EdgeServes(c)
  \/ \E c \in atNode : PeerServes(c)
  \/ \E t \in Tasks : Returned(t)
  \/ \E t \in Tasks : TimesOut(t)
  \/ \E s \in Sockets : Open(s)
  \/ \E s \in Sockets : UnreadableMessage(s)
  \/ \E s \in Sockets, p \in Peers : Message(s, p)
  \/ \E s \in Sockets : Disconnect(s)

\* Threads run and waits time out.  No node is obliged to answer, no browser to
\* send or to leave.
Fairness == WF_vars(StartCall) /\ \A t \in Tasks : WF_vars(Ends(t))

Spec == Init /\ [][Next]_vars /\ Fairness

-----------------------------------------------------------------------------
(* Properties.                                                             *)

TypeOK ==
  /\ phase \in [Tasks -> {"new", "reading", "queued", "calling", "over"}]
  /\ \A t \in Tasks : call[t] = NoCall \/ call[t].task \in {t, NoPeer}
  /\ \A i \in DOMAIN pool : pool[i] = call[pool[i].task]
  /\ \A t \in Tasks : phase[t] = "queued" <=> \E i \in DOMAIN pool : pool[i].task = t
  /\ Cardinality(Busy) <= Workers
  /\ executed \subseteq Requests
  /\ active \in [Sockets -> Peers \cup {NoPeer}]
  /\ sessions \subseteq Peers

\* To the operator every edge command is an OperatorCall: 200 means done, 504 means
\* nobody knows, and any other answer means not done and never to be done - with
\* the threads taken by other calls, refusals, and nodes that answer too late.
Verdict(r) ==
  IF phase[r] = "new" \/ call[r].op \in PeerServices THEN "none"
  ELSE IF phase[r] \in {"queued", "calling"} THEN "open"
  ELSE CASE answer[r] = 200 -> "done"
         [] answer[r] = 504 -> "unknown"
         [] OTHER -> "refused"

Calls == INSTANCE OperatorCalls
  WITH Commands <- Requests, verdict <- [r \in Requests |-> Verdict(r)], happened <- executed
AnswersAreTrue == Calls!Spec

\* A session outlives the socket that opened it only if the socket went on to
\* speak for another peer, one of its calls failed, or it sent what could not be read
\* (webrtc_router.py:96).
NoOrphanSession ==
  \A p \in sessions :
    opener[p] \in Sockets /\ phase[opener[p]] = "over" =>
      opener[p] \in failed \/ active[opener[p]] # p

\* Whatever the nodes do, a call that waits for a thread is made and ends, although
\* every thread may be blocked by calls to a node that is gone.
CallsEnd == \A t \in Tasks : phase[t] = "queued" ~> phase[t] \notin {"queued", "calling"}
=============================================================================
