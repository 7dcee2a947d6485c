-------------------------- MODULE RosWebSocketClient --------------------------
(***************************************************************************)
(* The dashboard's ROS bridge client (web_ui RosWebSocketClient), as the   *)
(* telemetry bridge uses it: connect, subscribe, disconnect, and the       *)
(* browser events it reacts to - a socket opens, a socket closes, a        *)
(* reconnect timer fires.  JavaScript runs each of them to completion.     *)
(*                                                                         *)
(* The client remembers one socket and one timer.  A socket it no longer   *)
(* remembers still delivers its events, and a timer it no longer remembers *)
(* still fires: those are modelled too.  Sockets are slots: a slot is free *)
(* again when the close event of its socket has been delivered.  Delays    *)
(* are left out: pending timers fire in any order.                         *)
(***************************************************************************)
EXTENDS Naturals, FiniteSets

CONSTANTS
  Sockets,      \* slots for the sockets that exist at one time
  NoSocket,     \* ws = null
  Topics,
  MaxAttempts,  \* maxReconnectAttempts
  MaxConnects,  \* bound: calls of connect
  MaxCallbacks  \* bound: callbacks registered for one topic

ASSUME ClientAssumption ==
  /\ IsFiniteSet(Sockets)
  /\ NoSocket \notin Sockets
  /\ MaxAttempts \in Nat /\ MaxConnects \in Nat /\ MaxCallbacks \in Nat

VARIABLES
  sockets,    \* readyState of each socket
  ws,         \* the socket the client remembers
  explicit,   \* isExplicitDisconnect
  accepted,   \* is url one that the WebSocket constructor accepts?
  attempts,   \* reconnectAttempts
  timer,      \* is the timer in reconnectTimer pending?
  strays,     \* pending timers that reconnectTimer no longer holds
  callbacks,  \* subscriptions: how many callbacks each topic has
  sent,       \* subscribe requests sent on each socket
  told,       \* the application has been told that the client gave up
  connects,   \* history: calls of connect
  orderly,    \* history: connect was only called with nothing left of before
  tries       \* history: sockets created since one last opened

vars == <<sockets, ws, explicit, accepted, attempts, timer, strays, callbacks,
          sent, told, connects, orderly, tries>>

ReadyState == {"free", "connecting", "open", "closing"}

TypeOK ==
  /\ sockets \in [Sockets -> ReadyState]
  /\ ws \in Sockets \cup {NoSocket}
  /\ explicit \in BOOLEAN /\ accepted \in BOOLEAN /\ timer \in BOOLEAN
  /\ told \in BOOLEAN /\ orderly \in BOOLEAN
  /\ attempts \in 0..MaxAttempts
  /\ strays \in Nat
  /\ callbacks \in [Topics -> 0..MaxCallbacks]
  /\ sent \in [Sockets -> [Topics -> Nat]]
  /\ connects \in 0..MaxConnects
  /\ tries \in Nat

Silent == [t \in Topics |-> 0]

Init ==
  /\ sockets = [s \in Sockets |-> "free"]
  /\ ws = NoSocket
  /\ explicit = FALSE
  /\ accepted = TRUE
  /\ attempts = 0
  /\ timer = FALSE
  /\ strays = 0
  /\ callbacks = [t \in Topics |-> 0]
  /\ sent = [s \in Sockets |-> Silent]
  /\ told = FALSE
  /\ connects = 0
  /\ orderly = TRUE
  /\ tries = 0

Live == {s \in Sockets : sockets[s] # "free"}
IsConnected == ws # NoSocket /\ sockets[ws] = "open"

\* Nothing is left of earlier connections: no socket and no pending timer.
Quiet == Live = {} /\ ~timer /\ strays = 0

-----------------------------------------------------------------------------
(* Parts of the handlers.                                                  *)

\* A retry is scheduled: the new timer takes the field, whatever it held.
Retry(pending, stray) ==
  /\ attempts' = attempts + 1
  /\ timer' = TRUE
  /\ strays' = stray + (IF pending THEN 1 ELSE 0)
  /\ UNCHANGED told

KeepTimers(pending, stray) == timer' = pending /\ strays' = stray

\* Mutations: one attempt too many; the application is not told.
HandleReconnect_OffByOne(pending, stray) ==
  \/ attempts <= MaxAttempts /\ Retry(pending, stray)
  \/ attempts > MaxAttempts /\ told' = TRUE /\ KeepTimers(pending, stray)
     /\ UNCHANGED attempts

HandleReconnect_Untold(pending, stray) ==
  \/ attempts < MaxAttempts /\ Retry(pending, stray)
  \/ attempts >= MaxAttempts /\ KeepTimers(pending, stray)
     /\ UNCHANGED <<attempts, told>>

\* handleReconnect, called with reconnectTimer pending or not and stray timers
\* that nothing refers to.
HandleReconnect(pending, stray) ==
  \/ /\ attempts < MaxAttempts
     /\ Retry(pending, stray)
  \/ /\ attempts >= MaxAttempts
     /\ told' = TRUE
     /\ KeepTimers(pending, stray)
     /\ UNCHANGED attempts

NewSocket(s) ==
  /\ sockets[s] = "free"
  /\ sockets' = [sockets EXCEPT ![s] = "connecting"]
  /\ sent' = [sent EXCEPT ![s] = Silent]
  /\ ws' = s
  /\ tries' = tries + 1

\* createSocket: a constructor that throws is a failed attempt.
CreateSocket(ok, pending, stray) ==
  \/ /\ ok
     /\ \E s \in Sockets : NewSocket(s)
     /\ KeepTimers(pending, stray)
     /\ UNCHANGED <<attempts, told>>
  \/ /\ ~ok
     /\ HandleReconnect(pending, stray)
     /\ UNCHANGED <<sockets, sent, ws, tries>>

-----------------------------------------------------------------------------
(* What the application calls.                                             *)

Connect(ok) ==
  /\ connects < MaxConnects
  /\ connects' = connects + 1
  /\ orderly' = (orderly /\ Quiet)
  /\ explicit' = FALSE
  /\ accepted' = ok
  /\ CreateSocket(ok, timer, strays)
  /\ UNCHANGED callbacks

\* Only the first callback of a topic sends a request, and only when connected.
Subscribe(t) ==
  /\ callbacks[t] < MaxCallbacks
  /\ callbacks' = [callbacks EXCEPT ![t] = @ + 1]
  /\ sent' = IF callbacks[t] = 0 /\ IsConnected
             THEN [sent EXCEPT ![ws][t] = @ + 1] ELSE sent
  /\ UNCHANGED <<sockets, ws, explicit, accepted, attempts, timer, strays, told,
                 connects, orderly, tries>>

CloseCurrent ==
  /\ explicit' = TRUE
  /\ sockets' = IF ws # NoSocket /\ sockets[ws] \in {"connecting", "open"}
                THEN [sockets EXCEPT ![ws] = "closing"] ELSE sockets
  /\ ws' = NoSocket
  /\ UNCHANGED <<accepted, attempts, strays, callbacks, sent, told, connects,
                 orderly, tries>>

\* Mutation: the timer is not cleared.
Disconnect_KeepsTimer == CloseCurrent /\ UNCHANGED timer

\* Clears the timer it remembers; stray timers stay.
Disconnect == CloseCurrent /\ timer' = FALSE

-----------------------------------------------------------------------------
(* What the browser calls.                                                 *)

Opened(s) ==
  /\ sockets[s] = "connecting"
  /\ sockets' = [sockets EXCEPT ![s] = "open"]
  /\ attempts' = 0
  /\ told' = FALSE
  /\ tries' = 0
  /\ UNCHANGED <<ws, explicit, accepted, timer, strays, callbacks, connects, orderly>>

\* Mutation: nothing is subscribed again.
SocketOpens_NoResubscribe(s) == Opened(s) /\ UNCHANGED sent

\* onopen: resubscribeAll sends on the socket the client remembers, which need
\* not be the one that opened.
SocketOpens(s) ==
  /\ Opened(s)
  /\ sent' = IF ws = NoSocket \/ sockets'[ws] # "open" THEN sent
             ELSE [sent EXCEPT ![ws] =
                     [t \in Topics |-> @[t] + (IF callbacks[t] > 0 THEN 1 ELSE 0)]]

Closed(s) ==
  /\ sockets[s] # "free"
  /\ sockets' = [sockets EXCEPT ![s] = "free"]
  /\ UNCHANGED <<ws, explicit, accepted, callbacks, sent, connects, orderly, tries>>

\* Mutation: the close event schedules no retry.
SocketCloses_NoRetry(s) ==
  /\ Closed(s)
  /\ UNCHANGED <<attempts, timer, strays, told>>

\* onclose: the connection is refused or lost, or its close() has completed.
SocketCloses(s) ==
  /\ Closed(s)
  /\ \/ explicit /\ UNCHANGED <<attempts, timer, strays, told>>
     \/ ~explicit /\ HandleReconnect(timer, strays)

TimerFires ==
  /\ \/ timer /\ CreateSocket(accepted, FALSE, strays)
     \/ strays > 0 /\ CreateSocket(accepted, timer, strays - 1)
  /\ UNCHANGED <<explicit, accepted, callbacks, connects, orderly>>

-----------------------------------------------------------------------------

Next ==
  \/ \E ok \in BOOLEAN : Connect(ok)
  \/ \E t \in Topics : Subscribe(t)
  \/ Disconnect
  \/ \E s \in Sockets : SocketOpens(s)
  \/ \E s \in Sockets : SocketCloses(s)
  \/ TimerFires

\* The browser fires due timers and settles every socket that is connecting or
\* closing; an open socket need never close.
Settles(s) ==
  sockets[s] \in {"connecting", "closing"} /\ (SocketOpens(s) \/ SocketCloses(s))

Fairness ==
  /\ WF_vars(TimerFires)
  /\ \A s \in Sockets : WF_vars(Settles(s))

Spec == Init /\ [][Next]_vars /\ Fairness

-----------------------------------------------------------------------------
(* Properties.                                                             *)

\* Whatever happens, the connection the client believes in has been asked for
\* every topic with a callback: subscriptions survive reconnections, early and
\* late subscribing, and sockets that open out of order.
CurrentSocketSubscribed ==
  IsConnected => \A t \in Topics : callbacks[t] > 0 => sent[ws][t] >= 1

\* Used in order (connect only with nothing left of the last connection), the
\* client holds one line to the server: one socket or one timer, and no topic is
\* asked for twice on it, so no message is handled twice.
OneLine ==
  orderly =>
    /\ Cardinality(Live) + (IF timer THEN 1 ELSE 0) + strays <= 1
    /\ \A s \in Live, t \in Topics : sent[s][t] <= 1

\* Used in order, a disconnected client stays disconnected: nothing that is still
\* under way opens another socket.
DisconnectIsFinal ==
  orderly /\ explicit =>
    /\ ~timer /\ strays = 0
    /\ \A s \in Sockets : sockets[s] \in {"free", "closing"}

\* A client that has been told to connect never drops the matter: it has a socket,
\* a pending retry, or it has told the application that it gave up.  However
\* connect and disconnect were interleaved with the browser's events.
NeverForgotten ==
  connects > 0 /\ ~explicit => Live # {} \/ timer \/ strays > 0 \/ told

\* Between two successful connections it tries at most MaxAttempts times beyond
\* the calls of connect (ros_websocket_client.spec.ts:178).
RetriesBounded == orderly => tries <= MaxAttempts + connects

\* What the application gets for connecting only when nothing is left of the last
\* connection: one line, a disconnect that stays one, and a bounded number of tries.
UsedInOrder == OneLine /\ DisconnectIsFinal /\ RetriesBounded

\* It does not try forever either: sooner or later it is connected, has given up
\* aloud, or was told to stop.
ConnectSettles ==
  orderly /\ connects > 0 ~> IsConnected \/ told \/ explicit \/ ~orderly
=============================================================================
