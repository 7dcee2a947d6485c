----------------------- MODULE RosWebSocketClientProofs -----------------------
(***************************************************************************)
(* Proofs about RosWebSocketClient, for any set of slots and topics and    *)
(* any bounds: types, that a connection is never forgotten, that the       *)
(* current socket is subscribed, and - used in order - that the client     *)
(* holds one line and that a disconnect is final.                          *)
(***************************************************************************)
EXTENDS RosWebSocketClient, FiniteSetTheorems, TLAPS

LEMMA InitType == Init => TypeOK
<1> SUFFICES ASSUME Init PROVE TypeOK
  OBVIOUS
<1>1. sent \in [Sockets -> [Topics -> Nat]]
  BY DEF Init, Silent
<1>2. callbacks \in [Topics -> 0..MaxCallbacks]
  BY ClientAssumption DEF Init
<1>3. sockets \in [Sockets -> ReadyState]
  BY DEF Init, ReadyState
<1>4. attempts \in 0..MaxAttempts /\ connects \in 0..MaxConnects /\ strays \in Nat
      /\ tries \in Nat
  BY ClientAssumption DEF Init
<1>5. explicit \in BOOLEAN /\ accepted \in BOOLEAN /\ timer \in BOOLEAN
      /\ told \in BOOLEAN /\ orderly \in BOOLEAN /\ ws \in Sockets \cup {NoSocket}
  BY DEF Init
<1> QED
  BY <1>1, <1>2, <1>3, <1>4, <1>5 DEF TypeOK

LEMMA ReconnectType ==
  ASSUME TypeOK, NEW pending \in BOOLEAN, NEW stray \in Nat,
         HandleReconnect(pending, stray)
  PROVE  attempts' \in 0..MaxAttempts /\ timer' \in BOOLEAN /\ strays' \in Nat
         /\ told' \in BOOLEAN
<1>1. CASE attempts < MaxAttempts /\ Retry(pending, stray)
  <2>1. attempts' \in 0..MaxAttempts /\ strays' \in Nat
    BY ClientAssumption, <1>1 DEF TypeOK, Retry
  <2> QED
    BY <1>1, <2>1 DEF TypeOK, Retry
<1>2. CASE told' = TRUE /\ KeepTimers(pending, stray) /\ UNCHANGED attempts
  BY <1>2 DEF TypeOK, KeepTimers
<1> QED
  BY <1>1, <1>2 DEF HandleReconnect

LEMMA CreateType ==
  ASSUME TypeOK, NEW ok \in BOOLEAN, NEW pending \in BOOLEAN, NEW stray \in Nat,
         CreateSocket(ok, pending, stray)
  PROVE  /\ attempts' \in 0..MaxAttempts /\ timer' \in BOOLEAN /\ strays' \in Nat
         /\ told' \in BOOLEAN
         /\ sockets' \in [Sockets -> ReadyState]
         /\ sent' \in [Sockets -> [Topics -> Nat]]
         /\ ws' \in Sockets \cup {NoSocket}
         /\ tries' \in Nat
<1>1. CASE ok /\ \E s \in Sockets : NewSocket(s)
  <2>1. PICK s \in Sockets : NewSocket(s)
    BY <1>1
  <2>2. Silent \in [Topics -> Nat]
    BY DEF Silent
  <2>3. CASE KeepTimers(pending, stray) /\ UNCHANGED <<attempts, told>>
    BY <2>1, <2>2, <2>3 DEF TypeOK, NewSocket, KeepTimers, ReadyState
  <2>4. CASE ~ok
    BY <1>1, <2>4
  <2> QED
    BY <2>3, <2>4 DEF CreateSocket
<1>2. CASE ~ok /\ HandleReconnect(pending, stray) /\ UNCHANGED <<sockets, sent, ws, tries>>
  BY <1>2, ReconnectType DEF TypeOK
<1> QED
  BY <1>1, <1>2 DEF CreateSocket

LEMMA StepType == TypeOK /\ [Next]_vars => TypeOK'
<1> SUFFICES ASSUME TypeOK, [Next]_vars PROVE TypeOK'
  OBVIOUS
<1> USE ClientAssumption
<1>1. ASSUME NEW ok \in BOOLEAN, Connect(ok) PROVE TypeOK'
  <2>1. timer \in BOOLEAN /\ strays \in Nat
    BY DEF TypeOK
  <2>2. connects' \in 0..MaxConnects
    BY <1>1 DEF Connect, TypeOK
  <2>3. orderly' \in BOOLEAN /\ explicit' \in BOOLEAN /\ accepted' \in BOOLEAN
    BY <1>1 DEF Connect, TypeOK
  <2>4. CreateSocket(ok, timer, strays) /\ callbacks' = callbacks
    BY <1>1 DEF Connect
  <2>5. callbacks' \in [Topics -> 0..MaxCallbacks]
    BY <2>4 DEF TypeOK
  <2> QED
    BY <2>1, <2>2, <2>3, <2>4, <2>5, CreateType DEF TypeOK
<1>2. ASSUME NEW t \in Topics, Subscribe(t) PROVE TypeOK'
  <2>1. callbacks' \in [Topics -> 0..MaxCallbacks]
    BY <1>2 DEF Subscribe, TypeOK
  <2>2. sent' \in [Sockets -> [Topics -> Nat]]
    BY <1>2 DEF Subscribe, TypeOK, IsConnected
  <2> QED
    BY <1>2, <2>1, <2>2 DEF Subscribe, TypeOK
<1>3. CASE Disconnect
  <2>1. sockets' \in [Sockets -> ReadyState]
    BY <1>3 DEF Disconnect, CloseCurrent, TypeOK, ReadyState
  <2> QED
    BY <1>3, <2>1 DEF Disconnect, CloseCurrent, TypeOK
<1>4. ASSUME NEW s \in Sockets, SocketOpens(s) PROVE TypeOK'
  <2>1. sent' \in [Sockets -> [Topics -> Nat]]
    BY <1>4 DEF SocketOpens, TypeOK
  <2>2. sockets' \in [Sockets -> ReadyState]
    BY <1>4 DEF SocketOpens, Opened, TypeOK, ReadyState
  <2>3. attempts' \in 0..MaxAttempts /\ tries' \in Nat
    BY <1>4 DEF SocketOpens, Opened
  <2>4. told' \in BOOLEAN
    BY <1>4 DEF SocketOpens, Opened
  <2> QED
    BY <1>4, <2>1, <2>2, <2>3, <2>4 DEF SocketOpens, Opened, TypeOK
<1>5. ASSUME NEW s \in Sockets, SocketCloses(s) PROVE TypeOK'
  <2>1. timer \in BOOLEAN /\ strays \in Nat
    BY DEF TypeOK
  <2>2. CASE explicit /\ UNCHANGED <<attempts, timer, strays, told>>
    BY <1>5, <2>2 DEF SocketCloses, Closed, TypeOK, ReadyState
  <2>3. CASE HandleReconnect(timer, strays)
    BY <1>5, <2>1, <2>3, ReconnectType DEF SocketCloses, Closed, TypeOK, ReadyState
  <2> QED
    BY <1>5, <2>2, <2>3 DEF SocketCloses
<1>6. CASE TimerFires
  <2>1. accepted \in BOOLEAN /\ timer \in BOOLEAN /\ strays \in Nat
    BY DEF TypeOK
  <2>2. CASE timer /\ CreateSocket(accepted, FALSE, strays)
    <3>1. FALSE \in BOOLEAN
      OBVIOUS
    <3> QED
      BY <1>6, <2>1, <2>2, <3>1, CreateType DEF TimerFires, TypeOK
  <2>3. CASE strays > 0 /\ CreateSocket(accepted, timer, strays - 1)
    <3>1. strays - 1 \in Nat
      BY <2>1, <2>3
    <3> QED
      BY <1>6, <2>1, <2>3, <3>1, CreateType DEF TimerFires, TypeOK
  <2> QED
    BY <1>6, <2>2, <2>3 DEF TimerFires
<1>7. CASE UNCHANGED vars
  BY <1>7 DEF vars, TypeOK
<1> QED
  BY <1>1, <1>2, <1>3, <1>4, <1>5, <1>6, <1>7 DEF Next

\* Every variable keeps its type.
THEOREM TypeCorrect == Spec => []TypeOK
  BY InitType, StepType, PTL DEF Spec

-----------------------------------------------------------------------------
(* A connection is never forgotten.                                        *)

LEMMA ReconnectNotForgotten ==
  ASSUME TypeOK, NEW pending \in BOOLEAN, NEW stray \in Nat,
         HandleReconnect(pending, stray)
  PROVE  timer' = TRUE \/ told' = TRUE
  BY DEF HandleReconnect, Retry

LEMMA CreateNotForgotten ==
  ASSUME TypeOK, NEW ok \in BOOLEAN, NEW pending \in BOOLEAN, NEW stray \in Nat,
         CreateSocket(ok, pending, stray)
  PROVE  Live' # {} \/ timer' = TRUE \/ told' = TRUE
<1>1. CASE \E s \in Sockets : NewSocket(s)
  BY <1>1 DEF NewSocket, Live, TypeOK
<1>2. CASE HandleReconnect(pending, stray)
  BY <1>2, ReconnectNotForgotten
<1> QED
  BY <1>1, <1>2 DEF CreateSocket

LEMMA StepNotForgotten == TypeOK /\ NeverForgotten /\ [Next]_vars => NeverForgotten'
<1> SUFFICES ASSUME TypeOK, NeverForgotten, [Next]_vars PROVE NeverForgotten'
  OBVIOUS
<1>0. timer \in BOOLEAN /\ strays \in Nat /\ accepted \in BOOLEAN
  BY DEF TypeOK
<1>1. ASSUME NEW ok \in BOOLEAN, Connect(ok) PROVE NeverForgotten'
  BY <1>0, <1>1, CreateNotForgotten DEF Connect, NeverForgotten
<1>2. ASSUME NEW t \in Topics, Subscribe(t) PROVE NeverForgotten'
  BY <1>2 DEF Subscribe, NeverForgotten, Live
<1>3. CASE Disconnect
  BY <1>3 DEF Disconnect, CloseCurrent, NeverForgotten
<1>4. ASSUME NEW s \in Sockets, SocketOpens(s) PROVE NeverForgotten'
  BY <1>4 DEF SocketOpens, Opened, NeverForgotten, Live, TypeOK
<1>5. ASSUME NEW s \in Sockets, SocketCloses(s) PROVE NeverForgotten'
  BY <1>0, <1>5, ReconnectNotForgotten DEF SocketCloses, Closed, NeverForgotten
<1>6. CASE TimerFires
  <2>1. CASE timer /\ CreateSocket(accepted, FALSE, strays)
    <3>1. FALSE \in BOOLEAN
      OBVIOUS
    <3> QED
      BY <1>0, <2>1, <3>1, CreateNotForgotten DEF NeverForgotten
  <2>2. CASE strays > 0 /\ CreateSocket(accepted, timer, strays - 1)
    <3>1. strays - 1 \in Nat
      BY <1>0, <2>2
    <3> QED
      BY <1>0, <2>2, <3>1, CreateNotForgotten DEF NeverForgotten
  <2> QED
    BY <1>6, <2>1, <2>2 DEF TimerFires
<1>7. CASE UNCHANGED vars
  BY <1>7 DEF vars, NeverForgotten, Live
<1> QED
  BY <1>1, <1>2, <1>3, <1>4, <1>5, <1>6, <1>7 DEF Next

\* A client told to connect always has a socket, a pending retry, or has told the
\* application that it gave up, in any order of calls and browser events.
THEOREM NotForgotten == Spec => []NeverForgotten
<1>1. Init => NeverForgotten
  BY DEF Init, NeverForgotten
<1> QED
  BY <1>1, StepNotForgotten, TypeCorrect, PTL DEF Spec

-----------------------------------------------------------------------------
(* The current socket is subscribed.                                       *)

LEMMA StepSubscribed ==
  TypeOK /\ CurrentSocketSubscribed /\ [Next]_vars => CurrentSocketSubscribed'
<1> SUFFICES ASSUME TypeOK, CurrentSocketSubscribed, [Next]_vars
             PROVE  CurrentSocketSubscribed'
  OBVIOUS
<1> USE DEF CurrentSocketSubscribed, IsConnected
<1>1. ASSUME NEW ok \in BOOLEAN, NEW pending, NEW stray,
             CreateSocket(ok, pending, stray), UNCHANGED callbacks
      PROVE  CurrentSocketSubscribed'
  <2>1. CASE \E s \in Sockets : NewSocket(s)
    BY <2>1 DEF NewSocket, TypeOK
  <2>2. CASE UNCHANGED <<sockets, sent, ws, tries>>
    BY <1>1, <2>2
  <2> QED
    BY <1>1, <2>1, <2>2 DEF CreateSocket
<1>2. ASSUME NEW ok \in BOOLEAN, Connect(ok) PROVE CurrentSocketSubscribed'
  BY <1>1, <1>2 DEF Connect
<1>3. ASSUME NEW t \in Topics, Subscribe(t) PROVE CurrentSocketSubscribed'
  <2> SUFFICES ASSUME IsConnected, NEW u \in Topics, callbacks'[u] > 0
               PROVE  sent'[ws][u] >= 1
    BY <1>3 DEF Subscribe
  <2>1. CASE u = t
    BY <1>3, <2>1 DEF Subscribe, TypeOK
  <2>2. CASE u # t
    BY <1>3, <2>2 DEF Subscribe, TypeOK
  <2> QED
    BY <2>1, <2>2
<1>4. CASE Disconnect
  BY <1>4 DEF Disconnect, CloseCurrent
<1>5. ASSUME NEW s \in Sockets, SocketOpens(s) PROVE CurrentSocketSubscribed'
  BY <1>5 DEF SocketOpens, Opened, TypeOK
<1>6. ASSUME NEW s \in Sockets, SocketCloses(s) PROVE CurrentSocketSubscribed'
  BY <1>6 DEF SocketCloses, Closed, TypeOK
<1>7. CASE TimerFires
  BY <1>1, <1>7 DEF TimerFires, TypeOK
<1>8. CASE UNCHANGED vars
  BY <1>8 DEF vars
<1> QED
  BY <1>2, <1>3, <1>4, <1>5, <1>6, <1>7, <1>8 DEF Next

\* The socket the client believes in has been asked for every topic with a
\* callback, whichever sockets opened, closed or were replaced before it.
THEOREM Subscribed == Spec => []CurrentSocketSubscribed
<1>1. Init => CurrentSocketSubscribed
  BY DEF Init, CurrentSocketSubscribed, IsConnected
<1> QED
  BY <1>1, StepSubscribed, TypeCorrect, PTL DEF Spec

-----------------------------------------------------------------------------
(* One line, and a disconnect that is final, when connect is used in       *)
(* order.  The invariant names what a line is: no stray timer, a timer     *)
(* only when no socket is left, one socket that the client remembers       *)
(* unless it is closing it, and one request per topic once it is open.     *)

Line ==
  /\ strays = 0
  /\ timer => Live = {} /\ ~explicit
  /\ \A s \in Live, u \in Live : s = u
  /\ \A s \in Live : sockets[s] # "closing" => ws = s /\ ~explicit
  /\ \A s \in Live, t \in Topics :
       sent[s][t] <= IF sockets[s] = "connecting" \/ callbacks[t] = 0 THEN 0 ELSE 1

LineInv == orderly => Line

LEMMA CreateLine ==
  ASSUME TypeOK, NEW ok \in BOOLEAN, CreateSocket(ok, FALSE, 0), Live = {},
         explicit' = FALSE, UNCHANGED callbacks
  PROVE  Line'
<1>1. CASE (\E s \in Sockets : NewSocket(s)) /\ KeepTimers(FALSE, 0)
  <2>1. PICK s \in Sockets : NewSocket(s)
    BY <1>1
  <2>2. Live' = {s} /\ sockets'[s] = "connecting" /\ ws' = s
    BY <2>1 DEF NewSocket, Live, TypeOK
  <2>3. \A t \in Topics : sent'[s][t] = 0
    BY <2>1 DEF NewSocket, TypeOK, Silent
  <2> QED
    BY <1>1, <2>2, <2>3 DEF Line, KeepTimers
<1>2. CASE HandleReconnect(FALSE, 0) /\ UNCHANGED <<sockets, sent, ws>>
  <2>1. Live' = {}
    BY <1>2 DEF Live
  <2>2. strays' = 0
    BY <1>2 DEF HandleReconnect, Retry, KeepTimers
  <2> QED
    BY <2>1, <2>2 DEF Line
<1> QED
  BY <1>1, <1>2 DEF CreateSocket

LEMMA StepLine == TypeOK /\ LineInv /\ [Next]_vars => LineInv'
<1> SUFFICES ASSUME TypeOK, LineInv, [Next]_vars, orderly' PROVE Line'
  BY DEF LineInv
<1>1. ASSUME NEW ok \in BOOLEAN, Connect(ok) PROVE Line'
  <2>1. Live = {} /\ timer = FALSE /\ strays = 0
    BY <1>1 DEF Connect, Quiet, TypeOK
  <2>2. CreateSocket(ok, FALSE, 0) /\ explicit' = FALSE /\ UNCHANGED callbacks
    BY <1>1, <2>1 DEF Connect
  <2> QED
    BY <2>1, <2>2, CreateLine
<1>2. ASSUME NEW t \in Topics, Subscribe(t) PROVE Line'
  <2>1. Line
    BY <1>2 DEF Subscribe, LineInv
  <2>2. Live' = Live
    BY <1>2 DEF Subscribe, Live
  <2>3. ASSUME NEW s \in Live, NEW u \in Topics
        PROVE  sent'[s][u] <=
                 IF sockets[s] = "connecting" \/ callbacks'[u] = 0 THEN 0 ELSE 1
    <3>1. CASE u # t
      BY <1>2, <2>1, <2>3, <3>1 DEF Subscribe, TypeOK, Line, Live
    <3>2. CASE u = t /\ ~(callbacks[t] = 0 /\ IsConnected)
      BY <1>2, <2>1, <2>3, <3>2 DEF Subscribe, TypeOK, Line, Live
    <3>3. CASE u = t /\ callbacks[t] = 0 /\ IsConnected
      <4>1. ws \in Live /\ s = ws /\ sockets[s] = "open"
        BY <2>1, <2>3, <3>3 DEF IsConnected, Line, Live, TypeOK
      <4>2. sent[s][u] = 0
        BY <2>1, <2>3, <3>3, <4>1 DEF Line, TypeOK, Live
      <4> QED
        BY <1>2, <2>3, <3>3, <4>1, <4>2 DEF Subscribe, TypeOK, Live
    <3> QED
      BY <3>1, <3>2, <3>3
  <2> QED
    BY <1>2, <2>1, <2>2, <2>3 DEF Subscribe, Line
<1>3. CASE Disconnect
  <2>1. Line
    BY <1>3 DEF Disconnect, CloseCurrent, LineInv
  <2>2. Live' = Live
    BY <1>3 DEF Disconnect, CloseCurrent, Live, TypeOK
  <2>3. \A s \in Live : sockets'[s] = "closing"
    BY <1>3, <2>1, ClientAssumption
       DEF Disconnect, CloseCurrent, Live, TypeOK, Line, ReadyState
  <2>4. \A s \in Live, t \in Topics :
          sent'[s][t] <= IF callbacks'[t] = 0 THEN 0 ELSE 1
    BY <1>3, <2>1 DEF Disconnect, CloseCurrent, Line, TypeOK, Live
  <2> QED
    BY <1>3, <2>1, <2>2, <2>3, <2>4 DEF Disconnect, CloseCurrent, Line
<1>4. ASSUME NEW s \in Sockets, SocketOpens(s) PROVE Line'
  <2>1. Line /\ s \in Live
    BY <1>4 DEF SocketOpens, Opened, LineInv, Live
  <2>2. Live' = Live /\ Live = {s} /\ ws = s /\ ~explicit /\ sockets'[s] = "open"
    BY <1>4, <2>1 DEF SocketOpens, Opened, Live, TypeOK, Line
  <2>3. ASSUME NEW t \in Topics
        PROVE  sent'[s][t] <= IF callbacks[t] = 0 THEN 0 ELSE 1
    <3>1. sent[s][t] = 0
      BY <1>4, <2>1 DEF SocketOpens, Opened, Line, TypeOK
    <3>2. sent'[s][t] = sent[s][t] + (IF callbacks[t] > 0 THEN 1 ELSE 0)
      BY <1>4, <2>2, ClientAssumption DEF SocketOpens, TypeOK
    <3> QED
      BY <3>1, <3>2 DEF TypeOK
  <2> QED
    BY <1>4, <2>1, <2>2, <2>3 DEF SocketOpens, Opened, Line
<1>5. ASSUME NEW s \in Sockets, SocketCloses(s) PROVE Line'
  <2>1. Line /\ s \in Live
    BY <1>5 DEF SocketCloses, Closed, LineInv, Live
  <2>2. Live' = {}
    BY <1>5, <2>1 DEF SocketCloses, Closed, Live, TypeOK, Line
  <2>3. timer = FALSE /\ strays = 0
    BY <2>1 DEF Line, TypeOK
  <2>4. strays' = 0 /\ (timer' => ~explicit')
    BY <1>5, <2>3 DEF SocketCloses, Closed, HandleReconnect, Retry, KeepTimers
  <2> QED
    BY <2>2, <2>4 DEF Line
<1>6. CASE TimerFires
  <2>1. Line
    BY <1>6 DEF TimerFires, LineInv
  <2>0. ~(strays > 0)
    BY <2>1 DEF Line
  <2>2. timer /\ CreateSocket(accepted, FALSE, strays)
    BY <1>6, <2>0, Zenon DEF TimerFires
  <2>3. CreateSocket(accepted, FALSE, 0) /\ Live = {} /\ ~explicit
    BY <2>1, <2>2 DEF Line
  <2>4. explicit' = FALSE /\ accepted \in BOOLEAN /\ UNCHANGED callbacks
    BY <1>6, <2>3 DEF TimerFires, TypeOK
  <2> QED
    BY <2>3, <2>4, CreateLine
<1>7. CASE UNCHANGED vars
  BY <1>7 DEF vars, LineInv, Line, Live
<1> QED
  BY <1>1, <1>2, <1>3, <1>4, <1>5, <1>6, <1>7 DEF Next

LEMMA LineInvariant == Spec => []LineInv
<1>1. Init => LineInv
  BY DEF Init, LineInv, Line, Live
<1> QED
  BY <1>1, StepLine, TypeCorrect, PTL DEF Spec

\* Used in order, the client holds one line to the server and asks for each topic
\* once on it.
THEOREM OneLineHeld == Spec => []OneLine
<1>1. TypeOK /\ LineInv => OneLine
  <2> SUFFICES ASSUME TypeOK, Line
               PROVE  /\ Cardinality(Live) + (IF timer THEN 1 ELSE 0) + strays <= 1
                      /\ \A s \in Live, t \in Topics : sent[s][t] <= 1
    BY DEF OneLine, LineInv
  <2>1. \A s \in Live, t \in Topics : sent[s][t] <= 1
    BY DEF Line, TypeOK, Live
  <2>2. CASE Live = {}
    BY <2>1, <2>2, FS_EmptySet DEF Line, TypeOK
  <2>3. CASE Live # {}
    <3>1. PICK s \in Live : Live = {s}
      BY <2>3 DEF Line
    <3>2. Cardinality(Live) = 1
      BY <3>1, FS_Singleton
    <3> QED
      BY <2>1, <2>3, <3>2 DEF Line, TypeOK
  <2> QED
    BY <2>2, <2>3
<1> QED
  BY <1>1, LineInvariant, TypeCorrect, PTL

\* Used in order, a disconnected client has nothing under way that could open
\* another socket.
THEOREM DisconnectFinal == Spec => []DisconnectIsFinal
<1>1. TypeOK /\ LineInv => DisconnectIsFinal
  BY DEF TypeOK, LineInv, Line, DisconnectIsFinal, Live, ReadyState
<1> QED
  BY <1>1, LineInvariant, TypeCorrect, PTL

-----------------------------------------------------------------------------
(* The retry budget: every socket since the last opening was paid for by a *)
(* call of connect or by an attempt, and so is the pending retry.          *)

Budget == orderly => tries + (IF timer THEN 1 ELSE 0) <= attempts + connects

LEMMA CreateBudget ==
  ASSUME TypeOK, NEW ok \in BOOLEAN, CreateSocket(ok, FALSE, 0),
         NEW c \in Nat, tries + 1 <= attempts + c
  PROVE  tries' + (IF timer' THEN 1 ELSE 0) <= attempts' + c
<1>1. CASE (\E s \in Sockets : NewSocket(s)) /\ KeepTimers(FALSE, 0)
           /\ UNCHANGED attempts
  BY <1>1 DEF NewSocket, KeepTimers, TypeOK
<1>2. CASE HandleReconnect(FALSE, 0) /\ UNCHANGED tries
  BY <1>2 DEF HandleReconnect, Retry, KeepTimers, TypeOK
<1> QED
  BY <1>1, <1>2 DEF CreateSocket

LEMMA StepBudget == TypeOK /\ LineInv /\ Budget /\ [Next]_vars => Budget'
<1> SUFFICES ASSUME TypeOK, LineInv, Budget, [Next]_vars, orderly'
             PROVE  tries' + (IF timer' THEN 1 ELSE 0) <= attempts' + connects'
  BY DEF Budget
<1>0. tries \in Nat /\ attempts \in Nat /\ connects \in Nat
  BY ClientAssumption DEF TypeOK
<1>1. ASSUME NEW ok \in BOOLEAN, Connect(ok)
      PROVE  tries' + (IF timer' THEN 1 ELSE 0) <= attempts' + connects'
  <2>1. timer = FALSE /\ strays = 0 /\ orderly
    BY <1>1 DEF Connect, Quiet, TypeOK
  <2>2. CreateSocket(ok, FALSE, 0) /\ connects' = connects + 1
    BY <1>1, <2>1 DEF Connect
  <2>3. tries + 1 <= attempts + connects'
    BY <1>0, <2>1, <2>2 DEF Budget
  <2>4. connects' \in Nat
    BY <1>0, <2>2
  <2> QED
    BY <2>2, <2>3, <2>4, CreateBudget
<1>2. ASSUME NEW t \in Topics, Subscribe(t)
      PROVE  tries' + (IF timer' THEN 1 ELSE 0) <= attempts' + connects'
  BY <1>2 DEF Subscribe, Budget
<1>3. CASE Disconnect
  BY <1>0, <1>3 DEF Disconnect, CloseCurrent, Budget
<1>4. ASSUME NEW s \in Sockets, SocketOpens(s)
      PROVE  tries' + (IF timer' THEN 1 ELSE 0) <= attempts' + connects'
  <2>1. ~timer
    BY <1>4 DEF SocketOpens, Opened, LineInv, Line, Live
  <2> QED
    BY <1>0, <1>4, <2>1 DEF SocketOpens, Opened
<1>5. ASSUME NEW s \in Sockets, SocketCloses(s)
      PROVE  tries' + (IF timer' THEN 1 ELSE 0) <= attempts' + connects'
  <2>1. timer = FALSE /\ orderly /\ strays = 0
    BY <1>5 DEF SocketCloses, Closed, LineInv, Line, Live, TypeOK
  <2>2. tries <= attempts + connects /\ tries' = tries /\ connects' = connects
    BY <1>0, <1>5, <2>1 DEF SocketCloses, Closed, Budget
  <2>3. CASE UNCHANGED <<attempts, timer>>
    BY <1>0, <2>1, <2>2, <2>3
  <2>4. CASE HandleReconnect(timer, strays)
    BY <1>0, <2>1, <2>2, <2>4 DEF HandleReconnect, Retry, KeepTimers
  <2> QED
    BY <1>5, <2>3, <2>4 DEF SocketCloses
<1>6. CASE TimerFires
  <2>1. Line /\ orderly
    BY <1>6 DEF TimerFires, LineInv
  <2>2. ~(strays > 0)
    BY <2>1 DEF Line
  <2>3. timer /\ CreateSocket(accepted, FALSE, strays)
    BY <1>6, <2>2, Zenon DEF TimerFires
  <2>4. CreateSocket(accepted, FALSE, 0) /\ accepted \in BOOLEAN
    BY <2>1, <2>3 DEF Line, TypeOK
  <2>5. tries + 1 <= attempts + connects
    BY <2>1, <2>3 DEF Budget
  <2> QED
    BY <1>0, <1>6, <2>4, <2>5, CreateBudget DEF TimerFires
<1>7. CASE UNCHANGED vars
  BY <1>7 DEF vars, Budget
<1> QED
  BY <1>1, <1>2, <1>3, <1>4, <1>5, <1>6, <1>7 DEF Next

\* Used in order, the client creates at most MaxAttempts sockets beyond the calls
\* of connect before one opens.
THEOREM RetriesHeld == Spec => []RetriesBounded
<1>1. Init => Budget
  BY DEF Init, Budget
<1>2. Spec => []Budget
  BY <1>1, StepBudget, LineInvariant, TypeCorrect, PTL DEF Spec
<1>3. TypeOK /\ Budget => RetriesBounded
  BY ClientAssumption DEF TypeOK, Budget, RetriesBounded
<1> QED
  BY <1>2, <1>3, TypeCorrect, PTL

\* Used in order, the client holds one line, stays disconnected when told to, and stops
\* trying.
THEOREM OrderHeld == Spec => []UsedInOrder
  BY OneLineHeld, DisconnectFinal, RetriesHeld, PTL DEF UsedInOrder

=============================================================================
