---------------------------- MODULE SimulationProofs ----------------------------
(***************************************************************************)
(* Proofs about Simulation, for any number of callers and any requests:    *)
(* what the audit trail and the answers say is true, and the layouts that  *)
(* are answered fit the canvas they were asked for.                        *)
(***************************************************************************)
EXTENDS Simulation, FiniteSetTheorems, SequenceTheorems, TLAPS

--------------------------------------------------------------------------------
(* Positions.                                                              *)

\* What rounding to centimetres gives: a multiple of ten, at most half a centimetre off.
LEMMA RoundedIsNear ==
  ASSUME NEW n \in Int, NEW d \in Nat \ {0}, NEW r \in Rounded(n, d)
  PROVE  \E k \in Int : /\ r = 10 * k
                        /\ -10 * d <= 20 * (k * d) - 2 * n
                        /\ 20 * (k * d) - 2 * n <= 10 * d
<1> DEFINE q == n \div (10 * d)
<1>1. q \in Int
  OBVIOUS
<1>2. /\ r \in {10 * q, 10 * q + 10}
      /\ 2 * (r * d - n) \in (-10 * d)..(10 * d)
  BY DEF Rounded
<1> HIDE DEF q
<1>3. PICK k \in {q, q + 1} : r = 10 * k
  BY <1>1, <1>2
<1>4. k \in Int
  BY <1>1
<1>5. r * d = 10 * (k * d) /\ k * d \in Int
  BY <1>3, <1>4
<1>6. 2 * (r * d - n) = 20 * (k * d) - 2 * n
  BY <1>5
<1> QED
  BY <1>2, <1>3, <1>4, <1>5, <1>6

LEMMA Multiples ==
  ASSUME NEW i \in Int, NEW j \in Int, i < j, NEW m \in Int, m > 0
  PROVE  /\ i * m \in Int /\ j * m \in Int
         /\ i * m + m <= j * m
<1>1. \A k \in Nat : k * m >= 0
  OBVIOUS
<1>2. (j - i - 1) \in Nat
  OBVIOUS
<1>3. (j - i - 1) * m = j * m - i * m - m
  OBVIOUS
<1> QED
  BY <1>1, <1>2, <1>3

\* Two assets keep their order along x, and do not meet if there is a centimetre for
\* each: then they are a centimetre apart before the rounding, and if they are exactly
\* that far apart their places are no ties.
LEMMA RoundedKeepsOrder ==
  ASSUME NEW i \in Int, NEW j \in Int, i < j, NEW w \in Int, w > 0, NEW d \in Nat \ {0},
         NEW r \in Rounded(i * w, d), NEW s \in Rounded(j * w, d)
  PROVE  r <= s /\ (w >= 10 * d => r # s)
<1> DEFINE iw == i * w
           jw == j * w
<1>1. iw \in Int /\ jw \in Int /\ iw + w <= jw
  BY Multiples
<1>2. PICK k \in Int : /\ r = 10 * k
                       /\ -10 * d <= 20 * (k * d) - 2 * iw
                       /\ 20 * (k * d) - 2 * iw <= 10 * d
  BY <1>1, RoundedIsNear
<1>3. PICK m \in Int : /\ s = 10 * m
                       /\ -10 * d <= 20 * (m * d) - 2 * jw
                       /\ 20 * (m * d) - 2 * jw <= 10 * d
  BY <1>1, RoundedIsNear
<1>4. k * d \in Int /\ m * d \in Int
  OBVIOUS
<1>5. k <= m
  <2> SUFFICES ASSUME m < k PROVE FALSE
    OBVIOUS
  <2>1. m * d + d <= k * d
    BY Multiples
  <2> HIDE DEF iw, jw
  <2> QED
    BY <1>1, <1>2, <1>3, <1>4, <2>1
<1>6. ASSUME w >= 10 * d, k = m PROVE FALSE
  <2>1. jw - iw <= 10 * d
    <3> HIDE DEF iw, jw
    <3> QED
      BY <1>1, <1>2, <1>3, <1>4, <1>6
  <2>2. w = 10 * d /\ jw = iw + w
    <3> HIDE DEF iw, jw
    <3> QED
      BY <1>1, <1>6, <2>1
  <2>3. 20 * (k * d) - 2 * iw = 10 * d
    <3> HIDE DEF iw, jw
    <3> QED
      BY <1>1, <1>2, <1>3, <1>4, <1>6, <2>2
  <2>4. iw = 10 * (i * d) /\ i * d \in Int
    BY <2>2
  <2>5. 2 * (k * d) - 2 * (i * d) = d
    <3> HIDE DEF iw, jw
    <3> QED
      BY <1>4, <2>3, <2>4
  <2>6. 2 * (k - i) * d = d
    BY <2>5
  <2> DEFINE h == 2 * (k - i)
  <2>7. h \in Int /\ h # 1 /\ h * d = d
    BY <2>6
  <2> HIDE DEF h
  <2>8. h <= 0 => h * d <= 0
    BY <2>7
  <2>9. h >= 2 => h * d >= 2 * d
    BY <2>7
  <2> QED
    BY <2>7, <2>8, <2>9
<1> QED
  BY <1>2, <1>3, <1>5, <1>6

\* What a placement keeps and what it makes up.
LEMMA PlacementFields ==
  ASSUME NEW assets \in Seq([Axes -> {Unset} \cup Int]), NEW b \in [Axes -> Int],
         NEW i \in DOMAIN assets, NEW p \in Placements(i, assets, b)
  PROVE  /\ \A a \in Axes : p[a] \in Int /\ (assets[i][a] # Unset => p[a] = assets[i][a])
         /\ assets[i].x = Unset => p.x \in Rounded(i * b.x, Len(assets) + 1)
<1> DEFINE given == assets[i]
<1>1. given \in [Axes -> {Unset} \cup Int] /\ i \in Nat \ {0} /\ Len(assets) \in Nat
  OBVIOUS
<1>2. b.x \in Int /\ i * b.x \in Int
  BY <1>1 DEF Axes
<1>3. PICK x \in IF given.x = Unset THEN Rounded(i * b.x, Len(assets) + 1) ELSE {given.x} :
        p = [x |-> x, y |-> IF given.y = Unset THEN 0 ELSE given.y,
                      z |-> IF given.z = Unset THEN 0 ELSE given.z]
  BY DEF Placements
<1>4. ASSUME given.x = Unset PROVE x \in Int
  <2>1. x \in Rounded(i * b.x, Len(assets) + 1) /\ Len(assets) + 1 \in Nat \ {0}
    BY <1>1, <1>3, <1>4
  <2>2. PICK k \in Int : x = 10 * k
    BY <1>2, <2>1, RoundedIsNear
  <2> QED
    BY <2>2
<1>5. p.x = x /\ p.x \in Int /\ (given.x # Unset => p.x = given.x)
  BY <1>1, <1>3, <1>4 DEF Axes
<1>6. p.y \in Int /\ (given.y # Unset => p.y = given.y)
  BY <1>1, <1>3 DEF Axes
<1>7. p.z \in Int /\ (given.z # Unset => p.z = given.z)
  BY <1>1, <1>3 DEF Axes
<1>8. given.x = Unset => p.x \in Rounded(i * b.x, Len(assets) + 1)
  BY <1>3, <1>5
<1> QED
  BY <1>5, <1>6, <1>7, <1>8 DEF Axes

\* A layout whose assets all lie within a canvas with room fits it, however many assets
\* there are and wherever they were dragged.
THEOREM PlacedWithinFits ==
  ASSUME NEW assets \in Seq([Axes -> {Unset} \cup Int]), NEW b \in [Axes -> Int],
         CanvasBounds(b), NEW l \in OptimizePlacement(assets, b),
         \A i \in DOMAIN l : IsWithinBounds(l[i], b)
  PROVE  Fits(assets, b, l)
<1>1. DOMAIN l = DOMAIN assets /\ \A i \in DOMAIN assets : l[i] \in Placements(i, assets, b)
  BY DEF OptimizePlacement
<1>2. \A i \in DOMAIN assets, a \in Axes :
        /\ l[i][a] \in 0..b[a]
        /\ assets[i][a] # Unset => l[i][a] = assets[i][a]
  BY <1>1, PlacementFields DEF IsWithinBounds
<1>3. ASSUME NEW i \in DOMAIN assets, NEW j \in DOMAIN assets,
             assets[i].x = Unset, assets[j].x = Unset, i < j
      PROVE  l[i].x <= l[j].x /\ (b.x >= 10 * (Len(assets) + 1) => l[i].x # l[j].x)
  <2>1. /\ l[i].x \in Rounded(i * b.x, Len(assets) + 1)
        /\ l[j].x \in Rounded(j * b.x, Len(assets) + 1)
    BY <1>1, <1>3, PlacementFields
  <2>2. i \in Int /\ j \in Int /\ b.x \in Int /\ b.x > 0 /\ Len(assets) + 1 \in Nat \ {0}
    BY DEF CanvasBounds, Axes
  <2> DEFINE r == l[i].x
             s == l[j].x
             w == b.x
             d == Len(assets) + 1
  <2> HIDE DEF r, s, w, d
  <2>3. /\ r \in Rounded(i * w, d) /\ s \in Rounded(j * w, d)
        /\ i \in Int /\ j \in Int /\ w \in Int /\ w > 0 /\ d \in Nat \ {0}
    BY <2>1, <2>2 DEF r, s, w, d
  <2>4. r <= s /\ (w >= 10 * d => r # s)
    BY <1>3, <2>3, RoundedKeepsOrder
  <2> QED
    BY <2>4 DEF r, s, w, d
<1> QED
  BY <1>1, <1>2, <1>3 DEF Fits

--------------------------------------------------------------------------------
(* Collisions, faults, and the records of a caller.                        *)

LEMMA DetectCounts == \A points \in Trajectories : Detect(points) \in Nat
<1> SUFFICES ASSUME NEW n \in 0..MaxPoints, NEW points \in [1..n -> [collided : BOOLEAN]]
             PROVE  Detect(points) \in Nat
  BY DEF Trajectories
<1>1. IsFiniteSet(1..n)
  BY PointsAssumption, FS_Interval
<1>2. {i \in DOMAIN points : points[i].collided} \subseteq 1..n
  OBVIOUS
<1>3. IsFiniteSet({i \in DOMAIN points : points[i].collided})
  BY <1>1, <1>2, FS_Subset
<1> QED
  BY <1>3, FS_CardinalityType DEF Detect

\* Only a hazardous fault keeps the robot stopped.
LEMMA FaultDecision ==
  ASSUME NEW f \in Faults
  PROVE  EvaluateFaultScenario(f) # "MAINTAIN_ESTOP" => ~Hazardous(f)
BY FaultsAssumption DEF EvaluateFaultScenario, Hazardous, CriticalObstacleDistance

Actions == {"ENFORCE_ESTOP", "DEPLOY_PACKAGE_SUCCESS", "DEPLOY_PACKAGE_FAILED"}
AuditRecords == [by : Callers, action : Actions]

\* A record is added to those of its caller and of nobody else.
LEMMA OneMoreRecord ==
  ASSUME trail \in Seq(AuditRecords), NEW c \in Callers, NEW action \in Actions,
         trail' = Append(trail, [by |-> c, action |-> action])
  PROVE  /\ trail' \in Seq(AuditRecords)
         /\ Records(c)' = Records(c) \cup {action}
         /\ \A d \in Callers : d # c => Records(d)' = Records(d)
<1> DEFINE r == [by |-> c, action |-> action]
           n == Len(trail) + 1
<1>1. r \in AuditRecords /\ r.by = c /\ r.action = action
  BY DEF AuditRecords
<1> HIDE DEF r
<1>2. /\ trail' \in Seq(AuditRecords)
      /\ DOMAIN trail' = DOMAIN trail \cup {n} /\ n \notin DOMAIN trail
      /\ trail'[n] = r /\ \A i \in DOMAIN trail : trail'[i] = trail[i]
  BY <1>1 DEF r
<1> HIDE DEF n
<1>3. Records(c)' = Records(c) \cup {action}
  BY <1>1, <1>2 DEF Records
<1>4. ASSUME NEW d \in Callers, d # c PROVE Records(d)' = Records(d)
  BY <1>1, <1>2, <1>4 DEF Records
<1> QED
  BY <1>2, <1>3, <1>4

--------------------------------------------------------------------------------
(* The invariant: what has happened and is recorded at each point of a call. *)

Phases == {"new", "simulating", "planning", "stopping", "stopped", "deploying", "deployed",
           "not deployed", "over"}
Answers == {"none", "forbidden", "invalid", "error", "bypass", "stopped", "no recovery",
            "collision", "ok"}
Placed == {<<>>} \cup UNION {OptimizePlacement(l.assets, l.bounds) : l \in Layouts}

Types ==
  /\ request \in [Callers -> Requests \cup {NoRequest}]
  /\ phase \in [Callers -> Phases]
  /\ answer \in [Callers -> Answers]
  /\ layout \in [Callers -> Placed]
  /\ stored \subseteq {"fault", "deploy"}
  /\ trail \in Seq(AuditRecords)
  /\ stops \subseteq Callers
  /\ runs \in [Callers -> Int]
  /\ fleet \subseteq Callers
  /\ lost \subseteq Callers
  /\ raised \subseteq Callers

\* Until a call is over nothing of it is recorded, nothing has run and no port has raised;
\* the robot is stopped and the fleet has the package only once the port call is behind it.
SoFar(c) ==
  /\ phase[c] # "over" => Records(c) = {} /\ runs[c] = NoRun /\ c \notin raised
  /\ c \in stops => phase[c] \in {"stopped", "over"}
  /\ c \in fleet => phase[c] \in {"deployed", "not deployed", "over"}
  /\ phase[c] = "stopped" => c \in stops
  /\ phase[c] = "deployed" => c \in fleet

\* The port calls belong to the operations, and no hazardous fault gets as far as a bypass.
Asked(c) ==
  /\ phase[c] \in {"simulating", "planning"} =>
       /\ request[c].op \in {"run", "recovery"}
       /\ request[c].op = "recovery" => ~Hazardous(request[c].fault)
  /\ phase[c] \in {"stopping", "stopped"} => request[c].op \in {"fault", "recovery"}
  /\ phase[c] \in {"deploying", "deployed", "not deployed"} => request[c].op = "deploy"

LayoutFits(c) ==
  request[c].op = "layout" /\ answer[c] = "ok" =>
    Fits(request[c].layout.assets, request[c].layout.bounds, layout[c])

CallerInv(c) ==
  /\ SoFar(c) /\ Asked(c)
  /\ Over(c) => Audited(c) /\ Truthful(c) /\ LayoutFits(c)

IInv == Types /\ \A c \in Callers : CallerInv(c)

--------------------------------------------------------------------------------
(* A step is about one caller.                                             *)

OnlyFor(c) == stored' = stored /\ \A d \in Callers \ {c} :
  /\ request'[d] = request[d] /\ phase'[d] = phase[d] /\ answer'[d] = answer[d]
  /\ layout'[d] = layout[d] /\ runs'[d] = runs[d] /\ Records(d)' = Records(d)
  /\ d \in stops' <=> d \in stops
  /\ d \in fleet' <=> d \in fleet
  /\ d \in lost => d \in lost'
  /\ d \in raised <=> d \in raised'

LEMMA OthersKeep ==
  ASSUME IInv, NEW c \in Callers, Types', OnlyFor(c), CallerInv(c)'
  PROVE  IInv'
<1> SUFFICES ASSUME NEW d \in Callers, d # c PROVE CallerInv(d)'
  BY DEF IInv
<1>1. CallerInv(d)
  BY DEF IInv
<1>2. SoFar(d)' /\ Asked(d)'
  BY <1>1 DEF OnlyFor, CallerInv, SoFar, Asked
<1>3. Over(d)' => Audited(d)' /\ Truthful(d)' /\ LayoutFits(d)'
  <2>1. Audited(d) => Audited(d)'
    BY DEF OnlyFor, Audited
  <2>2. Truthful(d) => Truthful(d)'
    BY DEF OnlyFor, Truthful
  <2>3. LayoutFits(d) => LayoutFits(d)'
    BY DEF OnlyFor, LayoutFits
  <2>4. Over(d)' => Over(d)
    BY DEF OnlyFor, Over
  <2> QED
    BY <1>1, <2>1, <2>2, <2>3, <2>4 DEF CallerInv
<1> QED
  BY <1>2, <1>3 DEF CallerInv

\* A call that is over has no further port call to make.
LEMMA CallIsOver ==
  ASSUME IInv, NEW c \in Callers, Types', OnlyFor(c), phase'[c] = "over",
         Audited(c)', Truthful(c)', LayoutFits(c)'
  PROVE  IInv'
<1>1. CallerInv(c)'
  BY DEF CallerInv, SoFar, Asked
<1> QED
  BY <1>1, OthersKeep

LEMMA NothingLogged ==
  ASSUME UNCHANGED trail
  PROVE  \A c \in Callers : Records(c)' = Records(c)
BY DEF Records

LEMMA Logged ==
  ASSUME Types, NEW c \in Callers, Records(c) = {}, NEW logger, NEW action \in Actions,
         Log(c, logger, action)
  PROVE  /\ trail' \in Seq(AuditRecords) /\ lost' \subseteq Callers /\ lost \subseteq lost'
         /\ \A d \in Callers : d # c => Records(d)' = Records(d)
         /\ Records(c)' \in {{}, {action}}
         /\ logger \in stored => Records(c)' = {action} \/ c \in lost'
<1>1. CASE logger \in stored /\ trail' = Append(trail, [by |-> c, action |-> action]) /\ UNCHANGED lost
  BY <1>1, OneMoreRecord DEF Types
<1>2. CASE lost' = lost \cup {c} /\ UNCHANGED trail
  BY <1>2, NothingLogged DEF Types
<1>3. CASE logger \notin stored /\ UNCHANGED <<trail, lost>>
  BY <1>3, NothingLogged DEF Types
<1> QED
  BY <1>1, <1>2, <1>3 DEF Log

LEMMA Finished ==
  ASSUME Types, NEW c \in Callers, NEW a \in Answers, Finish(c, a)
  PROVE  /\ phase' \in [Callers -> Phases] /\ phase'[c] = "over"
         /\ answer' \in [Callers -> Answers] /\ answer'[c] = a
         /\ \A d \in Callers : d # c => phase'[d] = phase[d] /\ answer'[d] = answer[d]
BY DEF Types, Finish, Phases

LEMMA WentOn ==
  ASSUME Types, NEW c \in Callers, NEW p \in Phases, Goto(c, p)
  PROVE  /\ phase' \in [Callers -> Phases] /\ phase'[c] = p
         /\ answer' = answer
         /\ \A d \in Callers : d # c => phase'[d] = phase[d]
BY DEF Types, Goto

--------------------------------------------------------------------------------
(* The operations as far as their first port call.                         *)

\* The role or the company is refused, before anything has happened, and without a record.
LEMMA RefusedIInv ==
  ASSUME IInv, NEW c \in Callers, NEW r \in Requests, phase[c] = "new",
         request' = [request EXCEPT ![c] = r],
         \/ Log(c, "guard", "ACCESS_DENIED") /\ Finish(c, "forbidden")
         \/ Finish(c, "invalid") /\ UNCHANGED <<trail, lost>>,
         UNCHANGED <<stored, stops, runs, fleet, raised, layout>>
  PROVE  IInv'
<1>1. Types /\ Records(c) = {} /\ runs[c] = NoRun /\ c \notin stops /\ c \notin fleet
      /\ c \notin raised
  BY DEF IInv, CallerInv, SoFar
<1>2. request' \in [Callers -> Requests \cup {NoRequest}] /\ request'[c] = r
      /\ \A d \in Callers : d # c => request'[d] = request[d]
  BY <1>1 DEF Types
<1>3. UNCHANGED <<trail, lost>>
  BY <1>1 DEF Log, Types
<1>4. PICK a \in {"forbidden", "invalid"} : Finish(c, a)
  OBVIOUS
<1>5. \A d \in Callers : Records(d)' = Records(d)
  BY <1>3, NothingLogged
<1>6. /\ phase' \in [Callers -> Phases] /\ phase'[c] = "over"
      /\ answer' \in [Callers -> Answers] /\ answer'[c] = a
      /\ \A d \in Callers : d # c => phase'[d] = phase[d] /\ answer'[d] = answer[d]
  <2>1. a \in Answers
    BY DEF Answers
  <2> QED
    BY <1>1, <1>4, <2>1, Finished
<1>7. Types' /\ OnlyFor(c)
  BY <1>1, <1>2, <1>3, <1>5, <1>6 DEF Types, OnlyFor
<1>8. Audited(c)' /\ Truthful(c)' /\ LayoutFits(c)'
  BY <1>1, <1>5, <1>6 DEF Audited, Truthful, LayoutFits
<1> QED
  BY <1>6, <1>7, <1>8, CallIsOver

\* The use case answers without a port call: it claims no run, no deployment and no stop,
\* nor anything but "invalid" to a hazardous fault.
LEMMA AnsweredIInv ==
  ASSUME IInv, NEW c \in Callers, NEW r \in Requests, phase[c] = "new",
         request' = [request EXCEPT ![c] = r],
         NEW a \in Answers, Finish(c, a), a \notin {"forbidden", "stopped"},
         a = "ok" => r.op = "status",
         r.op \in {"fault", "recovery"} /\ Hazardous(r.fault) => a = "invalid",
         UNCHANGED <<trail, lost, stored, stops, runs, fleet, raised, layout>>
  PROVE  IInv'
<1>1. Types /\ Records(c) = {} /\ runs[c] = NoRun /\ c \notin stops /\ c \notin fleet
      /\ c \notin raised
  BY DEF IInv, CallerInv, SoFar
<1>2. request' \in [Callers -> Requests \cup {NoRequest}] /\ request'[c] = r
      /\ \A d \in Callers : d # c => request'[d] = request[d]
  BY <1>1 DEF Types
<1>3. \A d \in Callers : Records(d)' = Records(d)
  BY NothingLogged
<1>4. /\ phase' \in [Callers -> Phases] /\ phase'[c] = "over"
      /\ answer' \in [Callers -> Answers] /\ answer'[c] = a
      /\ \A d \in Callers : d # c => phase'[d] = phase[d] /\ answer'[d] = answer[d]
  BY <1>1, Finished
<1>5. Types' /\ OnlyFor(c)
  BY <1>1, <1>2, <1>3, <1>4 DEF Types, OnlyFor
<1>6. Audited(c)'
  BY <1>1, <1>3, <1>4 DEF Audited
<1>7. Truthful(c)' /\ LayoutFits(c)'
  BY <1>2, <1>4 DEF Truthful, LayoutFits
<1> QED
  BY <1>4, <1>5, <1>6, <1>7, CallIsOver

\* The use case comes to its first port call.
LEMMA BegunIInv ==
  ASSUME IInv, NEW c \in Callers, NEW r \in Requests, phase[c] = "new",
         request' = [request EXCEPT ![c] = r],
         NEW p \in {"simulating", "planning", "stopping", "deploying"}, Goto(c, p),
         p \in {"simulating", "planning"} =>
           r.op \in {"run", "recovery"} /\ (r.op = "recovery" => ~Hazardous(r.fault)),
         p = "stopping" => r.op \in {"fault", "recovery"},
         p = "deploying" => r.op = "deploy",
         UNCHANGED <<trail, lost, stored, stops, runs, fleet, raised, layout>>
  PROVE  IInv'
<1>1. Types /\ Records(c) = {} /\ runs[c] = NoRun /\ c \notin stops /\ c \notin fleet
      /\ c \notin raised
  BY DEF IInv, CallerInv, SoFar
<1>2. request' \in [Callers -> Requests \cup {NoRequest}] /\ request'[c] = r
      /\ \A d \in Callers : d # c => request'[d] = request[d]
  BY <1>1 DEF Types
<1>3. \A d \in Callers : Records(d)' = Records(d)
  BY NothingLogged
<1>4. /\ phase' \in [Callers -> Phases] /\ phase'[c] = p /\ answer' = answer
      /\ \A d \in Callers : d # c => phase'[d] = phase[d]
  BY <1>1, WentOn DEF Phases
<1>5. Types' /\ OnlyFor(c)
  BY <1>1, <1>2, <1>3, <1>4 DEF Types, OnlyFor
<1>6. SoFar(c)' /\ Asked(c)' /\ ~Over(c)'
  BY <1>1, <1>2, <1>3, <1>4 DEF SoFar, Asked, Over
<1>7. CallerInv(c)'
  BY <1>6 DEF CallerInv
<1> QED
  BY <1>5, <1>7, OthersKeep

LEMMA RunFmsSimulationIInv ==
  ASSUME IInv, NEW c \in Callers, RunFmsSimulation(c)
  PROVE  IInv'
<1>1. PICK r \in RunRequests : Enter(c, r, RunScenario(c, r.scenario)) /\ UNCHANGED layout
  BY DEF RunFmsSimulation
<1>2. r \in Requests /\ r.op = "run"
  BY DEF Requests, RunRequests
<1>3. /\ phase[c] = "new" /\ request' = [request EXCEPT ![c] = r]
      /\ UNCHANGED <<stored, stops, runs, fleet, raised, layout>>
      /\ \/ Log(c, "guard", "ACCESS_DENIED") /\ Finish(c, "forbidden")
         \/ Finish(c, "invalid") /\ UNCHANGED <<trail, lost>>
         \/ RunScenario(c, r.scenario) /\ UNCHANGED <<trail, lost>>
  BY <1>1 DEF Enter
<1>4. CASE RunScenario(c, r.scenario) /\ UNCHANGED <<trail, lost>>
  <2>1. CASE Goto(c, "simulating")
    BY <1>2, <1>3, <1>4, <2>1, BegunIInv
  <2>2. CASE Finish(c, "invalid")
    BY <1>2, <1>3, <1>4, <2>2, RefusedIInv
  <2>3. CASE Finish(c, "error")
    <3>1. "error" \in Answers
      BY DEF Answers
    <3> QED
      BY <1>2, <1>3, <1>4, <2>3, <3>1, AnsweredIInv
  <2> QED
    BY <1>4, <2>1, <2>2, <2>3 DEF RunScenario
<1>5. CASE \/ Log(c, "guard", "ACCESS_DENIED") /\ Finish(c, "forbidden")
           \/ Finish(c, "invalid") /\ UNCHANGED <<trail, lost>>
  BY <1>2, <1>3, <1>5, RefusedIInv
<1> QED
  BY <1>3, <1>4, <1>5

\* A hazardous fault that is accepted goes on to the stop.
LEMMA InjectFaultOnlyIInv ==
  ASSUME IInv, NEW c \in Callers, InjectFaultOnly(c)
  PROVE  IInv'
<1>1. PICK r \in FaultRequests :
        Enter(c, r, InjectFault(c, r.fault, Finish(c, "bypass"))) /\ UNCHANGED layout
  BY DEF InjectFaultOnly
<1>2. r \in Requests /\ r.op = "fault" /\ r.fault \in Faults
  BY DEF Requests, FaultRequests
<1>3. /\ phase[c] = "new" /\ request' = [request EXCEPT ![c] = r]
      /\ UNCHANGED <<stored, stops, runs, fleet, raised, layout>>
      /\ \/ Log(c, "guard", "ACCESS_DENIED") /\ Finish(c, "forbidden")
         \/ Finish(c, "invalid") /\ UNCHANGED <<trail, lost>>
         \/ InjectFault(c, r.fault, Finish(c, "bypass")) /\ UNCHANGED <<trail, lost>>
  BY <1>1 DEF Enter
<1>4. CASE InjectFault(c, r.fault, Finish(c, "bypass")) /\ UNCHANGED <<trail, lost>>
  <2>1. CASE Finish(c, "invalid")
    BY <1>2, <1>3, <1>4, <2>1, RefusedIInv
  <2>2. CASE Goto(c, "stopping")
    BY <1>2, <1>3, <1>4, <2>2, BegunIInv
  <2>3. CASE Finish(c, "bypass") /\ EvaluateFaultScenario(r.fault) # "MAINTAIN_ESTOP"
    <3>1. ~Hazardous(r.fault) /\ "bypass" \in Answers
      BY <1>2, <2>3, FaultDecision DEF Answers
    <3> QED
      BY <1>2, <1>3, <1>4, <2>3, <3>1, AnsweredIInv
  <2> QED
    BY <1>4, <2>1, <2>2, <2>3 DEF InjectFault
<1>5. CASE \/ Log(c, "guard", "ACCESS_DENIED") /\ Finish(c, "forbidden")
           \/ Finish(c, "invalid") /\ UNCHANGED <<trail, lost>>
  BY <1>2, <1>3, <1>5, RefusedIInv
<1> QED
  BY <1>3, <1>4, <1>5

LEMMA SimulateFaultRecoveryIInv ==
  ASSUME IInv, NEW c \in Callers, SimulateFaultRecovery(c)
  PROVE  IInv'
<1>1. PICK r \in RecoveryRequests :
        Enter(c, r, InjectFault(c, r.fault, Goto(c, "planning"))) /\ UNCHANGED layout
  BY DEF SimulateFaultRecovery
<1>2. r \in Requests /\ r.op = "recovery" /\ r.fault \in Faults
  BY DEF Requests, RecoveryRequests
<1>3. /\ phase[c] = "new" /\ request' = [request EXCEPT ![c] = r]
      /\ UNCHANGED <<stored, stops, runs, fleet, raised, layout>>
      /\ \/ Log(c, "guard", "ACCESS_DENIED") /\ Finish(c, "forbidden")
         \/ Finish(c, "invalid") /\ UNCHANGED <<trail, lost>>
         \/ InjectFault(c, r.fault, Goto(c, "planning")) /\ UNCHANGED <<trail, lost>>
  BY <1>1 DEF Enter
<1>4. CASE InjectFault(c, r.fault, Goto(c, "planning")) /\ UNCHANGED <<trail, lost>>
  <2>1. CASE Finish(c, "invalid")
    BY <1>2, <1>3, <1>4, <2>1, RefusedIInv
  <2>2. CASE Goto(c, "stopping")
    BY <1>2, <1>3, <1>4, <2>2, BegunIInv
  <2>3. CASE Goto(c, "planning") /\ EvaluateFaultScenario(r.fault) # "MAINTAIN_ESTOP"
    <3>1. ~Hazardous(r.fault)
      BY <1>2, <2>3, FaultDecision
    <3> QED
      BY <1>2, <1>3, <1>4, <2>3, <3>1, BegunIInv
  <2> QED
    BY <1>4, <2>1, <2>2, <2>3 DEF InjectFault
<1>5. CASE \/ Log(c, "guard", "ACCESS_DENIED") /\ Finish(c, "forbidden")
           \/ Finish(c, "invalid") /\ UNCHANGED <<trail, lost>>
  BY <1>2, <1>3, <1>5, RefusedIInv
<1> QED
  BY <1>3, <1>4, <1>5

LEMMA DeploySim2RealIInv ==
  ASSUME IInv, NEW c \in Callers, DeploySim2Real(c)
  PROVE  IInv'
<1>1. PICK r \in DeployRequests :
        /\ Enter(c, r, IF DeployPackage(r.package) THEN Goto(c, "deploying")
                                                   ELSE Finish(c, "invalid"))
        /\ UNCHANGED layout
  BY DEF DeploySim2Real
<1>2. r \in Requests /\ r.op = "deploy"
  BY DEF Requests, DeployRequests
<1>3. /\ phase[c] = "new" /\ request' = [request EXCEPT ![c] = r]
      /\ UNCHANGED <<stored, stops, runs, fleet, raised, layout>>
      /\ \/ Log(c, "guard", "ACCESS_DENIED") /\ Finish(c, "forbidden")
         \/ Finish(c, "invalid") /\ UNCHANGED <<trail, lost>>
         \/ Goto(c, "deploying") /\ UNCHANGED <<trail, lost>>
  BY <1>1 DEF Enter
<1>4. CASE Goto(c, "deploying") /\ UNCHANGED <<trail, lost>>
  BY <1>2, <1>3, <1>4, BegunIInv
<1>5. CASE \/ Log(c, "guard", "ACCESS_DENIED") /\ Finish(c, "forbidden")
           \/ Finish(c, "invalid") /\ UNCHANGED <<trail, lost>>
  BY <1>2, <1>3, <1>5, RefusedIInv
<1> QED
  BY <1>3, <1>4, <1>5

LEMMA GetSimulationStatusIInv ==
  ASSUME IInv, NEW c \in Callers, GetSimulationStatus(c)
  PROVE  IInv'
<1>1. PICK r \in StatusRequests : Enter(c, r, Finish(c, "ok")) /\ UNCHANGED layout
  BY DEF GetSimulationStatus
<1>2. r \in Requests /\ r.op = "status"
  BY DEF Requests, StatusRequests
<1>3. /\ phase[c] = "new" /\ request' = [request EXCEPT ![c] = r]
      /\ UNCHANGED <<stored, stops, runs, fleet, raised, layout>>
      /\ \/ Log(c, "guard", "ACCESS_DENIED") /\ Finish(c, "forbidden")
         \/ Finish(c, "invalid") /\ UNCHANGED <<trail, lost>>
         \/ Finish(c, "ok") /\ UNCHANGED <<trail, lost>>
  BY <1>1 DEF Enter
<1>4. CASE Finish(c, "ok") /\ UNCHANGED <<trail, lost>>
  <2>1. "ok" \in Answers
    BY DEF Answers
  <2> QED
    BY <1>2, <1>3, <1>4, <2>1, AnsweredIInv
<1>5. CASE \/ Log(c, "guard", "ACCESS_DENIED") /\ Finish(c, "forbidden")
           \/ Finish(c, "invalid") /\ UNCHANGED <<trail, lost>>
  BY <1>2, <1>3, <1>5, RefusedIInv
<1> QED
  BY <1>3, <1>4, <1>5

\* The layout that is answered is the one the optimiser placed, and all of it fits.
LEMMA OptimizeLayoutIInv ==
  ASSUME IInv, NEW c \in Callers, OptimizeLayout(c)
  PROVE  IInv'
<1>1. PICK r \in LayoutRequests : \E l \in OptimizePlacement(r.layout.assets, r.layout.bounds) :
        LET fits == /\ CanvasBounds(r.layout.bounds)
                    /\ \A i \in DOMAIN l : IsWithinBounds(l[i], r.layout.bounds)
        IN /\ Enter(c, r, Finish(c, IF fits THEN "ok" ELSE "invalid"))
           /\ layout' = IF answer'[c] = "ok" THEN [layout EXCEPT ![c] = l] ELSE layout
  BY DEF OptimizeLayout
<1>2. PICK l \in OptimizePlacement(r.layout.assets, r.layout.bounds) :
        LET fits == /\ CanvasBounds(r.layout.bounds)
                    /\ \A i \in DOMAIN l : IsWithinBounds(l[i], r.layout.bounds)
        IN /\ Enter(c, r, Finish(c, IF fits THEN "ok" ELSE "invalid"))
           /\ layout' = IF answer'[c] = "ok" THEN [layout EXCEPT ![c] = l] ELSE layout
  BY <1>1
<1> DEFINE fits == /\ CanvasBounds(r.layout.bounds)
                   /\ \A i \in DOMAIN l : IsWithinBounds(l[i], r.layout.bounds)
<1>3. r \in Requests /\ r.op = "layout" /\ r.layout \in Layouts
  BY DEF Requests, LayoutRequests
<1>4. /\ phase[c] = "new" /\ request' = [request EXCEPT ![c] = r]
      /\ UNCHANGED <<stored, stops, runs, fleet, raised>>
      /\ layout' = IF answer'[c] = "ok" THEN [layout EXCEPT ![c] = l] ELSE layout
      /\ \/ Log(c, "guard", "ACCESS_DENIED") /\ Finish(c, "forbidden")
         \/ Finish(c, "invalid") /\ UNCHANGED <<trail, lost>>
         \/ fits /\ Finish(c, "ok") /\ UNCHANGED <<trail, lost>>
  BY <1>2 DEF Enter
<1>5. ASSUME fits, Finish(c, "ok"), UNCHANGED <<trail, lost>>
      PROVE  IInv'
  <2>1. Fits(r.layout.assets, r.layout.bounds, l)
    BY <1>3, <1>5, LayoutsAssumption, PlacedWithinFits
  <2>2. Types /\ Records(c) = {} /\ runs[c] = NoRun /\ c \notin stops \cup fleet \cup raised
    BY <1>4 DEF IInv, CallerInv, SoFar
  <2>3. request' \in [Callers -> Requests \cup {NoRequest}] /\ request'[c] = r
        /\ \A d \in Callers : d # c => request'[d] = request[d]
    BY <1>3, <1>4, <2>2 DEF Types
  <2>4. \A d \in Callers : Records(d)' = Records(d)
    BY <1>5, NothingLogged
  <2>5. /\ phase' \in [Callers -> Phases] /\ phase'[c] = "over"
        /\ answer' \in [Callers -> Answers] /\ answer'[c] = "ok"
        /\ \A d \in Callers : d # c => phase'[d] = phase[d] /\ answer'[d] = answer[d]
    <3>1. "ok" \in Answers
      BY DEF Answers
    <3> QED
      BY <1>5, <2>2, <3>1, Finished
  <2>6. layout' \in [Callers -> Placed] /\ layout'[c] = l
        /\ \A d \in Callers : d # c => layout'[d] = layout[d]
    <3>1. l \in Placed
      BY <1>3 DEF Placed
    <3> QED
      BY <1>4, <2>2, <2>5, <3>1 DEF Types
  <2>7. Types' /\ OnlyFor(c)
    BY <1>4, <1>5, <2>2, <2>3, <2>4, <2>5, <2>6 DEF Types, OnlyFor
  <2>8. Audited(c)' /\ Truthful(c)' /\ LayoutFits(c)'
    BY <1>3, <1>4, <2>1, <2>2, <2>3, <2>4, <2>5, <2>6 DEF Audited, Truthful, LayoutFits
  <2> QED
    BY <2>5, <2>7, <2>8, CallIsOver
<1>6. CASE \/ Log(c, "guard", "ACCESS_DENIED") /\ Finish(c, "forbidden")
           \/ Finish(c, "invalid") /\ UNCHANGED <<trail, lost>>
  <2>1. answer'[c] # "ok"
    BY <1>6 DEF Finish, IInv, Types
  <2> QED
    BY <1>3, <1>4, <1>6, <2>1, RefusedIInv
<1> QED
  BY <1>4, <1>5, <1>6

--------------------------------------------------------------------------------
(* The port calls.                                                         *)

\* A port call that does not end the call, whatever it did.
LEMMA GoesOnIInv ==
  ASSUME IInv, NEW c \in Callers, NEW p \in Phases \ {"new", "over"}, Goto(c, p),
         stops' \subseteq Callers, fleet' \subseteq Callers,
         stops \subseteq stops', stops' \subseteq stops \cup {c},
         fleet \subseteq fleet', fleet' \subseteq fleet \cup {c},
         phase[c] # "over",
         c \in stops' <=> p = "stopped",
         c \in fleet' => p \in {"deployed", "not deployed"},
         p = "deployed" => c \in fleet', Asked(c)',
         UNCHANGED <<request, layout, stored, trail, runs, lost, raised>>
  PROVE  IInv'
<1>1. Types /\ Records(c) = {} /\ runs[c] = NoRun /\ c \notin raised
  BY DEF IInv, CallerInv, SoFar
<1>2. \A d \in Callers : Records(d)' = Records(d)
  BY NothingLogged
<1>3. /\ phase' \in [Callers -> Phases] /\ phase'[c] = p /\ answer' = answer
      /\ \A d \in Callers : d # c => phase'[d] = phase[d]
  BY <1>1, WentOn
<1>4. Types' /\ OnlyFor(c)
  BY <1>1, <1>2, <1>3 DEF Types, OnlyFor
<1>5. SoFar(c)' /\ ~Over(c)'
  BY <1>1, <1>2, <1>3 DEF SoFar, Over
<1> QED
  BY <1>4, <1>5, OthersKeep DEF CallerInv

\* A call that ends with nothing more recorded of it.
LEMMA EndsIInv ==
  ASSUME IInv, NEW c \in Callers, NEW a \in Answers, Finish(c, a), phase[c] \notin {"new", "over"},
         stops \subseteq stops', stops' \subseteq stops \cup {c},
         fleet \subseteq fleet', fleet' \subseteq fleet \cup {c},
         raised' \in {raised, raised \cup {c}},
         runs' \in [Callers -> Int], \A d \in Callers : d # c => runs'[d] = runs[d],
         UNCHANGED <<request, layout, stored, trail, lost>>,
         c \in stops' \cup fleet' => c \in raised',
         c \in raised' => a = "error",
         a \notin {"forbidden", "stopped"}, Truthful(c)', LayoutFits(c)'
  PROVE  IInv'
<1>1. Types /\ Records(c) = {} /\ c \notin raised
  BY DEF IInv, CallerInv, SoFar
<1>2. \A d \in Callers : Records(d)' = Records(d)
  BY NothingLogged
<1>3. /\ phase' \in [Callers -> Phases] /\ phase'[c] = "over"
      /\ answer' \in [Callers -> Answers] /\ answer'[c] = a
      /\ \A d \in Callers : d # c => phase'[d] = phase[d] /\ answer'[d] = answer[d]
  BY <1>1, Finished
<1>4. Types' /\ OnlyFor(c)
  BY <1>1, <1>2, <1>3 DEF Types, OnlyFor
<1>5. Audited(c)'
  BY <1>1, <1>2, <1>3 DEF Audited
<1> QED
  BY <1>3, <1>4, <1>5, CallIsOver

\* A call that ends with a record, if the repository takes it.
LEMMA EndsLoggedIInv ==
  ASSUME IInv, NEW c \in Callers, NEW a \in Answers, Finish(c, a),
         NEW logger \in {"fault", "deploy"}, NEW action \in Actions, Log(c, logger, action),
         phase[c] \notin {"new", "over"}, a # "forbidden",
         logger = "fault" <=> action = "ENFORCE_ESTOP",
         c \in stops => logger = "fault", c \in fleet => logger = "deploy",
         action = "ENFORCE_ESTOP" => c \in stops /\ a = "stopped",
         action = "DEPLOY_PACKAGE_SUCCESS" => c \in fleet /\ a = "ok",
         action = "DEPLOY_PACKAGE_FAILED" => a = "error",
         UNCHANGED <<request, layout, stored, stops, runs, fleet, raised>>,
         Truthful(c)', LayoutFits(c)'
  PROVE  IInv'
<1>1. Types /\ Records(c) = {} /\ runs[c] = NoRun /\ c \notin raised
  BY DEF IInv, CallerInv, SoFar
<1>2. /\ trail' \in Seq(AuditRecords) /\ lost' \subseteq Callers /\ lost \subseteq lost'
      /\ \A d \in Callers : d # c => Records(d)' = Records(d)
      /\ Records(c)' \in {{}, {action}}
      /\ logger \in stored => Records(c)' = {action} \/ c \in lost'
  BY <1>1, Logged
<1>3. /\ phase' \in [Callers -> Phases] /\ phase'[c] = "over"
      /\ answer' \in [Callers -> Answers] /\ answer'[c] = a
      /\ \A d \in Callers : d # c => phase'[d] = phase[d] /\ answer'[d] = answer[d]
  BY <1>1, Finished
<1>4. Types' /\ OnlyFor(c)
  BY <1>1, <1>2, <1>3 DEF Types, OnlyFor
<1>5. Audited(c)'
  <2>1. action \in {"ENFORCE_ESTOP", "DEPLOY_PACKAGE_SUCCESS", "DEPLOY_PACKAGE_FAILED"}
    BY DEF Actions
  <2>2. c \in stops /\ "fault" \in stored => "ENFORCE_ESTOP" \in Records(c)' \/ c \in lost'
    BY <1>2
  <2>3. c \in fleet /\ "deploy" \in stored =>
          \/ Records(c)' \cap {"DEPLOY_PACKAGE_SUCCESS", "DEPLOY_PACKAGE_FAILED"} # {}
          \/ c \in lost'
    <3> SUFFICES ASSUME c \in fleet, "deploy" \in stored, c \notin lost'
                 PROVE  Records(c)' \cap {"DEPLOY_PACKAGE_SUCCESS", "DEPLOY_PACKAGE_FAILED"} # {}
      OBVIOUS
    <3>1. logger = "deploy" /\ Records(c)' = {action}
      BY <1>2
    <3>2. action \in {"DEPLOY_PACKAGE_SUCCESS", "DEPLOY_PACKAGE_FAILED"}
      BY <2>1, <3>1
    <3> QED
      BY <3>1, <3>2
  <2>4. /\ "ENFORCE_ESTOP" \in Records(c)' => action = "ENFORCE_ESTOP"
        /\ "DEPLOY_PACKAGE_SUCCESS" \in Records(c)' => action = "DEPLOY_PACKAGE_SUCCESS"
        /\ "DEPLOY_PACKAGE_FAILED" \in Records(c)' => action = "DEPLOY_PACKAGE_FAILED"
    BY <1>2
  <2> QED
    BY <1>1, <1>3, <2>2, <2>3, <2>4 DEF Audited
<1> QED
  BY <1>3, <1>4, <1>5, CallIsOver

\* The stop reaches the engine, or the engine raises, before or after it.
LEMMA TriggerFailsafeStopIInv ==
  ASSUME IInv, NEW c \in Callers, TriggerFailsafeStop(c)
  PROVE  IInv'
<1>1. /\ phase[c] = "stopping" /\ UNCHANGED <<request, layout, stored, trail, runs, fleet, lost>>
      /\ Types /\ runs[c] = NoRun /\ c \notin stops /\ c \notin fleet
      /\ request[c].op \in {"fault", "recovery"}
  BY DEF TriggerFailsafeStop, At, IInv, CallerInv, SoFar, Asked
<1>2. CASE stops' = stops \cup {c} /\ Goto(c, "stopped") /\ UNCHANGED raised
  <2>1. phase'[c] = "stopped" /\ "stopped" \in Phases
    BY <1>1, <1>2, WentOn DEF Phases
  <2>2. Asked(c)'
    BY <1>1, <2>1 DEF Asked
  <2> QED
    BY <1>1, <1>2, <2>1, <2>2, GoesOnIInv DEF Types
<1>3. CASE stops' \in MayAdd(stops, c) /\ raised' = raised \cup {c} /\ Finish(c, "error")
  <2>1. answer'[c] = "error" /\ "error" \in Answers
    BY <1>1, <1>3, Finished DEF Answers
  <2>2. Truthful(c)' /\ LayoutFits(c)'
    BY <1>1, <1>3, <2>1 DEF Truthful, LayoutFits
  <2>3. /\ stops \subseteq stops' /\ stops' \subseteq stops \cup {c} /\ c \in raised'
        /\ runs' \in [Callers -> Int]
    BY <1>1, <1>3 DEF MayAdd, Types
  <2> QED
    BY <1>1, <1>3, <2>1, <2>2, <2>3, EndsIInv
<1> QED
  BY <1>2, <1>3 DEF TriggerFailsafeStop

LEMMA EnforceEstopIInv ==
  ASSUME IInv, NEW c \in Callers, EnforceEstop(c)
  PROVE  IInv'
<1>1. /\ phase[c] = "stopped" /\ UNCHANGED <<request, layout, stored, stops, runs, fleet, raised>>
      /\ Log(c, "fault", "ENFORCE_ESTOP") /\ Finish(c, "stopped")
      /\ Types /\ runs[c] = NoRun /\ c \in stops /\ c \notin fleet
      /\ request[c].op \in {"fault", "recovery"}
  BY DEF EnforceEstop, At, IInv, CallerInv, SoFar, Asked
<1>2. answer'[c] = "stopped" /\ "stopped" \in Answers
  BY <1>1, Finished DEF Answers
<1>3. Truthful(c)' /\ LayoutFits(c)'
  BY <1>1, <1>2 DEF Truthful, LayoutFits
<1> QED
  BY <1>1, <1>2, <1>3, EndsLoggedIInv DEF Actions

\* Only a fault that is not hazardous is planned around.
LEMMA PlanBypassRecoveryIInv ==
  ASSUME IInv, NEW c \in Callers, PlanBypassRecovery(c)
  PROVE  IInv'
<1>1. /\ phase[c] = "planning"
      /\ UNCHANGED <<request, layout, stored, trail, stops, runs, fleet, lost, raised>>
      /\ Types /\ runs[c] = NoRun /\ c \notin stops \cup fleet \cup raised
      /\ request[c].op \in {"run", "recovery"}
      /\ request[c].op = "recovery" => ~Hazardous(request[c].fault)
  BY DEF PlanBypassRecovery, At, IInv, CallerInv, SoFar, Asked
<1>2. ASSUME NEW a \in {"error", "no recovery", "invalid"}, Finish(c, a)
      PROVE  IInv'
  <2>1. answer'[c] = a /\ a \in Answers
    BY <1>1, <1>2, Finished DEF Answers
  <2>2. Truthful(c)' /\ LayoutFits(c)'
    BY <1>1, <1>2, <2>1 DEF Truthful, LayoutFits
  <2>3. runs' \in [Callers -> Int]
    BY <1>1 DEF Types
  <2> QED
    BY <1>1, <1>2, <2>1, <2>2, <2>3, EndsIInv
<1>3. CASE Goto(c, "simulating")
  <2>1. phase'[c] = "simulating" /\ "simulating" \in Phases
    BY <1>1, <1>3, WentOn DEF Phases
  <2>2. Asked(c)'
    BY <1>1, <2>1 DEF Asked
  <2> QED
    BY <1>1, <1>3, <2>1, <2>2, GoesOnIInv DEF Types
<1> QED
  BY <1>2, <1>3 DEF PlanBypassRecovery, RunScenario

\* "ok" is a run that showed no collision.
LEMMA SimulateScenarioIInv ==
  ASSUME IInv, NEW c \in Callers, SimulateScenario(c)
  PROVE  IInv'
<1>1. /\ phase[c] = "simulating"
      /\ UNCHANGED <<request, layout, stored, trail, stops, fleet, lost>>
      /\ Types /\ c \notin stops \cup fleet \cup raised
      /\ request[c].op \in {"run", "recovery"}
      /\ request[c].op = "recovery" => ~Hazardous(request[c].fault)
  BY DEF SimulateScenario, At, IInv, CallerInv, SoFar, Asked
<1>2. CASE Finish(c, "error") /\ raised' = raised \cup {c} /\ UNCHANGED runs
  <2>1. answer'[c] = "error" /\ "error" \in Answers
    BY <1>1, <1>2, Finished DEF Answers
  <2>2. Truthful(c)' /\ LayoutFits(c)'
    BY <1>1, <2>1 DEF Truthful, LayoutFits
  <2>3. runs' \in [Callers -> Int]
    BY <1>1, <1>2 DEF Types
  <2> QED
    BY <1>1, <1>2, <2>1, <2>2, <2>3, EndsIInv
<1>3. ASSUME NEW points \in Trajectories, runs' = [runs EXCEPT ![c] = Detect(points)],
             Finish(c, IF Detect(points) > 0 THEN "collision" ELSE "ok"), UNCHANGED raised
      PROVE  IInv'
  <2> DEFINE n == Detect(points)
             a == IF n > 0 THEN "collision" ELSE "ok"
  <2>1. n \in Nat
    BY DetectCounts
  <2>2. a \in Answers /\ Finish(c, a) /\ runs' = [runs EXCEPT ![c] = n]
        /\ (a = "ok" => n = 0) /\ a \notin {"stopped", "forbidden"}
    BY <1>3, <2>1 DEF Answers
  <2> HIDE DEF n, a
  <2>3. /\ answer'[c] = a /\ runs'[c] = n /\ runs' \in [Callers -> Int]
        /\ \A d \in Callers : d # c => runs'[d] = runs[d]
    BY <1>1, <2>1, <2>2, Finished DEF Types
  <2>4. Truthful(c)' /\ LayoutFits(c)'
    BY <1>1, <2>2, <2>3 DEF Truthful, LayoutFits
  <2> QED
    BY <1>1, <1>3, <2>2, <2>3, <2>4, EndsIInv
<1> QED
  BY <1>2, <1>3 DEF SimulateScenario

LEMMA DeployToFleetIInv ==
  ASSUME IInv, NEW c \in Callers, DeployToFleet(c)
  PROVE  IInv'
<1>1. /\ phase[c] = "deploying" /\ UNCHANGED <<request, layout, stored, trail, stops, runs, lost>>
      /\ Types /\ runs[c] = NoRun /\ c \notin stops \cup fleet \cup raised
      /\ request[c].op = "deploy"
      /\ fleet \subseteq fleet' /\ fleet' \subseteq fleet \cup {c}
  BY DEF DeployToFleet, At, MayAdd, IInv, CallerInv, SoFar, Asked
<1>2. ASSUME NEW p \in {"deployed", "not deployed"}, Goto(c, p), UNCHANGED raised,
             p = "deployed" => c \in fleet'
      PROVE  IInv'
  <2>1. phase'[c] = p /\ p \in Phases
    BY <1>1, <1>2, WentOn DEF Phases
  <2>2. Asked(c)'
    BY <1>1, <2>1 DEF Asked
  <2>3. /\ stops' = stops /\ stops \subseteq Callers /\ fleet' \subseteq Callers
        /\ p \in Phases \ {"new", "over", "stopped"}
    BY <1>1, <1>2, <2>1 DEF Types
  <2> QED
    BY <1>1, <1>2, <2>2, <2>3, GoesOnIInv
<1>3. CASE raised' = raised \cup {c} /\ Finish(c, "error")
  <2>1. answer'[c] = "error" /\ "error" \in Answers
    BY <1>1, <1>3, Finished DEF Answers
  <2>2. Truthful(c)' /\ LayoutFits(c)'
    BY <1>1, <2>1 DEF Truthful, LayoutFits
  <2>3. runs' \in [Callers -> Int]
    BY <1>1 DEF Types
  <2> QED
    BY <1>1, <1>3, <2>1, <2>2, <2>3, EndsIInv
<1> QED
  BY <1>2, <1>3 DEF DeployToFleet

\* A deployment that is audited as a success is with the fleet.
LEMMA AuditDeploymentIInv ==
  ASSUME IInv, NEW c \in Callers, AuditDeployment(c)
  PROVE  IInv'
<1>1. /\ phase[c] \in {"deployed", "not deployed"}
      /\ UNCHANGED <<request, layout, stored, stops, runs, fleet, raised>>
      /\ Types /\ runs[c] = NoRun /\ request[c].op = "deploy" /\ c \notin stops
      /\ phase[c] = "deployed" => c \in fleet
  BY DEF AuditDeployment, At, IInv, CallerInv, SoFar, Asked
<1>2. CASE phase[c] = "deployed" /\ Log(c, "deploy", "DEPLOY_PACKAGE_SUCCESS") /\ Finish(c, "ok")
  <2>1. answer'[c] = "ok" /\ "ok" \in Answers
    BY <1>1, <1>2, Finished DEF Answers
  <2>2. Truthful(c)' /\ LayoutFits(c)'
    BY <1>1, <1>2, <2>1 DEF Truthful, LayoutFits
  <2> QED
    BY <1>1, <1>2, <2>1, <2>2, EndsLoggedIInv DEF Actions
<1>3. CASE phase[c] = "not deployed" /\ Log(c, "deploy", "DEPLOY_PACKAGE_FAILED") /\ Finish(c, "error")
  <2>1. answer'[c] = "error" /\ "error" \in Answers
    BY <1>1, <1>3, Finished DEF Answers
  <2>2. Truthful(c)' /\ LayoutFits(c)'
    BY <1>1, <2>1 DEF Truthful, LayoutFits
  <2> QED
    BY <1>1, <1>3, <2>1, <2>2, EndsLoggedIInv DEF Actions
<1> QED
  BY <1>2, <1>3 DEF AuditDeployment, At

--------------------------------------------------------------------------------
(* The theorems.                                                           *)

LEMMA InitIInv == Init => IInv
<1> SUFFICES ASSUME Init PROVE IInv
  OBVIOUS
<1>1. Types
  <2>1. NoRun \in Int
    BY DEF NoRun
  <2> QED
    BY <2>1 DEF Init, Types, Phases, Answers, Placed
<1>2. ASSUME NEW c \in Callers PROVE CallerInv(c)
  <2>1. phase[c] = "new" /\ Records(c) = {}
    BY DEF Init, Records
  <2> QED
    BY <2>1 DEF Init, CallerInv, SoFar, Asked, Over
<1> QED
  BY <1>1, <1>2 DEF IInv

LEMMA NextIInv == IInv /\ [Next]_vars => IInv'
<1> SUFFICES ASSUME IInv, [Next]_vars PROVE IInv'
  OBVIOUS
<1>1. ASSUME NEW c \in Callers, RunFmsSimulation(c) PROVE IInv'
  BY <1>1, RunFmsSimulationIInv
<1>2. ASSUME NEW c \in Callers, InjectFaultOnly(c) PROVE IInv'
  BY <1>2, InjectFaultOnlyIInv
<1>3. ASSUME NEW c \in Callers, SimulateFaultRecovery(c) PROVE IInv'
  BY <1>3, SimulateFaultRecoveryIInv
<1>4. ASSUME NEW c \in Callers, DeploySim2Real(c) PROVE IInv'
  BY <1>4, DeploySim2RealIInv
<1>5. ASSUME NEW c \in Callers, OptimizeLayout(c) PROVE IInv'
  BY <1>5, OptimizeLayoutIInv
<1>6. ASSUME NEW c \in Callers, GetSimulationStatus(c) PROVE IInv'
  BY <1>6, GetSimulationStatusIInv
<1>7. ASSUME NEW c \in Callers, TriggerFailsafeStop(c) PROVE IInv'
  BY <1>7, TriggerFailsafeStopIInv
<1>8. ASSUME NEW c \in Callers, EnforceEstop(c) PROVE IInv'
  BY <1>8, EnforceEstopIInv
<1>9. ASSUME NEW c \in Callers, PlanBypassRecovery(c) PROVE IInv'
  BY <1>9, PlanBypassRecoveryIInv
<1>10. ASSUME NEW c \in Callers, SimulateScenario(c) PROVE IInv'
  BY <1>10, SimulateScenarioIInv
<1>11. ASSUME NEW c \in Callers, DeployToFleet(c) PROVE IInv'
  BY <1>11, DeployToFleetIInv
<1>12. ASSUME NEW c \in Callers, AuditDeployment(c) PROVE IInv'
  BY <1>12, AuditDeploymentIInv
<1>13. CASE UNCHANGED vars
  <2>1. \A c \in Callers : Records(c)' = Records(c)
    BY <1>13, NothingLogged DEF vars
  <2> QED
    BY <1>13, <2>1 DEF vars, IInv, Types, CallerInv, SoFar, Asked, Over, Audited, Truthful,
                       LayoutFits
<1> QED
  BY <1>1, <1>2, <1>3, <1>4, <1>5, <1>6, <1>7, <1>8, <1>9, <1>10, <1>11, <1>12, <1>13 DEF Next

\* The invariant of the component: what every call has done so far and what the trail
\* says of it.
THEOREM SimulationInvariant == Spec => []IInv
BY InitIInv, NextIInv, PTL DEF Spec

\* Whichever use cases log to a repository: a stop or a deployment of such a use case is in
\* the trail when the call is over, unless the record was refused or the port raised - and
\* then the caller was answered an error; the trail claims nothing that did not happen,
\* and holds no refused role.
THEOREM TrailIsTrue == Spec => []EffectsAudited
<1>1. IInv => EffectsAudited
  BY DEF IInv, CallerInv, EffectsAudited
<1> QED
  BY <1>1, SimulationInvariant, PTL

\* "ok" is a run without collision or a package with the fleet, and a hazardous fault that
\* is accepted ends with a stop.
THEOREM AnswersAreHonest == Spec => []AnswersTellTheTruth
<1>1. IInv => AnswersTellTheTruth
  BY DEF IInv, CallerInv, AnswersTellTheTruth
<1> QED
  BY <1>1, SimulationInvariant, PTL

\* A layout that is answered lies within the canvas, keeps what was given, and keeps the
\* order and, if there is room, the distinctness of the assets placed automatically.
THEOREM AnsweredLayoutsFit == Spec => []LayoutsFit
<1>1. IInv => LayoutsFit
  BY DEF IInv, CallerInv, LayoutFits, LayoutsFit
<1> QED
  BY <1>1, SimulationInvariant, PTL

================================================================================
