------------------------- MODULE PhysicsServiceProofs -------------------------
(***************************************************************************)
(* Proofs about PhysicsService, for any callers, any lengths of a run and  *)
(* any number of calls, E-stops and deaths.                                *)
(*                                                                         *)
(* TypeOK is not inductive: that a run makes no more steps than it was     *)
(* asked for rests on the loop having looked before every step.  RunInv    *)
(* says what is known at each place of the loop - how many points there    *)
(* are for the steps made, and that the lock and the history of E-stops    *)
(* agree while a run is in the loop - and AnswersInv what is left of it in *)
(* an answer.                                                              *)
(***************************************************************************)
EXTENDS PhysicsService, TLAPS

InLoop == In("check") \/ In("step") \/ In("record")

\* In the loop an E-stop has struck this run exactly when the engine is locked.
LockInv == InLoop => (locked <=> run.cut # {})

PaceInv ==
  /\ In("load") => run.points = 0 /\ run.moves = 0 /\ run.cut = {}
  /\ In("check") => /\ run.points <= run.todo
                    /\ \/ run.points = run.moves
                       \/ run.points = run.moves + 1 /\ locked
  /\ In("step") => run.points < run.todo /\ run.points = run.moves
  /\ In("record") => /\ run.points < run.todo
                     /\ \/ run.moves = run.points + 1
                        \/ run.moves = run.points /\ locked

RunInv == LockInv /\ PaceInv

AnswersInv == TrajectoryEnds /\ SuccessIsWhole

IInv == TypeOK /\ RunInv /\ StopIsFinal /\ AnswersInv

-----------------------------------------------------------------------------
(* Nothing but the run and the lock matters to RunInv and the first half   *)
(* of StopIsFinal, and nothing but the answers on their way to the rest.   *)

LEMMA SameRun ==
  ASSUME RunInv, UNCHANGED <<run, locked>>
  PROVE  RunInv'
BY DEF RunInv, LockInv, PaceInv, InLoop, In

LEMMA SameAnswers ==
  ASSUME StopIsFinal, AnswersInv, outbox' \subseteq outbox, UNCHANGED run
  PROVE  StopIsFinal' /\ AnswersInv'
BY DEF StopIsFinal, AnswersInv, TrajectoryEnds, SuccessIsWhole, In

\* What every run in progress is made of.
LEMMA RunType ==
  ASSUME TypeOK, ~In("idle")
  PROVE  /\ run \in Runs
         /\ run = [at |-> run.at, id |-> run.id, todo |-> run.todo,
                   points |-> run.points, moves |-> run.moves, cut |-> run.cut]
         /\ run.at \in {"load", "check", "step", "record"}
         /\ run.id \in Ids
         /\ run.todo \in 0 .. MaxSteps /\ run.todo \in Nat
         /\ run.points \in 0 .. MaxSteps /\ run.points \in Nat
         /\ run.moves \in 0 .. MaxSteps /\ run.moves \in Nat
         /\ run.cut \in SUBSET (0 .. MaxSteps)
<1>1. run # Idle
  BY DEF In, Idle
<1>2. run \in Runs
  BY <1>1 DEF TypeOK
<1> QED
  BY <1>2, ServiceAssumption DEF Runs

\* An answer keeps what the run was like when it ended.
LEMMA AnswerKeeps ==
  ASSUME TypeOK, StopIsFinal, AnswersInv, ~In("idle"), NEW success \in BOOLEAN,
         Answer(success),
         run.points <= run.moves + (IF run.cut = {} THEN 0 ELSE 1),
         success /\ run.cut = {} => run.points = run.todo /\ run.moves = run.todo
  PROVE  StopIsFinal' /\ AnswersInv' /\ outbox' \subseteq Answers
<1> DEFINE a == [id |-> run.id, todo |-> run.todo, success |-> success,
                 points |-> run.points, moves |-> run.moves, cut |-> run.cut]
<1>1. outbox' = outbox \cup {a} /\ run' = Idle
  BY DEF Answer
<1>2. a \in Answers
  BY RunType DEF Answers
<1>3. run.cut \subseteq {run.moves}
  BY DEF StopIsFinal
<1>4. outbox' \subseteq Answers
  BY <1>1, <1>2 DEF TypeOK
<1>5. StopIsFinal'
  <2>1. In("idle")'
    BY <1>1 DEF In, Idle
  <2>2. ASSUME NEW b \in outbox' PROVE b.cut \subseteq {b.moves}
    BY <1>1, <1>3 DEF StopIsFinal
  <2> QED
    BY <2>1, <2>2 DEF StopIsFinal
<1>6. AnswersInv'
  <2>1. ASSUME NEW b \in outbox'
        PROVE  /\ b.points <= b.moves + (IF b.cut = {} THEN 0 ELSE 1)
               /\ b.success /\ b.cut = {} => b.points = b.todo /\ b.moves = b.todo
    <3>1. CASE b \in outbox
      BY <3>1 DEF AnswersInv, TrajectoryEnds, SuccessIsWhole
    <3>2. CASE b = a
      BY <3>2
    <3> QED
      BY <1>1, <3>1, <3>2
  <2> QED
    BY <2>1 DEF AnswersInv, TrajectoryEnds, SuccessIsWhole
<1> QED
  BY <1>4, <1>5, <1>6

-----------------------------------------------------------------------------
LEMMA InitInv == Init => IInv
<1> SUFFICES ASSUME Init PROVE IInv
  OBVIOUS
<1>1. TypeOK
  <2>1. call \in [Callers -> {Idle} \cup {Finding(i) : i \in Ids}
                             \cup {Pending(i) : i \in Ids} \cup {Done(a) : a \in Answers}]
    BY DEF Init
  <2>2. /\ calls \in 0 .. MaxCalls /\ queued \in 0 .. QueueDepth
        /\ stops \in 0 .. MaxStops /\ deaths \in 0 .. MaxDeaths
    BY ServiceAssumption DEF Init
  <2> QED
    BY <2>1, <2>2 DEF Init, TypeOK
<1>2. RunInv /\ StopIsFinal
  BY DEF Init, RunInv, LockInv, PaceInv, InLoop, In, Idle, StopIsFinal
<1>3. AnswersInv
  BY DEF Init, AnswersInv, TrajectoryEnds, SuccessIsWhole
<1> QED
  BY <1>1, <1>2, <1>3 DEF IInv

\* The callers, the messages and the topic leave the node alone.
LEMMA ClientKeeps == IInv /\ ClientStep /\ UNCHANGED up => IInv'
<1> SUFFICES ASSUME IInv, ClientStep, UNCHANGED up PROVE IInv'
  OBVIOUS
<1> USE DEF clientVars, nodeVars, budget
<1>1. UNCHANGED <<run, locked>> /\ outbox' \subseteq outbox
  BY DEF ClientStep, WaitForService, CallAsync, TimesOut, Return, Deliver, PublishEstop
<1>2. RunInv' /\ StopIsFinal' /\ AnswersInv'
  BY <1>1, SameRun, SameAnswers DEF IInv
<1>3. TypeOK'
  <2> USE DEF TypeOK, IInv
  <2>1. ASSUME NEW c \in Callers, WaitForService(c) PROVE TypeOK'
    <3>1. calls + 1 \in Ids
      BY <2>1, ServiceAssumption DEF WaitForService, Ids
    <3> QED
      BY <2>1, <3>1 DEF WaitForService, Ids
  <2>2. ASSUME NEW c \in Callers, NEW todo \in 0 .. MaxSteps, CallAsync(c, todo)
        PROVE  TypeOK'
    <3>1. call[c].id \in Ids
      BY <2>2 DEF CallAsync, Idle, Finding, Pending, Done
    <3>2. [id |-> call[c].id, todo |-> todo] \in Requests
      BY <3>1 DEF Requests
    <3>3. Pending(call[c].id) \in {Pending(i) : i \in Ids}
      BY <3>1
    <3> QED
      BY <2>2, <3>2, <3>3 DEF CallAsync
  <2>3. ASSUME NEW c \in Callers, TimesOut(c) PROVE TypeOK'
    BY <2>3 DEF TimesOut
  <2>4. ASSUME NEW c \in Callers, Return(c) PROVE TypeOK'
    BY <2>4 DEF Return
  <2>5. ASSUME NEW a \in outbox, Deliver(a) PROVE TypeOK'
    <3>1. Done(a) \in {Done(b) : b \in Answers}
      OBVIOUS
    <3> QED
      BY <2>5, <3>1 DEF Deliver
  <2>6. ASSUME PublishEstop PROVE TypeOK'
    BY <2>6, ServiceAssumption DEF PublishEstop
  <2> QED
    BY <2>1, <2>2, <2>3, <2>4, <2>5, <2>6 DEF ClientStep
<1> QED
  BY <1>2, <1>3 DEF IInv

\* The node: each step of the loop, the two ways to be stopped, and what the run
\* becomes an answer for.
LEMMA NodeKeeps == IInv /\ NodeStep /\ UNCHANGED up => IInv'
<1> SUFFICES ASSUME IInv, NodeStep, UNCHANGED up PROVE IInv'
  OBVIOUS
<1> USE DEF clientVars, nodeVars, budget, IInv
<1>1. ASSUME NEW r \in inbox, TakeRequest(r) PROVE IInv'
  <2>1. r.id \in Ids /\ r.todo \in 0 .. MaxSteps
    BY DEF TypeOK, Requests
  <2> DEFINE new == [at |-> "load", id |-> r.id, todo |-> r.todo, points |-> 0,
                     moves |-> 0, cut |-> {}]
  <2>2. run' = new
    BY <1>1 DEF TakeRequest
  <2>3. new \in Runs
    BY <2>1, ServiceAssumption DEF Runs
  <2>4. TypeOK'
    BY <1>1, <2>2, <2>3 DEF TypeOK, TakeRequest
  <2>5. RunInv'
    BY <2>2 DEF RunInv, LockInv, PaceInv, InLoop, In
  <2>6. StopIsFinal' /\ AnswersInv'
    BY <1>1, <2>2 DEF TakeRequest, StopIsFinal, AnswersInv, TrajectoryEnds, SuccessIsWhole
  <2> QED
    BY <2>4, <2>5, <2>6
<1>2. ASSUME LoadModel PROVE IInv'
  <2>1. /\ run' = [run EXCEPT !.at = "check"]
        /\ run.points = 0 /\ run.moves = 0 /\ run.cut = {} /\ ~In("idle")
    BY <1>2 DEF LoadModel, RunInv, PaceInv, In
  <2>2. run' \in Runs
    BY <2>1, RunType DEF Runs
  <2>3. TypeOK'
    BY <1>2, <2>2 DEF TypeOK, LoadModel, LockLoaded
  <2>4. RunInv'
    BY <1>2, <2>1, RunType DEF RunInv, LockInv, PaceInv, InLoop, In, LoadModel, LockLoaded
  <2>5. StopIsFinal' /\ AnswersInv'
    BY <1>2, <2>1, RunType DEF LoadModel, StopIsFinal, AnswersInv, TrajectoryEnds, SuccessIsWhole, In
  <2> QED
    BY <2>3, <2>4, <2>5
<1>3. ASSUME LoadFails PROVE IInv'
  <2>1. Answer(FALSE) /\ ~In("idle") /\ run.points = 0 /\ run.moves = 0
    BY <1>3 DEF LoadFails, RunInv, PaceInv, In
  <2>2. StopIsFinal' /\ AnswersInv' /\ outbox' \subseteq Answers
    <3>1. run.points <= run.moves + (IF run.cut = {} THEN 0 ELSE 1)
      BY <2>1
    <3> QED
      BY <2>1, <3>1, AnswerKeeps
  <2>3. run' = Idle
    BY <2>1 DEF Answer
  <2>4. RunInv'
    BY <2>3 DEF RunInv, LockInv, PaceInv, InLoop, In, Idle
  <2>5. TypeOK'
    BY <1>3, <2>2, <2>3 DEF TypeOK, LoadFails
  <2> QED
    BY <2>2, <2>4, <2>5
<1>4. ASSUME EnterLoop PROVE IInv'
  <2>1. run' = [run EXCEPT !.at = "step"] /\ In("check") /\ run.points < run.todo
        /\ ~locked /\ locked' = locked /\ outbox' = outbox
    BY <1>4 DEF EnterLoop, Continues
  <2>2. run' \in Runs /\ ~In("idle")
    BY <2>1, RunType DEF Runs, In
  <2>3. TypeOK'
    BY <1>4, <2>2 DEF TypeOK, EnterLoop
  <2>4. RunInv'
    BY <2>1, <2>2, RunType DEF RunInv, LockInv, PaceInv, InLoop, In
  <2>5. StopIsFinal' /\ AnswersInv'
    BY <2>1, <2>2, RunType DEF StopIsFinal, AnswersInv, TrajectoryEnds, SuccessIsWhole, In
  <2> QED
    BY <2>3, <2>4, <2>5
<1>5. ASSUME FinishRun PROVE IInv'
  <2>1. Answer(TRUE) /\ In("check") /\ ~In("idle") /\ (run.points < run.todo => locked)
    BY <1>5 DEF FinishRun, Continues, In
  <2>2. /\ run.points <= run.moves + (IF run.cut = {} THEN 0 ELSE 1)
        /\ run.cut = {} => run.points = run.todo /\ run.moves = run.todo
    <3>1. locked <=> run.cut # {}
      BY <2>1 DEF RunInv, LockInv, InLoop
    <3>2. run.points <= run.todo /\ (run.points = run.moves \/ (run.points = run.moves + 1 /\ locked))
      BY <2>1 DEF RunInv, PaceInv
    <3> QED
      BY <2>1, <3>1, <3>2, RunType
  <2>3. StopIsFinal' /\ AnswersInv' /\ outbox' \subseteq Answers
    BY <2>1, <2>2, AnswerKeeps
  <2>4. run' = Idle
    BY <2>1 DEF Answer
  <2>5. RunInv'
    BY <2>4 DEF RunInv, LockInv, PaceInv, InLoop, In, Idle
  <2>6. TypeOK'
    BY <1>5, <2>3, <2>4 DEF TypeOK, FinishRun
  <2> QED
    BY <2>3, <2>5, <2>6
<1>6. ASSUME StepSimulation PROVE IInv'
  <2>1. /\ run' = [run EXCEPT !.at = "record", !.moves = run.moves + Advance]
        /\ In("step") /\ ~In("idle")
        /\ locked' = locked /\ outbox' = outbox
    BY <1>6 DEF StepSimulation, In
  <2>2. run.points < run.todo /\ run.points = run.moves /\ (locked <=> run.cut # {})
    BY <2>1 DEF RunInv, PaceInv, LockInv, InLoop
  <2>3. run' \in Runs
    <3>1. run.moves + Advance \in 0 .. MaxSteps
      BY <2>1, <2>2, RunType, ServiceAssumption DEF Advance
    <3> HIDE DEF Advance
    <3> QED
      BY <2>1, <3>1, RunType DEF Runs
  <2>4. TypeOK'
    BY <1>6, <2>3 DEF TypeOK, StepSimulation
  <2>5. RunInv'
    BY <2>1, <2>2, RunType DEF RunInv, LockInv, PaceInv, InLoop, In, Advance
  <2>6. StopIsFinal' /\ AnswersInv'
    BY <2>1, <2>2, RunType
       DEF StopIsFinal, AnswersInv, TrajectoryEnds, SuccessIsWhole, In, Advance
  <2> QED
    BY <2>4, <2>5, <2>6
<1>7. ASSUME StepDiverges PROVE IInv'
  <2>1. Answer(FALSE) /\ In("step") /\ ~In("idle")
    BY <1>7 DEF StepDiverges, In
  <2>2. run.points <= run.moves + (IF run.cut = {} THEN 0 ELSE 1)
    BY <2>1, RunType DEF RunInv, PaceInv
  <2>3. StopIsFinal' /\ AnswersInv' /\ outbox' \subseteq Answers
    BY <2>1, <2>2, AnswerKeeps
  <2>4. run' = Idle
    BY <2>1 DEF Answer
  <2>5. RunInv'
    BY <2>4 DEF RunInv, LockInv, PaceInv, InLoop, In, Idle
  <2>6. TypeOK'
    BY <1>7, <2>3, <2>4 DEF TypeOK, StepDiverges
  <2> QED
    BY <2>3, <2>5, <2>6
<1>8. ASSUME RecordPoint PROVE IInv'
  <2>1. /\ run' = [run EXCEPT !.at = "check", !.points = run.points + 1]
        /\ In("record") /\ ~In("idle")
        /\ locked' = locked /\ outbox' = outbox
    BY <1>8 DEF RecordPoint, In
  <2>2. /\ run.points < run.todo
        /\ run.moves = run.points + 1 \/ (run.moves = run.points /\ locked)
        /\ locked <=> run.cut # {}
    BY <2>1 DEF RunInv, PaceInv, LockInv, InLoop
  <2>3. run' \in Runs
    <3>1. run.points + 1 \in 0 .. MaxSteps
      BY <2>1, <2>2, RunType, ServiceAssumption
    <3> QED
      BY <2>1, <3>1, RunType DEF Runs
  <2>4. TypeOK'
    BY <1>8, <2>3 DEF TypeOK, RecordPoint
  <2>5. RunInv'
    BY <2>1, <2>2, RunType DEF RunInv, LockInv, PaceInv, InLoop, In
  <2>6. StopIsFinal' /\ AnswersInv'
    BY <2>1, <2>2, RunType DEF StopIsFinal, AnswersInv, TrajectoryEnds, SuccessIsWhole, In
  <2> QED
    BY <2>4, <2>5, <2>6
<1>9. ASSUME FreezeAndBrake, outbox' = outbox PROVE RunInv' /\ StopIsFinal' /\ AnswersInv'
                                                    /\ run' \in {Idle} \cup Runs
  <2>1. CASE In("idle") \/ In("load")
    <3>1. run' = run /\ locked' = TRUE
      BY <1>9, <2>1 DEF FreezeAndBrake
    <3>2. RunInv'
      BY <2>1, <3>1 DEF RunInv, LockInv, PaceInv, InLoop, In
    <3>3. StopIsFinal' /\ AnswersInv'
      BY <1>9, <3>1, SameAnswers
    <3> QED
      BY <3>1, <3>2, <3>3 DEF TypeOK
  <2>2. CASE ~In("idle") /\ ~In("load")
    <3>1. run' = [run EXCEPT !.cut = run.cut \cup {run.moves}] /\ locked' = TRUE
      BY <1>9, <2>2 DEF FreezeAndBrake
    <3>2. run.cut \subseteq {run.moves}
      BY <2>2 DEF StopIsFinal
    <3>3. run' \in Runs
      BY <2>2, <3>1, RunType DEF Runs
    <3>4. RunInv'
      BY <2>2, <3>1, RunType DEF RunInv, LockInv, PaceInv, InLoop, In
    <3>5. StopIsFinal' /\ AnswersInv'
      BY <1>9, <2>2, <3>1, <3>2, RunType
         DEF StopIsFinal, AnswersInv, TrajectoryEnds, SuccessIsWhole, In
    <3> QED
      BY <3>3, <3>4, <3>5
  <2> QED
    BY <2>1, <2>2
<1>10. ASSUME OnFailsafeEstopReceived PROVE IInv'
  <2>1. FreezeAndBrake /\ outbox' = outbox /\ locked' = TRUE
    BY <1>10 DEF OnFailsafeEstopReceived, FreezeAndBrake
  <2>2. TypeOK'
    BY <1>9, <1>10, <2>1, ServiceAssumption DEF TypeOK, OnFailsafeEstopReceived
  <2> QED
    BY <1>9, <2>1, <2>2
<1>11. ASSUME TriggerFailsafeStop PROVE IInv'
  <2>1. FreezeAndBrake /\ outbox' = outbox /\ locked' = TRUE
    BY <1>11 DEF TriggerFailsafeStop, FreezeAndBrake
  <2>2. TypeOK'
    BY <1>9, <1>11, <2>1, ServiceAssumption DEF TypeOK, TriggerFailsafeStop
  <2> QED
    BY <1>9, <2>1, <2>2
<1> QED
  BY <1>1, <1>2, <1>3, <1>4, <1>5, <1>6, <1>7, <1>8, <1>10, <1>11 DEF NodeStep

LEMMA DeathKeeps == IInv /\ (Die \/ Restart) => IInv'
<1> SUFFICES ASSUME IInv, Die \/ Restart PROVE IInv'
  OBVIOUS
<1> USE DEF clientVars, nodeVars, budget, IInv
<1>1. CASE Die
  <2>1. run' = Idle /\ outbox' = outbox
    BY <1>1 DEF Die
  <2>2. TypeOK'
    <3>1. /\ deaths' \in 0 .. MaxDeaths /\ queued' \in 0 .. QueueDepth
          /\ inbox' \subseteq Requests
      BY <1>1, ServiceAssumption DEF TypeOK, Die
    <3> QED
      BY <1>1, <3>1 DEF TypeOK, Die
  <2>3. RunInv' /\ StopIsFinal' /\ AnswersInv'
    BY <2>1 DEF RunInv, LockInv, PaceInv, InLoop, In, Idle, StopIsFinal, AnswersInv,
                TrajectoryEnds, SuccessIsWhole
  <2> QED
    BY <2>2, <2>3
<1>2. CASE Restart
  <2>1. TypeOK'
    BY <1>2 DEF TypeOK, Restart
  <2> QED
    BY <1>2, <2>1, SameRun, SameAnswers DEF Restart
<1> QED
  BY <1>1, <1>2

LEMMA StepInv == IInv /\ [Next]_vars => IInv'
<1> SUFFICES ASSUME IInv, [Next]_vars PROVE IInv'
  OBVIOUS
<1>1. CASE UNCHANGED vars
  <2>1. TypeOK'
    BY <1>1 DEF IInv, TypeOK, vars
  <2> QED
    BY <1>1, <2>1, SameRun, SameAnswers DEF IInv, vars
<1> QED
  BY <1>1, ClientKeeps, NodeKeeps, DeathKeeps DEF Next

THEOREM Invariant == Spec => []IInv
BY InitInv, StepInv, PTL DEF Spec

-----------------------------------------------------------------------------
\* Every variable keeps its type: no run makes more steps or records more points
\* than it was asked for.
THEOREM TypeCorrect == Spec => []TypeOK
BY Invariant, PTL DEF IInv

\* An E-stop that strikes a run is the end of its motion.
THEOREM StopsAreFinal == Spec => []StopIsFinal
BY Invariant, PTL DEF IInv

\* A trajectory ends with the motion: at most one point repeats the last.
THEOREM TrajectoriesEnd == Spec => []TrajectoryEnds
BY Invariant, PTL DEF IInv, AnswersInv

\* A success that no E-stop struck is the whole run.
THEOREM SuccessesAreWhole == Spec => []SuccessIsWhole
BY Invariant, PTL DEF IInv, AnswersInv

\* An E-stop ends the run it strikes, in the physics and in its report.
THEOREM EstopsEndRuns == Spec => []EstopEndsRun
BY StopsAreFinal, TrajectoriesEnd, PTL DEF EstopEndsRun

================================================================================
