------------------------- MODULE EdgeInterlockProofs -------------------------
(***************************************************************************)
(* Proofs about EdgeInterlock, for any number of commanders and telemetry  *)
(* loops, any wiring of the ports, any set of ports that throw, before or  *)
(* after acting, and any telemetry.                                        *)
(*                                                                         *)
(* The first part holds for every choice of Exclusive.  The second assumes *)
(* Serial, one call at a time, which LatchedMeansPowerCut cannot do        *)
(* without.                                                                *)
(***************************************************************************)
EXTENDS EdgeInterlock, TLAPS

-----------------------------------------------------------------------------
(* Type correctness.                                                       *)

LEMMA InitType == Init => TypeOK
BY DEF Init, TypeOK, InterlockState, Step, Reply

LEMMA StepType == TypeOK /\ [Next]_vars => TypeOK'
<1> SUFFICES ASSUME TypeOK, [Next]_vars PROVE TypeOK'
  OBVIOUS
<1> USE DEF TypeOK, InterlockState, Step, Reply, Goto, Return, Throw, ThrowLate
<1>1. ASSUME NEW t \in Evaluators, NEW s \in Snapshots, EvaluateTelemetry(t, s)
      PROVE  TypeOK'
  BY <1>1 DEF EvaluateTelemetry, Threads
<1>2. ASSUME NEW t \in Commanders, ManualEstop(t)
      PROVE  TypeOK'
  BY <1>2 DEF ManualEstop, Threads
<1>3. ASSUME NEW t \in Commanders, ResumeRecovery(t)
      PROVE  TypeOK'
  BY <1>3 DEF ResumeRecovery, Threads
<1>4. ASSUME NEW t \in Commanders, NEW a \in SUBSET Approvals, ResetInterlock(t, a)
      PROVE  TypeOK'
  BY <1>4 DEF ResetInterlock, ResetVerdict, Threads
<1>5. ASSUME NEW t \in Threads, TriggerRelay(t) PROVE TypeOK'
  BY <1>5 DEF TriggerRelay
<1>6. ASSUME NEW t \in Threads, AnnounceEstop(t) PROVE TypeOK'
  BY <1>6 DEF AnnounceEstop
<1>7. ASSUME NEW t \in Threads, EngageEstop(t) PROVE TypeOK'
  BY <1>7 DEF EngageEstop
<1>8. ASSUME NEW t \in Threads, SequenceSucceeds(t) PROVE TypeOK'
  BY <1>8 DEF SequenceSucceeds
<1>9. ASSUME NEW t \in Threads, SequenceFails(t) PROVE TypeOK'
  BY <1>9 DEF SequenceFails
<1>10. ASSUME NEW t \in Threads, SequenceThrows(t) PROVE TypeOK'
  BY <1>10 DEF SequenceThrows
<1>11. ASSUME NEW t \in Threads, ReleaseRelay(t) PROVE TypeOK'
  BY <1>11 DEF ReleaseRelay
<1>12. ASSUME NEW t \in Threads, ReleaseInterlock(t) PROVE TypeOK'
  BY <1>12 DEF ReleaseInterlock
<1>13. ASSUME NEW t \in Threads, AnnounceResume(t) PROVE TypeOK'
  BY <1>13 DEF AnnounceResume
<1>14. CASE UNCHANGED vars
  BY <1>14 DEF vars
<1> QED
  BY <1>1, <1>2, <1>3, <1>4, <1>5, <1>6, <1>7, <1>8, <1>9, <1>10, <1>11,
     <1>12, <1>13, <1>14 DEF Next, Begin, Continue

\* Every variable keeps its type.
THEOREM TypeCorrect == Spec => []TypeOK
BY InitType, StepType, PTL DEF Spec

-----------------------------------------------------------------------------
(* What holds whoever runs beside whom.                                    *)

\* Evaluators only ever execute an E-stop, and a reset past its policy check
\* carries both approvals.
CallShape ==
  /\ \A e \in Evaluators :
       pc[e] \in {"idle", "trigger_relay", "announce_estop", "engage"}
  /\ \A t \in Threads :
       pc[t] \in {"release_relay", "release"} => given[t] = Approvals

ConcurrentInv == CallShape /\ PendingHasOwner /\ QuietMeansSafe

\* What a verdict other than ESTOP says of the snapshot.
LEMMA VerdictSound ==
  ASSUME NEW s \in Snapshot, Evaluate(s) # "ESTOP"
  PROVE  WithinHardLimits(s)
<1>1. ~HeartbeatLost(s) /\ ~TorqueExceeded(s) /\ ~NearerThan(s.distances, CriticalDistance)
  BY DEF Evaluate, Critical
<1>2. s.age <= HeartbeatTimeout
  BY <1>1, RuleAssumption DEF HeartbeatLost, Snapshot
<1>3. ASSUME NEW q \in s.torques PROVE q <= MaxTorque
  BY <1>1, RuleAssumption DEF TorqueExceeded, Snapshot
<1>4. ASSUME NEW d \in s.distances PROVE d <= 0 \/ d >= CriticalDistance
  BY <1>1, RuleAssumption DEF NearerThan, Measured, Snapshot
<1> QED
  BY <1>2, <1>3, <1>4 DEF WithinHardLimits

LEMMA InitConcurrent == Init => ConcurrentInv
BY DEF Init, ConcurrentInv, CallShape, PendingHasOwner, QuietMeansSafe, Threads

LEMMA StepCallShape == TypeOK /\ CallShape /\ [Next]_vars => CallShape'
<1> SUFFICES ASSUME TypeOK, CallShape, [Next]_vars PROVE CallShape'
  OBVIOUS
<1> USE ThreadsAssumption DEF TypeOK, CallShape, Goto, Return, Throw, ThrowLate, Threads
<1>1. ASSUME NEW t \in Evaluators, NEW s \in Snapshots, EvaluateTelemetry(t, s)
      PROVE  CallShape'
  BY <1>1 DEF EvaluateTelemetry
<1>2. ASSUME NEW t \in Commanders, ManualEstop(t)
      PROVE  CallShape'
  BY <1>2 DEF ManualEstop
<1>3. ASSUME NEW t \in Commanders, ResumeRecovery(t)
      PROVE  CallShape'
  BY <1>3 DEF ResumeRecovery
<1>4. ASSUME NEW t \in Commanders, NEW a \in SUBSET Approvals, ResetInterlock(t, a)
      PROVE  CallShape'
  BY <1>4 DEF ResetInterlock, ResetVerdict
<1>5. ASSUME NEW t \in Threads, TriggerRelay(t) PROVE CallShape'
  BY <1>5 DEF TriggerRelay
<1>6. ASSUME NEW t \in Threads, AnnounceEstop(t) PROVE CallShape'
  BY <1>6 DEF AnnounceEstop
<1>7. ASSUME NEW t \in Threads, EngageEstop(t) PROVE CallShape'
  BY <1>7 DEF EngageEstop
<1>8. ASSUME NEW t \in Threads, SequenceSucceeds(t) PROVE CallShape'
  BY <1>8 DEF SequenceSucceeds
<1>9. ASSUME NEW t \in Threads, SequenceFails(t) PROVE CallShape'
  BY <1>9 DEF SequenceFails
<1>10. ASSUME NEW t \in Threads, SequenceThrows(t) PROVE CallShape'
  BY <1>10 DEF SequenceThrows
<1>11. ASSUME NEW t \in Threads, ReleaseRelay(t) PROVE CallShape'
  BY <1>11 DEF ReleaseRelay
<1>12. ASSUME NEW t \in Threads, ReleaseInterlock(t) PROVE CallShape'
  BY <1>12 DEF ReleaseInterlock
<1>13. ASSUME NEW t \in Threads, AnnounceResume(t) PROVE CallShape'
  BY <1>13 DEF AnnounceResume
<1>14. CASE UNCHANGED vars
  BY <1>14 DEF vars
<1> QED
  BY <1>1, <1>2, <1>3, <1>4, <1>5, <1>6, <1>7, <1>8, <1>9, <1>10, <1>11,
     <1>12, <1>13, <1>14 DEF Next, Begin, Continue

\* Only ResumeRecovery makes the interlock pending, and the one thread that did
\* is then in its sequence until it writes the interlock again.
LEMMA StepPending == TypeOK /\ CallShape /\ PendingHasOwner /\ [Next]_vars
                       => PendingHasOwner'
<1> SUFFICES ASSUME TypeOK, CallShape, PendingHasOwner, [Next]_vars,
                    "recovery" \notin Faulty, interlock' = "PENDING_RESET_APPROVAL"
             PROVE  \E t \in Commanders : pc'[t] = "run_sequence"
  BY DEF PendingHasOwner
<1> USE ThreadsAssumption
    DEF TypeOK, CallShape, PendingHasOwner, Goto, Return, Throw, ThrowLate, Threads
<1>1. ASSUME NEW t \in Evaluators, NEW s \in Snapshots, EvaluateTelemetry(t, s)
      PROVE  \E u \in Commanders : pc'[u] = "run_sequence"
  BY <1>1 DEF EvaluateTelemetry, Enter
<1>2. ASSUME NEW t \in Commanders, ManualEstop(t)
      PROVE  \E u \in Commanders : pc'[u] = "run_sequence"
  BY <1>2 DEF ManualEstop, Enter
<1>3. ASSUME NEW t \in Commanders, ResumeRecovery(t)
      PROVE  \E u \in Commanders : pc'[u] = "run_sequence"
  BY <1>3 DEF ResumeRecovery, Enter
<1>4. ASSUME NEW t \in Commanders, NEW a \in SUBSET Approvals, ResetInterlock(t, a)
      PROVE  \E u \in Commanders : pc'[u] = "run_sequence"
  BY <1>4 DEF ResetInterlock, ResetVerdict, Enter
<1>5. ASSUME NEW t \in Threads, Continue(t)
      PROVE  \E u \in Commanders : pc'[u] = "run_sequence"
  BY <1>5 DEF Continue, TriggerRelay, AnnounceEstop, EngageEstop, SequenceSucceeds,
              SequenceFails, SequenceThrows, ReleaseRelay, ReleaseInterlock, AnnounceResume
<1>6. CASE UNCHANGED vars
  BY <1>6 DEF vars
<1> QED
  BY <1>1, <1>2, <1>3, <1>4, <1>5, <1>6 DEF Next, Begin

\* An evaluator's OK is given by EvaluateTelemetry alone, on a verdict other
\* than ESTOP.
LEMMA StepQuiet == TypeOK /\ CallShape /\ QuietMeansSafe /\ [Next]_vars
                     => QuietMeansSafe'
<1> SUFFICES ASSUME TypeOK, CallShape, QuietMeansSafe, [Next]_vars,
                    NEW e \in Evaluators, pc'[e] = "idle", reply'[e] = "OK"
             PROVE  WithinHardLimits(judged'[e])
  BY DEF QuietMeansSafe
<1>1. pc[e] = "idle" /\ reply[e] = "OK" => WithinHardLimits(judged[e])
  BY DEF QuietMeansSafe
<1> USE ThreadsAssumption DEF TypeOK, CallShape, Goto, Return, Throw, ThrowLate, Threads
<1>2. ASSUME NEW t \in Evaluators, NEW s \in Snapshots, EvaluateTelemetry(t, s)
      PROVE  WithinHardLimits(judged'[e])
  <2>1. CASE t = e
    <3>1. judged'[e] = s
      BY <1>2, <2>1 DEF EvaluateTelemetry
    <3>2. Evaluate(s) # "ESTOP"
      BY <1>2, <2>1 DEF EvaluateTelemetry
    <3>3. s \in Snapshot
      BY SnapshotsAssumption
    <3>4. WithinHardLimits(s)
      BY <3>2, <3>3, VerdictSound
    <3> QED
      BY <3>1, <3>4
  <2>2. CASE t # e
    <3>1. judged'[e] = judged[e] /\ pc'[e] = pc[e] /\ reply'[e] = reply[e]
      BY <1>2, <2>2 DEF EvaluateTelemetry
    <3> QED
      BY <3>1, <1>1
  <2> QED
    BY <2>1, <2>2
<1>3. ASSUME NEW t \in Commanders,
             \/ ManualEstop(t)
             \/ ResumeRecovery(t)
             \/ \E a \in SUBSET Approvals : ResetInterlock(t, a)
      PROVE  WithinHardLimits(judged'[e])
  <2>1. t # e
    OBVIOUS
  <2>2. judged'[e] = judged[e] /\ pc'[e] = pc[e] /\ reply'[e] = reply[e]
    BY <1>3, <2>1 DEF ManualEstop, ResumeRecovery, ResetInterlock
  <2> QED
    BY <2>2, <1>1
<1>4. ASSUME NEW t \in Threads, Continue(t)
      PROVE  WithinHardLimits(judged'[e])
  <2>1. judged' = judged
    BY <1>4 DEF Continue, TriggerRelay, AnnounceEstop, EngageEstop, SequenceSucceeds,
                SequenceFails, SequenceThrows, ReleaseRelay, ReleaseInterlock, AnnounceResume
  <2>2. t # e
    BY <1>4 DEF Continue, TriggerRelay, AnnounceEstop, EngageEstop, SequenceSucceeds,
                SequenceFails, SequenceThrows, ReleaseRelay, ReleaseInterlock, AnnounceResume
  <2>3. pc'[e] = pc[e] /\ reply'[e] = reply[e]
    BY <1>4, <2>2 DEF Continue, TriggerRelay, AnnounceEstop, EngageEstop,
                SequenceSucceeds, SequenceFails, SequenceThrows, ReleaseRelay,
                ReleaseInterlock, AnnounceResume
  <2> QED
    BY <2>1, <2>3, <1>1
<1>5. CASE UNCHANGED vars
  BY <1>5, <1>1 DEF vars
<1> QED
  BY <1>2, <1>3, <1>4, <1>5 DEF Next, Begin

LEMMA ConcurrentInvariant == Spec => []ConcurrentInv
<1>1. TypeOK /\ ConcurrentInv /\ [Next]_vars => ConcurrentInv'
  BY StepCallShape, StepPending, StepQuiet DEF ConcurrentInv
<1> QED
  BY InitConcurrent, <1>1, TypeCorrect, PTL DEF Spec

\* The interlock is never left pending without a recovery that is running.
THEOREM PendingOwned == Spec => []PendingHasOwner
BY ConcurrentInvariant, PTL DEF ConcurrentInv

\* No telemetry loop passes over a snapshot that breaks a hard limit.
THEOREM QuietSafe == Spec => []QuietMeansSafe
BY ConcurrentInvariant, PTL DEF ConcurrentInv

\* Power comes back only under both approvals, in every interleaving.
THEOREM PowerApproved == Spec => PowerNeedsBothApprovals
<1> DEFINE Approved == relay = "CUT" /\ relay' = "CLOSED" =>
                         \E t \in Commanders : given[t] = Approvals
<1>1. TypeOK /\ ConcurrentInv /\ [Next]_vars => [Approved]_vars
  <2> SUFFICES ASSUME TypeOK, CallShape, Next, relay = "CUT", relay' = "CLOSED"
               PROVE  \E t \in Commanders : given[t] = Approvals
    BY DEF ConcurrentInv
  <2>1. PICK t \in Threads : ReleaseRelay(t)
    BY DEF Next, Begin, Continue, EvaluateTelemetry, ManualEstop, ResumeRecovery,
           ResetInterlock, TriggerRelay, AnnounceEstop, EngageEstop, SequenceSucceeds,
           SequenceFails, SequenceThrows, ReleaseInterlock, AnnounceResume, Throw, ThrowLate
  <2>2. t \in Commanders /\ given[t] = Approvals
    BY <2>1 DEF ReleaseRelay, CallShape, Threads
  <2> QED
    BY <2>2
<1> QED
  BY <1>1, TypeCorrect, ConcurrentInvariant, PTL DEF Spec, PowerNeedsBothApprovals

-----------------------------------------------------------------------------
(* One call at a time.                                                     *)

OneCall == \A t, u \in Threads : pc[t] # "idle" /\ pc[u] # "idle" => t = u

\* What the thread at each step of its call knows of the state it shares.
CallState ==
  \A t \in Threads :
    /\ pc[t] \in {"trigger_relay", "announce_estop", "engage", "announce_resume"}
         => interlock = "RELEASED"
    /\ pc[t] \in {"announce_estop", "engage"} /\ "hw" \in Ports => relay = "CUT"
    /\ pc[t] = "engage" /\ "pub" \in Ports => announced = "ESTOP"
    /\ pc[t] = "run_sequence" => interlock = "PENDING_RESET_APPROVAL"
    /\ pc[t] \in {"release_relay", "release"} => interlock = "ENGAGED"

SerialInv == OneCall /\ CallState /\ LatchedMeansPowerCut /\ LatchedMeansAnnounced

LEMMA InitSerial == Init => SerialInv
BY DEF Init, SerialInv, OneCall, CallState, LatchedMeansPowerCut, LatchedMeansAnnounced

\* A call begins only when no other is under way, and a thread between two steps
\* is the one that is.
LEMMA StepOneCall ==
  ASSUME Serial PROVE TypeOK /\ OneCall /\ [Next]_vars => OneCall'
<1> SUFFICES ASSUME TypeOK, OneCall, [Next]_vars PROVE OneCall'
  OBVIOUS
<1>1. ASSUME NEW t \in Threads, Enter(t), \A u \in Threads : u # t => pc'[u] = pc[u]
      PROVE  OneCall'
  BY <1>1 DEF Enter, OneCall, Serial
<1>2. ASSUME NEW t \in Threads, pc[t] # "idle", \A u \in Threads : u # t => pc'[u] = pc[u]
      PROVE  OneCall'
  BY <1>2 DEF OneCall
<1> USE DEF TypeOK, Goto, Return, Throw, ThrowLate
<1>3. ASSUME NEW t \in Evaluators, NEW s \in Snapshots, EvaluateTelemetry(t, s)
      PROVE  OneCall'
  BY <1>1, <1>3 DEF EvaluateTelemetry, Threads
<1>4. ASSUME NEW t \in Commanders,
             \/ ManualEstop(t)
             \/ ResumeRecovery(t)
             \/ \E a \in SUBSET Approvals : ResetInterlock(t, a)
      PROVE  OneCall'
  BY <1>1, <1>4 DEF ManualEstop, ResumeRecovery, ResetInterlock, Threads
<1>5. ASSUME NEW t \in Threads, Continue(t)
      PROVE  OneCall'
  BY <1>2, <1>5 DEF Continue, TriggerRelay, AnnounceEstop, EngageEstop, SequenceSucceeds,
              SequenceFails, SequenceThrows, ReleaseRelay, ReleaseInterlock, AnnounceResume
<1>6. CASE UNCHANGED vars
  BY <1>6 DEF vars, OneCall
<1> QED
  BY <1>3, <1>4, <1>5, <1>6 DEF Next, Begin

LEMMA StepSerial ==
  ASSUME Serial PROVE TypeOK /\ CallShape /\ SerialInv /\ [Next]_vars => SerialInv'
<1> SUFFICES ASSUME TypeOK, CallShape, SerialInv, [Next]_vars PROVE SerialInv'
  OBVIOUS
<1>0. OneCall'
  BY StepOneCall DEF SerialInv
<1> DEFINE I == CallState /\ LatchedMeansPowerCut /\ LatchedMeansAnnounced
<1> USE ThreadsAssumption, PortsAssumption
    DEF TypeOK, CallShape, SerialInv, OneCall, CallState, LatchedMeansPowerCut,
        LatchedMeansAnnounced, Serial, Enter, Goto, Return, Throw, ThrowLate, Threads
<1>1. ASSUME NEW t \in Evaluators, NEW s \in Snapshots, EvaluateTelemetry(t, s)
      PROVE  I'
  BY <1>1 DEF EvaluateTelemetry
<1>2. ASSUME NEW t \in Commanders, ManualEstop(t) PROVE I'
  BY <1>2 DEF ManualEstop
<1>3. ASSUME NEW t \in Commanders, ResumeRecovery(t) PROVE I'
  BY <1>3 DEF ResumeRecovery
<1>4. ASSUME NEW t \in Commanders, NEW a \in SUBSET Approvals, ResetInterlock(t, a)
      PROVE  I'
  BY <1>4 DEF ResetInterlock, ResetVerdict
<1>5. ASSUME NEW t \in Threads, TriggerRelay(t) PROVE I'
  BY <1>5 DEF TriggerRelay
<1>6. ASSUME NEW t \in Threads, AnnounceEstop(t) PROVE I'
  BY <1>6 DEF AnnounceEstop
<1>7. ASSUME NEW t \in Threads, EngageEstop(t) PROVE I'
  BY <1>7 DEF EngageEstop
<1>8. ASSUME NEW t \in Threads, SequenceSucceeds(t) PROVE I'
  BY <1>8 DEF SequenceSucceeds
<1>9. ASSUME NEW t \in Threads, SequenceFails(t) PROVE I'
  BY <1>9 DEF SequenceFails
<1>10. ASSUME NEW t \in Threads, SequenceThrows(t) PROVE I'
  BY <1>10 DEF SequenceThrows
<1>11. ASSUME NEW t \in Threads, ReleaseRelay(t) PROVE I'
  BY <1>11 DEF ReleaseRelay
<1>12. ASSUME NEW t \in Threads, ReleaseInterlock(t) PROVE I'
  BY <1>12 DEF ReleaseInterlock
<1>13. ASSUME NEW t \in Threads, AnnounceResume(t) PROVE I'
  BY <1>13 DEF AnnounceResume
<1>14. CASE UNCHANGED vars
  BY <1>14 DEF vars
<1> QED
  BY <1>0, <1>1, <1>2, <1>3, <1>4, <1>5, <1>6, <1>7, <1>8, <1>9, <1>10, <1>11,
     <1>12, <1>13, <1>14 DEF Next, Begin, Continue

LEMMA SerialInvariant == ASSUME Serial PROVE Spec => []SerialInv
<1>1. TypeOK /\ ConcurrentInv /\ SerialInv /\ [Next]_vars => SerialInv'
  BY StepSerial DEF ConcurrentInv
<1> QED
  BY InitSerial, <1>1, TypeCorrect, ConcurrentInvariant, PTL DEF Spec

\* One call at a time, a latched interlock is a robot without power, whatever the
\* order of the calls and whichever ports throw (the release of the relay, if at all,
\* before it closes).
THEOREM PowerCut == ASSUME Serial PROVE Spec => []LatchedMeansPowerCut
BY SerialInvariant, PTL DEF SerialInv

\* One call at a time, the field has heard of every latched E-stop.
THEOREM Announced == ASSUME Serial PROVE Spec => []LatchedMeansAnnounced
BY SerialInvariant, PTL DEF SerialInv

\* One call at a time, a latched interlock has cut the power and told the field.
THEOREM LatchStops == ASSUME Serial PROVE Spec => []LatchedMeansStopped
BY PowerCut, Announced, PTL DEF LatchedMeansStopped

-----------------------------------------------------------------------------
(* The interlock implements the latch: its safety part, step by step.      *)

LEMMA InitLatch == Init => Latch!Init
BY DEF Init, Latch!Init, latch, power

LEMMA StepLatch ==
  ASSUME Serial, "hw" \in Ports, "release_relay" \notin Late
  PROVE  TypeOK /\ CallShape /\ SerialInv /\ [Next]_vars
           => [Latch!Next]_(Latch!latchVars)
<1> SUFFICES ASSUME TypeOK, CallShape, SerialInv, [Next]_vars
             PROVE  Latch!Next \/ UNCHANGED <<latch, power>>
  BY DEF Latch!latchVars
<1> DEFINE S == Latch!Next \/ UNCHANGED <<latch, power>>
<1> USE ThreadsAssumption
    DEF TypeOK, CallShape, SerialInv, OneCall, CallState, LatchedMeansPowerCut,
        Serial, Goto, Return, Throw, ThrowLate, Threads, latch, power, Latch!Next
<1>1. ASSUME NEW t \in Evaluators, NEW s \in Snapshots, EvaluateTelemetry(t, s)
      PROVE  S
  BY <1>1 DEF EvaluateTelemetry, Enter
<1>2. ASSUME NEW t \in Commanders, ManualEstop(t) PROVE S
  BY <1>2 DEF ManualEstop, Enter
<1>3. ASSUME NEW t \in Commanders, ResumeRecovery(t) PROVE S
  BY <1>3 DEF ResumeRecovery, Enter
<1>4. ASSUME NEW t \in Commanders, NEW a \in SUBSET Approvals, ResetInterlock(t, a)
      PROVE  S
  BY <1>4 DEF ResetInterlock, Enter
<1>5. ASSUME NEW t \in Threads, TriggerRelay(t) PROVE S
  BY <1>5 DEF TriggerRelay, Latch!CutPower
<1>6. ASSUME NEW t \in Threads, AnnounceEstop(t) PROVE S
  BY <1>6 DEF AnnounceEstop
<1>7. ASSUME NEW t \in Threads, EngageEstop(t) PROVE S
  BY <1>7 DEF EngageEstop, Latch!SetLatch
<1>8. ASSUME NEW t \in Threads, SequenceSucceeds(t) PROVE S
  BY <1>8 DEF SequenceSucceeds, Latch!Recover
<1>9. ASSUME NEW t \in Threads, SequenceFails(t) PROVE S
  BY <1>9 DEF SequenceFails
<1>10. ASSUME NEW t \in Threads, SequenceThrows(t) PROVE S
  BY <1>10 DEF SequenceThrows
<1>11. ASSUME NEW t \in Threads, ReleaseRelay(t) PROVE S
  BY <1>11 DEF ReleaseRelay, Latch!BeginReset
<1>12. ASSUME NEW t \in Threads, ReleaseInterlock(t) PROVE S
  BY <1>12 DEF ReleaseInterlock, Latch!FinishReset
<1>13. ASSUME NEW t \in Threads, AnnounceResume(t) PROVE S
  BY <1>13 DEF AnnounceResume
<1>14. CASE UNCHANGED vars
  BY <1>14 DEF vars
<1> QED
  BY <1>1, <1>2, <1>3, <1>4, <1>5, <1>6, <1>7, <1>8, <1>9, <1>10, <1>11,
     <1>12, <1>13, <1>14 DEF Next, Begin, Continue

\* Wired to a relay that throws, if at all, before it closes, and called by one
\* executor, the interlock implements the safety of the abstract latch (its fairness
\* stays with the model checker).
THEOREM LatchSafety ==
  ASSUME Serial, "hw" \in Ports, "release_relay" \notin Late
  PROVE  Spec => Latch!Init /\ [][Latch!Next]_(Latch!latchVars)
<1>1. TypeOK /\ ConcurrentInv /\ SerialInv /\ [Next]_vars
        => [Latch!Next]_(Latch!latchVars)
  BY StepLatch DEF ConcurrentInv
<1> QED
  BY InitLatch, <1>1, TypeCorrect, ConcurrentInvariant, SerialInvariant, PTL DEF Spec
=============================================================================
