---------------------------- MODULE EdgeInterlock ----------------------------
(***************************************************************************)
(* The edge safety interlock: the four use cases behind EdgeCommandFacade  *)
(* (evaluate telemetry, manual E-stop, recovery sequence, two-step reset), *)
(* the InterlockManager they share, and the ports they drive - the         *)
(* physical relay, the failsafe publisher and the recovery sequence.       *)
(*                                                                         *)
(* InterlockManager has no lock.  A call is therefore a sequence of steps, *)
(* one for each access to something shared, and pc[t] says which step of   *)
(* its call thread t takes next.  The commands reach the facade from       *)
(* Python through pybind_edge, which never releases the interpreter lock,  *)
(* so commands exclude each other; evaluate_failsafe is not bound and is   *)
(* called by a C++ telemetry loop.  Exclusive is the set of threads whose  *)
(* calls exclude each other: the commanders, or every thread when one      *)
(* executor makes all the calls.                                           *)
(*                                                                         *)
(* A port may be missing (the use cases accept null pointers) and may      *)
(* throw, before it has acted or, at the steps of Late, after it has.      *)
(***************************************************************************)
EXTENDS FailsafeRules

CONSTANTS
  Commanders,  \* threads that call the commands through pybind_edge
  Evaluators,  \* telemetry loops that call evaluate_failsafe
  Exclusive,   \* threads whose calls exclude each other
  Ports,       \* the ports the use cases were built with
  Faulty,      \* the ports that may throw
  Late,        \* the steps at which a port may throw after it has acted
  Snapshots    \* the telemetry the loops may see

Threads == Commanders \cup Evaluators

ASSUME ThreadsAssumption ==
  /\ Commanders \cap Evaluators = {}
  /\ Commanders \subseteq Exclusive
  /\ Exclusive \subseteq Threads

ASSUME PortsAssumption ==
  /\ Ports \subseteq {"hw", "pub", "recovery"}
  /\ Faulty \subseteq Ports
  /\ Late \subseteq {"trigger_relay", "announce_estop", "release_relay", "announce_resume"}

ASSUME SnapshotsAssumption == Snapshots \subseteq Snapshot

VARIABLES
  interlock,  \* InterlockManager::_state
  relay,      \* the physical relay: CUT stops the robot
  announced,  \* the last FailsafeCommand the field received
  pc,         \* the step each thread takes next
  given,      \* approvals of the reset a thread is executing
  judged,     \* the snapshot an evaluator was last called with
  reply       \* how each thread's last call ended

vars == <<interlock, relay, announced, pc, given, judged, reply>>

InterlockState == {"RELEASED", "ENGAGED", "PENDING_RESET_APPROVAL"}
Step == {"idle", "trigger_relay", "announce_estop", "engage", "run_sequence",
         "release_relay", "release", "announce_resume"}
Reply == {"NONE", "OK", "IGNORED", "INVALID_INPUT", "FAILSAFE_TRIGGERED",
          "RESET_DENIED", "FAILURE", "PORT_ERROR"}

TypeOK ==
  /\ interlock \in InterlockState
  /\ relay \in {"CLOSED", "CUT"}
  /\ announced \in {"NONE", "ESTOP", "RESUME"}
  /\ pc \in [Threads -> Step]
  /\ given \in [Threads -> SUBSET Approvals]
  /\ judged \in [Evaluators -> Snapshots]
  /\ reply \in [Threads -> Reply]

Init ==
  /\ interlock = "RELEASED"
  /\ relay = "CLOSED"
  /\ announced = "NONE"
  /\ pc = [t \in Threads |-> "idle"]
  /\ given = [t \in Threads |-> {}]
  /\ judged \in [Evaluators -> Snapshots]
  /\ reply = [t \in Threads |-> "NONE"]

-----------------------------------------------------------------------------
(* Control flow of one call.                                               *)

\* t may begin a call.
Enter(t) ==
  /\ pc[t] = "idle"
  /\ t \in Exclusive => \A u \in Exclusive : pc[u] = "idle"

Goto(t, step) == pc' = [pc EXCEPT ![t] = step] /\ UNCHANGED <<given, reply>>

Return(t, result) ==
  /\ pc' = [pc EXCEPT ![t] = "idle"]
  /\ given' = [given EXCEPT ![t] = {}]
  /\ reply' = [reply EXCEPT ![t] = result]

\* A port throws without effect: the exception leaves the use case and nothing that
\* was done before is undone.
Throw(t, port) ==
  /\ port \in Faulty
  /\ Return(t, "PORT_ERROR")
  /\ UNCHANGED <<interlock, relay, announced, judged>>

\* The port of this step throws after it has acted.
ThrowLate(t, port) ==
  /\ port \in Faulty
  /\ pc[t] \in Late
  /\ Return(t, "PORT_ERROR")

-----------------------------------------------------------------------------
(* Beginning a call: the state check, the rules, the early returns.        *)

EvaluateTelemetry(t, s) ==
  /\ Enter(t)
  /\ judged' = [judged EXCEPT ![t] = s]
  /\ \/ interlock # "RELEASED" /\ Return(t, "IGNORED")
     \/ /\ interlock = "RELEASED"
        /\ IF Evaluate(s) = "ESTOP" THEN Goto(t, "trigger_relay")
                                    ELSE Return(t, "OK")
  /\ UNCHANGED <<interlock, relay, announced>>

\* Mutation: the relay is left to the telemetry loop.
ManualEstop_NoRelay(t) ==
  /\ Enter(t)
  /\ \/ interlock # "RELEASED" /\ Return(t, "INVALID_INPUT")
     \/ interlock = "RELEASED" /\ Goto(t, "announce_estop")
  /\ UNCHANGED <<interlock, relay, announced, judged>>

ManualEstop(t) ==
  /\ Enter(t)
  /\ \/ interlock # "RELEASED" /\ Return(t, "INVALID_INPUT")
     \/ interlock = "RELEASED" /\ Goto(t, "trigger_relay")
  /\ UNCHANGED <<interlock, relay, announced, judged>>

\* Mutation: the sibling enum's name (edge_engine_state_enum.hpp) for the state.
ResumeRecovery_WrongEnum(t) ==
  /\ Enter(t)
  /\ interlock = "ENGAGED"
  /\ interlock' = "RECOVERY_PENDING"
  /\ Goto(t, "run_sequence")
  /\ UNCHANGED <<relay, announced, judged>>

\* start_recovery re-reads the state: beside a command only evaluators run, and
\* they write nothing but ENGAGED, so the second read cannot differ.
ResumeRecovery(t) ==
  /\ Enter(t)
  /\ \/ interlock # "ENGAGED" /\ Return(t, "INVALID_INPUT") /\ UNCHANGED interlock
     \/ /\ interlock = "ENGAGED"
        /\ interlock' = "PENDING_RESET_APPROVAL"
        /\ Goto(t, "run_sequence")
  /\ UNCHANGED <<relay, announced, judged>>

ResetInterlock(t, approvals) ==
  /\ Enter(t)
  /\ LET verdict == ResetVerdict(interlock, approvals) IN
     \/ verdict # "GRANTED" /\ Return(t, verdict)
     \/ /\ verdict = "GRANTED"
        /\ pc' = [pc EXCEPT ![t] = "release_relay"]
        /\ given' = [given EXCEPT ![t] = approvals]
        /\ UNCHANGED reply
  /\ UNCHANGED <<interlock, relay, announced, judged>>

-----------------------------------------------------------------------------
(* An E-stop, automatic or manual: cut the relay, tell the field, latch.   *)

TriggerRelay(t) ==
  /\ pc[t] = "trigger_relay"
  /\ \/ /\ relay' = IF "hw" \in Ports THEN "CUT" ELSE relay
        /\ Goto(t, "announce_estop") \/ ThrowLate(t, "hw")
        /\ UNCHANGED <<interlock, announced, judged>>
     \/ Throw(t, "hw")

AnnounceEstop(t) ==
  /\ pc[t] = "announce_estop"
  /\ \/ /\ announced' = IF "pub" \in Ports THEN "ESTOP" ELSE announced
        /\ Goto(t, "engage") \/ ThrowLate(t, "pub")
        /\ UNCHANGED <<interlock, relay, judged>>
     \/ Throw(t, "pub")

\* Mutation: the failsafe exception leaves before the interlock is latched.
EngageEstop_ThrowsFirst(t) ==
  /\ pc[t] = "engage"
  /\ interlock' = IF t \in Evaluators THEN interlock ELSE "ENGAGED"
  /\ Return(t, IF t \in Evaluators THEN "FAILSAFE_TRIGGERED" ELSE "OK")
  /\ UNCHANGED <<relay, announced, judged>>

\* evaluate_failsafe ends by throwing ERR_EDGE_FAILSAFE_TRIGGERED.
EngageEstop(t) ==
  /\ pc[t] = "engage"
  /\ interlock' = "ENGAGED"
  /\ Return(t, IF t \in Evaluators THEN "FAILSAFE_TRIGGERED" ELSE "OK")
  /\ UNCHANGED <<relay, announced, judged>>

-----------------------------------------------------------------------------
(* The recovery sequence.                                                  *)

\* A missing port is a failure; only a returned failure is followed by
\* cancel_recovery.
SequenceSucceeds(t) ==
  /\ pc[t] = "run_sequence"
  /\ "recovery" \in Ports
  /\ interlock' = "RELEASED"
  /\ Goto(t, "announce_resume")
  /\ UNCHANGED <<relay, announced, judged>>

\* Mutation: cancel_recovery is forgotten.
SequenceFails_NoCancel(t) ==
  /\ pc[t] = "run_sequence"
  /\ Return(t, "FAILURE")
  /\ UNCHANGED <<interlock, relay, announced, judged>>

SequenceFails(t) ==
  /\ pc[t] = "run_sequence"
  /\ interlock' = "ENGAGED"
  /\ Return(t, "FAILURE")
  /\ UNCHANGED <<relay, announced, judged>>

SequenceThrows(t) ==
  /\ pc[t] = "run_sequence"
  /\ Throw(t, "recovery")

-----------------------------------------------------------------------------
(* The two-step reset, after the policy has accepted it.                   *)

ReleaseRelay(t) ==
  /\ pc[t] = "release_relay"
  /\ \/ /\ relay' = IF "hw" \in Ports THEN "CLOSED" ELSE relay
        /\ Goto(t, "release") \/ ThrowLate(t, "hw")
        /\ UNCHANGED <<interlock, announced, judged>>
     \/ Throw(t, "hw")

ReleaseInterlock(t) ==
  /\ pc[t] = "release"
  /\ interlock' = "RELEASED"
  /\ Goto(t, "announce_resume")
  /\ UNCHANGED <<relay, announced, judged>>

\* The last step of a successful recovery and of a reset.
AnnounceResume(t) ==
  /\ pc[t] = "announce_resume"
  /\ \/ /\ announced' = IF "pub" \in Ports THEN "RESUME" ELSE announced
        /\ Return(t, "OK") \/ ThrowLate(t, "pub")
        /\ UNCHANGED <<interlock, relay, judged>>
     \/ Throw(t, "pub")

-----------------------------------------------------------------------------

Begin ==
  \/ \E t \in Evaluators, s \in Snapshots : EvaluateTelemetry(t, s)
  \/ \E t \in Commanders : ManualEstop(t)
  \/ \E t \in Commanders : ResumeRecovery(t)
  \/ \E t \in Commanders, a \in SUBSET Approvals : ResetInterlock(t, a)

Continue(t) ==
  \/ TriggerRelay(t)
  \/ AnnounceEstop(t)
  \/ EngageEstop(t)
  \/ SequenceSucceeds(t)
  \/ SequenceFails(t)
  \/ SequenceThrows(t)
  \/ ReleaseRelay(t)
  \/ ReleaseInterlock(t)
  \/ AnnounceResume(t)

Next == Begin \/ \E t \in Threads : Continue(t)

\* A call that has begun keeps running: ports return or throw.  Nobody is
\* obliged to make a call.
Fairness == \A t \in Threads : WF_vars(Continue(t))

Spec == Init /\ [][Next]_vars /\ Fairness

-----------------------------------------------------------------------------
(* Properties.                                                             *)

Idle == \A t \in Threads : pc[t] = "idle"

\* Every call from one executor: what the use cases are written for.
Serial == Exclusive = Threads

\* The robot has no power while the interlock is latched, whatever order the
\* calls came in and whichever port threw, before or after it acted: only the reset
\* that is between releasing the relay and releasing the interlock may have closed
\* it.  A relay that closes and then reports an error (reset_..._usecase.cpp:50)
\* would leave a latched robot with power; that one is excluded.
\* (evaluate..._usecase.cpp:27 returns early because a latched interlock
\* "already" is a stopped robot.)
LatchedMeansPowerCut ==
  "hw" \in Ports /\ "release_relay" \notin Late /\ interlock # "RELEASED" =>
    relay = "CUT" \/ \E t \in Commanders : pc[t] = "release"

\* While the interlock is latched the field has heard ESTOP and nothing after it:
\* the publications of estop and resume never cross.
LatchedMeansAnnounced ==
  "pub" \in Ports /\ interlock # "RELEASED" => announced = "ESTOP"

\* A latched interlock can be relied on: the power is cut and the field was told.
LatchedMeansStopped == LatchedMeansPowerCut /\ LatchedMeansAnnounced

\* The relay closes only by a reset that holds both approvals.
PowerNeedsBothApprovals ==
  [][relay = "CUT" /\ relay' = "CLOSED" =>
       \E t \in Commanders : given[t] = Approvals]_vars

\* PENDING_RESET_APPROVAL belongs to a running recovery: no other call, no early
\* return and no E-stop that was already under way leaves it behind.  (It blocks
\* every command, so an ownerless one is a dead interlock.)
PendingHasOwner ==
  "recovery" \notin Faulty /\ interlock = "PENDING_RESET_APPROVAL" =>
    \E t \in Commanders : pc[t] = "run_sequence"

WithinHardLimits(s) ==
  /\ s.age <= HeartbeatTimeout
  /\ \A q \in s.torques : q <= MaxTorque
  /\ \A d \in s.distances : d <= 0 \/ d >= CriticalDistance

\* A telemetry evaluation ends quietly only on a snapshot that is fresh, within
\* the torque limit and with nothing inside the critical radius.
QuietMeansSafe ==
  \A e \in Evaluators :
    pc[e] = "idle" /\ reply[e] = "OK" => WithinHardLimits(judged[e])

\* The interlock implements the abstract latch.
latch ==
  IF interlock = "RELEASED" THEN "open"
  ELSE IF \E t \in Threads : pc[t] = "release" THEN "opening" ELSE "set"
power == IF relay = "CUT" THEN "cut" ELSE "on"

Latch == INSTANCE SafetyLatch WITH latch <- latch, power <- power
ImplementsLatch == Latch!Spec

\* An E-stop that was demanded ends with the interlock latched, even while other
\* calls run, unless a port throws: the stopping call is never starved.
EstopLatches ==
  \A t \in Threads :
    pc[t] = "trigger_relay" ~>
      \/ interlock = "ENGAGED"
      \/ pc[t] = "idle" /\ reply[t] = "PORT_ERROR"

\* A recovery never leaves the interlock pending for good.
PendingResolves ==
  interlock = "PENDING_RESET_APPROVAL" ~> interlock # "PENDING_RESET_APPROVAL"

\* After the field has been told to resume and every call has returned, the robot
\* has power again.
ResumedMeansPowered ==
  "hw" \in Ports /\ Idle /\ announced = "RESUME" => relay = "CLOSED"

\* A recovery that does not succeed leaves the interlock engaged
\* (test_execute_recovery_sequence_usecase.cpp, RecoveryFailureMaintainsEngagedState).
FailedRecoveryKeepsEngaged ==
  [][\A t \in Commanders :
       pc[t] = "run_sequence" /\ pc'[t] = "idle" => interlock' = "ENGAGED"]_vars
=============================================================================
