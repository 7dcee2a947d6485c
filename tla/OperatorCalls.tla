---------------------------- MODULE OperatorCalls ----------------------------
(***************************************************************************)
(* What operators may conclude from the answers to their remote commands:  *)
(* "done" and "refused" say what happened at the node and are final, and   *)
(* "unknown" is the only answer after which a command may still happen.    *)
(* A command happens once at most and is always answered.                  *)
(***************************************************************************)
CONSTANT Commands

VARIABLES
  verdict,  \* none, open, done, refused or unknown, for each command
  happened  \* the commands the node has carried out

callVars == <<verdict, happened>>

Init == verdict = [c \in Commands |-> "none"] /\ happened = {}

Decide(c, v) == verdict' = [verdict EXCEPT ![c] = v] /\ UNCHANGED happened

Submit(c) == verdict[c] = "none" /\ \E v \in {"open", "refused"} : Decide(c, v)

Happen(c) ==
  /\ verdict[c] \in {"open", "unknown"}
  /\ c \notin happened
  /\ happened' = happened \cup {c}
  /\ UNCHANGED verdict

Answer(c) ==
  /\ verdict[c] = "open"
  /\ \/ Decide(c, "unknown")
     \/ Decide(c, IF c \in happened THEN "done" ELSE "refused")

Next == \E c \in Commands : Submit(c) \/ Happen(c) \/ Answer(c)

Spec == Init /\ [][Next]_callVars /\ \A c \in Commands : WF_callVars(Answer(c))
=============================================================================
