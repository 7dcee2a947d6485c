----------------------------- MODULE SafetyLatch -----------------------------
(***************************************************************************)
(* What the edge interlock promises its plant, with the calls, the ports   *)
(* and the approvals left out: a latch that can only be set while the      *)
(* power is cut, and power that comes back only in the course of a reset.  *)
(***************************************************************************)
VARIABLES
  latch,  \* open: running; set: stopped; opening: being reset
  power   \* on, cut

latchVars == <<latch, power>>

Init == latch = "open" /\ power = "on"

CutPower ==
  /\ latch = "open"
  /\ power' = "cut"
  /\ UNCHANGED latch

SetLatch ==
  /\ latch = "open"
  /\ power = "cut"
  /\ latch' = "set"
  /\ UNCHANGED power

\* A recovery ends: the latch opens and the power stays as it was.
Recover ==
  /\ latch = "set"
  /\ latch' = "open"
  /\ UNCHANGED power

BeginReset ==
  /\ latch = "set"
  /\ latch' = "opening"
  /\ power' = "on"

FinishReset ==
  /\ latch = "opening"
  /\ latch' = "open"
  /\ UNCHANGED power

Next == CutPower \/ SetLatch \/ Recover \/ BeginReset \/ FinishReset

\* A reset that has given the power back also opens the latch.
Spec == Init /\ [][Next]_latchVars /\ WF_latchVars(FinishReset)
=============================================================================
