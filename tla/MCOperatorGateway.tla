-------------------------- MODULE MCOperatorGateway --------------------------
(* The instance of OperatorGateway that TLC checks. *)
EXTENDS OperatorGateway

\* The commands that must not cross, and the two ends of a session.
MCEndpoints == {TriggerEstop, ResetInterlock, HandleSdpOffer, ClosePeerSession}
=============================================================================
