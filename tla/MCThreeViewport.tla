--------------------------- MODULE MCThreeViewport ---------------------------
(***************************************************************************)
(* An instance of ThreeViewport for TLC.                                   *)
(***************************************************************************)
EXTENDS ThreeViewport

CONSTANTS robot, amr

MCAssets == {robot, amr}
MCDefaultAssets == <<robot, robot, amr>>
=============================================================================
