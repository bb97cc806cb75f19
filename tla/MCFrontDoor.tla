----------------------------- MODULE MCFrontDoor -----------------------------
(***************************************************************************)
(* Instances of FrontDoor: an edge on 443, one that fell back to 4433, and *)
(* one that was given port 80.                                             *)
(***************************************************************************)
EXTENDS FrontDoor

MCEdgePorts == {80, 443, 4433}
MCGoals     == {"app"}
==============================================================================
