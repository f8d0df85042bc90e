---------------------------- MODULE MCPhasicBuild ----------------------------
(* Instances of PhasicBuild for TLC.                                       *)
EXTENDS PhasicBuild, TLC
=============================================================================
