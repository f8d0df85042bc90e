---------------------------- MODULE MCSessionStart ----------------------------
(* Instances of SessionStart for TLC.                                      *)
EXTENDS SessionStart, TLC
=============================================================================
