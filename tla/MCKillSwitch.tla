---------------------------- MODULE MCKillSwitch ----------------------------
(* KillSwitch for TLC.  The manager treats all scopes and all callers alike.  *)
EXTENDS KillSwitch, TLC

KsSymmetry == Permutations(Scopes) \cup Permutations(Callers)
=============================================================================
