-------------------------- MODULE MCTimelockHistory --------------------------
(* The instances of MCTimelock, for the specification with the history       *)
(* variable.                                                                 *)
EXTENDS MCTimelock, TimelockHistory
=============================================================================
