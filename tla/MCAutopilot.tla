---------------------------- MODULE MCAutopilot ----------------------------
(***************************************************************************)
(* A run of at most three tasks, and the executions that claim it.         *)
(***************************************************************************)
EXTENDS Autopilot, TLC

CONSTANTS e1, e2

MCKind == <<"inspect", "validate", "implement">>
Symmetry == Permutations(Exec)
=============================================================================
