-------------------------- MODULE MCToolExecution --------------------------
(* Small instances of ToolExecution for TLC.  Calls are interchangeable    *)
(* for the safety run; the liveness run uses no symmetry.                  *)
EXTENDS ToolExecution, TLC

CallSymmetry == Permutations(Calls)
=============================================================================
