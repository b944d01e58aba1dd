------------------------ MODULE MCExecutionSimulator ------------------------
(* Instances of ExecutionSimulator for TLC. *)
EXTENDS ExecutionSimulator

CONSTANTS s1, maker

OneSymbol == {s1}
OneStrategy == {maker}
=============================================================================
