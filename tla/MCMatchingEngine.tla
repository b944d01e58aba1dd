-------------------------- MODULE MCMatchingEngine --------------------------
(* Instances of MatchingEngine for TLC. *)
EXTENDS MatchingEngine

CONSTANTS s1, maker

OneSymbol == {s1}
OneStrategy == {maker}
=============================================================================
