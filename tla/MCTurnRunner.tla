---------------------------- MODULE MCTurnRunner ----------------------------
(* TurnRunner for TLC; results of a kind are interchangeable.               *)
EXTENDS TurnRunner, TLC

Symmetry == Permutations(Result) \cup Permutations(Denial)
=============================================================================
