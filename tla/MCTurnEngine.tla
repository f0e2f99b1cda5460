---------------------------- MODULE MCTurnEngine ----------------------------
(* TurnEngine on a small instance.                                         *)
EXTENDS TurnEngine, TLC

Symmetry == Permutations(Turns)
=============================================================================
