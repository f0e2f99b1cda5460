---------------------------- MODULE MCAgentPool ----------------------------
(* AgentPool on a small instance.                                          *)
EXTENDS AgentPool, TLC

Symmetry == Permutations(Keys) \cup Permutations(Callers) \cup Permutations(Workers)
=============================================================================
