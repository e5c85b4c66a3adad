-------------------------- MODULE MCRelaySessions --------------------------
(* TLC instances of RelaySessions.                                         *)
EXTENDS RelaySessions, TLC

Calls == Permutations(Imports)
=============================================================================
