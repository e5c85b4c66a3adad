--------------------------- MODULE MCPartyTopology ---------------------------
(* TLC instances of PartyTopology.                                         *)
EXTENDS PartyTopology, TLC

(* Nodes that start no run and are alike at first, and the slots of runs.  *)
Symmetric == Permutations(Members \ Coordinators) \cup Permutations(Runs)
=============================================================================
