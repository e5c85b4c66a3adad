--------------------------- MODULE MCPartyHosting ---------------------------
(* TLC instances of PartyHosting.                                          *)
EXTENDS PartyHosting, TLC

(* The nodes differ only in which of them owns the namespace. *)
Alike == Permutations(Nodes \ Owners)
=============================================================================
