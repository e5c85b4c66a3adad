-------------------------- MODULE MCFormerPartyPurge --------------------------
(* TLC instances of FormerPartyPurge.                                      *)
EXTENDS FormerPartyPurge
=============================================================================
