------------------------------ MODULE MCUnhost ------------------------------
(* TLC instances of Unhost.                                                *)
EXTENDS Unhost
=============================================================================
