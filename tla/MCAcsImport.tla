---------------------------- MODULE MCAcsImport ----------------------------
(* TLC instances of AcsImport.                                             *)
EXTENDS AcsImport
=============================================================================
