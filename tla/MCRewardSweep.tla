---------------------------- MODULE MCRewardSweep ----------------------------
(* TLC instances of RewardSweep.                                           *)
EXTENDS RewardSweep
=============================================================================
