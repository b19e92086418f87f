------------------------------ MODULE MCLpStaking ------------------------------
(* The LP staking contract instantiated for TLC. *)
EXTENDS LpStakingProperties
===============================================================================
