-------------------------- MODULE MCLpStakingAccounts --------------------------
(* The LP staking contract with its accounts instantiated for TLC. *)
EXTENDS LpStakingAccounts, TLC

UserSymmetry == Permutations(Users)
===============================================================================
