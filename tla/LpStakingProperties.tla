-------------------------- MODULE LpStakingProperties --------------------------
(* What the LP staking contract promises, and what its comments say of it. *)
EXTENDS LpStaking

ConfigRecords ==
  [owner : Owners, staking_token : Tokens \union {NoToken}, reward_increase : Nat]

StateRecords ==
  [current_cycle : Nat, current_cycle_rewards : Nat, last_distributed : Nat,
   total_bond_amount : Nat, global_reward_index : Nat]

StakerRecords ==
  [bond_amount : Nat, reward_index : Nat, pending_reward : Nat]

(* Every stored value has its type. *)
TypeOK ==
  /\ now \in Nat
  /\ config \in ConfigRecords
  /\ state \in StateRecords
  /\ stakerInfo \in [Users -> StakerRecords]
  /\ lpBalance \in [Tokens -> Nat]
  /\ marsBalance \in Nat

Bonds == [u \in Users |-> stakerInfo[u].bond_amount]

Pending == [u \in Users |-> stakerInfo[u].pending_reward]

(* The stakes of the users add up to the recorded total, which the index is
   divided by, and to the LP tokens held, over all tokens the owner has ever
   configured. *)
StakesAddUp ==
  /\ Total(Bonds) = state.total_bond_amount
  /\ Total(lpBalance) = state.total_bond_amount

(* Whoever has a stake has an index no later than the contract's, although a
   fresh record starts at one and the contract at zero: crediting rewards
   never fails on its subtraction and so never blocks a call. *)
RewardsAlwaysCredited ==
  \A u \in Users :
    /\ stakerInfo[u].bond_amount > 0 =>
         stakerInfo[u].reward_index <= state.global_reward_index
    /\ StakerRewardDefined(stakerInfo[u])

-------------------------------------------------------------------------------
(* The schedule *)

Schedule ==
  INSTANCE EmissionSchedule WITH
    time <- now,
    cycle <- Current.current_cycle,
    rewards <- Current.current_cycle_rewards,
    increase <- config.reward_increase

(* Computed lazily, over any number of cycles at a time and at whatever moments
   the calls happen to come, the cycle and its rewards are those of the
   schedule that a clock would run. *)
FollowsSchedule == Schedule!ScheduleSpec

-------------------------------------------------------------------------------

(* Where the LP tokens that were staked are the ones the contract pays out in,
   which the owner can change, every staker can take out his stake at any time,
   whole or in part, whatever others have been paid and whether or not there is
   MARS for the rewards. *)
StakeAlwaysWithdrawable ==
  /\ config.staking_token \in Tokens
  /\ lpBalance[config.staking_token] = state.total_bond_amount
  => \A u \in Users :
       \A amount \in 1 .. stakerInfo[u].bond_amount : CanUnbond(u, amount, FALSE)
===============================================================================
