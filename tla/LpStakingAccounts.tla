--------------------------- MODULE LpStakingAccounts ---------------------------
(***************************************************************************)
(* The LP staking contract with history variables that follow what the     *)
(* schedule emits and what the stakers are given, and how the two agree.   *)
(***************************************************************************)
EXTENDS LpStakingProperties

CONSTANT MaxStakeChanges   \* bound on the calls that change a stake

VARIABLES
  due,           \* decimal MARS the schedule has emitted since the last accrual
  distributed,   \* decimal MARS the global index has distributed over the stakes
  stakeChanges,  \* number of calls that changed somebody's stake
  paid           \* MARS paid to each user

history == <<due, distributed, stakeChanges, paid>>

\* What the schedule emits in the second that starts now.
SecondEmission ==
  IF InitTimestamp <= now /\ now < TillTimestamp
  THEN FromRatio(Current.current_cycle_rewards, CycleDuration) ELSE 0

HistoryInit ==
  /\ due = 0 /\ distributed = 0 /\ stakeChanges = 0
  /\ paid = [u \in Users |-> 0]

HistoryStep ==
  /\ due' = IF now' # now THEN due + SecondEmission
            ELSE IF state'.last_distributed # state.last_distributed THEN 0
            ELSE due
  /\ distributed' = distributed +
       (state'.global_reward_index - state.global_reward_index)
         * state.total_bond_amount
  /\ stakeChanges' = stakeChanges +
       IF state'.total_bond_amount = state.total_bond_amount THEN 0 ELSE 1
  /\ stakeChanges' <= MaxStakeChanges
  /\ paid' = [u \in Users |->
       IF marsBalance' < marsBalance /\ stakerInfo'[u] # stakerInfo[u]
       THEN paid[u] + marsBalance - marsBalance' ELSE paid[u]]

AccountSpec ==
  (Init /\ HistoryInit) /\ [][Next /\ HistoryStep]_<<vars, history>>

-------------------------------------------------------------------------------

(* What the next call would distribute is what the schedule has emitted since
   the last accrual, less the roundings: under one MARS unit for each cycle it
   spans, and under one unit of the index for each token staked. *)
AccrualMatchesSchedule ==
  state.total_bond_amount > 0 =>
    LET shared  == (Current.global_reward_index - state.global_reward_index)
                     * state.total_bond_amount
        spanned == Current.current_cycle - state.current_cycle + 1
    IN /\ shared <= due
       /\ due < shared + spanned * Scale + state.total_bond_amount

\* Decimal MARS distributed to a user's stake and not yet credited to him.
Uncredited ==
  [u \in Users |->
     IF stakerInfo[u].bond_amount = 0 THEN 0
     ELSE stakerInfo[u].bond_amount
            * (state.global_reward_index - stakerInfo[u].reward_index)]

(* What the index has distributed has been paid, is pending or will be credited
   by the next call of its owner, exactly but for less than one unit each time
   a stake changes: calling often neither loses rewards nor creates any. *)
CreditsMatchDistribution ==
  LET credited == Scale * (Total(paid) + Total(Pending)) + Total(Uncredited)
      rounding == Scale * stakeChanges
  IN /\ credited <= distributed + rounding
     /\ distributed <= credited + rounding
===============================================================================
