------------------------------- MODULE LpStaking -------------------------------
(***************************************************************************)
(* The LP staking contract.  Users bond LP tokens and earn MARS from a     *)
(* schedule of cycles whose rewards grow by a fixed share from one cycle   *)
(* to the next.  Nothing runs by itself: every call first brings the       *)
(* global reward index up to the block time, over as many cycles as have   *)
(* passed since the last call, and then the caller's own record.           *)
(*                                                                         *)
(* One action is one successful transaction, with the token transfers it   *)
(* sends; what makes the code return an error or panic is a guard.         *)
(***************************************************************************)
EXTENDS FixedPoint, Totals

CONSTANTS
  Users,                   \* stakers
  Owners,                  \* accounts that may own the contract
  Tokens, NoToken,         \* LP tokens, and the address before one is set
  InitTimestamp, TillTimestamp, CycleDuration,
  CycleRewards,            \* rewards per cycle an instantiation or update may set
  RewardIncreases,         \* decimals it may set as growth per cycle
  MarsAmounts,             \* amounts of MARS sent to the contract at a time
  MaxTime, MaxStake, MaxMars   \* bounds on the clock and the amounts

VARIABLES
  now,          \* block time
  config,       \* CONFIG: what update_config can change of it
  state,        \* STATE
  stakerInfo,   \* STAKER_INFO, the default record where nothing is stored
  lpBalance,    \* LP tokens the chain holds for this contract, by token
  marsBalance   \* MARS the chain holds for it

vars == <<now, config, state, stakerInfo, lpBalance, marsBalance>>

ASSUME LpStakingAssumption ==
  /\ IsFiniteSet(Users)
  /\ IsFiniteSet(Tokens)
  /\ InitTimestamp \in Nat /\ TillTimestamp \in Nat
  /\ InitTimestamp < TillTimestamp
  /\ CycleDuration \in Nat \ {0}
  /\ CycleRewards \subseteq Nat
  /\ RewardIncreases \subseteq Nat
  /\ MarsAmounts \subseteq Nat
  /\ MaxTime \in Nat /\ MaxStake \in Nat /\ MaxMars \in Nat

NoStaker == [bond_amount |-> 0, reward_index |-> One, pending_reward |-> 0]

Lesser(a, b) == IF a < b THEN a ELSE b

Greater(a, b) == IF a < b THEN b ELSE a

-------------------------------------------------------------------------------
(* The global reward index *)

CyclesElapsed(t) ==
  IF t <= InitTimestamp THEN 0
  ELSE Lesser((TillTimestamp - InitTimestamp) \div CycleDuration,
              (t - InitTimestamp) \div CycleDuration)

InitTimestampForCycle(cycle) == InitTimestamp + cycle * CycleDuration

RewardsDistributedForCycle(rewardsPerSec, from, till) ==
  IF till <= from THEN 0 ELSE MulFloor(till - from, rewardsPerSec)

\* Mutation: the growth is applied while the cycle still runs.
GrowthEveryTime(rewards, increase, isSameCycle) ==
  rewards + MulFloor(rewards, increase)

CycleRewardsAfter(rewards, increase, isSameCycle) ==
  IF isSameCycle THEN rewards ELSE rewards + MulFloor(rewards, increase)

\* Mutation: a cycle's time is counted from the start of the cycle.
DistributeCycleFromItsStart(cfg, p, cycle, last, t) ==
  LET till == Lesser(t, Lesser(TillTimestamp, InitTimestampForCycle(cycle + 1))) IN
  [distributed |-> p.distributed +
     RewardsDistributedForCycle(FromRatio(p.rewards, CycleDuration),
                                InitTimestampForCycle(cycle), till),
   rewards |-> CycleRewardsAfter(p.rewards, cfg.reward_increase, cycle = last),
   till    |-> till]

\* One turn of the loop over the cycles up to last: p is what the earlier turns
\* have distributed, the rewards of this cycle and the time they have reached.
DistributeCycle(cfg, p, cycle, last, t) ==
  LET till == Lesser(t, Lesser(TillTimestamp, InitTimestampForCycle(cycle + 1))) IN
  [distributed |-> p.distributed +
     RewardsDistributedForCycle(FromRatio(p.rewards, CycleDuration),
                                Greater(p.till, InitTimestamp), till),
   rewards |-> CycleRewardsAfter(p.rewards, cfg.reward_increase, cycle = last),
   till    |-> till]

\* What n turns of the loop arrive at when the index is brought from st to time t.
Turns(cfg, st, t) ==
  LET turns[n \in Nat] ==
        IF n = 0
        THEN [distributed |-> 0, rewards |-> st.current_cycle_rewards,
              till |-> st.last_distributed]
        ELSE DistributeCycle(cfg, turns[n - 1], st.current_cycle + n - 1,
                             CyclesElapsed(t), t)
  IN turns

Distribution(cfg, st, t) ==
  LET first == st.current_cycle
      last  == CyclesElapsed(t)
  IN Turns(cfg, st, t)[IF last < first THEN 0 ELSE last - first + 1]

ComputeReward(cfg, st, t) ==
  LET d == Distribution(cfg, st, t) IN
  IF st.last_distributed = TillTimestamp THEN st
  ELSE [st EXCEPT
    !.current_cycle = CyclesElapsed(t),
    !.current_cycle_rewards = IF d.till = TillTimestamp THEN 0 ELSE d.rewards,
    !.last_distributed = d.till,
    !.global_reward_index =
       IF st.total_bond_amount = 0 \/ InitTimestamp > t THEN @
       ELSE @ + FromRatio(d.distributed, st.total_bond_amount)]

\* STATE as the next call finds it after its first step.
Current == ComputeReward(config, state, now)

-------------------------------------------------------------------------------
(* A staker's record *)

\* Mutation: rewards still pending are overwritten.
StakerRewardOverwritten(info) ==
  [info EXCEPT
     !.pending_reward =
        MulFloor(info.bond_amount, Current.global_reward_index)
          - MulFloor(info.bond_amount, info.reward_index),
     !.reward_index = Current.global_reward_index]

\* Mutation: the subtraction is written the wrong way round.
StakerRewardReversed(info) ==
  [info EXCEPT
     !.pending_reward =
        @ + (MulFloor(info.bond_amount, info.reward_index)
               - MulFloor(info.bond_amount, Current.global_reward_index)),
     !.reward_index = Current.global_reward_index]

\* Mutation: the record's index stays where it was.
StakerRewardKeepingIndex(info) ==
  [info EXCEPT
     !.pending_reward =
        @ + (MulFloor(info.bond_amount, Current.global_reward_index)
               - MulFloor(info.bond_amount, info.reward_index))]

\* STAKER_INFO of a record once its rewards are credited.
ComputeStakerReward(info) ==
  [info EXCEPT
     !.pending_reward =
        @ + (MulFloor(info.bond_amount, Current.global_reward_index)
               - MulFloor(info.bond_amount, info.reward_index)),
     !.reward_index = Current.global_reward_index]

\* The checked subtraction in it.
StakerRewardDefined(info) ==
  MulFloor(info.bond_amount, info.reward_index)
    <= MulFloor(info.bond_amount, Current.global_reward_index)

-------------------------------------------------------------------------------

Init ==
  /\ now \in {0, InitTimestamp}
  /\ \E owner \in Owners, token \in Tokens \union {NoToken},
        increase \in RewardIncreases :
       /\ increase < One
       /\ config = [owner |-> owner, staking_token |-> token,
                    reward_increase |-> increase]
  /\ \E rewards \in CycleRewards :
       state = [current_cycle |-> 0, current_cycle_rewards |-> rewards,
                last_distributed |-> InitTimestamp, total_bond_amount |-> 0,
                global_reward_index |-> 0]
  /\ stakerInfo = [u \in Users |-> NoStaker]
  /\ lpBalance = [t \in Tokens |-> 0]
  /\ marsBalance = 0

Tick ==
  /\ now < MaxTime
  /\ now' = now + 1
  /\ UNCHANGED <<config, state, stakerInfo, lpBalance, marsBalance>>

\* MARS for the stakers arrives by plain transfers.
FundRewards(amount) ==
  /\ amount > 0
  /\ marsBalance + amount <= MaxMars
  /\ marsBalance' = marsBalance + amount
  /\ UNCHANGED <<now, config, state, stakerInfo, lpBalance>>

StateAfterUpdate(rewards) == [Current EXCEPT !.current_cycle_rewards = rewards]

\* What the message leaves out keeps its value.
UpdateConfig(sender, token, newOwner, increase, rewards) ==
  /\ sender = config.owner
  /\ increase < One
  /\ config' = [owner |-> newOwner, staking_token |-> token,
                reward_increase |-> increase]
  /\ state' = StateAfterUpdate(rewards)
  /\ UNCHANGED <<now, stakerInfo, lpBalance, marsBalance>>

\* The cw20 token that calls the hook has moved amount > 0 of itself before.
Bond(u, amount) ==
  LET info == ComputeStakerReward(stakerInfo[u]) IN
  /\ config.staking_token \in Tokens
  /\ amount > 0
  /\ state.total_bond_amount + amount <= MaxStake
  /\ StakerRewardDefined(stakerInfo[u])
  /\ stakerInfo' = [stakerInfo EXCEPT ![u] =
       [info EXCEPT !.bond_amount = @ + amount]]
  /\ state' = [Current EXCEPT !.total_bond_amount = @ + amount]
  /\ lpBalance' = [lpBalance EXCEPT ![config.staking_token] = @ + amount]
  /\ UNCHANGED <<now, config, marsBalance>>

\* Mutation: the rewards are always sent.
RewardsAlwaysWithdrawn(info, withdraw) == info.pending_reward

\* MARS that leaves with an unbonding that asks for the rewards, or does not.
RewardsWithdrawn(info, withdraw) == IF withdraw THEN info.pending_reward ELSE 0

\* Mutation: the total still counts what left.
StateAfterUnbondKeepingTotal(amount) == Current

StateAfterUnbond(amount) == [Current EXCEPT !.total_bond_amount = @ - amount]

\* What an unbonding is checked for, by the tokens too; the cw20 token refuses to
\* transfer nothing back.
CanUnbond(u, amount, withdraw) ==
  /\ amount <= stakerInfo[u].bond_amount
  /\ StakerRewardDefined(stakerInfo[u])
  /\ amount <= state.total_bond_amount
  /\ RewardsWithdrawn(ComputeStakerReward(stakerInfo[u]), withdraw) <= marsBalance
  /\ config.staking_token \in Tokens
  /\ amount > 0
  /\ amount <= lpBalance[config.staking_token]

Unbond(u, amount, withdraw) ==
  LET info    == ComputeStakerReward(stakerInfo[u])
      rewards == RewardsWithdrawn(info, withdraw) IN
  /\ CanUnbond(u, amount, withdraw)
  /\ stakerInfo' = [stakerInfo EXCEPT ![u] =
       [info EXCEPT !.bond_amount = @ - amount,
                    !.pending_reward = @ - rewards]]
  /\ state' = StateAfterUnbond(amount)
  /\ lpBalance' = [lpBalance EXCEPT ![config.staking_token] = @ - amount]
  /\ marsBalance' = marsBalance - rewards
  /\ UNCHANGED <<now, config>>

Claim(u) ==
  LET info == ComputeStakerReward(stakerInfo[u]) IN
  /\ StakerRewardDefined(stakerInfo[u])
  /\ info.pending_reward > 0
  /\ info.pending_reward <= marsBalance
  /\ stakerInfo' = [stakerInfo EXCEPT ![u] = [info EXCEPT !.pending_reward = 0]]
  /\ state' = Current
  /\ marsBalance' = marsBalance - info.pending_reward
  /\ UNCHANGED <<now, config, lpBalance>>

-------------------------------------------------------------------------------

OwnerStep ==
  \E sender \in Owners, newOwner \in Owners,
     token \in Tokens \union {config.staking_token},
     increase \in RewardIncreases \union {config.reward_increase},
     rewards \in CycleRewards \union {Current.current_cycle_rewards} :
       UpdateConfig(sender, token, newOwner, increase, rewards)

UserStep ==
  \E u \in Users :
     \/ \E amount \in 1 .. MaxStake : Bond(u, amount)
     \/ \E amount \in 1 .. MaxStake, withdraw \in BOOLEAN : Unbond(u, amount, withdraw)
     \/ Claim(u)

Next ==
  \/ Tick
  \/ \E amount \in MarsAmounts : FundRewards(amount)
  \/ OwnerStep
  \/ UserStep

Spec == Init /\ [][Next]_vars

===============================================================================
