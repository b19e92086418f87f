---------------------------- MODULE LpStakingProofs ----------------------------
(* Theorems about the LP staking contract, for any users, schedule and amounts. *)
EXTENDS LpStakingAccounts, TotalsTheorems, FixedPointTheorems

TurnRecords == [distributed : Nat, rewards : Nat, till : Nat]

ConfigTyped(cfg) == cfg.reward_increase \in Nat

-------------------------------------------------------------------------------
(* The loop over the cycles *)

LEMMA CyclesElapsedType ==
  ASSUME NEW t \in Nat
  PROVE  CyclesElapsed(t) \in Nat
<1>1. CASE t <= InitTimestamp
  BY <1>1 DEF CyclesElapsed
<1>2. CASE ~(t <= InitTimestamp)
  <2>1. t - InitTimestamp \in Nat /\ TillTimestamp - InitTimestamp \in Nat
    BY <1>2, LpStakingAssumption
  <2>2. /\ (t - InitTimestamp) \div CycleDuration \in Nat
        /\ (TillTimestamp - InitTimestamp) \div CycleDuration \in Nat
    BY <2>1, LpStakingAssumption, DivBound
  <2> QED
    BY <1>2, <2>2 DEF CyclesElapsed, Lesser
<1> QED
  BY <1>1, <1>2

(* One turn of the loop keeps the types of what it carries along. *)
LEMMA DistributeCycleType ==
  ASSUME NEW cfg, ConfigTyped(cfg), NEW p \in TurnRecords,
         NEW cycle \in Nat, NEW last \in Nat, NEW t \in Nat
  PROVE  DistributeCycle(cfg, p, cycle, last, t) \in TurnRecords
<1> DEFINE till == Lesser(t, Lesser(TillTimestamp, InitTimestampForCycle(cycle + 1)))
           from == Greater(p.till, InitTimestamp)
           rate == FromRatio(p.rewards, CycleDuration)
<1>1. p.distributed \in Nat /\ p.rewards \in Nat /\ p.till \in Nat
  BY DEF TurnRecords
<1>2. till \in Nat
  <2>1. InitTimestampForCycle(cycle + 1) \in Nat
    BY LpStakingAssumption, ProductNat DEF InitTimestampForCycle
  <2> QED
    BY <2>1, LpStakingAssumption DEF Lesser
<1>3. from \in Nat
  BY <1>1, LpStakingAssumption DEF Greater
<1>4. rate \in Nat
  BY <1>1, LpStakingAssumption, FromRatioBound
<1> HIDE DEF till, from, rate
<1>5. RewardsDistributedForCycle(rate, from, till) \in Nat
  <2>1. CASE till <= from
    BY <2>1 DEF RewardsDistributedForCycle
  <2>2. CASE ~(till <= from)
    <3>1. till - from \in Nat
      BY <2>2, <1>2, <1>3
    <3> QED
      BY <2>2, <3>1, <1>4, MulFloorBound DEF RewardsDistributedForCycle
  <2> QED
    BY <2>1, <2>2
<1>6. CycleRewardsAfter(p.rewards, cfg.reward_increase, cycle = last) \in Nat
  <2>1. MulFloor(p.rewards, cfg.reward_increase) \in Nat
    BY <1>1, MulFloorBound DEF ConfigTyped
  <2>2. CASE cycle = last
    BY <2>2, <1>1, Zenon DEF CycleRewardsAfter
  <2>3. CASE cycle # last
    <3>1. p.rewards + MulFloor(p.rewards, cfg.reward_increase) \in Nat
      BY <2>1, <1>1
    <3> QED
      BY <2>3, <3>1, Zenon DEF CycleRewardsAfter
  <2> QED
    BY <2>2, <2>3
<1>7. p.distributed + RewardsDistributedForCycle(rate, from, till) \in Nat
  BY <1>1, <1>5
<1>8. DistributeCycle(cfg, p, cycle, last, t)
        = [distributed |-> p.distributed + RewardsDistributedForCycle(rate, from, till),
           rewards |-> CycleRewardsAfter(p.rewards, cfg.reward_increase, cycle = last),
           till |-> till]
  BY DEF DistributeCycle, till, from, rate
<1> QED
  BY <1>2, <1>6, <1>7, <1>8 DEF TurnRecords

(* The recursive function of the loop is defined: it is the iteration of its
   turns, and every turn has its type. *)
LEMMA TurnsDefined ==
  ASSUME NEW cfg, ConfigTyped(cfg), NEW st \in StateRecords, NEW t \in Nat
  PROVE  /\ Turns(cfg, st, t) \in [Nat -> TurnRecords]
         /\ Turns(cfg, st, t)[0] =
              [distributed |-> 0, rewards |-> st.current_cycle_rewards,
               till |-> st.last_distributed]
         /\ \A n \in Nat : Turns(cfg, st, t)[n + 1] =
              DistributeCycle(cfg, Turns(cfg, st, t)[n], st.current_cycle + n,
                              CyclesElapsed(t), t)
<1> DEFINE start == [distributed |-> 0, rewards |-> st.current_cycle_rewards,
                     till |-> st.last_distributed]
           turn(p, n) == DistributeCycle(cfg, p, st.current_cycle + n,
                                         CyclesElapsed(t), t)
           g == [x \in TurnRecords \X Nat |-> turn(x[1], x[2])]
           body(f) == [n \in Nat |->
                         IF n = 0 THEN start
                         ELSE DistributeCycle(cfg, f[n - 1], st.current_cycle + n - 1,
                                              CyclesElapsed(t), t)]
<1>1. start \in TurnRecords
  BY DEF TurnRecords, StateRecords
<1>2. ASSUME NEW p \in TurnRecords, NEW n \in Nat PROVE turn(p, n) \in TurnRecords
  <2>1. st.current_cycle + n \in Nat
    BY DEF StateRecords
  <2> QED
    BY <2>1, CyclesElapsedType, DistributeCycleType
<1> HIDE DEF turn, start
<1>3. g \in StepFunctions(TurnRecords)
  BY <1>2 DEF StepFunctions
<1>4. \A p \in TurnRecords, n \in Nat : g[<<p, n>>] = turn(p, n)
  OBVIOUS
<1> HIDE DEF g, body
<1>5. PICK f : IsIteration(f, TurnRecords, start, g)
  BY <1>1, <1>3, IterationExists, Zenon
<1>iter. /\ f \in [Nat -> TurnRecords] /\ f[0] = start
       /\ \A n \in Nat : f[n + 1] = g[<<f[n], n>>]
  BY <1>5 DEF IsIteration
<1>6. f = body(f)
  <2> USE DEF body
  <2>1. ASSUME NEW n \in Nat PROVE f[n] = body(f)[n]
    <3>1. CASE n = 0
      BY <3>1, <1>iter
    <3>2. CASE n # 0
      <4>1. n - 1 \in Nat /\ f[n - 1] \in TurnRecords /\ n = (n - 1) + 1
        BY <3>2, <1>iter
      <4>2. f[n] = g[<<f[n - 1], n - 1>>]
        BY <4>1, <1>iter
      <4>3. f[n] = turn(f[n - 1], n - 1)
        BY <4>1, <4>2, <1>4
      <4>4. st.current_cycle + (n - 1) = st.current_cycle + n - 1
        BY DEF StateRecords
      <4> QED
        BY <3>2, <4>3, <4>4 DEF turn
    <3> QED
      BY <3>1, <3>2
  <2> QED
    BY <2>1, <1>iter
<1>7. Turns(cfg, st, t) = CHOOSE h : h = body(h)
  BY DEF Turns, body, start
<1>8. Turns(cfg, st, t) = body(Turns(cfg, st, t))
  BY <1>6, <1>7
<1> DEFINE T == Turns(cfg, st, t)
<1> HIDE DEF T
<1>9. T = body(T)
  BY <1>8 DEF T
<1>10. T[0] = start
  BY <1>9 DEF body
<1>11. ASSUME NEW n \in Nat PROVE T[n + 1] = turn(T[n], n)
  <2>1. n + 1 \in Nat /\ n + 1 # 0 /\ (n + 1) - 1 = n
    OBVIOUS
  <2>2. st.current_cycle + (n + 1) - 1 = st.current_cycle + n
    BY DEF StateRecords
  <2>3. body(T)[n + 1] = DistributeCycle(cfg, T[(n + 1) - 1],
            st.current_cycle + (n + 1) - 1, CyclesElapsed(t), t)
    BY <2>1 DEF body
  <2> QED
    BY <1>9, <2>1, <2>2, <2>3 DEF turn
<1>12. \A n \in Nat : T[n] \in TurnRecords
  <2> DEFINE S == {n \in Nat : T[n] \in TurnRecords}
  <2>1. 0 \in S
    BY <1>1, <1>10
  <2>2. ASSUME NEW n \in Nat, n \in S PROVE n + 1 \in S
    BY <2>2, <1>2, <1>11
  <2> HIDE DEF S
  <2>3. \A n \in Nat : n \in S
    BY <2>1, <2>2, SetInduction
  <2> QED
    BY <2>3 DEF S
<1>13. T \in [Nat -> TurnRecords]
  <2>1. T = [n \in Nat |-> T[n]]
    BY <1>9 DEF body
  <2> QED
    BY <2>1, <1>12
<1> QED
  BY <1>10, <1>11, <1>13 DEF T, turn, start

(* Bringing the index up to date keeps the types and the stakes, and the index
   never falls. *)
LEMMA ComputeRewardType ==
  ASSUME NEW cfg, ConfigTyped(cfg), NEW st \in StateRecords, NEW t \in Nat
  PROVE  /\ ComputeReward(cfg, st, t) \in StateRecords
         /\ ComputeReward(cfg, st, t).total_bond_amount = st.total_bond_amount
         /\ st.global_reward_index <= ComputeReward(cfg, st, t).global_reward_index
<1> DEFINE d == Distribution(cfg, st, t)
           i == IF st.total_bond_amount = 0 \/ InitTimestamp > t
                THEN st.global_reward_index
                ELSE st.global_reward_index + FromRatio(d.distributed, st.total_bond_amount)
           r == IF d.till = TillTimestamp THEN 0 ELSE d.rewards
<1>1. d \in TurnRecords
  <2>1. CyclesElapsed(t) \in Nat /\ st.current_cycle \in Nat
    BY CyclesElapsedType DEF StateRecords
  <2>2. (IF CyclesElapsed(t) < st.current_cycle THEN 0
         ELSE CyclesElapsed(t) - st.current_cycle + 1) \in Nat
    BY <2>1
  <2>3. Turns(cfg, st, t) \in [Nat -> TurnRecords]
    BY TurnsDefined
  <2> QED
    BY <2>2, <2>3, Zenon DEF Distribution
<1> HIDE DEF d
<1>2. d.distributed \in Nat /\ d.rewards \in Nat /\ d.till \in Nat
  BY <1>1 DEF TurnRecords
<1>3. r \in Nat
  BY <1>2
<1>4. st.global_reward_index \in Nat /\ st.total_bond_amount \in Nat
  BY DEF StateRecords
<1>5. i \in Nat /\ st.global_reward_index <= i
  <2>1. CASE st.total_bond_amount = 0 \/ InitTimestamp > t
    BY <2>1, <1>4
  <2>2. CASE ~(st.total_bond_amount = 0 \/ InitTimestamp > t)
    <3>1. FromRatio(d.distributed, st.total_bond_amount) \in Nat
      BY <2>2, <1>2, <1>4, FromRatioBound
    <3> QED
      BY <2>2, <3>1, <1>4
  <2> QED
    BY <2>1, <2>2
<1>6. CASE st.last_distributed = TillTimestamp
  BY <1>6, <1>4 DEF ComputeReward
<1>7. CASE st.last_distributed # TillTimestamp
  <2>1. ComputeReward(cfg, st, t) =
          [st EXCEPT !.current_cycle = CyclesElapsed(t), !.current_cycle_rewards = r,
                     !.last_distributed = d.till, !.global_reward_index = i]
    BY <1>7 DEF ComputeReward, d
  <2> HIDE DEF i, r
  <2> QED
    BY <2>1, <1>2, <1>3, <1>5, CyclesElapsedType DEF StateRecords
<1> QED
  BY <1>6, <1>7

-------------------------------------------------------------------------------
(* The actions *)

LEMMA CurrentType ==
  ASSUME TypeOK
  PROVE  /\ Current \in StateRecords
         /\ Current.total_bond_amount = state.total_bond_amount
         /\ state.global_reward_index <= Current.global_reward_index
<1>1. ConfigTyped(config) /\ state \in StateRecords /\ now \in Nat
  BY DEF TypeOK, ConfigTyped, ConfigRecords
<1> QED
  BY <1>1, ComputeRewardType DEF Current

(* Crediting a record keeps its type and its stake, and moves its index to the
   contract's. *)
LEMMA StakerRewardType ==
  ASSUME TypeOK, NEW info \in StakerRecords, StakerRewardDefined(info)
  PROVE  /\ ComputeStakerReward(info) \in StakerRecords
         /\ ComputeStakerReward(info).bond_amount = info.bond_amount
         /\ ComputeStakerReward(info).reward_index = Current.global_reward_index
<1> DEFINE new == MulFloor(info.bond_amount, Current.global_reward_index)
           old == MulFloor(info.bond_amount, info.reward_index)
<1>1. /\ info.bond_amount \in Nat /\ info.reward_index \in Nat
      /\ info.pending_reward \in Nat /\ Current.global_reward_index \in Nat
  BY CurrentType DEF StakerRecords, StateRecords
<1>2. new \in Nat /\ old \in Nat
  BY <1>1, MulFloorBound
<1>3. old <= new
  BY DEF StakerRewardDefined
<1>4. ComputeStakerReward(info)
        = [info EXCEPT !.pending_reward = info.pending_reward + (new - old),
                       !.reward_index = Current.global_reward_index]
  BY DEF ComputeStakerReward
<1> HIDE DEF new, old
<1>5. info.pending_reward + (new - old) \in Nat
  BY <1>1, <1>2, <1>3
<1> QED
  BY <1>1, <1>4, <1>5 DEF StakerRecords

LEMMA BondType ==
  ASSUME TypeOK, NEW u \in Users, NEW amount \in Nat, Bond(u, amount)
  PROVE  TypeOK'
<1> DEFINE info == ComputeStakerReward(stakerInfo[u])
           next == [info EXCEPT !.bond_amount = info.bond_amount + amount]
<1>1. stakerInfo[u] \in StakerRecords /\ StakerRewardDefined(stakerInfo[u])
  BY DEF Bond, TypeOK
<1>2. info \in StakerRecords
  BY <1>1, StakerRewardType
<1>3. stakerInfo' = [stakerInfo EXCEPT ![u] = next]
  BY DEF Bond
<1> HIDE DEF info
<1>4. info.bond_amount + amount \in Nat
  BY <1>2 DEF StakerRecords
<1>5. next \in StakerRecords
  BY <1>2, <1>4 DEF StakerRecords
<1> HIDE DEF next
<1>6. stakerInfo' \in [Users -> StakerRecords]
  BY <1>3, <1>5 DEF TypeOK
<1>7. state' \in StateRecords
  <2>1. Current \in StateRecords
    BY CurrentType
  <2>2. Current.total_bond_amount + amount \in Nat
    BY <2>1 DEF StateRecords
  <2>3. state' = [Current EXCEPT !.total_bond_amount = Current.total_bond_amount + amount]
    BY DEF Bond
  <2> QED
    BY <2>1, <2>2, <2>3 DEF StateRecords
<1>8. lpBalance' \in [Tokens -> Nat]
  BY DEF Bond, TypeOK
<1> QED
  BY <1>6, <1>7, <1>8 DEF Bond, TypeOK

LEMMA UnbondType ==
  ASSUME TypeOK, NEW u \in Users, NEW amount \in Nat, NEW withdraw \in BOOLEAN,
         Unbond(u, amount, withdraw)
  PROVE  TypeOK'
<1> DEFINE info    == ComputeStakerReward(stakerInfo[u])
           rewards == RewardsWithdrawn(info, withdraw)
           next    == [info EXCEPT !.bond_amount = info.bond_amount - amount,
                                   !.pending_reward = info.pending_reward - rewards]
<1>1. stakerInfo[u] \in StakerRecords /\ StakerRewardDefined(stakerInfo[u])
  BY DEF Unbond, CanUnbond, TypeOK
<1>2. info \in StakerRecords /\ info.bond_amount = stakerInfo[u].bond_amount
  BY <1>1, StakerRewardType
<1>3. /\ stakerInfo' = [stakerInfo EXCEPT ![u] = next]
      /\ amount <= stakerInfo[u].bond_amount
      /\ amount <= state.total_bond_amount
      /\ rewards <= marsBalance
      /\ marsBalance' = marsBalance - rewards
      /\ amount <= lpBalance[config.staking_token]
      /\ lpBalance' = [lpBalance EXCEPT ![config.staking_token] = @ - amount]
      /\ config.staking_token \in Tokens
  BY DEF Unbond, CanUnbond
<1> HIDE DEF info
<1>4. /\ info.bond_amount \in Nat /\ info.pending_reward \in Nat
      /\ rewards \in Nat /\ rewards <= info.pending_reward
  BY <1>2 DEF StakerRecords, RewardsWithdrawn
<1> HIDE DEF rewards
<1>5. info.bond_amount - amount \in Nat /\ info.pending_reward - rewards \in Nat
  BY <1>2, <1>3, <1>4
<1>6. next \in StakerRecords
  BY <1>2, <1>5 DEF StakerRecords
<1> HIDE DEF next
<1>7. stakerInfo' \in [Users -> StakerRecords]
  BY <1>3, <1>6 DEF TypeOK
<1>8. state' \in StateRecords
  <2>1. Current \in StateRecords /\ Current.total_bond_amount = state.total_bond_amount
    BY CurrentType
  <2>2. Current.total_bond_amount - amount \in Nat
    BY <2>1, <1>3 DEF StateRecords
  <2>3. state' = [Current EXCEPT !.total_bond_amount = Current.total_bond_amount - amount]
    BY DEF Unbond, StateAfterUnbond
  <2> QED
    BY <2>1, <2>2, <2>3 DEF StateRecords
<1>9. lpBalance' \in [Tokens -> Nat]
  BY <1>3 DEF TypeOK
<1>10. marsBalance' \in Nat
  BY <1>3, <1>4 DEF TypeOK
<1> QED
  BY <1>7, <1>8, <1>9, <1>10 DEF Unbond, TypeOK

LEMMA ClaimType ==
  ASSUME TypeOK, NEW u \in Users, Claim(u)
  PROVE  TypeOK'
<1> DEFINE info == ComputeStakerReward(stakerInfo[u])
           next == [info EXCEPT !.pending_reward = 0]
<1>1. stakerInfo[u] \in StakerRecords /\ StakerRewardDefined(stakerInfo[u])
  BY DEF Claim, TypeOK
<1>2. info \in StakerRecords
  BY <1>1, StakerRewardType
<1>3. /\ stakerInfo' = [stakerInfo EXCEPT ![u] = next]
      /\ info.pending_reward <= marsBalance
      /\ marsBalance' = marsBalance - info.pending_reward
  BY DEF Claim
<1> HIDE DEF info
<1>4. next \in StakerRecords
  BY <1>2 DEF StakerRecords
<1> HIDE DEF next
<1>5. stakerInfo' \in [Users -> StakerRecords]
  BY <1>3, <1>4 DEF TypeOK
<1>6. marsBalance' \in Nat
  BY <1>2, <1>3 DEF TypeOK, StakerRecords
<1> QED
  BY <1>5, <1>6, CurrentType DEF Claim, TypeOK

LEMMA UpdateConfigType ==
  ASSUME TypeOK, NEW sender \in Owners, NEW newOwner \in Owners,
         NEW token \in Tokens \union {config.staking_token},
         NEW increase \in RewardIncreases \union {config.reward_increase},
         NEW rewards \in CycleRewards \union {Current.current_cycle_rewards},
         UpdateConfig(sender, token, newOwner, increase, rewards)
  PROVE  TypeOK'
<1>1. /\ token \in Tokens \union {NoToken} /\ increase \in Nat
  BY LpStakingAssumption DEF TypeOK, ConfigRecords
<1>2. config' \in ConfigRecords
  BY <1>1 DEF UpdateConfig, ConfigRecords
<1>3. Current \in StateRecords /\ rewards \in Nat
  BY CurrentType, LpStakingAssumption DEF StateRecords
<1>4. state' \in StateRecords
  BY <1>3 DEF UpdateConfig, StateAfterUpdate, StateRecords
<1> QED
  BY <1>2, <1>4 DEF UpdateConfig, TypeOK

LEMMA InitType == Init => TypeOK
<1> SUFFICES ASSUME Init PROVE TypeOK
  OBVIOUS
<1>1. One \in Nat
  BY ScaleAssumption DEF One
<1>2. stakerInfo \in [Users -> StakerRecords]
  BY <1>1 DEF Init, NoStaker, StakerRecords
<1>3. config \in ConfigRecords
  BY LpStakingAssumption DEF Init, ConfigRecords
<1>4. state \in StateRecords
  BY LpStakingAssumption DEF Init, StateRecords
<1>5. now \in Nat /\ marsBalance \in Nat /\ lpBalance \in [Tokens -> Nat]
  BY LpStakingAssumption DEF Init
<1> QED
  BY <1>2, <1>3, <1>4, <1>5 DEF TypeOK

LEMMA NextType == TypeOK /\ [Next]_vars => TypeOK'
<1> SUFFICES ASSUME TypeOK, [Next]_vars PROVE TypeOK'
  OBVIOUS
<1>1. CASE Tick
  BY <1>1 DEF Tick, TypeOK
<1>2. ASSUME NEW amount \in MarsAmounts, FundRewards(amount) PROVE TypeOK'
  BY <1>2, LpStakingAssumption DEF FundRewards, TypeOK
<1>3. CASE OwnerStep
  BY <1>3, UpdateConfigType DEF OwnerStep
<1>4. CASE UserStep
  <2>1. MaxStake \in Nat
    BY LpStakingAssumption
  <2> QED
    BY <1>4, <2>1, BondType, UnbondType, ClaimType DEF UserStep
<1>5. CASE UNCHANGED vars
  BY <1>5 DEF vars, TypeOK
<1> QED
  BY <1>1, <1>2, <1>3, <1>4, <1>5 DEF Next

(* Every value the staking contract stores keeps its type, for any users,
   tokens, schedule, amounts and scale of the decimals: the loop over the
   cycles and the roundings in it never leave the natural numbers. *)
THEOREM StakingTypeCorrect == Spec => []TypeOK
<1>1. Init => TypeOK
  BY InitType
<1>2. TypeOK /\ [Next]_vars => TypeOK'
  BY NextType
<1> QED
  BY <1>1, <1>2, PTL DEF Spec

-------------------------------------------------------------------------------
(* Safety: the stakes and the credits. *)

\* Nobody with a stake is ahead of the contract's index.
IndexesBehind ==
  \A u \in Users :
    stakerInfo[u].bond_amount > 0 =>
      stakerInfo[u].reward_index <= state.global_reward_index

StakingInv == TypeOK /\ StakesAddUp /\ IndexesBehind

-------------------------------------------------------------------------------

LEMMA StakeTypes ==
  ASSUME TypeOK
  PROVE  /\ Bonds \in [Users -> Nat] /\ lpBalance \in [Tokens -> Nat]
         /\ state.total_bond_amount \in Nat
BY DEF Bonds, TypeOK, StakerRecords, StateRecords

(* With the indexes behind, the subtraction in crediting rewards never fails. *)
LEMMA CreditDefined ==
  ASSUME TypeOK, IndexesBehind, NEW u \in Users
  PROVE  StakerRewardDefined(stakerInfo[u])
<1> DEFINE bond == stakerInfo[u].bond_amount
           from == stakerInfo[u].reward_index
           to   == Current.global_reward_index
<1>1. /\ bond \in Nat /\ from \in Nat
      /\ to \in Nat /\ state.global_reward_index \in Nat
      /\ state.global_reward_index <= to
  BY CurrentType DEF TypeOK, StakerRecords, StateRecords
<1>2. bond > 0 => from <= state.global_reward_index
  BY DEF IndexesBehind
<1> HIDE DEF bond, from, to
<1>3. MulFloor(bond, from) <= MulFloor(bond, to)
  <2>1. CASE bond = 0
    <3>1. bond * from = 0 /\ bond * to = 0
      BY <2>1, <1>1
    <3>2. MulFloor(bond, from) = MulFloor(bond, to)
      BY <3>1 DEF MulFloor
    <3>3. MulFloor(bond, from) \in Nat
      BY <1>1, MulFloorBound
    <3> QED
      BY <3>2, <3>3
  <2>2. CASE bond # 0
    <3>1. from <= to
      BY <2>2, <1>1, <1>2
    <3> QED
      BY <3>1, <1>1, MulFloorMono
  <2> QED
    BY <2>1, <2>2
<1> QED
  BY <1>3 DEF StakerRewardDefined, bond, from, to

(* A call of u that leaves his record with the contract's new index and his
   stake moved by delta, and the tokens and the total by the same, keeps the
   stakes and the indexes in order. *)
LEMMA StakeMove ==
  ASSUME StakingInv, TypeOK', NEW u \in Users,
         NEW delta \in Int, NEW next \in StakerRecords,
         stakerInfo' = [stakerInfo EXCEPT ![u] = next],
         next.bond_amount = stakerInfo[u].bond_amount + delta,
         next.reward_index = state'.global_reward_index,
         state.global_reward_index <= state'.global_reward_index,
         state'.total_bond_amount = state.total_bond_amount + delta,
         Total(lpBalance') = Total(lpBalance) + delta
  PROVE  StakingInv'
<1>1. /\ TypeOK /\ StakesAddUp /\ IndexesBehind
      /\ stakerInfo \in [Users -> StakerRecords]
  BY DEF StakingInv, TypeOK
<1>2. /\ stakerInfo'[u] = next
      /\ \A v \in Users : v # u => stakerInfo'[v] = stakerInfo[v]
  BY <1>1
<1>3. Bonds \in [Users -> Nat] /\ Bonds' \in [Users -> Nat]
  BY <1>1, StakeTypes DEF Bonds, TypeOK, StakerRecords
<1>4. Total(Bonds') = Total(Bonds) + delta
  <2>1. Bonds'[u] = Bonds[u] + delta /\ \A v \in Users : v # u => Bonds'[v] = Bonds[v]
    BY <1>2 DEF Bonds
  <2> QED
    BY <2>1, <1>3, LpStakingAssumption, TotalShift
<1>5. StakesAddUp'
  BY <1>1, <1>4 DEF StakesAddUp
<1>6. IndexesBehind'
  <2>1. ASSUME NEW v \in Users, stakerInfo'[v].bond_amount > 0
        PROVE  stakerInfo'[v].reward_index <= state'.global_reward_index
    <3>1. CASE v = u
      <4>1. next.reward_index \in Nat
        BY DEF StakerRecords
      <4> QED
        BY <3>1, <4>1, <1>2
    <3>2. CASE v # u
      <4>1. stakerInfo'[v] = stakerInfo[v]
        BY <3>2, <1>2
      <4>2. stakerInfo[v].reward_index <= state.global_reward_index
        BY <4>1, <2>1, <1>1 DEF IndexesBehind
      <4>3. /\ stakerInfo[v].reward_index \in Nat
            /\ state.global_reward_index \in Nat /\ state'.global_reward_index \in Nat
        BY <1>1 DEF TypeOK, StakerRecords, StateRecords
      <4> QED
        BY <4>1, <4>2, <4>3
    <3> QED
      BY <3>1, <3>2
  <2> QED
    BY <2>1 DEF IndexesBehind
<1> QED
  BY <1>5, <1>6 DEF StakingInv

LEMMA TokenShift ==
  ASSUME TypeOK, TypeOK', NEW token \in Tokens, NEW delta \in Int,
         lpBalance' = [lpBalance EXCEPT ![token] = @ + delta]
  PROVE  Total(lpBalance') = Total(lpBalance) + delta
<1>1. lpBalance \in [Tokens -> Nat] /\ lpBalance' \in [Tokens -> Nat]
  BY DEF TypeOK
<1>2. /\ lpBalance'[token] = lpBalance[token] + delta
      /\ \A t \in Tokens : t # token => lpBalance'[t] = lpBalance[t]
  BY <1>1
<1>3. IsFiniteSet(Tokens)
  BY LpStakingAssumption
<1>4. ASSUME NEW f \in [Tokens -> Nat], NEW g \in [Tokens -> Nat],
             g[token] = f[token] + delta,
             \A t \in Tokens : t # token => g[t] = f[t]
      PROVE  Total(g) = Total(f) + delta
  BY <1>3, <1>4, TotalShift
<1> QED
  BY <1>1, <1>2, <1>4

LEMMA BondSafe ==
  ASSUME StakingInv, NEW u \in Users, NEW amount \in Nat, Bond(u, amount)
  PROVE  StakingInv'
<1> DEFINE info == ComputeStakerReward(stakerInfo[u])
           next == [info EXCEPT !.bond_amount = info.bond_amount + amount]
<1>1. TypeOK /\ TypeOK' /\ stakerInfo[u] \in StakerRecords
  BY BondType DEF StakingInv, TypeOK
<1>2. /\ StakerRewardDefined(stakerInfo[u])
      /\ stakerInfo' = [stakerInfo EXCEPT ![u] = next]
      /\ state' = [Current EXCEPT !.total_bond_amount = Current.total_bond_amount + amount]
      /\ config.staking_token \in Tokens
      /\ lpBalance' = [lpBalance EXCEPT ![config.staking_token] = @ + amount]
  BY DEF Bond
<1>3. /\ info \in StakerRecords
      /\ info.bond_amount = stakerInfo[u].bond_amount
      /\ info.reward_index = Current.global_reward_index
  BY <1>1, <1>2, StakerRewardType
<1>4. /\ Current \in StateRecords
      /\ Current.total_bond_amount = state.total_bond_amount
      /\ state.global_reward_index <= Current.global_reward_index
  BY <1>1, CurrentType
<1> HIDE DEF info
<1>5. info.bond_amount + amount \in Nat /\ Current.total_bond_amount + amount \in Nat
  BY <1>3, <1>4 DEF StakerRecords, StateRecords
<1>6. /\ next \in StakerRecords
      /\ next.bond_amount = stakerInfo[u].bond_amount + amount
      /\ next.reward_index = Current.global_reward_index
  BY <1>3, <1>5 DEF StakerRecords
<1>7. /\ state'.global_reward_index = Current.global_reward_index
      /\ state'.total_bond_amount = state.total_bond_amount + amount
  BY <1>2, <1>4 DEF StateRecords
<1>8. Total(lpBalance') = Total(lpBalance) + amount
  <2>1. amount \in Int
    OBVIOUS
  <2> HIDE DEF next
  <2> QED
    BY <1>1, <1>2, <2>1, TokenShift
<1> HIDE DEF next
<1>9. amount \in Int /\ next.reward_index = state'.global_reward_index
      /\ state.global_reward_index <= state'.global_reward_index
  BY <1>4, <1>6, <1>7
<1> QED
  BY <1>1, <1>2, <1>6, <1>7, <1>8, <1>9, StakeMove

LEMMA UnbondSafe ==
  ASSUME StakingInv, NEW u \in Users, NEW amount \in Nat, NEW withdraw \in BOOLEAN,
         Unbond(u, amount, withdraw)
  PROVE  StakingInv'
<1> DEFINE info    == ComputeStakerReward(stakerInfo[u])
           rewards == RewardsWithdrawn(info, withdraw)
           next    == [info EXCEPT !.bond_amount = info.bond_amount - amount,
                                   !.pending_reward = info.pending_reward - rewards]
           delta   == 0 - amount
<1>1. TypeOK /\ TypeOK' /\ stakerInfo[u] \in StakerRecords
  BY UnbondType DEF StakingInv, TypeOK
<1>2. /\ StakerRewardDefined(stakerInfo[u])
      /\ stakerInfo' = [stakerInfo EXCEPT ![u] = next]
      /\ amount <= stakerInfo[u].bond_amount
      /\ state' = [Current EXCEPT !.total_bond_amount = Current.total_bond_amount - amount]
      /\ config.staking_token \in Tokens
      /\ lpBalance' = [lpBalance EXCEPT ![config.staking_token] = @ - amount]
  BY DEF Unbond, CanUnbond, StateAfterUnbond
<1>3. /\ info \in StakerRecords
      /\ info.bond_amount = stakerInfo[u].bond_amount
      /\ info.reward_index = Current.global_reward_index
  BY <1>1, <1>2, StakerRewardType
<1>4. /\ Current \in StateRecords
      /\ Current.total_bond_amount = state.total_bond_amount
      /\ state.global_reward_index <= Current.global_reward_index
  BY <1>1, CurrentType
<1> HIDE DEF info
<1>5. /\ info.bond_amount \in Nat /\ info.pending_reward \in Nat
      /\ rewards \in Nat /\ rewards <= info.pending_reward
  BY <1>3 DEF StakerRecords, RewardsWithdrawn
<1> HIDE DEF rewards
<1>6. info.bond_amount - amount \in Nat /\ info.pending_reward - rewards \in Nat
  BY <1>2, <1>3, <1>5
<1>7. /\ next \in StakerRecords
      /\ next.bond_amount = info.bond_amount - amount
      /\ next.reward_index = Current.global_reward_index
  BY <1>3, <1>6 DEF StakerRecords
<1>8. /\ state'.global_reward_index = Current.global_reward_index
      /\ state'.total_bond_amount = state.total_bond_amount - amount
  BY <1>2, <1>4 DEF StateRecords
<1>9. lpBalance' = [lpBalance EXCEPT ![config.staking_token] = @ + delta]
  <2>1. lpBalance[config.staking_token] \in Nat
    BY <1>1, <1>2 DEF TypeOK
  <2>2. lpBalance[config.staking_token] - amount = lpBalance[config.staking_token] + delta
    BY <2>1
  <2> QED
    BY <1>2, <2>2
<1> HIDE DEF next
<1>10. /\ delta \in Int
       /\ next.bond_amount = stakerInfo[u].bond_amount + delta
       /\ next.reward_index = state'.global_reward_index
       /\ state.global_reward_index <= state'.global_reward_index
       /\ state'.total_bond_amount = state.total_bond_amount + delta
  BY <1>3, <1>4, <1>5, <1>7, <1>8 DEF StateRecords
<1> HIDE DEF delta
<1>11. Total(lpBalance') = Total(lpBalance) + delta
  BY <1>1, <1>2, <1>9, <1>10, TokenShift
<1> QED
  BY <1>1, <1>2, <1>7, <1>10, <1>11, StakeMove

LEMMA ClaimSafe ==
  ASSUME StakingInv, NEW u \in Users, Claim(u)
  PROVE  StakingInv'
<1> DEFINE info == ComputeStakerReward(stakerInfo[u])
           next == [info EXCEPT !.pending_reward = 0]
           zero == 0
<1>1. TypeOK /\ TypeOK' /\ stakerInfo[u] \in StakerRecords
  BY ClaimType DEF StakingInv, TypeOK
<1>2. /\ StakerRewardDefined(stakerInfo[u])
      /\ stakerInfo' = [stakerInfo EXCEPT ![u] = next]
      /\ state' = Current
      /\ lpBalance' = lpBalance
  BY DEF Claim
<1>3. /\ info \in StakerRecords
      /\ info.bond_amount = stakerInfo[u].bond_amount
      /\ info.reward_index = Current.global_reward_index
  BY <1>1, <1>2, StakerRewardType
<1>4. /\ Current \in StateRecords
      /\ Current.total_bond_amount = state.total_bond_amount
      /\ state.global_reward_index <= Current.global_reward_index
  BY <1>1, CurrentType
<1> HIDE DEF info
<1>5. /\ next \in StakerRecords
      /\ next.bond_amount = stakerInfo[u].bond_amount + zero
      /\ next.reward_index = state'.global_reward_index
  BY <1>1, <1>2, <1>3 DEF StakerRecords
<1> HIDE DEF next
<1>6. /\ state.global_reward_index <= state'.global_reward_index
      /\ state'.total_bond_amount = state.total_bond_amount + zero
  BY <1>1, <1>2, <1>4 DEF TypeOK, StateRecords
<1>7. zero \in Int /\ Total(lpBalance') = Total(lpBalance) + zero
  <2>1. Total(lpBalance) \in Nat
    BY <1>1, LpStakingAssumption, TotalType DEF TypeOK
  <2> QED
    BY <2>1, <1>2
<1> HIDE DEF zero
<1> QED
  BY <1>1, <1>2, <1>5, <1>6, <1>7, StakeMove

(* A step that moves no stake and never lowers the index. *)
LEMMA StakesKept ==
  ASSUME StakingInv, TypeOK', UNCHANGED <<stakerInfo, lpBalance>>,
         state'.total_bond_amount = state.total_bond_amount,
         state.global_reward_index <= state'.global_reward_index
  PROVE  StakingInv'
<1>1. StakesAddUp'
  BY DEF StakingInv, StakesAddUp, Bonds
<1>2. IndexesBehind'
  <2>1. ASSUME NEW v \in Users, stakerInfo[v].bond_amount > 0
        PROVE  stakerInfo[v].reward_index <= state'.global_reward_index
    <3>1. stakerInfo[v].reward_index <= state.global_reward_index
      BY <2>1 DEF StakingInv, IndexesBehind
    <3>2. /\ stakerInfo[v].reward_index \in Nat
          /\ state.global_reward_index \in Nat /\ state'.global_reward_index \in Nat
      BY DEF StakingInv, TypeOK, StakerRecords, StateRecords
    <3> QED
      BY <3>1, <3>2
  <2> QED
    BY <2>1 DEF IndexesBehind
<1> QED
  BY <1>1, <1>2 DEF StakingInv

LEMMA StakingInit == Init => StakingInv
<1> SUFFICES ASSUME Init PROVE StakingInv
  OBVIOUS
<1>1. TypeOK
  BY InitType
<1>2. \A u \in Users : stakerInfo[u].bond_amount = 0
  BY DEF Init, NoStaker
<1>3. IndexesBehind
  BY <1>2 DEF IndexesBehind
<1>4. Total(Bonds) = 0 /\ Total(lpBalance) = 0
  <2>1. Bonds \in [Users -> Nat] /\ \A u \in Users : Bonds[u] = 0
    BY <1>2 DEF Bonds
  <2>2. lpBalance \in [Tokens -> Nat] /\ \A t \in Tokens : lpBalance[t] = 0
    BY DEF Init
  <2> QED
    BY <2>1, <2>2, TotalZero
<1>5. StakesAddUp
  BY <1>4 DEF Init, StakesAddUp
<1> QED
  BY <1>1, <1>3, <1>5 DEF StakingInv

LEMMA StakingNext == StakingInv /\ [Next]_vars => StakingInv'
<1> SUFFICES ASSUME StakingInv, [Next]_vars PROVE StakingInv'
  OBVIOUS
<1>1. TypeOK /\ TypeOK'
  BY NextType DEF StakingInv
<1>2. state.global_reward_index <= state.global_reward_index
  BY <1>1 DEF TypeOK, StateRecords
<1>3. CASE Tick
  BY <1>1, <1>2, <1>3, StakesKept DEF Tick
<1>4. ASSUME NEW amount \in MarsAmounts, FundRewards(amount) PROVE StakingInv'
  BY <1>1, <1>2, <1>4, StakesKept DEF FundRewards
<1>5. ASSUME NEW sender, NEW newOwner, NEW token, NEW increase, NEW rewards,
             UpdateConfig(sender, token, newOwner, increase, rewards)
      PROVE  StakingInv'
  <2>1. /\ Current \in StateRecords
        /\ Current.total_bond_amount = state.total_bond_amount
        /\ state.global_reward_index <= Current.global_reward_index
    BY <1>1, CurrentType
  <2>2. /\ state'.total_bond_amount = Current.total_bond_amount
        /\ state'.global_reward_index = Current.global_reward_index
        /\ UNCHANGED <<stakerInfo, lpBalance>>
    BY <1>5, <2>1 DEF UpdateConfig, StateAfterUpdate, StateRecords
  <2> QED
    BY <1>1, <2>1, <2>2, StakesKept
<1>6. CASE OwnerStep
  BY <1>5, <1>6 DEF OwnerStep
<1>7. CASE UserStep
  <2>1. MaxStake \in Nat
    BY LpStakingAssumption
  <2> QED
    BY <1>7, <2>1, BondSafe, UnbondSafe, ClaimSafe DEF UserStep
<1>8. CASE UNCHANGED vars
  BY <1>1, <1>2, <1>8, StakesKept DEF vars
<1> QED
  BY <1>3, <1>4, <1>6, <1>7, <1>8 DEF Next

-------------------------------------------------------------------------------

(* Whatever the order of calls, and however often the owner changes the LP
   token, the stakes add up to the total the rewards are divided by and to the
   tokens held. *)
THEOREM StakesAddUpHolds == Spec => []StakesAddUp
<1>1. Init => StakingInv
  BY StakingInit
<1>2. StakingInv /\ [Next]_vars => StakingInv'
  BY StakingNext
<1>3. StakingInv => StakesAddUp
  BY DEF StakingInv
<1> QED
  BY <1>1, <1>2, <1>3, PTL DEF Spec

(* Crediting a staker's rewards never fails on its subtraction, although a
   fresh record is ahead of a contract that has distributed nothing. *)
THEOREM RewardsAlwaysCreditedHolds == Spec => []RewardsAlwaysCredited
<1>1. Init => StakingInv
  BY StakingInit
<1>2. StakingInv /\ [Next]_vars => StakingInv'
  BY StakingNext
<1>3. StakingInv => RewardsAlwaysCredited
  BY CreditDefined DEF StakingInv, IndexesBehind, RewardsAlwaysCredited
<1> QED
  BY <1>1, <1>2, <1>3, PTL DEF Spec

LEMMA StakesWithdrawable == StakingInv => StakeAlwaysWithdrawable
<1> SUFFICES ASSUME StakingInv, config.staking_token \in Tokens,
                    lpBalance[config.staking_token] = state.total_bond_amount,
                    NEW u \in Users, NEW amount \in 1 .. stakerInfo[u].bond_amount
             PROVE  CanUnbond(u, amount, FALSE)
  BY DEF StakeAlwaysWithdrawable
<1> DEFINE total == state.total_bond_amount
           bond  == stakerInfo[u].bond_amount
<1>1. TypeOK /\ StakesAddUp /\ IndexesBehind
  BY DEF StakingInv
<1>2. /\ bond \in Nat /\ total \in Nat /\ marsBalance \in Nat
      /\ Bonds \in [Users -> Nat] /\ Bonds[u] = bond
  BY <1>1, StakeTypes DEF TypeOK, StakerRecords, Bonds
<1>3. bond <= total
  BY <1>1, <1>2, LpStakingAssumption, TotalUpdate DEF StakesAddUp
<1>4. StakerRewardDefined(stakerInfo[u])
  BY <1>1, CreditDefined
<1>5. RewardsWithdrawn(ComputeStakerReward(stakerInfo[u]), FALSE) <= marsBalance
  BY <1>2 DEF RewardsWithdrawn
<1> HIDE DEF total, bond
<1>6. 0 < amount /\ amount <= bond /\ amount <= total
  BY <1>2, <1>3 DEF bond
<1> QED
  BY <1>4, <1>5, <1>6 DEF CanUnbond, total, bond

(* Whatever was staked in the token the contract pays out in can be taken out again,
   by everyone and in any parts: neither the rewards nor the other stakers can block
   it. *)
THEOREM StakeAlwaysWithdrawableHolds == Spec => []StakeAlwaysWithdrawable
<1> QED
  BY StakesWithdrawable, StakingInit, StakingNext, PTL DEF Spec

-------------------------------------------------------------------------------
(* The accounts of what the index has distributed *)

\* What a stake has earned between two readings of the index, in units of 1/Scale,
\* when only the earlier reading was rounded.
EarnedUnits(bond, from, to) == bond * to - Scale * MulFloor(bond, from)

\* What rounding a user's last reading may have left.
SlackOf(u) == IF stakerInfo[u].bond_amount = 0 THEN 0 ELSE Scale

Slack == [u \in Users |-> SlackOf(u)]

\* What a user has been given and has earned since, to the unit.
ExactOf(u) ==
  Scale * (paid[u] + stakerInfo[u].pending_reward)
    + EarnedUnits(stakerInfo[u].bond_amount, stakerInfo[u].reward_index,
                  state.global_reward_index)

Exact == [u \in Users |-> ExactOf(u)]

AccountsInv ==
  /\ distributed \in Nat /\ stakeChanges \in Nat /\ paid \in [Users -> Nat]
  /\ Total(Exact) <= distributed + Scale * stakeChanges
  /\ distributed + Total(Slack) <= Total(Exact) + Scale * stakeChanges

LEMMA FloorWithin ==
  ASSUME NEW a \in Nat, NEW r \in Nat
  PROVE  /\ MulFloor(a, r) \in Nat /\ a * r \in Nat /\ Scale * MulFloor(a, r) \in Nat
         /\ Scale * MulFloor(a, r) <= a * r
         /\ a * r < Scale * MulFloor(a, r) + Scale
<1> DEFINE p == a * r
           q == p \div Scale
<1>1. p \in Nat
  BY ProductNat
<1> HIDE DEF p
<1>2. q \in Nat /\ q * Scale <= p /\ p < q * Scale + Scale
  BY <1>1, ScaleAssumption, DivBound
<1>3. MulFloor(a, r) = q
  BY DEF MulFloor, p
<1> HIDE DEF q
<1>4. Scale * q = q * Scale /\ Scale * q \in Nat
  BY <1>2, ScaleAssumption
<1> QED BY <1>1, <1>2, <1>3, <1>4 DEF p

\* Reading the index again moves what was earned into what was given, but for the
\* remainders of the two roundings.
LEMMA EarnedReading ==
  ASSUME NEW bond \in Nat, NEW from \in Nat, NEW to \in Nat, bond = 0 \/ from <= to
  PROVE  /\ EarnedUnits(bond, from, to) \in Nat
         /\ EarnedUnits(bond, to, to) \in Nat
         /\ EarnedUnits(bond, to, to) < Scale
         /\ bond = 0 => EarnedUnits(bond, from, to) = 0
         /\ EarnedUnits(bond, to, to)
              + Scale * (MulFloor(bond, to) - MulFloor(bond, from))
              = EarnedUnits(bond, from, to)
<1> DEFINE a == MulFloor(bond, from)
           b == MulFloor(bond, to)
           x == bond * from
           y == bond * to
           A == Scale * a
           B == Scale * b
<1>1. /\ a \in Nat /\ b \in Nat /\ x \in Nat /\ y \in Nat /\ A \in Nat /\ B \in Nat
      /\ A <= x /\ B <= y /\ y < B + Scale
  BY FloorWithin
<1>2. x <= y
  <2>1. CASE bond = 0
    BY <2>1
  <2>2. CASE from <= to
    BY <2>2, ProductMono
  <2> QED BY <2>1, <2>2
<1>3. /\ EarnedUnits(bond, from, to) = y - A
      /\ EarnedUnits(bond, to, to) = y - B
  BY Zenon DEF EarnedUnits
<1>4. bond = 0 => y = 0
  OBVIOUS
<1> HIDE DEF x, y
<1>5. Scale * (b - a) = B - A
  <2> HIDE DEF a, b
  <2> QED BY <1>1, ScaleAssumption
<1> HIDE DEF a, b, A, B
<1>6. /\ y - A \in Nat /\ y - B \in Nat /\ y - B < Scale
      /\ (y - B) + (B - A) = y - A
      /\ y = 0 => y - A = 0
  BY <1>1, <1>2, ScaleAssumption
<1> QED BY <1>3, <1>4, <1>5, <1>6 DEF a, b

LEMMA EarnedGrows ==
  ASSUME NEW bond \in Nat, NEW from \in Nat, NEW to \in Nat, NEW gain \in Nat
  PROVE  EarnedUnits(bond, from, to + gain) = EarnedUnits(bond, from, to) + bond * gain
<1> DEFINE m == Scale * MulFloor(bond, from)
<1>1. m \in Nat
  BY FloorWithin
<1>2. /\ EarnedUnits(bond, from, to + gain) = bond * (to + gain) - m
      /\ EarnedUnits(bond, from, to) = bond * to - m
  BY DEF EarnedUnits
<1> HIDE DEF m
<1>3. /\ bond * (to + gain) = bond * to + bond * gain
      /\ bond * to \in Nat /\ bond * gain \in Nat
  BY ProductNat
<1> QED BY <1>1, <1>2, <1>3

PaidTyped == paid \in [Users -> Nat]

AccountValues ==
  /\ Exact \in [Users -> Nat] /\ Slack \in [Users -> Nat]
  /\ Uncredited \in [Users -> Nat] /\ Pending \in [Users -> Nat]
  /\ Total(Exact) \in Nat /\ Total(Slack) \in Nat

\* With the indexes behind, nobody has earned less than nothing.
LEMMA AccountTypes == StakingInv /\ PaidTyped => AccountValues
<1> SUFFICES ASSUME StakingInv, PaidTyped PROVE AccountValues
  OBVIOUS
<1>1. ASSUME NEW u \in Users
      PROVE  ExactOf(u) \in Nat /\ SlackOf(u) \in Nat
             /\ Uncredited[u] \in Nat /\ Pending[u] \in Nat
  <2> DEFINE bond  == stakerInfo[u].bond_amount
             from  == stakerInfo[u].reward_index
             to    == state.global_reward_index
             given == paid[u] + stakerInfo[u].pending_reward
  <2>1. /\ bond \in Nat /\ from \in Nat /\ to \in Nat /\ given \in Nat
        /\ stakerInfo[u].pending_reward \in Nat
    BY DEF StakingInv, TypeOK, StakerRecords, StateRecords, PaidTyped
  <2>2. bond = 0 \/ from <= to
    BY <2>1 DEF StakingInv, IndexesBehind
  <2> HIDE DEF bond, from, to, given
  <2>3. EarnedUnits(bond, from, to) \in Nat
    BY <2>1, <2>2, EarnedReading
  <2>4. Scale * given \in Nat
    BY <2>1, ScaleAssumption, ProductNat
  <2>5. ExactOf(u) = Scale * given + EarnedUnits(bond, from, to)
    BY DEF ExactOf, bond, from, to, given
  <2>6. Uncredited[u] \in Nat
    <3>1. Uncredited[u] = IF bond = 0 THEN 0 ELSE bond * (to - from)
      BY DEF Uncredited, bond, from, to
    <3>2. bond # 0 => to - from \in Nat
      BY <2>1, <2>2
    <3> QED BY <2>1, <3>1, <3>2, ProductNat
  <2> QED BY <2>1, <2>3, <2>4, <2>5, <2>6, ScaleAssumption DEF SlackOf, Pending
<1>2. Exact \in [Users -> Nat] /\ Slack \in [Users -> Nat]
  BY <1>1 DEF Exact, Slack
<1>3. Uncredited \in [Users -> Nat] /\ Pending \in [Users -> Nat]
  BY <1>1 DEF Uncredited, Pending
<1> QED BY <1>2, <1>3, LpStakingAssumption, TotalType DEF AccountValues

\* A step in which the index gains gain on every stake, and what a user was given and
\* has earned is within margin of what that adds.
LEMMA AccountMove ==
  ASSUME StakingInv, StakingInv', AccountsInv,
         NEW gain \in Nat, NEW changes \in Nat, NEW margin \in [Users -> Nat],
         Total(margin) = Scale * changes,
         distributed' = distributed + gain * state.total_bond_amount,
         stakeChanges' = stakeChanges + changes,
         paid' \in [Users -> Nat],
         \A v \in Users :
           /\ Exact'[v] <= Exact[v] + Bonds[v] * gain + margin[v]
           /\ Exact[v] + Bonds[v] * gain + Slack'[v] <= Exact'[v] + Slack[v] + margin[v]
  PROVE  AccountsInv'
<1> DEFINE e  == Exact
           en == Exact'
           s  == Slack
           sn == Slack'
           d  == [v \in Users |-> Bonds[v] * gain]
           ed == [v \in Users |-> e[v] + d[v]]
           up == [v \in Users |-> ed[v] + margin[v]]
           lo == [v \in Users |-> ed[v] + sn[v]]
           es == [v \in Users |-> en[v] + s[v]]
           hi == [v \in Users |-> es[v] + margin[v]]
           added == gain * state.total_bond_amount
           room  == Scale * stakeChanges
           more  == Scale * changes
<1>0. ASSUME NEW f \in [Users -> Nat], NEW g \in [Users -> Nat],
             NEW sum, sum = [v \in Users |-> f[v] + g[v]]
      PROVE  sum \in [Users -> Nat] /\ Total(sum) = Total(f) + Total(g)
  BY <1>0, LpStakingAssumption, TotalSum
<1>1. /\ IsFiniteSet(Users) /\ Bonds \in [Users -> Nat]
      /\ state.total_bond_amount \in Nat /\ Total(Bonds) = state.total_bond_amount
      /\ distributed \in Nat /\ stakeChanges \in Nat
  BY StakeTypes, LpStakingAssumption DEF StakingInv, StakesAddUp, AccountsInv
<1>2. /\ e \in [Users -> Nat] /\ s \in [Users -> Nat]
      /\ Total(e) \in Nat /\ Total(s) \in Nat
  BY AccountTypes DEF AccountsInv, AccountValues, PaidTyped
<1>3. /\ en \in [Users -> Nat] /\ sn \in [Users -> Nat]
      /\ Total(en) \in Nat /\ Total(sn) \in Nat
  <2>1. PaidTyped'
    BY DEF PaidTyped
  <2>2. AccountValues'
    BY <2>1, AccountTypes, PTL
  <2> QED BY <2>2 DEF AccountValues
<1>4. /\ \A v \in Users : d[v] = Bonds[v] * gain
      /\ d \in [Users -> Nat] /\ added \in Nat /\ room \in Nat /\ more \in Nat
  BY <1>1, ProductNat, ScaleAssumption
<1>5. /\ Total(e) <= distributed + room
      /\ distributed + Total(s) <= Total(e) + room
  BY DEF AccountsInv
<1>6. distributed' = distributed + added /\ Scale * stakeChanges' = room + more
      /\ distributed' \in Nat /\ stakeChanges' \in Nat
  BY <1>1, <1>4, ScaleAssumption
<1>7. /\ \A v \in Users : en[v] <= e[v] + d[v] + margin[v]
      /\ \A v \in Users : e[v] + d[v] + sn[v] <= en[v] + s[v] + margin[v]
  BY <1>4
<1>8. Total(d) = Total(Bonds) * gain
  <2> HIDE DEF d
  <2> QED BY <1>1, <1>4, TotalTimes
<1>9. Total(d) = added
  BY <1>1, <1>8
<1>10. Total(Exact') = Total(en) /\ Total(Slack') = Total(sn)
  OBVIOUS
<1> HIDE DEF e, en, s, sn, d, added, room, more
<1>11. ed \in [Users -> Nat] /\ Total(ed) = Total(e) + Total(d) /\ Total(ed) \in Nat
  BY <1>1, <1>2, <1>4, TotalSum, TotalType
<1>12. /\ \A v \in Users : ed[v] = e[v] + d[v]
       /\ \A v \in Users : es[v] = en[v] + s[v]
  OBVIOUS
<1>13. es \in [Users -> Nat] /\ Total(es) = Total(en) + Total(s) /\ Total(es) \in Nat
  BY <1>1, <1>2, <1>3, TotalSum, TotalType
<1> HIDE DEF ed, es
<1>14. up \in [Users -> Nat] /\ Total(up) = Total(ed) + Total(margin)
  BY <1>1, <1>11, TotalSum
<1>15. lo \in [Users -> Nat] /\ Total(lo) = Total(ed) + Total(sn)
  <2>1. lo = [v \in Users |-> ed[v] + sn[v]]
    OBVIOUS
  <2> HIDE DEF lo
  <2> QED BY <1>3, <1>11, <1>0, <2>1
<1>16. hi \in [Users -> Nat] /\ Total(hi) = Total(es) + Total(margin)
  BY <1>1, <1>13, TotalSum
<1>17. /\ \A v \in Users : up[v] = ed[v] + margin[v]
       /\ \A v \in Users : lo[v] = ed[v] + sn[v]
       /\ \A v \in Users : hi[v] = es[v] + margin[v]
  OBVIOUS
<1> HIDE DEF up, lo, hi
<1>18. Total(en) <= Total(up)
  <2>1. \A v \in Users : en[v] <= up[v]
    BY <1>7, <1>12, <1>17
  <2> QED BY <1>1, <1>3, <1>14, <2>1, TotalMono
<1>19. Total(lo) <= Total(hi)
  <2>1. \A v \in Users : lo[v] <= hi[v]
    BY <1>7, <1>12, <1>17
  <2> QED BY <1>1, <1>15, <1>16, <2>1, TotalMono
<1>20. Total(margin) = more
  BY DEF more
<1>21. Total(en) <= (distributed + added) + (room + more)
  BY <1>1, <1>2, <1>3, <1>4, <1>5, <1>9, <1>11, <1>14, <1>18, <1>20
<1>22. (distributed + added) + Total(sn) <= Total(en) + (room + more)
  BY <1>1, <1>2, <1>3, <1>4, <1>5, <1>9, <1>11, <1>13, <1>15, <1>16, <1>19, <1>20
<1> QED BY <1>6, <1>10, <1>21, <1>22 DEF AccountsInv

\* A stake that nobody touches earns what the index gains.
LEMMA ExactGrows ==
  ASSUME StakingInv, PaidTyped, NEW v \in Users, NEW gain \in Nat,
         state'.global_reward_index = state.global_reward_index + gain,
         stakerInfo'[v] = stakerInfo[v], paid'[v] = paid[v]
  PROVE  Exact'[v] = Exact[v] + Bonds[v] * gain /\ Slack'[v] = Slack[v]
<1> DEFINE bond  == stakerInfo[v].bond_amount
           from  == stakerInfo[v].reward_index
           to    == state.global_reward_index
           given == paid[v] + stakerInfo[v].pending_reward
           units == Scale * given
           added == bond * gain
<1>1. /\ bond \in Nat /\ from \in Nat /\ to \in Nat /\ given \in Nat
  BY DEF StakingInv, TypeOK, StakerRecords, StateRecords, PaidTyped
<1>2. units \in Nat /\ added \in Nat
  BY <1>1, ProductNat, ScaleAssumption
<1>3. EarnedUnits(bond, from, to) \in Nat
  <2>1. bond = 0 \/ from <= to
    BY <1>1 DEF StakingInv, IndexesBehind
  <2> HIDE DEF bond, from, to
  <2> QED BY <1>1, <2>1, EarnedReading
<1>4. /\ Exact[v] = units + EarnedUnits(bond, from, to)
      /\ Exact'[v] = units + EarnedUnits(bond, from, to + gain)
      /\ Bonds[v] * gain = added
  BY DEF Exact, ExactOf, Bonds, EarnedUnits
<1>5. EarnedUnits(bond, from, to + gain) = EarnedUnits(bond, from, to) + added
  BY <1>1, EarnedGrows
<1>6. Slack'[v] = Slack[v]
  BY DEF Slack, SlackOf
<1> HIDE DEF units, added, bond, from, to
<1> QED BY <1>2, <1>3, <1>4, <1>5, <1>6

\* A call of u that credits him what his stake has earned and leaves him bonded.
Credits(u, gain, bonded, margin) ==
  /\ state'.global_reward_index = state.global_reward_index + gain
  /\ stakerInfo'[u].bond_amount = bonded
  /\ stakerInfo'[u].reward_index = state'.global_reward_index
  /\ paid'[u] + stakerInfo'[u].pending_reward
       = paid[u] + stakerInfo[u].pending_reward
           + (MulFloor(stakerInfo[u].bond_amount, state'.global_reward_index)
                - MulFloor(stakerInfo[u].bond_amount, stakerInfo[u].reward_index))
  /\ \/ margin = 0 /\ bonded = stakerInfo[u].bond_amount
     \/ margin = Scale

\* It moves what he is due into what he was given, but for the remainders of his old
\* and his new stake.
LEMMA ExactCredited ==
  ASSUME StakingInv, PaidTyped, NEW u \in Users, NEW gain \in Nat, NEW bonded \in Nat,
         NEW margin \in Nat, Credits(u, gain, bonded, margin)
  PROVE  /\ Exact'[u] <= Exact[u] + Bonds[u] * gain + margin
         /\ Exact[u] + Bonds[u] * gain + Slack'[u] <= Exact'[u] + Slack[u] + margin
<1> DEFINE bond  == stakerInfo[u].bond_amount
           from  == stakerInfo[u].reward_index
           to    == state.global_reward_index
           next  == state'.global_reward_index
           given == paid[u] + stakerInfo[u].pending_reward
           x     == MulFloor(bond, next) - MulFloor(bond, from)
           units == Scale * given
           moved == Scale * x
           added == bond * gain
           r     == EarnedUnits(bond, next, next)
           rn    == EarnedUnits(bonded, next, next)
           e     == EarnedUnits(bond, from, to)
           en    == EarnedUnits(bond, from, next)
<1>1. /\ bond \in Nat /\ from \in Nat /\ to \in Nat /\ given \in Nat
      /\ next \in Nat
  BY DEF StakingInv, TypeOK, StakerRecords, StateRecords, PaidTyped, Credits
<1>0. next = to + gain
  BY DEF Credits
<1>2. bond = 0 \/ from <= to
  BY <1>1 DEF StakingInv, IndexesBehind
<1>3. /\ Exact[u] = units + e
      /\ Exact'[u] = Scale * (given + x) + rn
      /\ Bonds[u] * gain = added
      /\ Slack[u] = (IF bond = 0 THEN 0 ELSE Scale)
      /\ Slack'[u] = (IF bonded = 0 THEN 0 ELSE Scale)
  BY DEF Exact, ExactOf, Bonds, EarnedUnits, Slack, SlackOf, Credits
<1>4. /\ MulFloor(bond, next) \in Nat /\ MulFloor(bond, from) \in Nat
  BY <1>1, MulFloorBound
<1>5. /\ units \in Nat /\ added \in Nat /\ moved \in Int
      /\ Scale * (given + x) = units + moved
  <2>1. x \in Int
    BY <1>4
  <2> HIDE DEF x, given, bond
  <2> QED BY <1>1, <2>1, ProductNat, ScaleAssumption
<1> HIDE DEF bond, from, to, next, given
<1>6. /\ e \in Nat /\ r \in Nat /\ rn \in Nat /\ r < Scale /\ rn < Scale
      /\ bond = 0 => r = 0
      /\ r + moved = en
  <2>1. bond = 0 \/ from <= next
    BY <1>0, <1>1, <1>2
  <2>2. next <= next
    BY <1>1
  <2>3. r \in Nat /\ r < Scale /\ (bond = 0 => r = 0) /\ r + moved = en
    BY <1>1, <2>1, EarnedReading
  <2>4. rn \in Nat /\ rn < Scale
    BY <1>1, <2>2, EarnedReading
  <2>5. e \in Nat
    BY <1>1, <1>2, EarnedReading
  <2> QED BY <2>3, <2>4, <2>5
<1>7. en = e + added
  <2>1. EarnedUnits(bond, from, to + gain) = EarnedUnits(bond, from, to) + bond * gain
    BY <1>1, EarnedGrows
  <2> QED BY <1>0, <2>1
<1>8. bonded = bond => rn = r
  OBVIOUS
<1>9. (margin = 0 /\ bonded = bond) \/ margin = Scale
  BY DEF bond, Credits
<1> HIDE DEF units, moved, added, x, r, rn, e, en
<1> QED BY <1>3, <1>5, <1>6, <1>7, <1>8, <1>9, ScaleAssumption

\* What a call of u, or of nobody, leaves as it is.
OthersKept(u) ==
  \A v \in Users : v # u => stakerInfo'[v] = stakerInfo[v] /\ paid'[v] = paid[v]

\* The record of what the index distributes and of the calls that change a stake.
Follows(gain, changes) ==
  /\ distributed' = distributed + gain * state.total_bond_amount
  /\ stakeChanges' = stakeChanges + changes
  /\ paid' \in [Users -> Nat]

LEMMA CallAccounts ==
  ASSUME StakingInv, StakingInv', AccountsInv, NEW u \in Users, NEW gain \in Nat,
         NEW bonded \in Nat, NEW changes \in {0, 1},
         Credits(u, gain, bonded, IF changes = 0 THEN 0 ELSE Scale),
         OthersKept(u), Follows(gain, changes)
  PROVE  AccountsInv'
<1> DEFINE own    == IF changes = 0 THEN 0 ELSE Scale
           none   == [v \in Users |-> 0]
           margin == [v \in Users |-> IF v = u THEN own ELSE 0]
<1>1. /\ PaidTyped /\ IsFiniteSet(Users) /\ own \in Nat /\ changes \in Nat
      /\ Scale * changes = own
  BY LpStakingAssumption, ScaleAssumption DEF AccountsInv, PaidTyped
<1>2. /\ none \in [Users -> Nat] /\ Total(none) = 0 /\ none[u] = 0
  <2>1. none \in [Users -> Nat] /\ \A v \in Users : none[v] = 0
    OBVIOUS
  <2> HIDE DEF none
  <2> QED BY <2>1, TotalZero
<1>3. /\ margin \in [Users -> Nat] /\ margin[u] = own
      /\ \A v \in Users : v # u => margin[v] = 0
  BY <1>1
<1>4. Total(margin) = own
  <2>1. /\ margin[u] = none[u] + own /\ own \in Int
        /\ \A v \in Users : v # u => margin[v] = none[v]
    BY <1>1, <1>2, <1>3
  <2> HIDE DEF none, own, margin
  <2>2. Total(margin) = Total(none) + own
    BY <1>1, <1>2, <1>3, <2>1, TotalShift
  <2> QED BY <1>1, <1>2, <2>2
<1>5. ASSUME NEW v \in Users
      PROVE  /\ Exact'[v] <= Exact[v] + Bonds[v] * gain + margin[v]
             /\ Exact[v] + Bonds[v] * gain + Slack'[v] <= Exact'[v] + Slack[v] + margin[v]
  <2>1. CASE v = u
    <3>1. /\ Exact'[u] <= Exact[u] + Bonds[u] * gain + own
          /\ Exact[u] + Bonds[u] * gain + Slack'[u] <= Exact'[u] + Slack[u] + own
      BY <1>1, ExactCredited
    <3> HIDE DEF margin, own
    <3> QED BY <1>3, <2>1, <3>1
  <2>2. CASE v # u
    <3>1. Exact'[v] = Exact[v] + Bonds[v] * gain /\ Slack'[v] = Slack[v]
      <4>1. /\ stakerInfo'[v] = stakerInfo[v] /\ paid'[v] = paid[v]
            /\ state'.global_reward_index = state.global_reward_index + gain
        BY <2>2 DEF OthersKept, Credits
      <4> QED BY <1>1, <4>1, ExactGrows
    <3>2. margin[v] = 0
      BY <1>3, <2>2
    <3>3. /\ Exact[v] \in Nat /\ Slack[v] \in Nat /\ Bonds[v] * gain \in Nat
      <4>1. Exact \in [Users -> Nat] /\ Slack \in [Users -> Nat] /\ Bonds[v] \in Nat
        BY <1>1, AccountTypes, StakeTypes DEF AccountValues, StakingInv
      <4> QED BY <4>1, ProductNat
    <3> HIDE DEF margin
    <3> QED BY <3>1, <3>2, <3>3
  <2> QED BY <2>1, <2>2
<1> HIDE DEF margin, own
<1>6. /\ distributed' = distributed + gain * state.total_bond_amount
      /\ stakeChanges' = stakeChanges + changes
      /\ paid' \in [Users -> Nat]
      /\ Total(margin) = Scale * changes
  BY <1>1, <1>4 DEF Follows
<1> QED BY <1>1, <1>3, <1>5, <1>6, AccountMove

\* A step that is no call of a user.
LEMMA KeptAccounts ==
  ASSUME StakingInv, StakingInv', AccountsInv, NEW gain \in Nat,
         state'.global_reward_index = state.global_reward_index + gain,
         stakerInfo' = stakerInfo, paid' = paid, Follows(gain, 0)
  PROVE  AccountsInv'
<1> DEFINE margin == [v \in Users |-> 0]
           zero   == 0
<1>1. PaidTyped
  BY DEF AccountsInv, PaidTyped
<1>2. /\ margin \in [Users -> Nat] /\ \A v \in Users : margin[v] = 0
  OBVIOUS
<1> HIDE DEF margin
<1>3. Total(margin) = 0
  BY <1>2, TotalZero
<1>4. ASSUME NEW v \in Users
      PROVE  /\ Exact'[v] <= Exact[v] + Bonds[v] * gain + margin[v]
             /\ Exact[v] + Bonds[v] * gain + Slack'[v] <= Exact'[v] + Slack[v] + margin[v]
  <2>1. Exact'[v] = Exact[v] + Bonds[v] * gain /\ Slack'[v] = Slack[v]
    <3>1. stakerInfo'[v] = stakerInfo[v] /\ paid'[v] = paid[v]
      OBVIOUS
    <3> QED BY <1>1, <3>1, ExactGrows
  <2>2. /\ Exact[v] \in Nat /\ Slack[v] \in Nat /\ Bonds[v] * gain \in Nat
    <3>1. Exact \in [Users -> Nat] /\ Slack \in [Users -> Nat] /\ Bonds[v] \in Nat
      BY <1>1, AccountTypes, StakeTypes DEF AccountValues, StakingInv
    <3> QED BY <3>1, ProductNat
  <2> QED BY <1>2, <2>1, <2>2
<1>5. /\ distributed' = distributed + gain * state.total_bond_amount
      /\ stakeChanges' = stakeChanges + zero
      /\ paid' \in [Users -> Nat] /\ zero \in Nat
      /\ Total(margin) = Scale * zero
  BY <1>3, ScaleAssumption DEF Follows
<1> HIDE DEF zero
<1> QED BY <1>2, <1>4, <1>5, AccountMove

LEMMA HistoryFollows ==
  ASSUME StakingInv, StakingInv', AccountsInv, HistoryStep, NEW gain \in Nat,
         NEW changes, changes = (IF state'.total_bond_amount = state.total_bond_amount
                                 THEN 0 ELSE 1),
         state'.global_reward_index = state.global_reward_index + gain
  PROVE  Follows(gain, changes)
<1>1. /\ state.global_reward_index \in Nat
      /\ marsBalance \in Nat /\ marsBalance' \in Nat
      /\ paid \in [Users -> Nat]
  BY DEF StakingInv, TypeOK, StateRecords, AccountsInv
<1>2. state'.global_reward_index - state.global_reward_index = gain
  BY <1>1
<1>3. /\ distributed' = distributed + gain * state.total_bond_amount
      /\ stakeChanges' = stakeChanges + changes
  BY <1>2 DEF HistoryStep
<1>4. paid' \in [Users -> Nat]
  <2>1. ASSUME NEW v \in Users
        PROVE  (IF marsBalance' < marsBalance /\ stakerInfo'[v] # stakerInfo[v]
                THEN paid[v] + marsBalance - marsBalance' ELSE paid[v]) \in Nat
    <3>1. paid[v] \in Nat
      BY <1>1
    <3>2. marsBalance' < marsBalance => paid[v] + marsBalance - marsBalance' \in Nat
      BY <1>1, <3>1
    <3> QED BY <3>1, <3>2
  <2> QED BY <2>1 DEF HistoryStep
<1> QED BY <1>3, <1>4 DEF Follows

\* What leaves in a call of u is paid to u.
LEMMA HistoryPays ==
  ASSUME StakingInv, StakingInv', AccountsInv, HistoryStep, NEW u \in Users,
         NEW next, stakerInfo' = [stakerInfo EXCEPT ![u] = next],
         NEW rewards \in Nat, marsBalance' = marsBalance - rewards,
         rewards = 0 \/ next # stakerInfo[u]
  PROVE  /\ stakerInfo'[u] = next
         /\ paid'[u] = paid[u] + rewards
         /\ OthersKept(u)
<1>1. /\ marsBalance \in Nat /\ marsBalance' \in Nat /\ paid \in [Users -> Nat]
      /\ stakerInfo \in [Users -> StakerRecords]
  BY DEF StakingInv, TypeOK, AccountsInv
<1>2. stakerInfo'[u] = next /\ \A v \in Users : v # u => stakerInfo'[v] = stakerInfo[v]
  BY <1>1
<1>3. \A v \in Users :
        paid'[v] = IF marsBalance' < marsBalance /\ stakerInfo'[v] # stakerInfo[v]
                   THEN paid[v] + marsBalance - marsBalance' ELSE paid[v]
  BY DEF HistoryStep
<1>4. paid'[u] = paid[u] + rewards
  <2>1. paid[u] \in Nat
    BY <1>1
  <2>2. CASE rewards = 0
    <3>1. ~(marsBalance' < marsBalance)
      BY <1>1, <2>2
    <3> QED BY <1>3, <2>1, <2>2, <3>1
  <2>3. CASE rewards # 0
    <3>1. marsBalance' < marsBalance /\ stakerInfo'[u] # stakerInfo[u]
      BY <1>1, <1>2, <2>3
    <3>2. paid'[u] = paid[u] + marsBalance - marsBalance'
      BY <1>3, <3>1
    <3> QED BY <1>1, <2>1, <3>2
  <2> QED BY <2>2, <2>3
<1>5. OthersKept(u)
  BY <1>2, <1>3 DEF OthersKept
<1> QED BY <1>2, <1>4, <1>5

\* The record of u after a call, when rewards of what is pending are paid.
LEMMA CreditedRecord ==
  ASSUME StakingInv, NEW u \in Users
  PROVE  LET info == ComputeStakerReward(stakerInfo[u]) IN
         /\ info \in StakerRecords
         /\ info.bond_amount = stakerInfo[u].bond_amount
         /\ info.reward_index = Current.global_reward_index
         /\ info.pending_reward
              = stakerInfo[u].pending_reward
                  + (MulFloor(stakerInfo[u].bond_amount, Current.global_reward_index)
                       - MulFloor(stakerInfo[u].bond_amount, stakerInfo[u].reward_index))
<1>1. stakerInfo[u] \in StakerRecords /\ StakerRewardDefined(stakerInfo[u])
  BY CreditDefined DEF StakingInv, TypeOK
<1>2. /\ ComputeStakerReward(stakerInfo[u]) \in StakerRecords
      /\ ComputeStakerReward(stakerInfo[u]).bond_amount = stakerInfo[u].bond_amount
      /\ ComputeStakerReward(stakerInfo[u]).reward_index = Current.global_reward_index
  BY <1>1, StakerRewardType DEF StakingInv
<1>3. ComputeStakerReward(stakerInfo[u]).pending_reward
        = stakerInfo[u].pending_reward
            + (MulFloor(stakerInfo[u].bond_amount, Current.global_reward_index)
                 - MulFloor(stakerInfo[u].bond_amount, stakerInfo[u].reward_index))
  BY <1>1 DEF ComputeStakerReward, StakerRecords
<1> QED BY <1>2, <1>3

\* A call of u that pays rewards of what is pending and leaves him bonded.
PaysOut(u, bonded, rewards, next) ==
  /\ stakerInfo' = [stakerInfo EXCEPT ![u] = next]
  /\ next.bond_amount = bonded
  /\ next.reward_index = Current.global_reward_index
  /\ next.pending_reward = ComputeStakerReward(stakerInfo[u]).pending_reward - rewards
  /\ marsBalance' = marsBalance - rewards
  /\ rewards = 0 \/ next # stakerInfo[u]
  /\ state'.global_reward_index = Current.global_reward_index
  /\ state'.total_bond_amount
       = state.total_bond_amount + bonded - stakerInfo[u].bond_amount

LEMMA PaidCall ==
  ASSUME StakingInv, StakingInv', AccountsInv, HistoryStep, NEW u \in Users,
         NEW bonded \in Nat, NEW rewards \in Nat, NEW next \in StakerRecords,
         PaysOut(u, bonded, rewards, next)
  PROVE  AccountsInv'
<1> DEFINE G       == state.global_reward_index
           Gn      == Current.global_reward_index
           gain    == Gn - G
           bond    == stakerInfo[u].bond_amount
           held    == stakerInfo[u].pending_reward
           T       == state.total_bond_amount
           Tn      == state'.total_bond_amount
           changes == IF Tn = T THEN 0 ELSE 1
           own     == IF changes = 0 THEN 0 ELSE Scale
           x       == MulFloor(bond, Gn) - MulFloor(bond, stakerInfo[u].reward_index)
<1>1. /\ G \in Nat /\ Gn \in Nat /\ G <= Gn
      /\ bond \in Nat /\ T \in Nat /\ held \in Nat
      /\ stakerInfo[u].reward_index \in Nat
      /\ paid[u] \in Nat
  BY CurrentType DEF StakingInv, TypeOK, StakerRecords, StateRecords, AccountsInv
<1>2. gain \in Nat /\ state'.global_reward_index = G + gain
  <2>1. state'.global_reward_index = Gn
    BY DEF PaysOut
  <2> QED BY <1>1, <2>1
<1>3. Follows(gain, changes)
  <2>1. changes = IF Tn = T THEN 0 ELSE 1
    OBVIOUS
  <2> HIDE DEF gain, changes
  <2> QED BY <1>2, <2>1, HistoryFollows
<1>4. /\ stakerInfo'[u] = next /\ paid'[u] = paid[u] + rewards /\ OthersKept(u)
  <2>1. /\ stakerInfo' = [stakerInfo EXCEPT ![u] = next]
        /\ marsBalance' = marsBalance - rewards
        /\ rewards = 0 \/ next # stakerInfo[u]
    BY DEF PaysOut
  <2> QED BY <2>1, HistoryPays
<1>5. changes \in {0, 1} /\ ((own = 0 /\ bonded = bond) \/ own = Scale)
  <2>1. Tn = T + bonded - bond
    BY DEF PaysOut
  <2> HIDE DEF Tn, T, bond
  <2>2. Tn = T => bonded = bond
    BY <1>1, <2>1
  <2> QED BY <2>2
<1>6. next.pending_reward = held + x - rewards /\ x \in Int
  <2>1. ComputeStakerReward(stakerInfo[u]).pending_reward = held + x
    BY CreditedRecord
  <2>2. MulFloor(bond, Gn) \in Nat /\ MulFloor(bond, stakerInfo[u].reward_index) \in Nat
    BY <1>1, MulFloorBound
  <2>3. x \in Int
    BY <2>2
  <2> HIDE DEF x, held
  <2>4. next.pending_reward = ComputeStakerReward(stakerInfo[u]).pending_reward - rewards
    BY DEF PaysOut
  <2> QED BY <1>1, <2>1, <2>3, <2>4
<1>7. paid'[u] + stakerInfo'[u].pending_reward = paid[u] + held + x
  <2>1. paid'[u] + stakerInfo'[u].pending_reward
          = (paid[u] + rewards) + (held + x - rewards)
    BY <1>4, <1>6
  <2> HIDE DEF x, held
  <2> QED BY <1>1, <1>6, <2>1
<1>8. Credits(u, gain, bonded, own)
  <2>1. /\ stakerInfo'[u].bond_amount = bonded
        /\ stakerInfo'[u].reward_index = state'.global_reward_index
        /\ state'.global_reward_index = Gn
    BY <1>4 DEF PaysOut
  <2> HIDE DEF gain, own
  <2> QED BY <1>2, <1>5, <1>7, <2>1 DEF Credits
<1> HIDE DEF gain, changes
<1> QED BY <1>2, <1>3, <1>4, <1>5, <1>8, CallAccounts DEF own

LEMMA BondAccounts ==
  ASSUME StakingInv, StakingInv', AccountsInv, HistoryStep,
         NEW u \in Users, NEW amount \in Nat, Bond(u, amount)
  PROVE  AccountsInv'
<1> DEFINE info == ComputeStakerReward(stakerInfo[u])
           next == [info EXCEPT !.bond_amount = @ + amount]
           bond == stakerInfo[u].bond_amount
           zero == 0
<1>1. /\ info \in StakerRecords /\ info.bond_amount = bond
      /\ info.reward_index = Current.global_reward_index
  BY CreditedRecord
<1>2. /\ stakerInfo' = [stakerInfo EXCEPT ![u] = next]
      /\ state' = [Current EXCEPT !.total_bond_amount = @ + amount]
      /\ marsBalance' = marsBalance
  BY DEF Bond
<1>3. /\ Current \in StateRecords
      /\ Current.total_bond_amount = state.total_bond_amount
      /\ state.total_bond_amount \in Nat /\ marsBalance \in Nat
  BY CurrentType DEF StakingInv, TypeOK, StateRecords
<1>4. /\ state'.global_reward_index = Current.global_reward_index
      /\ state'.total_bond_amount = state.total_bond_amount + amount
  BY <1>2, <1>3 DEF StateRecords
<1> HIDE DEF info
<1>5. bond \in Nat /\ info.pending_reward \in Nat
  BY <1>1 DEF StakerRecords
<1>6. /\ next \in StakerRecords
      /\ next.bond_amount = bond + amount
      /\ next.reward_index = Current.global_reward_index
      /\ next.pending_reward = info.pending_reward
  BY <1>1, <1>5 DEF StakerRecords
<1> HIDE DEF next, bond
<1>7. /\ bond + amount \in Nat /\ zero \in Nat
      /\ next.pending_reward = info.pending_reward - zero
      /\ marsBalance' = marsBalance - zero
      /\ state'.total_bond_amount = state.total_bond_amount + (bond + amount) - bond
  BY <1>2, <1>3, <1>4, <1>5, <1>6
<1>8. PaysOut(u, bond + amount, zero, next)
  BY <1>2, <1>4, <1>6, <1>7, Zenon DEF PaysOut, info, bond, zero
<1> HIDE DEF zero
<1> QED BY <1>6, <1>7, <1>8, PaidCall

LEMMA UnbondAccounts ==
  ASSUME StakingInv, StakingInv', AccountsInv, HistoryStep,
         NEW u \in Users, NEW amount \in Nat, amount > 0, NEW withdraw \in BOOLEAN,
         Unbond(u, amount, withdraw)
  PROVE  AccountsInv'
<1> DEFINE info    == ComputeStakerReward(stakerInfo[u])
           rewards == RewardsWithdrawn(info, withdraw)
           next    == [info EXCEPT !.bond_amount = @ - amount,
                                   !.pending_reward = @ - rewards]
           bond    == stakerInfo[u].bond_amount
<1>1. /\ info \in StakerRecords /\ info.bond_amount = bond
      /\ info.reward_index = Current.global_reward_index
  BY CreditedRecord
<1>2. /\ stakerInfo' = [stakerInfo EXCEPT ![u] = next]
      /\ state' = [Current EXCEPT !.total_bond_amount = @ - amount]
      /\ marsBalance' = marsBalance - rewards
      /\ amount <= bond
  BY DEF Unbond, CanUnbond, StateAfterUnbond
<1>3. /\ Current \in StateRecords
      /\ Current.total_bond_amount = state.total_bond_amount
      /\ state.total_bond_amount \in Nat
  BY CurrentType DEF StakingInv, TypeOK, StateRecords
<1>4. /\ state'.global_reward_index = Current.global_reward_index
      /\ state'.total_bond_amount = state.total_bond_amount - amount
  BY <1>2, <1>3 DEF StateRecords
<1> HIDE DEF info
<1>5. /\ bond \in Nat /\ info.pending_reward \in Nat
      /\ rewards \in Nat /\ rewards <= info.pending_reward
  BY <1>1 DEF StakerRecords, RewardsWithdrawn
<1> HIDE DEF rewards, bond
<1>6. bond - amount \in Nat /\ info.pending_reward - rewards \in Nat
  BY <1>2, <1>5
<1>7. /\ next \in StakerRecords
      /\ next.bond_amount = bond - amount
      /\ next.reward_index = Current.global_reward_index
      /\ next.pending_reward = info.pending_reward - rewards
  BY <1>1, <1>6 DEF StakerRecords
<1> HIDE DEF next
<1>8. /\ state'.total_bond_amount = state.total_bond_amount + (bond - amount) - bond
      /\ next.bond_amount # bond
  BY <1>3, <1>4, <1>5, <1>7
<1>9. next # stakerInfo[u]
  BY <1>8 DEF bond
<1>10. PaysOut(u, bond - amount, rewards, next)
  BY <1>2, <1>4, <1>7, <1>8, <1>9, Zenon DEF PaysOut, info, bond
<1> QED BY <1>5, <1>6, <1>7, <1>10, PaidCall

LEMMA ClaimAccounts ==
  ASSUME StakingInv, StakingInv', AccountsInv, HistoryStep,
         NEW u \in Users, Claim(u)
  PROVE  AccountsInv'
<1> DEFINE info    == ComputeStakerReward(stakerInfo[u])
           rewards == info.pending_reward
           next    == [info EXCEPT !.pending_reward = 0]
           bond    == stakerInfo[u].bond_amount
           from    == stakerInfo[u].reward_index
           to      == Current.global_reward_index
<1>1. /\ info \in StakerRecords /\ info.bond_amount = bond /\ info.reward_index = to
      /\ rewards = stakerInfo[u].pending_reward + (MulFloor(bond, to) - MulFloor(bond, from))
  BY CreditedRecord
<1>2. /\ stakerInfo' = [stakerInfo EXCEPT ![u] = next]
      /\ state' = Current
      /\ marsBalance' = marsBalance - rewards
      /\ rewards > 0
  BY DEF Claim
<1>3. /\ Current.total_bond_amount = state.total_bond_amount
      /\ state.total_bond_amount \in Nat
      /\ bond \in Nat /\ to \in Nat
      /\ stakerInfo[u].pending_reward \in Nat
  BY CurrentType DEF StakingInv, TypeOK, StateRecords, StakerRecords
<1> HIDE DEF info
<1>4. rewards \in Nat
  BY <1>1 DEF StakerRecords
<1>5. /\ next \in StakerRecords /\ next.bond_amount = bond /\ next.reward_index = to
      /\ next.pending_reward = 0
  BY <1>1 DEF StakerRecords
<1> HIDE DEF next
<1>6. next # stakerInfo[u]
  <2> SUFFICES ASSUME next = stakerInfo[u] PROVE FALSE
    OBVIOUS
  <2>1. stakerInfo[u].pending_reward = 0 /\ from = to
    BY <1>5
  <2>2. MulFloor(bond, to) \in Nat
    BY <1>3, MulFloorBound
  <2>3. rewards = 0 + (MulFloor(bond, to) - MulFloor(bond, to))
    BY <1>1, <2>1
  <2>4. rewards = 0
    BY <2>2, <2>3
  <2> HIDE DEF rewards
  <2> QED BY <1>2, <2>4
<1> HIDE DEF rewards, bond, to
<1>7. /\ next.pending_reward = rewards - rewards
      /\ state'.total_bond_amount = state.total_bond_amount + bond - bond
      /\ state'.global_reward_index = to
  BY <1>2, <1>3, <1>4, <1>5 DEF to
<1>8. PaysOut(u, bond, rewards, next)
  BY <1>2, <1>5, <1>6, <1>7, Zenon DEF PaysOut, info, rewards, bond, to
<1> QED BY <1>3, <1>4, <1>5, <1>8, PaidCall

\* Steps that are no calls of users pay nothing and change no stake.
LEMMA QuietAccounts ==
  ASSUME StakingInv, StakingInv', AccountsInv, HistoryStep, NEW gain \in Nat,
         state'.global_reward_index = state.global_reward_index + gain,
         state'.total_bond_amount = state.total_bond_amount,
         stakerInfo' = stakerInfo
  PROVE  AccountsInv'
<1> DEFINE zero == 0
<1>1. zero = IF state'.total_bond_amount = state.total_bond_amount THEN 0 ELSE 1
  OBVIOUS
<1>2. Follows(gain, zero)
  <2> HIDE DEF zero
  <2> QED BY <1>1, HistoryFollows
<1>3. paid' = paid
  <2>1. \A v \in Users : stakerInfo'[v] = stakerInfo[v]
    OBVIOUS
  <2>2. paid' = [v \in Users |-> paid[v]]
    BY <2>1 DEF HistoryStep
  <2>3. paid \in [Users -> Nat]
    BY DEF AccountsInv
  <2> QED BY <2>2, <2>3
<1> QED BY <1>2, <1>3, KeptAccounts

LEMMA AccountsNext ==
  StakingInv /\ StakingInv' /\ AccountsInv /\ [Next /\ HistoryStep]_<<vars, history>>
    => AccountsInv'
<1> SUFFICES ASSUME StakingInv, StakingInv', AccountsInv,
                    [Next /\ HistoryStep]_<<vars, history>>
             PROVE  AccountsInv'
  OBVIOUS
<1>1. /\ 0 \in Nat /\ state.global_reward_index \in Nat
      /\ state.global_reward_index = state.global_reward_index + 0
  BY DEF StakingInv, TypeOK, StateRecords
<1>2. CASE UNCHANGED <<vars, history>>
  <2>1. /\ stakerInfo' = stakerInfo /\ state' = state /\ paid' = paid
        /\ distributed' = distributed /\ stakeChanges' = stakeChanges
    BY <1>2 DEF vars, history
  <2>2. Exact' = Exact /\ Slack' = Slack
    BY <2>1 DEF Exact, ExactOf, Slack, SlackOf
  <2> QED BY <2>1, <2>2 DEF AccountsInv
<1>3. ASSUME HistoryStep, state' = state, stakerInfo' = stakerInfo PROVE AccountsInv'
  BY <1>1, <1>3, QuietAccounts
<1>4. CASE HistoryStep /\ Tick
  BY <1>3, <1>4 DEF Tick
<1>5. ASSUME HistoryStep, NEW amount \in MarsAmounts, FundRewards(amount)
      PROVE  AccountsInv'
  BY <1>3, <1>5 DEF FundRewards
<1>6. CASE HistoryStep /\ OwnerStep
  <2>1. PICK rewards : stakerInfo' = stakerInfo /\ state' = StateAfterUpdate(rewards)
    BY <1>6, Zenon DEF OwnerStep, UpdateConfig
  <2> DEFINE gain == Current.global_reward_index - state.global_reward_index
  <2>2. /\ Current \in StateRecords
        /\ Current.total_bond_amount = state.total_bond_amount
        /\ Current.global_reward_index \in Nat
        /\ state.global_reward_index <= Current.global_reward_index
    BY CurrentType DEF StakingInv, StateRecords
  <2>3. /\ state'.total_bond_amount = state.total_bond_amount
        /\ state'.global_reward_index = Current.global_reward_index
    BY <2>1, <2>2 DEF StateAfterUpdate, StateRecords
  <2>4. gain \in Nat /\ state'.global_reward_index = state.global_reward_index + gain
    BY <1>1, <2>2, <2>3
  <2> HIDE DEF gain
  <2> QED BY <1>6, <2>1, <2>3, <2>4, QuietAccounts
<1>7. CASE HistoryStep /\ UserStep
  <2>1. \A amount \in 1 .. MaxStake : amount \in Nat /\ amount > 0
    BY LpStakingAssumption
  <2>2. ASSUME NEW u \in Users, NEW amount \in 1 .. MaxStake, Bond(u, amount)
        PROVE  AccountsInv'
    BY <1>7, <2>1, <2>2, BondAccounts
  <2>3. ASSUME NEW u \in Users, NEW amount \in 1 .. MaxStake, NEW withdraw \in BOOLEAN,
               Unbond(u, amount, withdraw)
        PROVE  AccountsInv'
    BY <1>7, <2>1, <2>3, UnbondAccounts
  <2>4. ASSUME NEW u \in Users, Claim(u) PROVE AccountsInv'
    BY <1>7, <2>4, ClaimAccounts
  <2> QED BY <1>7, <2>2, <2>3, <2>4, Zenon DEF UserStep
<1> QED BY <1>2, <1>4, <1>5, <1>6, <1>7, Zenon DEF Next

LEMMA AccountsInit == Init /\ HistoryInit => AccountsInv
<1> SUFFICES ASSUME Init, HistoryInit PROVE AccountsInv
  OBVIOUS
<1>1. StakingInv
  BY StakingInit
<1>2. distributed = 0 /\ stakeChanges = 0 /\ paid = [u \in Users |-> 0]
  BY DEF HistoryInit
<1>3. AccountValues
  BY <1>1, <1>2, AccountTypes DEF PaidTyped
<1>4. ASSUME NEW u \in Users PROVE Exact[u] = 0 /\ Slack[u] = 0
  <2>1. /\ stakerInfo[u].bond_amount = 0 /\ stakerInfo[u].pending_reward = 0
        /\ stakerInfo[u].reward_index \in Nat /\ state.global_reward_index \in Nat
    BY <1>1 DEF Init, NoStaker, StakingInv, TypeOK, StakerRecords, StateRecords
  <2>2. EarnedUnits(0, stakerInfo[u].reward_index, state.global_reward_index) = 0
    BY <2>1, EarnedReading
  <2>3. paid[u] = 0
    BY <1>2
  <2>4. Exact[u] = Scale * (0 + 0) + 0
    BY <2>1, <2>2, <2>3 DEF Exact, ExactOf
  <2>5. Slack[u] = 0
    BY <2>1 DEF Slack, SlackOf
  <2> QED BY <2>4, <2>5, ScaleAssumption
<1>5. Total(Exact) = 0 /\ Total(Slack) = 0
  BY <1>3, <1>4, TotalZero DEF AccountValues
<1> QED BY <1>2, <1>5, ScaleAssumption DEF AccountsInv

\* What is not yet credited is what has been earned, but for one remainder.
LEMMA UncreditedWithin ==
  ASSUME StakingInv, NEW u \in Users
  PROVE  LET earned == EarnedUnits(stakerInfo[u].bond_amount,
                                   stakerInfo[u].reward_index,
                                   state.global_reward_index)
         IN Uncredited[u] <= earned /\ earned <= Uncredited[u] + Slack[u]
<1> DEFINE bond == stakerInfo[u].bond_amount
           from == stakerInfo[u].reward_index
           to   == state.global_reward_index
           x    == bond * from
           y    == bond * to
           A    == Scale * MulFloor(bond, from)
<1>1. bond \in Nat /\ from \in Nat /\ to \in Nat
  BY DEF StakingInv, TypeOK, StakerRecords, StateRecords
<1>2. /\ Uncredited[u] = IF bond = 0 THEN 0 ELSE bond * (to - from)
      /\ Slack[u] = IF bond = 0 THEN 0 ELSE Scale
  BY DEF Uncredited, Slack, SlackOf
<1>3. bond = 0 \/ from <= to
  BY <1>1 DEF StakingInv, IndexesBehind
<1> HIDE DEF bond, from, to
<1>4. CASE bond = 0
  <2>1. EarnedUnits(bond, from, to) = 0
    BY <1>1, <1>3, <1>4, EarnedReading
  <2> QED BY <1>2, <1>4, <2>1 DEF bond, from, to
<1>5. CASE bond # 0
  <2>1. x \in Nat /\ y \in Nat /\ A \in Nat /\ A <= x /\ x < A + Scale
    BY <1>1, FloorWithin
  <2>2. EarnedUnits(bond, from, to) = y - A
    BY DEF EarnedUnits
  <2>3. Uncredited[u] = y - x
    BY <1>1, <1>2, <1>5
  <2>4. Slack[u] = Scale
    BY <1>2, <1>5
  <2> HIDE DEF x, y, A
  <2>5. /\ Uncredited[u] <= EarnedUnits(bond, from, to)
        /\ EarnedUnits(bond, from, to) <= Uncredited[u] + Slack[u]
    BY <2>1, <2>2, <2>3, <2>4, ScaleAssumption
  <2> QED BY <2>5 DEF bond, from, to
<1> QED BY <1>4, <1>5

LEMMA AccountsAgree == StakingInv /\ AccountsInv => CreditsMatchDistribution
<1> SUFFICES ASSUME StakingInv, AccountsInv PROVE CreditsMatchDistribution
  OBVIOUS
<1> DEFINE given == [u \in Users |-> paid[u] + Pending[u]]
           units == [u \in Users |-> given[u] * Scale]
           known == [u \in Users |-> units[u] + Uncredited[u]]
           upper == [u \in Users |-> known[u] + Slack[u]]
<1>1. /\ AccountValues /\ paid \in [Users -> Nat] /\ IsFiniteSet(Users)
      /\ Scale \in Nat /\ distributed \in Nat /\ stakeChanges \in Nat
  BY AccountTypes, LpStakingAssumption, ScaleAssumption DEF AccountsInv, PaidTyped
<1>2. /\ Exact \in [Users -> Nat] /\ Slack \in [Users -> Nat]
      /\ Uncredited \in [Users -> Nat] /\ Pending \in [Users -> Nat]
      /\ Total(Exact) \in Nat /\ Total(Slack) \in Nat
      /\ Total(Uncredited) \in Nat /\ Total(Pending) \in Nat /\ Total(paid) \in Nat
  BY <1>1, TotalType DEF AccountValues
<1>3. ASSUME NEW f \in [Users -> Nat], NEW g \in [Users -> Nat],
             NEW sum, sum = [v \in Users |-> f[v] + g[v]]
      PROVE  sum \in [Users -> Nat] /\ Total(sum) = Total(f) + Total(g)
  BY <1>1, <1>3, TotalSum
<1>4. given \in [Users -> Nat] /\ Total(given) = Total(paid) + Total(Pending)
  <2>1. given = [u \in Users |-> paid[u] + Pending[u]]
    OBVIOUS
  <2> HIDE DEF given
  <2> QED BY <1>1, <1>2, <1>3, <2>1
<1>5. units \in [Users -> Nat] /\ Total(units) = Total(given) * Scale
  <2> HIDE DEF given
  <2>1. units \in [Users -> Nat] /\ \A u \in Users : units[u] = given[u] * Scale
    BY <1>1, <1>4, ProductNat
  <2> HIDE DEF units
  <2> QED BY <1>1, <1>4, <2>1, TotalTimes
<1>6. known \in [Users -> Nat] /\ Total(known) = Total(units) + Total(Uncredited)
  <2>1. known = [u \in Users |-> units[u] + Uncredited[u]]
    OBVIOUS
  <2> HIDE DEF known, units
  <2> QED BY <1>2, <1>3, <1>5, <2>1
<1>7. upper \in [Users -> Nat] /\ Total(upper) = Total(known) + Total(Slack)
  <2>1. upper = [u \in Users |-> known[u] + Slack[u]]
    OBVIOUS
  <2> HIDE DEF upper, known
  <2> QED BY <1>2, <1>3, <1>6, <2>1
<1>8. ASSUME NEW u \in Users PROVE known[u] <= Exact[u] /\ Exact[u] <= upper[u]
  <2> DEFINE earned == EarnedUnits(stakerInfo[u].bond_amount,
                                   stakerInfo[u].reward_index,
                                   state.global_reward_index)
  <2>1. Uncredited[u] <= earned /\ earned <= Uncredited[u] + Slack[u]
    BY UncreditedWithin
  <2>2. earned \in Nat
    <3>1. /\ stakerInfo[u].bond_amount \in Nat /\ stakerInfo[u].reward_index \in Nat
          /\ state.global_reward_index \in Nat
      BY DEF StakingInv, TypeOK, StakerRecords, StateRecords
    <3>2. \/ stakerInfo[u].bond_amount = 0
          \/ stakerInfo[u].reward_index <= state.global_reward_index
      BY <3>1 DEF StakingInv, IndexesBehind
    <3> QED BY <3>1, <3>2, EarnedReading
  <2>3. /\ Exact[u] = Scale * given[u] + earned
        /\ known[u] = given[u] * Scale + Uncredited[u]
        /\ upper[u] = known[u] + Slack[u]
    BY DEF Exact, ExactOf, Pending
  <2>4. /\ given[u] \in Nat /\ Uncredited[u] \in Nat /\ Slack[u] \in Nat
        /\ given[u] * Scale = Scale * given[u] /\ Scale * given[u] \in Nat
    BY <1>1, <1>2, <1>4
  <2> HIDE DEF given, known, upper, earned
  <2> QED BY <2>1, <2>2, <2>3, <2>4
<1> HIDE DEF given, units, known, upper
<1>9. /\ Total(known) <= Total(Exact) /\ Total(Exact) <= Total(known) + Total(Slack)
      /\ Total(known) \in Nat
  BY <1>1, <1>2, <1>6, <1>7, <1>8, TotalMono, TotalType
<1>10. Total(known) = Scale * (Total(paid) + Total(Pending)) + Total(Uncredited)
  <2>1. Total(given) * Scale = Scale * Total(given)
    BY <1>1, <1>2, <1>4
  <2> QED BY <1>4, <1>5, <1>6, <2>1
<1>11. Scale * stakeChanges \in Nat
  BY <1>1, ProductNat
<1>12. /\ Total(known) <= distributed + Scale * stakeChanges
       /\ distributed <= Total(known) + Scale * stakeChanges
  BY <1>1, <1>2, <1>9, <1>11 DEF AccountsInv
<1> QED BY <1>10, <1>12 DEF CreditsMatchDistribution

(* However often anyone calls, what stakers have been paid, can still be paid and
   have earned since their last call is what the index has distributed, but for
   less than one unit each time a stake changed. *)
THEOREM CreditsAreExact == AccountSpec => []CreditsMatchDistribution
<1>1. Init /\ HistoryInit => StakingInv /\ AccountsInv
  BY StakingInit, AccountsInit
<1>2. StakingInv /\ [Next /\ HistoryStep]_<<vars, history>> => StakingInv'
  <2>1. [Next /\ HistoryStep]_<<vars, history>> => [Next]_vars
    OBVIOUS
  <2> QED BY <2>1, StakingNext
<1>3. StakingInv /\ AccountsInv => CreditsMatchDistribution
  BY AccountsAgree
<1> QED BY <1>1, <1>2, <1>3, AccountsNext, PTL DEF AccountSpec

-------------------------------------------------------------------------------
(* The cycles and the clock *)

LEMMA CyclesElapsedIs ==
  ASSUME NEW t \in Nat
  PROVE  /\ t <= InitTimestamp => CyclesElapsed(t) = 0
         /\ InitTimestamp <= t /\ t <= TillTimestamp =>
              CyclesElapsed(t) = (t - InitTimestamp) \div CycleDuration
         /\ TillTimestamp <= t =>
              CyclesElapsed(t) = (TillTimestamp - InitTimestamp) \div CycleDuration
<1> DEFINE D == CycleDuration
           all == TillTimestamp - InitTimestamp
           n == t - InitTimestamp
<1>1. /\ D \in Nat \ {0} /\ all \in Nat
      /\ InitTimestamp \in Nat /\ TillTimestamp \in Nat /\ InitTimestamp < TillTimestamp
  BY LpStakingAssumption
<1>2. CASE t <= InitTimestamp
  <2>1. CyclesElapsed(t) = 0
    BY <1>2 DEF CyclesElapsed
  <2>2. t = InitTimestamp => n \div D = 0
    <3>1. 0 * D <= 0 /\ 0 < 0 * D + D
      BY <1>1
    <3>2. 0 \div D = 0
      BY <1>1, <3>1, QuotientOf
    <3> QED BY <1>1, <3>2
  <2> QED BY <1>1, <1>2, <2>1, <2>2
<1>3. CASE ~(t <= InitTimestamp)
  <2>1. n \in Nat /\ CyclesElapsed(t) = Lesser(all \div D, n \div D)
    BY <1>1, <1>3 DEF CyclesElapsed
  <2>2. n \div D \in Nat /\ all \div D \in Nat
    BY <1>1, <2>1, DivBound
  <2>3. /\ t <= TillTimestamp => n \div D <= all \div D
        /\ TillTimestamp <= t => all \div D <= n \div D
    <3>1. /\ t <= TillTimestamp => n <= all
          /\ TillTimestamp <= t => all <= n
      BY <1>1
    <3> HIDE DEF n, all, D
    <3> QED BY <1>1, <2>1, <3>1, QuotientMono
  <2>4. /\ t <= TillTimestamp => CyclesElapsed(t) = n \div D
        /\ TillTimestamp <= t => CyclesElapsed(t) = all \div D
    <3> HIDE DEF n, all, D
    <3> QED BY <2>1, <2>2, <2>3 DEF Lesser
  <2> QED BY <1>3, <2>4
<1> QED BY <1>2, <1>3

\* Where the running cycle begins and ends.
LEMMA CycleAround ==
  ASSUME NEW t \in Nat
  PROVE  /\ t < TillTimestamp => t < InitTimestampForCycle(CyclesElapsed(t) + 1)
         /\ TillTimestamp <= t =>
              TillTimestamp < InitTimestampForCycle(CyclesElapsed(t) + 1)
         /\ InitTimestamp <= t =>
              /\ InitTimestampForCycle(CyclesElapsed(t)) <= t
              /\ InitTimestampForCycle(CyclesElapsed(t)) <= TillTimestamp
         /\ InitTimestampForCycle(CyclesElapsed(t) + 1) \in Nat
         /\ InitTimestampForCycle(CyclesElapsed(t)) \in Nat
<1> DEFINE D == CycleDuration
           q == CyclesElapsed(t)
           Q == q * D
<1>1. /\ D \in Nat \ {0} /\ q \in Nat /\ Q \in Nat
      /\ InitTimestamp \in Nat /\ TillTimestamp \in Nat /\ InitTimestamp < TillTimestamp
  BY LpStakingAssumption, CyclesElapsedType, ProductNat
<1>2. /\ InitTimestampForCycle(q) = InitTimestamp + Q
      /\ InitTimestampForCycle(q + 1) = InitTimestamp + Q + D
  <2>1. (q + 1) * D = Q + D
    BY <1>1
  <2> HIDE DEF Q
  <2> QED BY <1>1, <2>1 DEF InitTimestampForCycle, Q
<1>3. CASE t <= InitTimestamp
  <2>1. q = 0 /\ Q = 0
    BY <1>1, <1>3, CyclesElapsedIs
  <2> HIDE DEF Q, q
  <2> QED BY <1>1, <1>2, <1>3, <2>1 DEF q
<1>4. CASE InitTimestamp <= t /\ t <= TillTimestamp
  <2> DEFINE n == t - InitTimestamp
  <2>1. n \in Nat /\ q = n \div D
    BY <1>1, <1>4, CyclesElapsedIs
  <2> HIDE DEF n
  <2>2. Q <= n /\ n < Q + D
    BY <1>1, <2>1, DivBound
  <2> HIDE DEF Q, q
  <2>3. Q <= t - InitTimestamp /\ t - InitTimestamp < Q + D
    BY <2>2 DEF n
  <2> QED BY <1>1, <1>2, <1>4, <2>3 DEF q
<1>5. CASE TillTimestamp <= t
  <2> DEFINE n == TillTimestamp - InitTimestamp
  <2>1. n \in Nat /\ q = n \div D
    BY <1>1, <1>5, CyclesElapsedIs
  <2> HIDE DEF n
  <2>2. Q <= n /\ n < Q + D
    BY <1>1, <2>1, DivBound
  <2> HIDE DEF Q, q
  <2>3. Q <= TillTimestamp - InitTimestamp /\ TillTimestamp - InitTimestamp < Q + D
    BY <2>2 DEF n
  <2> QED BY <1>1, <1>2, <1>5, <2>3 DEF q
<1> QED BY <1>1, <1>3, <1>4, <1>5

LEMMA CyclesElapsedMono ==
  ASSUME NEW t \in Nat, NEW u \in Nat, t <= u
  PROVE  CyclesElapsed(t) <= CyclesElapsed(u)
<1> DEFINE D == CycleDuration
           all == TillTimestamp - InitTimestamp
<1>1. /\ D \in Nat \ {0} /\ all \in Nat
      /\ InitTimestamp \in Nat /\ TillTimestamp \in Nat /\ InitTimestamp < TillTimestamp
      /\ CyclesElapsed(t) \in Nat /\ CyclesElapsed(u) \in Nat
  BY LpStakingAssumption, CyclesElapsedType
<1>2. CASE t <= InitTimestamp
  BY <1>1, <1>2, CyclesElapsedIs
<1>3. CASE InitTimestamp <= t /\ u <= TillTimestamp
  <2> DEFINE m == t - InitTimestamp
             n == u - InitTimestamp
  <2>1. m \in Nat /\ n \in Nat /\ m <= n
    BY <1>1, <1>3
  <2>2. CyclesElapsed(t) = m \div D /\ CyclesElapsed(u) = n \div D
    BY <1>1, <1>3, CyclesElapsedIs
  <2> HIDE DEF m, n
  <2> QED BY <1>1, <2>1, <2>2, QuotientMono
<1>4. CASE InitTimestamp <= t /\ t <= TillTimestamp /\ TillTimestamp <= u
  <2> DEFINE m == t - InitTimestamp
  <2>1. m \in Nat /\ m <= all
    BY <1>1, <1>4
  <2>2. CyclesElapsed(t) = m \div D /\ CyclesElapsed(u) = all \div D
    BY <1>1, <1>4, CyclesElapsedIs
  <2> HIDE DEF m, all
  <2> QED BY <1>1, <2>1, <2>2, QuotientMono
<1>5. CASE TillTimestamp <= t
  <2>1. TillTimestamp <= u
    BY <1>1, <1>5
  <2> QED BY <1>1, <1>5, <2>1, CyclesElapsedIs
<1> QED BY <1>1, <1>2, <1>3, <1>4, <1>5

\* A second later the number of cycles is what the clock of the schedule says.
LEMMA CyclesElapsedStep ==
  ASSUME NEW t \in Nat
  PROVE  CyclesElapsed(t + 1) = IF Schedule!CycleEndsAt(t + 1) THEN CyclesElapsed(t) + 1
                                ELSE CyclesElapsed(t)
<1> DEFINE D == CycleDuration
           n == t - InitTimestamp
<1>1. /\ D \in Nat \ {0} /\ t + 1 \in Nat
      /\ InitTimestamp \in Nat /\ TillTimestamp \in Nat /\ InitTimestamp < TillTimestamp
  BY LpStakingAssumption
<1>2. CASE t + 1 <= InitTimestamp
  <2>1. ~Schedule!CycleEndsAt(t + 1)
    BY <1>1, <1>2 DEF Schedule!CycleEndsAt
  <2>2. CyclesElapsed(t + 1) = 0 /\ CyclesElapsed(t) = 0
    BY <1>1, <1>2, CyclesElapsedIs
  <2> QED BY <2>1, <2>2
<1>3. CASE TillTimestamp <= t
  <2>1. ~Schedule!CycleEndsAt(t + 1)
    BY <1>1, <1>3 DEF Schedule!CycleEndsAt
  <2>2. CyclesElapsed(t + 1) = CyclesElapsed(t)
    BY <1>1, <1>3, CyclesElapsedIs
  <2> QED BY <2>1, <2>2
<1>4. CASE InitTimestamp <= t /\ t + 1 <= TillTimestamp
  <2>1. n \in Nat /\ t + 1 - InitTimestamp = n + 1
    BY <1>1, <1>4
  <2>2. /\ CyclesElapsed(t) = n \div D
        /\ CyclesElapsed(t + 1) = (t + 1 - InitTimestamp) \div D
    BY <1>1, <1>4, CyclesElapsedIs
  <2>3. Schedule!CycleEndsAt(t + 1) <=> (t + 1 - InitTimestamp) % D = 0
    BY <1>1, <1>4 DEF Schedule!CycleEndsAt
  <2> HIDE DEF n, D
  <2>4. (n + 1) \div D = IF (n + 1) % D = 0 THEN n \div D + 1 ELSE n \div D
    BY <1>1, <2>1, QuotientStep
  <2> QED BY <2>1, <2>2, <2>3, <2>4
<1> QED BY <1>1, <1>2, <1>3, <1>4

-------------------------------------------------------------------------------
(* The loop and the clock *)

\* A cycle before the running one is over.
LEMMA CycleOver ==
  ASSUME NEW t \in Nat, NEW c \in Nat, c < CyclesElapsed(t)
  PROVE  /\ InitTimestampForCycle(c + 1) \in Nat
         /\ InitTimestampForCycle(c + 1) <= t
         /\ InitTimestampForCycle(c + 1) <= TillTimestamp
<1> DEFINE D == CycleDuration
           q == CyclesElapsed(t)
<1>1. D \in Nat /\ q \in Nat /\ InitTimestamp \in Nat /\ c + 1 <= q /\ TillTimestamp \in Nat
  BY LpStakingAssumption, CyclesElapsedType
<1>2. InitTimestamp <= t
  <2>1. t <= InitTimestamp => q = 0
    BY CyclesElapsedIs
  <2> QED BY <1>1, <2>1
<1>3. /\ InitTimestampForCycle(q) <= t /\ InitTimestampForCycle(q) <= TillTimestamp
  BY <1>2, CycleAround
<1> HIDE DEF q
<1>4. (c + 1) * D <= q * D /\ (c + 1) * D \in Nat /\ q * D \in Nat
  BY <1>1, ProductMono, ProductNat
<1>5. /\ InitTimestampForCycle(c + 1) = InitTimestamp + (c + 1) * D
      /\ InitTimestampForCycle(q) = InitTimestamp + q * D
  BY DEF InitTimestampForCycle
<1> QED BY <1>1, <1>3, <1>4, <1>5

\* A turn over a cycle that is over does not depend on when it is made.
LEMMA TurnWhenever ==
  ASSUME NEW cfg, NEW p, NEW t \in Nat, NEW u \in Nat, t <= u,
         NEW c \in Nat, c < CyclesElapsed(t)
  PROVE  DistributeCycle(cfg, p, c, CyclesElapsed(t), t)
           = DistributeCycle(cfg, p, c, CyclesElapsed(u), u)
<1> DEFINE end == InitTimestampForCycle(c + 1)
<1>1. end \in Nat /\ end <= t /\ end <= TillTimestamp /\ TillTimestamp \in Nat
  BY CycleOver, LpStakingAssumption
<1>2. /\ CyclesElapsed(t) \in Nat /\ CyclesElapsed(u) \in Nat
      /\ CyclesElapsed(t) <= CyclesElapsed(u)
  BY CyclesElapsedType, CyclesElapsedMono
<1>3. (c = CyclesElapsed(t)) = (c = CyclesElapsed(u))
  BY <1>2
<1> HIDE DEF end
<1>4. Lesser(t, Lesser(TillTimestamp, end)) = end /\ Lesser(u, Lesser(TillTimestamp, end)) = end
  BY <1>1 DEF Lesser
<1> QED BY <1>3, <1>4, Zenon DEF DistributeCycle, end

LEMMA SharedTurns ==
  ASSUME NEW cfg, ConfigTyped(cfg), NEW st \in StateRecords,
         NEW t \in Nat, NEW u \in Nat, t <= u
  PROVE  \A k \in Nat : st.current_cycle + k <= CyclesElapsed(t) =>
           Turns(cfg, st, t)[k] = Turns(cfg, st, u)[k]
<1> DEFINE S == {k \in Nat : st.current_cycle + k <= CyclesElapsed(t) =>
                   Turns(cfg, st, t)[k] = Turns(cfg, st, u)[k]}
<1>1. st.current_cycle \in Nat /\ CyclesElapsed(t) \in Nat
  BY CyclesElapsedType DEF StateRecords
<1>2. 0 \in S
  <2>1. Turns(cfg, st, t)[0] = Turns(cfg, st, u)[0]
    <3>1. Turns(cfg, st, t)[0] = [distributed |-> 0, rewards |-> st.current_cycle_rewards,
                                  till |-> st.last_distributed]
      BY TurnsDefined, Zenon
    <3>2. Turns(cfg, st, u)[0] = [distributed |-> 0, rewards |-> st.current_cycle_rewards,
                                  till |-> st.last_distributed]
      BY TurnsDefined, Zenon
    <3> QED BY <3>1, <3>2, Zenon
  <2> QED BY <2>1
<1>3. ASSUME NEW k \in Nat, k \in S PROVE k + 1 \in S
  <2> SUFFICES ASSUME st.current_cycle + (k + 1) <= CyclesElapsed(t)
               PROVE  Turns(cfg, st, t)[k + 1] = Turns(cfg, st, u)[k + 1]
    OBVIOUS
  <2> DEFINE c == st.current_cycle + k
  <2>1. c \in Nat /\ c < CyclesElapsed(t)
    BY <1>1
  <2>2. Turns(cfg, st, t)[k] = Turns(cfg, st, u)[k]
    BY <1>1, <1>3
  <2>3. /\ Turns(cfg, st, t)[k + 1]
             = DistributeCycle(cfg, Turns(cfg, st, t)[k], c, CyclesElapsed(t), t)
        /\ Turns(cfg, st, u)[k + 1]
             = DistributeCycle(cfg, Turns(cfg, st, u)[k], c, CyclesElapsed(u), u)
    BY TurnsDefined
  <2> HIDE DEF c
  <2> QED BY <2>1, <2>2, <2>3, TurnWhenever
<1> HIDE DEF S
<1>4. \A k \in Nat : k \in S
  BY <1>2, <1>3, SetInduction
<1> QED BY <1>4 DEF S

\* What the loop has computed when it reaches the running cycle.
Reached(cfg, st, t) == Turns(cfg, st, t)[CyclesElapsed(t) - st.current_cycle]

LEMMA ReachedNothing ==
  ASSUME NEW cfg, ConfigTyped(cfg), NEW st \in StateRecords, NEW t \in Nat,
         st.current_cycle = CyclesElapsed(t)
  PROVE  Reached(cfg, st, t) = [distributed |-> 0, rewards |-> st.current_cycle_rewards,
                                till |-> st.last_distributed]
<1>1. CyclesElapsed(t) - st.current_cycle = 0
  BY CyclesElapsedType
<1>2. Reached(cfg, st, t) = Turns(cfg, st, t)[0]
  BY <1>1 DEF Reached
<1>3. Turns(cfg, st, t)[0] = [distributed |-> 0, rewards |-> st.current_cycle_rewards,
                              till |-> st.last_distributed]
  BY TurnsDefined, Zenon
<1> QED BY <1>2, <1>3

\* What the running cycle adds to it.
RunningRewards(p, t) ==
  RewardsDistributedForCycle(FromRatio(p.rewards, CycleDuration),
                             Greater(p.till, InitTimestamp), Lesser(t, TillTimestamp))

LEMMA LastTurn ==
  ASSUME NEW cfg, ConfigTyped(cfg), NEW st \in StateRecords, NEW t \in Nat,
         st.current_cycle <= CyclesElapsed(t)
  PROVE  /\ Reached(cfg, st, t) \in TurnRecords
         /\ Distribution(cfg, st, t)
              = DistributeCycle(cfg, Reached(cfg, st, t), CyclesElapsed(t),
                                CyclesElapsed(t), t)
         /\ Distribution(cfg, st, t).till = Lesser(t, TillTimestamp)
         /\ Distribution(cfg, st, t).rewards = Reached(cfg, st, t).rewards
         /\ Distribution(cfg, st, t).distributed
              = Reached(cfg, st, t).distributed + RunningRewards(Reached(cfg, st, t), t)
<1> DEFINE first == st.current_cycle
           last  == CyclesElapsed(t)
           n     == last - first
           p     == Reached(cfg, st, t)
<1>1. first \in Nat /\ last \in Nat /\ first <= last /\ n \in Nat /\ TillTimestamp \in Nat
  BY CyclesElapsedType, LpStakingAssumption DEF StateRecords
<1>2. Turns(cfg, st, t)[n] = p /\ p \in TurnRecords
  <2>1. Turns(cfg, st, t) \in [Nat -> TurnRecords]
    BY TurnsDefined, Zenon
  <2>2. Turns(cfg, st, t)[n] = p
    BY Zenon DEF Reached
  <2> HIDE DEF n, p
  <2> QED BY <1>1, <2>1, <2>2
<1>3. Distribution(cfg, st, t) = Turns(cfg, st, t)[n + 1]
  BY <1>1 DEF Distribution
<1>4. Turns(cfg, st, t)[n + 1] = DistributeCycle(cfg, Turns(cfg, st, t)[n], first + n, last, t)
  <2>1. \A m \in Nat : Turns(cfg, st, t)[m + 1] =
           DistributeCycle(cfg, Turns(cfg, st, t)[m], first + m, last, t)
    BY TurnsDefined, Zenon
  <2> HIDE DEF n, first, last
  <2> QED BY <1>1, <2>1
<1>5. first + n = last
  BY <1>1
<1>6. Distribution(cfg, st, t) = DistributeCycle(cfg, p, last, last, t)
  BY <1>2, <1>3, <1>4, <1>5
<1>7. Lesser(t, Lesser(TillTimestamp, InitTimestampForCycle(last + 1)))
        = Lesser(t, TillTimestamp)
  <2>1. /\ InitTimestampForCycle(last + 1) \in Nat
        /\ t < TillTimestamp => t < InitTimestampForCycle(last + 1)
        /\ TillTimestamp <= t => TillTimestamp < InitTimestampForCycle(last + 1)
    BY CycleAround
  <2> HIDE DEF last
  <2> QED BY <1>1, <2>1 DEF Lesser
<1>8. CycleRewardsAfter(p.rewards, cfg.reward_increase, last = last) = p.rewards
  BY DEF CycleRewardsAfter
<1> HIDE DEF p, last, n, first
<1>9. /\ Distribution(cfg, st, t).till = Lesser(t, TillTimestamp)
      /\ Distribution(cfg, st, t).rewards = p.rewards
      /\ Distribution(cfg, st, t).distributed = p.distributed + RunningRewards(p, t)
  <2>1. /\ DistributeCycle(cfg, p, last, last, t).till
             = Lesser(t, Lesser(TillTimestamp, InitTimestampForCycle(last + 1)))
        /\ DistributeCycle(cfg, p, last, last, t).rewards
             = CycleRewardsAfter(p.rewards, cfg.reward_increase, last = last)
        /\ DistributeCycle(cfg, p, last, last, t).distributed
             = p.distributed
                 + RewardsDistributedForCycle(
                     FromRatio(p.rewards, CycleDuration), Greater(p.till, InitTimestamp),
                     Lesser(t, Lesser(TillTimestamp, InitTimestampForCycle(last + 1))))
    BY DEF DistributeCycle
  <2> QED BY <1>6, <1>7, <1>8, <2>1 DEF RunningRewards
<1> QED BY <1>2, <1>6, <1>9 DEF p, last

\* The state is at the cycle of its last accrual, which is not after t, or else the
\* rewards have not started.
InStep(st, t) ==
  /\ st.current_cycle = CyclesElapsed(st.last_distributed)
  /\ st.last_distributed <= TillTimestamp
  /\ st.last_distributed <= t \/ st.last_distributed <= InitTimestamp

LEMMA InStepCycle ==
  ASSUME NEW st \in StateRecords, NEW t \in Nat, InStep(st, t)
  PROVE  st.current_cycle <= CyclesElapsed(t)
<1>1. /\ st.last_distributed \in Nat /\ CyclesElapsed(t) \in Nat
      /\ st.current_cycle = CyclesElapsed(st.last_distributed)
      /\ st.last_distributed <= t \/ st.last_distributed <= InitTimestamp
  BY CyclesElapsedType DEF InStep, StateRecords
<1>2. CASE st.last_distributed <= t
  BY <1>1, <1>2, CyclesElapsedMono
<1>3. CASE st.last_distributed <= InitTimestamp
  <2>1. st.current_cycle = 0
    BY <1>1, <1>3, CyclesElapsedIs
  <2> QED BY <1>1, <2>1
<1> QED BY <1>1, <1>2, <1>3

\* What a call computes before the last second of the schedule is accrued.
LEMMA BroughtUp ==
  ASSUME NEW cfg, ConfigTyped(cfg), NEW st \in StateRecords, NEW t \in Nat,
         InStep(st, t), st.last_distributed # TillTimestamp
  PROVE  LET next == ComputeReward(cfg, st, t) IN
         /\ next.current_cycle = CyclesElapsed(t)
         /\ next.last_distributed = Lesser(t, TillTimestamp)
         /\ next.current_cycle_rewards
              = IF TillTimestamp <= t THEN 0 ELSE Reached(cfg, st, t).rewards
<1> DEFINE next == ComputeReward(cfg, st, t)
           d == Distribution(cfg, st, t)
           i == IF st.total_bond_amount = 0 \/ InitTimestamp > t
                THEN st.global_reward_index
                ELSE st.global_reward_index + FromRatio(d.distributed, st.total_bond_amount)
           r == IF d.till = TillTimestamp THEN 0 ELSE d.rewards
<1>1. d.till = Lesser(t, TillTimestamp) /\ d.rewards = Reached(cfg, st, t).rewards
  BY InStepCycle, LastTurn
<1>2. next = [st EXCEPT !.current_cycle = CyclesElapsed(t), !.current_cycle_rewards = r,
                        !.last_distributed = d.till, !.global_reward_index = i]
  BY DEF ComputeReward
<1>3. d.till = TillTimestamp <=> TillTimestamp <= t
  <2>1. TillTimestamp \in Nat
    BY LpStakingAssumption
  <2> QED BY <1>1, <2>1 DEF Lesser
<1> HIDE DEF i, d
<1>4. r = IF TillTimestamp <= t THEN 0 ELSE Reached(cfg, st, t).rewards
  BY <1>1, <1>3
<1> HIDE DEF r
<1>5. /\ next.current_cycle = CyclesElapsed(t) /\ next.last_distributed = d.till
      /\ next.current_cycle_rewards = r
  BY <1>2 DEF StateRecords
<1> QED BY <1>1, <1>4, <1>5

LEMMA BroughtUpAlready ==
  ASSUME NEW cfg, NEW st, NEW t, st.last_distributed = TillTimestamp
  PROVE  ComputeReward(cfg, st, t) = st
BY DEF ComputeReward

\* The state a call leaves: brought up to t.
AtClock(st, t) ==
  st.current_cycle = CyclesElapsed(t) /\ st.last_distributed = Lesser(t, TillTimestamp)

LEMMA CyclesAtTill ==
  ASSUME NEW t \in Nat
  PROVE  CyclesElapsed(Lesser(t, TillTimestamp)) = CyclesElapsed(t)
<1>1. TillTimestamp \in Nat
  BY LpStakingAssumption
<1>2. CASE t < TillTimestamp
  BY <1>2 DEF Lesser
<1>3. CASE TillTimestamp <= t
  <2>1. Lesser(t, TillTimestamp) = TillTimestamp
    BY <1>1, <1>3 DEF Lesser
  <2>2. CyclesElapsed(t) = CyclesElapsed(TillTimestamp)
    BY <1>1, <1>3, CyclesElapsedIs
  <2> QED BY <2>1, <2>2
<1> QED BY <1>1, <1>2, <1>3

LEMMA AtClockInStep ==
  ASSUME NEW st \in StateRecords, NEW t \in Nat, AtClock(st, t)
  PROVE  InStep(st, t)
<1>1. TillTimestamp \in Nat /\ InitTimestamp \in Nat /\ InitTimestamp < TillTimestamp
  BY LpStakingAssumption
<1>2. CyclesElapsed(t) = CyclesElapsed(Lesser(t, TillTimestamp))
  BY CyclesAtTill
<1>3. Lesser(t, TillTimestamp) <= t /\ Lesser(t, TillTimestamp) <= TillTimestamp
  BY <1>1 DEF Lesser
<1> QED BY <1>2, <1>3 DEF AtClock, InStep

\* Whoever calls brings the state up to the clock.
LEMMA CallAtClock ==
  ASSUME NEW cfg, ConfigTyped(cfg), NEW st \in StateRecords, NEW t \in Nat, InStep(st, t)
  PROVE  AtClock(ComputeReward(cfg, st, t), t)
<1>1. CASE st.last_distributed # TillTimestamp
  BY <1>1, BroughtUp DEF AtClock
<1>2. CASE st.last_distributed = TillTimestamp
  <2>1. TillTimestamp \in Nat /\ InitTimestamp \in Nat /\ InitTimestamp < TillTimestamp
    BY LpStakingAssumption
  <2>2. TillTimestamp <= t /\ st.current_cycle = CyclesElapsed(TillTimestamp)
    BY <1>2, <2>1 DEF InStep
  <2>3. CyclesElapsed(t) = CyclesElapsed(TillTimestamp)
    BY <2>1, <2>2, CyclesElapsedIs
  <2>4. Lesser(t, TillTimestamp) = TillTimestamp
    BY <2>1, <2>2 DEF Lesser
  <2> QED BY <1>2, <2>2, <2>3, <2>4, BroughtUpAlready DEF AtClock
<1> QED BY <1>1, <1>2

\* A second call at the same time finds the cycle and its rewards as the first left
\* them.
LEMMA SameTimeAgain ==
  ASSUME NEW cfg, ConfigTyped(cfg), NEW st \in StateRecords, NEW t \in Nat, AtClock(st, t)
  PROVE  /\ ComputeReward(cfg, st, t).current_cycle = st.current_cycle
         /\ ComputeReward(cfg, st, t).current_cycle_rewards = st.current_cycle_rewards
<1>1. CASE st.last_distributed = TillTimestamp
  BY <1>1, BroughtUpAlready
<1>2. CASE st.last_distributed # TillTimestamp
  <2>1. ~(TillTimestamp <= t)
    <3>1. TillTimestamp \in Nat
      BY LpStakingAssumption
    <3> QED BY <1>2, <3>1 DEF AtClock, Lesser
  <2>2. /\ ComputeReward(cfg, st, t).current_cycle = CyclesElapsed(t)
        /\ ComputeReward(cfg, st, t).current_cycle_rewards
             = IF TillTimestamp <= t THEN 0 ELSE Reached(cfg, st, t).rewards
    BY <1>2, AtClockInStep, BroughtUp
  <2>3. Reached(cfg, st, t).rewards = st.current_cycle_rewards
    BY ReachedNothing DEF AtClock
  <2> QED BY <2>1, <2>2, <2>3 DEF AtClock
<1> QED BY <1>1, <1>2

\* A second later the loop has made one turn more where the cycle has ended, over the
\* cycle that has, and none more where it has not.
LEMMA TurnLater ==
  ASSUME NEW cfg, ConfigTyped(cfg), NEW st \in StateRecords, NEW t \in Nat, InStep(st, t)
  PROVE  Reached(cfg, st, t + 1)
           = IF Schedule!CycleEndsAt(t + 1)
             THEN DistributeCycle(cfg, Reached(cfg, st, t), CyclesElapsed(t),
                                  CyclesElapsed(t) + 1, t + 1)
             ELSE Reached(cfg, st, t)
<1> DEFINE first == st.current_cycle
           last  == CyclesElapsed(t)
           n     == last - first
           u     == t + 1
<1>1. /\ first \in Nat /\ last \in Nat /\ first <= last /\ n \in Nat
      /\ u \in Nat /\ t <= u /\ first + n = last
  BY InStepCycle, CyclesElapsedType DEF StateRecords
<1>2. CyclesElapsed(u) = IF Schedule!CycleEndsAt(u) THEN last + 1 ELSE last
  BY CyclesElapsedStep
<1> HIDE DEF u
<1>3. Turns(cfg, st, u)[n] = Reached(cfg, st, t)
  <2>1. \A k \in Nat : first + k <= last => Turns(cfg, st, t)[k] = Turns(cfg, st, u)[k]
    BY <1>1, SharedTurns
  <2>2. Turns(cfg, st, t)[n] = Reached(cfg, st, t)
    BY Zenon DEF Reached
  <2> HIDE DEF n, first, last
  <2> QED BY <1>1, <2>1, <2>2
<1>4. CASE ~Schedule!CycleEndsAt(u)
  <2>1. Reached(cfg, st, u) = Turns(cfg, st, u)[n]
    BY <1>2, <1>4, Zenon DEF Reached
  <2> QED BY <1>3, <1>4, <2>1 DEF u
<1>5. CASE Schedule!CycleEndsAt(u)
  <2>1. CyclesElapsed(u) = last + 1
    BY <1>2, <1>5
  <2>2. CyclesElapsed(u) - first = n + 1
    BY <1>1, <2>1
  <2>3. Reached(cfg, st, u) = Turns(cfg, st, u)[n + 1]
    BY <2>2, Zenon DEF Reached
  <2>4. Turns(cfg, st, u)[n + 1]
          = DistributeCycle(cfg, Turns(cfg, st, u)[n], first + n, CyclesElapsed(u), u)
    <3>1. u \in Nat
      BY <1>1
    <3>2. \A m \in Nat : Turns(cfg, st, u)[m + 1]
            = DistributeCycle(cfg, Turns(cfg, st, u)[m], first + m, CyclesElapsed(u), u)
      BY <3>1, TurnsDefined, Zenon
    <3> HIDE DEF n, first
    <3> QED BY <1>1, <3>2
  <2>5. Reached(cfg, st, u)
          = DistributeCycle(cfg, Reached(cfg, st, t), last, last + 1, u)
    BY <1>1, <1>3, <2>1, <2>3, <2>4
  <2> QED BY <1>5, <2>5 DEF u
<1> QED BY <1>4, <1>5

LEMMA ReachedLater ==
  ASSUME NEW cfg, ConfigTyped(cfg), NEW st \in StateRecords, NEW t \in Nat, InStep(st, t)
  PROVE  Reached(cfg, st, t + 1).rewards
           = LET r == Reached(cfg, st, t).rewards IN
             IF Schedule!CycleEndsAt(t + 1) THEN r + MulFloor(r, cfg.reward_increase) ELSE r
<1> DEFINE p == Reached(cfg, st, t)
           last == CyclesElapsed(t)
<1>1. last # last + 1
  BY CyclesElapsedType
<1> HIDE DEF p, last
<1>2. DistributeCycle(cfg, p, last, last + 1, t + 1).rewards
        = CycleRewardsAfter(p.rewards, cfg.reward_increase, last = last + 1)
  BY DEF DistributeCycle
<1>3. CycleRewardsAfter(p.rewards, cfg.reward_increase, last = last + 1)
        = p.rewards + MulFloor(p.rewards, cfg.reward_increase)
  BY <1>1 DEF CycleRewardsAfter
<1> QED BY <1>2, <1>3, TurnLater DEF p, last

\* So what a call would find changes with the clock as the schedule does.
LEMMA FoundLater ==
  ASSUME NEW cfg, ConfigTyped(cfg), NEW st \in StateRecords, NEW t \in Nat, InStep(st, t)
  PROVE  LET found == ComputeReward(cfg, st, t)
             later == ComputeReward(cfg, st, t + 1) IN
         /\ later.current_cycle
              = IF Schedule!CycleEndsAt(t + 1) THEN found.current_cycle + 1
                ELSE found.current_cycle
         /\ later.current_cycle_rewards
              = IF t + 1 = TillTimestamp THEN 0
                ELSE IF Schedule!CycleEndsAt(t + 1)
                     THEN found.current_cycle_rewards
                            + MulFloor(found.current_cycle_rewards, cfg.reward_increase)
                     ELSE found.current_cycle_rewards
<1> DEFINE found == ComputeReward(cfg, st, t)
           later == ComputeReward(cfg, st, t + 1)
           r == Reached(cfg, st, t).rewards
           s == Reached(cfg, st, t + 1).rewards
<1>1. TillTimestamp \in Nat /\ InitTimestamp \in Nat /\ InitTimestamp < TillTimestamp
  BY LpStakingAssumption
<1>2. InStep(st, t + 1) /\ t + 1 \in Nat
  BY <1>1 DEF InStep, StateRecords
<1>3. /\ found.current_cycle = CyclesElapsed(t)
      /\ later.current_cycle = CyclesElapsed(t + 1)
  BY <1>2, CallAtClock DEF AtClock
<1>4. later.current_cycle = IF Schedule!CycleEndsAt(t + 1) THEN found.current_cycle + 1
                            ELSE found.current_cycle
  <2> HIDE DEF found, later
  <2> QED BY <1>3, CyclesElapsedStep
<1>5. TillTimestamp <= t => ~Schedule!CycleEndsAt(t + 1) /\ t + 1 # TillTimestamp
  BY <1>1 DEF Schedule!CycleEndsAt
<1>6. CASE st.last_distributed = TillTimestamp
  <2>1. TillTimestamp <= t
    BY <1>1, <1>6 DEF InStep
  <2>2. found = st /\ later = st
    BY <1>6, BroughtUpAlready
  <2> HIDE DEF found, later
  <2> QED BY <1>4, <1>5, <2>1, <2>2 DEF found, later
<1>7. CASE st.last_distributed # TillTimestamp
  <2>1. /\ found.current_cycle_rewards = IF TillTimestamp <= t THEN 0 ELSE r
        /\ later.current_cycle_rewards = IF TillTimestamp <= t + 1 THEN 0 ELSE s
    BY <1>2, <1>7, BroughtUp
  <2>2. s = IF Schedule!CycleEndsAt(t + 1) THEN r + MulFloor(r, cfg.reward_increase) ELSE r
    BY ReachedLater
  <2> HIDE DEF found, later, r, s
  <2>3. CASE t + 1 < TillTimestamp
    <3>1. ~(TillTimestamp <= t) /\ ~(TillTimestamp <= t + 1) /\ t + 1 # TillTimestamp
      BY <1>1, <2>3
    <3>2. found.current_cycle_rewards = r /\ later.current_cycle_rewards = s
      BY <2>1, <3>1
    <3> QED BY <1>4, <2>2, <3>1, <3>2 DEF found, later
  <2>4. CASE t + 1 = TillTimestamp
    <3>1. later.current_cycle_rewards = 0
      BY <1>1, <2>1, <2>4
    <3> QED BY <1>4, <2>4, <3>1 DEF found, later
  <2>5. CASE TillTimestamp <= t
    <3>1. found.current_cycle_rewards = 0 /\ later.current_cycle_rewards = 0
      BY <1>1, <2>1, <2>5
    <3> QED BY <1>4, <1>5, <2>5, <3>1 DEF found, later
  <2> QED BY <1>1, <2>3, <2>4, <2>5
<1> QED BY <1>6, <1>7

-------------------------------------------------------------------------------
(* The contract runs its schedule *)

SchedInv == TypeOK /\ InStep(state, now)

LEMMA ScheduleTypes ==
  ASSUME TypeOK
  PROVE  /\ ConfigTyped(config) /\ state \in StateRecords /\ now \in Nat
         /\ Current = ComputeReward(config, state, now)
BY DEF TypeOK, ConfigTyped, ConfigRecords, Current

\* Nothing a call does after its first step touches what the clock decides.
LeavesTheClock ==
  /\ state'.current_cycle = Current.current_cycle
  /\ state'.last_distributed = Current.last_distributed
  /\ now' = now

\* What the next call would find after this one.
FoundAfter ==
  /\ Current'.current_cycle = Current.current_cycle
  /\ Current'.current_cycle_rewards = state'.current_cycle_rewards

LEMMA CallKeepsStep ==
  ASSUME SchedInv, TypeOK', LeavesTheClock
  PROVE  InStep(state', now') /\ FoundAfter
<1>1. ConfigTyped(config) /\ state \in StateRecords /\ now \in Nat /\ InStep(state, now)
  BY DEF SchedInv, TypeOK, ConfigTyped, ConfigRecords
<1>2. /\ ConfigTyped(config') /\ state' \in StateRecords /\ now' \in Nat
  BY DEF TypeOK, ConfigTyped, ConfigRecords
<1>3. AtClock(Current, now)
  BY <1>1, CallAtClock DEF Current
<1>4. AtClock(state', now')
  BY <1>3 DEF AtClock, LeavesTheClock
<1>5. Current' = ComputeReward(config', state', now')
  BY DEF Current
<1>6. /\ Current'.current_cycle = state'.current_cycle
      /\ Current'.current_cycle_rewards = state'.current_cycle_rewards
  BY <1>2, <1>4, <1>5, SameTimeAgain
<1> QED BY <1>2, <1>4, <1>6, AtClockInStep DEF FoundAfter, LeavesTheClock

\* A call that changes neither the rewards nor the growth.
Unseen ==
  /\ LeavesTheClock
  /\ config' = config
  /\ state'.current_cycle_rewards = Current.current_cycle_rewards

LEMMA CallUnseen ==
  ASSUME SchedInv, TypeOK', Unseen
  PROVE  InStep(state', now') /\ UNCHANGED Schedule!schedule
<1>1. InStep(state', now') /\ FoundAfter
  BY CallKeepsStep DEF Unseen
<1> QED BY <1>1 DEF Unseen, FoundAfter, LeavesTheClock, Schedule!schedule

LEMMA UserUnseen ==
  ASSUME SchedInv, UserStep
  PROVE  Unseen
<1>1. Current \in StateRecords
  BY CurrentType DEF SchedInv
<1>2. ASSUME NEW u \in Users, NEW amount, Bond(u, amount) PROVE Unseen
  BY <1>1, <1>2 DEF Bond, Unseen, LeavesTheClock, StateRecords
<1>3. ASSUME NEW u \in Users, NEW amount, NEW withdraw, Unbond(u, amount, withdraw)
      PROVE  Unseen
  BY <1>1, <1>3 DEF Unbond, StateAfterUnbond, Unseen, LeavesTheClock, StateRecords
<1>4. ASSUME NEW u \in Users, Claim(u) PROVE Unseen
  BY <1>1, <1>4 DEF Claim, Unseen, LeavesTheClock
<1> QED BY <1>2, <1>3, <1>4 DEF UserStep

LEMMA OwnerAdjusts ==
  ASSUME SchedInv, TypeOK', OwnerStep
  PROVE  InStep(state', now') /\ Schedule!Adjust
<1>1. PICK sender \in Owners, newOwner \in Owners,
           token \in Tokens \union {config.staking_token},
           increase \in RewardIncreases \union {config.reward_increase},
           rewards \in CycleRewards \union {Current.current_cycle_rewards} :
             UpdateConfig(sender, token, newOwner, increase, rewards)
  BY DEF OwnerStep
<1>2. Current \in StateRecords
  BY CurrentType DEF SchedInv
<1>3. /\ LeavesTheClock /\ config'.reward_increase = increase
      /\ state'.current_cycle_rewards = rewards
  BY <1>1, <1>2 DEF UpdateConfig, StateAfterUpdate, LeavesTheClock, StateRecords
<1>4. InStep(state', now') /\ FoundAfter
  BY <1>3, CallKeepsStep
<1> QED BY <1>1, <1>3, <1>4 DEF Schedule!Adjust, FoundAfter, LeavesTheClock

LEMMA TickSecond ==
  ASSUME SchedInv, Tick
  PROVE  InStep(state', now') /\ Schedule!Second
<1>1. /\ now' = now + 1 /\ config' = config /\ state' = state
  BY DEF Tick
<1>2. /\ ConfigTyped(config) /\ state \in StateRecords /\ now \in Nat /\ InStep(state, now)
  BY DEF SchedInv, TypeOK, ConfigTyped, ConfigRecords
<1>3. InStep(state', now')
  BY <1>1, <1>2 DEF InStep, StateRecords
<1>4. Current = ComputeReward(config, state, now)
  BY DEF Current
<1>5. Current' = ComputeReward(config, state, now + 1)
  BY <1>1 DEF Current
<1>6. /\ Current'.current_cycle
           = IF Schedule!CycleEndsAt(now + 1) THEN Current.current_cycle + 1
             ELSE Current.current_cycle
      /\ Current'.current_cycle_rewards
           = IF now + 1 = TillTimestamp THEN 0
             ELSE IF Schedule!CycleEndsAt(now + 1)
                  THEN Current.current_cycle_rewards
                         + MulFloor(Current.current_cycle_rewards, config.reward_increase)
                  ELSE Current.current_cycle_rewards
  BY <1>2, <1>4, <1>5, FoundLater
<1>7. \A r, i : Schedule!MulFloor(r, i) = MulFloor(r, i)
  BY DEF Schedule!MulFloor, MulFloor
<1> QED BY <1>1, <1>3, <1>6, <1>7 DEF Schedule!Second

LEMMA ScheduleStep ==
  SchedInv /\ TypeOK' /\ [Next]_vars
    => SchedInv' /\ [Schedule!ScheduleNext]_(Schedule!schedule)
<1> SUFFICES ASSUME SchedInv, TypeOK', [Next]_vars
             PROVE  SchedInv' /\ [Schedule!ScheduleNext]_(Schedule!schedule)
  OBVIOUS
<1>1. CASE Tick
  BY <1>1, TickSecond DEF SchedInv, Schedule!ScheduleNext
<1>2. CASE OwnerStep
  BY <1>2, OwnerAdjusts DEF SchedInv, Schedule!ScheduleNext
<1>3. CASE UserStep
  BY <1>3, UserUnseen, CallUnseen DEF SchedInv
<1>4. CASE UNCHANGED <<now, config, state>>
  BY <1>4 DEF SchedInv, Current, Schedule!schedule
<1>5. (\E amount \in MarsAmounts : FundRewards(amount)) \/ UNCHANGED vars
        => UNCHANGED <<now, config, state>>
  BY DEF FundRewards, vars
<1> QED BY <1>1, <1>2, <1>3, <1>4, <1>5 DEF Next

LEMMA ScheduleAtFirst == Init => SchedInv /\ Schedule!ScheduleInit
<1> SUFFICES ASSUME Init PROVE SchedInv /\ Schedule!ScheduleInit
  OBVIOUS
<1>1. TypeOK
  BY InitType
<1>2. ConfigTyped(config) /\ state \in StateRecords /\ now \in Nat
  BY <1>1 DEF TypeOK, ConfigTyped, ConfigRecords
<1>3. /\ now \in {0, InitTimestamp} /\ config.reward_increase \in RewardIncreases
      /\ state.current_cycle = 0 /\ state.current_cycle_rewards \in CycleRewards
      /\ state.last_distributed = InitTimestamp
  BY DEF Init
<1>4. InitTimestamp \in Nat /\ TillTimestamp \in Nat /\ InitTimestamp < TillTimestamp
  BY LpStakingAssumption
<1>5. CyclesElapsed(InitTimestamp) = 0 /\ CyclesElapsed(now) = 0
  BY <1>2, <1>3, <1>4, CyclesElapsedIs
<1>6. InStep(state, now)
  BY <1>3, <1>4, <1>5 DEF InStep
<1>7. /\ Current.current_cycle = 0
      /\ Current.current_cycle_rewards = Reached(config, state, now).rewards
  <2>1. ~(TillTimestamp <= now) /\ state.last_distributed # TillTimestamp
    BY <1>2, <1>3, <1>4
  <2> QED BY <1>2, <1>5, <1>6, <2>1, BroughtUp DEF Current
<1>8. Reached(config, state, now).rewards = state.current_cycle_rewards
  BY <1>2, <1>3, <1>5, ReachedNothing
<1> QED BY <1>1, <1>3, <1>6, <1>7, <1>8 DEF SchedInv, Schedule!ScheduleInit

(* Whenever the calls come, and over however many cycles at a time, the cycle and
   its rewards are those a clock would have computed second by second: the lazy
   loop implements the schedule, for every schedule, growth and scale. *)
THEOREM ScheduleFollowed == Spec => FollowsSchedule
<1>1. Spec => []TypeOK
  BY StakingTypeCorrect
<1> QED
  BY <1>1, ScheduleAtFirst, ScheduleStep, PTL DEF Spec, FollowsSchedule,
     Schedule!ScheduleSpec

-------------------------------------------------------------------------------
(* What the index distributes and what the schedule emits *)

\* The running cycle's share of what a clock has emitted.
RunningEmission(p, t) ==
  LET from == Greater(p.till, InitTimestamp)
      till == Lesser(t, TillTimestamp)
  IN IF till <= from THEN 0 ELSE (till - from) * FromRatio(p.rewards, CycleDuration)

\* The code rounds it down to whole MARS units.
LEMMA RunningFloor ==
  ASSUME NEW p \in TurnRecords, NEW t \in Nat
  PROVE  /\ RunningRewards(p, t) \in Nat /\ RunningEmission(p, t) \in Nat
         /\ Scale * RunningRewards(p, t) <= RunningEmission(p, t)
         /\ RunningEmission(p, t) < Scale * RunningRewards(p, t) + Scale
<1> DEFINE from == Greater(p.till, InitTimestamp)
           till == Lesser(t, TillTimestamp)
           rate == FromRatio(p.rewards, CycleDuration)
<1>1. from \in Nat /\ till \in Nat
  BY LpStakingAssumption DEF TurnRecords, Greater, Lesser
<1>2. rate \in Nat
  <2>1. p.rewards \in Nat /\ CycleDuration \in Nat \ {0}
    BY LpStakingAssumption DEF TurnRecords
  <2> QED BY <2>1, FromRatioBound
<1>3. /\ RunningRewards(p, t) = IF till <= from THEN 0 ELSE MulFloor(till - from, rate)
      /\ RunningEmission(p, t) = IF till <= from THEN 0 ELSE (till - from) * rate
  BY Zenon DEF RunningRewards, RunningEmission, RewardsDistributedForCycle
<1> HIDE DEF from, till, rate
<1>4. CASE till <= from
  BY <1>3, <1>4, ScaleAssumption
<1>5. CASE ~(till <= from)
  <2> DEFINE n == till - from
             e == n * rate
             r == MulFloor(n, rate)
  <2>1. n \in Nat
    BY <1>1, <1>5
  <2> HIDE DEF n
  <2>2. e \in Nat /\ r = e \div Scale
    BY <1>2, <2>1, ProductNat DEF MulFloor
  <2> HIDE DEF e, r
  <2>3. r \in Nat /\ r * Scale <= e /\ e < r * Scale + Scale
    BY <2>2, ScaleAssumption, DivBound
  <2>4. r * Scale = Scale * r
    BY <2>3, ScaleAssumption
  <2>5. RunningRewards(p, t) = r /\ RunningEmission(p, t) = e
    BY <1>3, <1>5 DEF n, e, r
  <2> QED BY <2>2, <2>3, <2>4, <2>5
<1> QED BY <1>4, <1>5

\* The turn of the running cycle starts in the past or where the rewards do.
LEMMA ReachedTill ==
  ASSUME NEW cfg, ConfigTyped(cfg), NEW st \in StateRecords, NEW t \in Nat, InStep(st, t)
  PROVE  /\ Reached(cfg, st, t) \in TurnRecords
         /\ Reached(cfg, st, t).till <= t \/ Reached(cfg, st, t).till <= InitTimestamp
<1> DEFINE first == st.current_cycle
           last  == CyclesElapsed(t)
           p     == Reached(cfg, st, t)
<1>1. first \in Nat /\ last \in Nat /\ first <= last
  BY InStepCycle, CyclesElapsedType DEF StateRecords
<1>2. p \in TurnRecords
  BY <1>1, LastTurn
<1>3. CASE first = last
  <2>1. p.till = st.last_distributed
    BY <1>3, ReachedNothing
  <2> QED BY <1>2, <2>1 DEF InStep
<1>4. CASE first # last
  <2> DEFINE m == last - first - 1
             end == Lesser(TillTimestamp, InitTimestampForCycle(first + m + 1))
  <2>1. m \in Nat /\ m + 1 = last - first
    BY <1>1, <1>4
  <2>2. p = Turns(cfg, st, t)[m + 1]
    BY <2>1, Zenon DEF Reached
  <2>3. \A k \in Nat : Turns(cfg, st, t)[k + 1]
          = DistributeCycle(cfg, Turns(cfg, st, t)[k], first + k, last, t)
    BY TurnsDefined, Zenon
  <2>4. p.till = Lesser(t, end)
    <3> HIDE DEF m
    <3>1. p = DistributeCycle(cfg, Turns(cfg, st, t)[m], first + m, last, t)
      BY <2>1, <2>2, <2>3
    <3> HIDE DEF p, first, last
    <3> QED BY <3>1 DEF DistributeCycle
  <2>5. p.till \in Nat
    BY <1>2 DEF TurnRecords
  <2> HIDE DEF end, p
  <2>6. p.till <= t
    BY <2>4, <2>5 DEF Lesser
  <2> QED BY <1>2, <2>6 DEF p
<1> QED BY <1>3, <1>4

\* One second of it.
LEMMA RunningSecond ==
  ASSUME NEW p \in TurnRecords, NEW t \in Nat, p.till <= t \/ p.till <= InitTimestamp
  PROVE  RunningEmission(p, t + 1)
           = RunningEmission(p, t)
               + IF InitTimestamp <= t /\ t < TillTimestamp
                 THEN FromRatio(p.rewards, CycleDuration) ELSE 0
<1> DEFINE from == Greater(p.till, InitTimestamp)
           rate == FromRatio(p.rewards, CycleDuration)
           a == Lesser(t, TillTimestamp)
           b == Lesser(t + 1, TillTimestamp)
<1>1. InitTimestamp \in Nat /\ TillTimestamp \in Nat /\ InitTimestamp < TillTimestamp
  BY LpStakingAssumption
<1>2. p.till \in Nat /\ p.rewards \in Nat
  BY DEF TurnRecords
<1>3. from \in Nat /\ InitTimestamp <= from /\ (from <= t \/ from <= InitTimestamp)
  BY <1>1, <1>2 DEF Greater
<1>4. rate \in Nat
  BY <1>2, LpStakingAssumption, FromRatioBound
<1>5. /\ RunningEmission(p, t) = IF a <= from THEN 0 ELSE (a - from) * rate
      /\ RunningEmission(p, t + 1) = IF b <= from THEN 0 ELSE (b - from) * rate
  BY Zenon DEF RunningEmission
<1>6. RunningEmission(p, t) \in Nat
  BY RunningFloor
<1>7. CASE t < InitTimestamp
  <2>1. a <= from /\ b <= from
    BY <1>1, <1>3, <1>7 DEF Lesser
  <2>2. ~(InitTimestamp <= t /\ t < TillTimestamp)
    BY <1>1, <1>7
  <2> QED BY <1>5, <2>1, <2>2
<1>8. CASE TillTimestamp <= t
  <2>1. a = b
    BY <1>1, <1>8 DEF Lesser
  <2>2. ~(InitTimestamp <= t /\ t < TillTimestamp)
    BY <1>1, <1>8
  <2> HIDE DEF a, b, from, rate
  <2> QED BY <1>5, <1>6, <2>1, <2>2
<1>9. CASE InitTimestamp <= t /\ t < TillTimestamp
  <2> DEFINE n == t - from
  <2>1. from <= t /\ a = t /\ b = t + 1
    BY <1>1, <1>3, <1>9 DEF Lesser
  <2>2. n \in Nat /\ b - from = n + 1 /\ a - from = n /\ ~(b <= from)
    BY <1>3, <2>1
  <2>3. a <= from => n = 0
    BY <1>3, <2>1
  <2> HIDE DEF n, a, b, from, rate
  <2>4. (n + 1) * rate = n * rate + rate /\ 0 * rate = 0 /\ n * rate \in Nat
    BY <1>4, <2>2
  <2>5. RunningEmission(p, t + 1) = n * rate + rate
    BY <1>5, <2>2, <2>4
  <2>6. RunningEmission(p, t) = n * rate
    BY <1>5, <2>2, <2>3, <2>4
  <2> QED BY <1>9, <2>5, <2>6 DEF rate
<1> QED BY <1>1, <1>7, <1>8, <1>9

\* When a cycle ends, its turn takes what it has emitted into the sum.
LEMMA TurnTakes ==
  ASSUME NEW cfg, NEW p \in TurnRecords, NEW t \in Nat, Schedule!CycleEndsAt(t + 1)
  PROVE  LET q == DistributeCycle(cfg, p, CyclesElapsed(t), CyclesElapsed(t) + 1, t + 1) IN
         /\ q.distributed = p.distributed + RunningRewards(p, t + 1)
         /\ RunningEmission(q, t + 1) = 0
<1> DEFINE u == t + 1
           last == CyclesElapsed(t)
           end == InitTimestampForCycle(last + 1)
           q == DistributeCycle(cfg, p, last, last + 1, u)
<1>1. /\ InitTimestamp \in Nat /\ TillTimestamp \in Nat /\ u \in Nat
      /\ InitTimestamp < u /\ u <= TillTimestamp /\ t < TillTimestamp
  BY LpStakingAssumption DEF Schedule!CycleEndsAt
<1>2. CyclesElapsed(u) = last + 1
  BY CyclesElapsedStep
<1>3. end \in Nat /\ t < end /\ end <= u
  <2>1. end \in Nat /\ t < end
    BY <1>1, CycleAround
  <2>2. InitTimestampForCycle(CyclesElapsed(u)) <= u
    <3> HIDE DEF u
    <3> QED BY <1>1, CycleAround
  <2> HIDE DEF u, last
  <2> QED BY <1>2, <2>1, <2>2
<1>4. end = u
  BY <1>3
<1> HIDE DEF end
<1>5. Lesser(u, Lesser(TillTimestamp, end)) = u /\ Lesser(u, TillTimestamp) = u
  BY <1>1, <1>4 DEF Lesser
<1> HIDE DEF u, last
<1>6. /\ q.till = u
      /\ q.distributed = p.distributed + RunningRewards(p, u)
  BY <1>5 DEF DistributeCycle, RunningRewards, end
<1>7. u <= Greater(q.till, InitTimestamp)
  BY <1>1, <1>6 DEF Greater
<1>8. RunningEmission(q, u) = 0
  BY <1>5, <1>7 DEF RunningEmission
<1> QED BY <1>6, <1>8 DEF u, last

\* e is what the schedule has emitted since st, but for less than one unit for each
\* turn that was rounded.
EmissionWithin(cfg, st, t, e) ==
  LET p == Reached(cfg, st, t)
      turns == CyclesElapsed(t) - st.current_cycle IN
  /\ Scale * p.distributed + RunningEmission(p, t) <= e
  /\ e <= Scale * (p.distributed + turns) + RunningEmission(p, t)

\* Where the clock has not moved past the last accrual, or the start, there is nothing.
LEMMA NothingEmitted ==
  ASSUME NEW cfg, ConfigTyped(cfg), NEW st \in StateRecords, NEW t \in Nat,
         st.current_cycle = CyclesElapsed(t),
         Lesser(t, TillTimestamp) <= Greater(st.last_distributed, InitTimestamp)
  PROVE  \A e \in Nat : EmissionWithin(cfg, st, t, e) <=> e = 0
<1> DEFINE p == Reached(cfg, st, t)
<1>1. p.distributed = 0 /\ p.till = st.last_distributed
  BY ReachedNothing
<1>2. CyclesElapsed(t) - st.current_cycle = 0
  BY CyclesElapsedType
<1> HIDE DEF p
<1>3. RunningEmission(p, t) = 0
  BY <1>1 DEF RunningEmission
<1>4. \A e : EmissionWithin(cfg, st, t, e)
               <=> Scale * 0 + 0 <= e /\ e <= Scale * (0 + 0) + 0
  BY <1>1, <1>2, <1>3 DEF EmissionWithin, p
<1> QED BY <1>4, ScaleAssumption

LEMMA NothingAtClock ==
  ASSUME NEW cfg, ConfigTyped(cfg), NEW st \in StateRecords, NEW t \in Nat, AtClock(st, t)
  PROVE  \A e \in Nat : EmissionWithin(cfg, st, t, e) <=> e = 0
<1>1. /\ st.current_cycle = CyclesElapsed(t)
      /\ Lesser(t, TillTimestamp) <= Greater(st.last_distributed, InitTimestamp)
  <2>1. Lesser(t, TillTimestamp) \in Nat /\ InitTimestamp \in Nat
    BY LpStakingAssumption DEF Lesser
  <2> QED BY <2>1 DEF AtClock, Greater
<1> QED BY <1>1, NothingEmitted

LEMMA EmissionLater ==
  ASSUME NEW cfg, ConfigTyped(cfg), NEW st \in StateRecords, NEW t \in Nat, InStep(st, t),
         NEW e \in Nat, EmissionWithin(cfg, st, t, e), NEW gain \in Nat,
         gain = IF InitTimestamp <= t /\ t < TillTimestamp
                THEN FromRatio(Reached(cfg, st, t).rewards, CycleDuration) ELSE 0
  PROVE  EmissionWithin(cfg, st, t + 1, e + gain)
<1> DEFINE p == Reached(cfg, st, t)
           q == Reached(cfg, st, t + 1)
           n == CyclesElapsed(t) - st.current_cycle
           run == RunningEmission(p, t)
           later == RunningEmission(p, t + 1)
           D == p.distributed
<1>1. /\ st.current_cycle \in Nat /\ CyclesElapsed(t) \in Nat /\ n \in Nat
      /\ CyclesElapsed(t + 1) - st.current_cycle
           = IF Schedule!CycleEndsAt(t + 1) THEN n + 1 ELSE n
  BY InStepCycle, CyclesElapsedType, CyclesElapsedStep DEF StateRecords
<1>2. p \in TurnRecords /\ D \in Nat
  BY ReachedTill DEF TurnRecords
<1>3. run \in Nat /\ later \in Nat /\ later = run + gain
  BY <1>2, ReachedTill, RunningFloor, RunningSecond
<1>4. Scale * D + run <= e /\ e <= Scale * (D + n) + run
  BY DEF EmissionWithin
<1> HIDE DEF n, run, D
<1>5. Scale * D \in Nat /\ Scale * (D + n) \in Nat
  BY <1>1, <1>2, ScaleAssumption, ProductNat
<1>6. Scale * D + later <= e + gain /\ e + gain <= Scale * (D + n) + later
  <2> HIDE DEF later
  <2> QED BY <1>3, <1>4, <1>5
<1>7. CASE ~Schedule!CycleEndsAt(t + 1)
  <2>1. q = p /\ CyclesElapsed(t + 1) - st.current_cycle = n
    BY <1>1, <1>7, TurnLater
  <2> HIDE DEF p, q
  <2> QED BY <1>6, <2>1 DEF EmissionWithin, D, q
<1>8. CASE Schedule!CycleEndsAt(t + 1)
  <2> DEFINE r == RunningRewards(p, t + 1)
  <2>1. q = DistributeCycle(cfg, p, CyclesElapsed(t), CyclesElapsed(t) + 1, t + 1)
    BY <1>8, TurnLater
  <2>2. q.distributed = D + r /\ RunningEmission(q, t + 1) = 0
    BY <1>2, <1>8, <2>1, TurnTakes DEF D
  <2>3. r \in Nat /\ Scale * r <= later /\ later < Scale * r + Scale /\ Scale * r \in Nat
    BY <1>2, RunningFloor, ScaleAssumption
  <2>4. CyclesElapsed(t + 1) - st.current_cycle = n + 1
    BY <1>1, <1>8
  <2> HIDE DEF p, q, r, later
  <2>5. /\ Scale * (D + r) = Scale * D + Scale * r
        /\ Scale * (D + r + (n + 1)) = Scale * (D + n) + Scale * r + Scale
    BY <1>1, <1>2, <2>3, ScaleAssumption
  <2>6. Scale * (D + r) + 0 <= e + gain /\ e + gain <= Scale * (D + r + (n + 1)) + 0
    BY <1>3, <1>5, <1>6, <2>3, <2>5, ScaleAssumption
  <2> QED BY <2>2, <2>4, <2>6 DEF EmissionWithin, q
<1> QED BY <1>7, <1>8

\* due is what the schedule has emitted since the last accrual.
EmissionInv ==
  /\ due \in Nat
  /\ state.last_distributed = TillTimestamp => due = 0
  /\ state.last_distributed # TillTimestamp => EmissionWithin(config, state, now, due)

LEMMA EmissionInit == Init /\ HistoryInit => EmissionInv
<1> SUFFICES ASSUME Init, HistoryInit PROVE EmissionInv
  OBVIOUS
<1>1. ConfigTyped(config) /\ state \in StateRecords /\ now \in Nat
  BY InitType DEF TypeOK, ConfigTyped, ConfigRecords
<1>2. /\ now \in {0, InitTimestamp} /\ state.current_cycle = 0
      /\ state.last_distributed = InitTimestamp /\ due = 0
  BY DEF Init, HistoryInit
<1>3. InitTimestamp \in Nat /\ TillTimestamp \in Nat /\ InitTimestamp < TillTimestamp
  BY LpStakingAssumption
<1>4. state.current_cycle = CyclesElapsed(now)
  BY <1>1, <1>2, <1>3, CyclesElapsedIs
<1>5. Lesser(now, TillTimestamp) <= Greater(state.last_distributed, InitTimestamp)
  BY <1>2, <1>3 DEF Lesser, Greater
<1> QED BY <1>1, <1>2, <1>3, <1>4, <1>5, NothingEmitted DEF EmissionInv

LEMMA EmissionTick ==
  ASSUME SchedInv, EmissionInv, Tick, HistoryStep
  PROVE  EmissionInv'
<1> DEFINE gain == SecondEmission
<1>1. now' = now + 1 /\ config' = config /\ state' = state
  BY DEF Tick
<1>2. ConfigTyped(config) /\ state \in StateRecords /\ now \in Nat /\ InStep(state, now)
  BY DEF SchedInv, TypeOK, ConfigTyped, ConfigRecords
<1>3. due' = due + gain /\ due \in Nat
  <2>1. now' # now
    BY <1>1, <1>2
  <2> QED BY <2>1 DEF HistoryStep, EmissionInv
<1>4. CASE state.last_distributed = TillTimestamp
  <2>1. ~(now < TillTimestamp)
    <3>1. InitTimestamp < TillTimestamp /\ InitTimestamp \in Nat /\ TillTimestamp \in Nat
      BY LpStakingAssumption
    <3> QED BY <1>2, <1>4, <3>1 DEF InStep
  <2>2. gain = 0
    BY <2>1 DEF SecondEmission
  <2> HIDE DEF gain
  <2> QED BY <1>1, <1>3, <1>4, <2>2 DEF EmissionInv
<1>5. CASE state.last_distributed # TillTimestamp
  <2> DEFINE p == Reached(config, state, now)
  <2>1. gain = IF InitTimestamp <= now /\ now < TillTimestamp
               THEN FromRatio(p.rewards, CycleDuration) ELSE 0
    <3>1. now < TillTimestamp => Current.current_cycle_rewards = p.rewards
      <4>1. TillTimestamp \in Nat
        BY LpStakingAssumption
      <4> QED BY <1>2, <1>5, <4>1, BroughtUp DEF Current
    <3> QED BY <3>1 DEF SecondEmission
  <2>2. gain \in Nat
    <3>1. p.rewards \in Nat
      BY <1>2, ReachedTill DEF TurnRecords
    <3>2. FromRatio(p.rewards, CycleDuration) \in Nat
      BY <3>1, LpStakingAssumption, FromRatioBound
    <3> QED BY <2>1, <3>2
  <2> HIDE DEF gain
  <2>3. EmissionWithin(config, state, now, due)
    BY <1>5 DEF EmissionInv
  <2>4. EmissionWithin(config, state, now + 1, due + gain)
    BY <1>2, <1>3, <2>1, <2>2, <2>3, EmissionLater
  <2> QED BY <1>1, <1>3, <1>5, <2>2, <2>4 DEF EmissionInv
<1> QED BY <1>4, <1>5

LEMMA EmissionCall ==
  ASSUME SchedInv, TypeOK', EmissionInv, LeavesTheClock, HistoryStep
  PROVE  EmissionInv'
<1>1. ConfigTyped(config) /\ state \in StateRecords /\ now \in Nat /\ InStep(state, now)
  BY DEF SchedInv, TypeOK, ConfigTyped, ConfigRecords
<1>2. ConfigTyped(config') /\ state' \in StateRecords /\ now' \in Nat
  BY DEF TypeOK, ConfigTyped, ConfigRecords
<1>3. AtClock(Current, now)
  BY <1>1, CallAtClock DEF Current
<1>4. AtClock(state', now') /\ now' = now /\ state'.last_distributed = Lesser(now, TillTimestamp)
  BY <1>3 DEF AtClock, LeavesTheClock
<1>5. due' = 0
  <2>1. CASE state'.last_distributed # state.last_distributed
    BY <1>4, <2>1 DEF HistoryStep
  <2>2. CASE state'.last_distributed = state.last_distributed
    <3>1. due' = due /\ due \in Nat
      BY <1>4, <2>2 DEF HistoryStep, EmissionInv
    <3>2. AtClock(state, now)
      BY <1>1, <1>4, <2>2, CyclesAtTill DEF AtClock, InStep
    <3>3. due = 0
      BY <1>1, <3>1, <3>2, NothingAtClock DEF EmissionInv
    <3> QED BY <3>1, <3>3
  <2> QED BY <2>1, <2>2
<1>6. EmissionWithin(config', state', now', 0)
  BY <1>2, <1>4, NothingAtClock
<1> QED BY <1>5, <1>6 DEF EmissionInv

LEMMA EmissionNext ==
  SchedInv /\ TypeOK' /\ EmissionInv /\ [Next /\ HistoryStep]_<<vars, history>>
    => EmissionInv'
<1> SUFFICES ASSUME SchedInv, TypeOK', EmissionInv,
                    [Next /\ HistoryStep]_<<vars, history>>
             PROVE  EmissionInv'
  OBVIOUS
<1>1. CASE UNCHANGED <<now, config, state, due>>
  BY <1>1 DEF EmissionInv
<1>2. CASE UNCHANGED <<vars, history>>
  BY <1>1, <1>2 DEF vars, history
<1>3. CASE HistoryStep /\ Tick
  BY <1>3, EmissionTick
<1>4. ASSUME HistoryStep, NEW amount, FundRewards(amount) PROVE EmissionInv'
  BY <1>1, <1>4 DEF FundRewards, HistoryStep
<1>5. CASE HistoryStep /\ OwnerStep
  <2>1. Current \in StateRecords
    BY CurrentType DEF SchedInv
  <2>2. LeavesTheClock
    BY <1>5, <2>1
       DEF OwnerStep, UpdateConfig, StateAfterUpdate, LeavesTheClock, StateRecords
  <2> QED BY <1>5, <2>2, EmissionCall
<1>6. CASE HistoryStep /\ UserStep
  BY <1>6, UserUnseen, EmissionCall DEF Unseen
<1> QED BY <1>2, <1>3, <1>4, <1>5, <1>6 DEF Next

LEMMA IndexAfter ==
  ASSUME NEW cfg, ConfigTyped(cfg), NEW st \in StateRecords, NEW t \in Nat,
         st.last_distributed # TillTimestamp
  PROVE  ComputeReward(cfg, st, t).global_reward_index
           = IF st.total_bond_amount = 0 \/ InitTimestamp > t THEN st.global_reward_index
             ELSE st.global_reward_index
                    + FromRatio(Distribution(cfg, st, t).distributed, st.total_bond_amount)
BY DEF ComputeReward, StateRecords

LEMMA AccrualAgrees == SchedInv /\ EmissionInv => AccrualMatchesSchedule
<1> SUFFICES ASSUME SchedInv, EmissionInv, state.total_bond_amount > 0
             PROVE  LET shared  == (Current.global_reward_index - state.global_reward_index)
                                     * state.total_bond_amount
                        spanned == Current.current_cycle - state.current_cycle + 1
                    IN /\ shared <= due
                       /\ due < shared + spanned * Scale + state.total_bond_amount
  BY DEF AccrualMatchesSchedule
<1> DEFINE staked == state.total_bond_amount
           gain == Current.global_reward_index - state.global_reward_index
           shared == gain * staked
           n == Current.current_cycle - state.current_cycle
           goal == shared <= due /\ due < shared + (n + 1) * Scale + staked
<1>1. ConfigTyped(config) /\ state \in StateRecords /\ now \in Nat /\ InStep(state, now)
  BY DEF SchedInv, TypeOK, ConfigTyped, ConfigRecords
<1>2. /\ state.global_reward_index \in Nat /\ staked \in Nat \ {0} /\ due \in Nat
      /\ state.current_cycle \in Nat
  BY <1>1 DEF StateRecords, EmissionInv
<1>3. Current.current_cycle = CyclesElapsed(now)
  BY <1>1, CallAtClock DEF AtClock, Current
<1>4. n \in Nat /\ n = CyclesElapsed(now) - state.current_cycle
  BY <1>1, <1>2, <1>3, InStepCycle, CyclesElapsedType
<1>5. ASSUME gain = 0, due = 0 PROVE goal
  <2>1. shared = 0
    BY <1>2, <1>5
  <2>2. (n + 1) * Scale \in Nat
    BY <1>4, ScaleAssumption, ProductNat
  <2> HIDE DEF shared, n, gain, staked
  <2> QED BY <1>2, <1>5, <2>1, <2>2
<1>6. CASE state.last_distributed = TillTimestamp
  <2>1. Current = state
    BY <1>6, BroughtUpAlready DEF Current
  <2>2. gain = 0 /\ due = 0
    BY <1>2, <1>6, <2>1 DEF EmissionInv
  <2> QED BY <1>5, <2>2
<1>7. CASE state.last_distributed # TillTimestamp /\ InitTimestamp > now
  <2>1. gain = 0
    BY <1>1, <1>2, <1>7, IndexAfter DEF Current
  <2>2. state.current_cycle = CyclesElapsed(now)
    <3>1. CyclesElapsed(now) = 0
      BY <1>1, <1>7, LpStakingAssumption, CyclesElapsedIs
    <3> QED BY <1>2, <1>4, <3>1
  <2>3. Lesser(now, TillTimestamp) <= Greater(state.last_distributed, InitTimestamp)
    BY <1>1, <1>7, LpStakingAssumption DEF Lesser, Greater, StateRecords
  <2>4. due = 0
    BY <1>1, <1>2, <1>7, <2>2, <2>3, NothingEmitted DEF EmissionInv
  <2> QED BY <1>5, <2>1, <2>4
<1>8. ASSUME state.last_distributed # TillTimestamp, ~(InitTimestamp > now) PROVE goal
  <2> DEFINE p == Reached(config, state, now)
             D == p.distributed
             r == RunningRewards(p, now)
             run == RunningEmission(p, now)
             ratio == FromRatio(D + r, staked)
  <2>1. p \in TurnRecords /\ D \in Nat
    BY <1>1, ReachedTill DEF TurnRecords
  <2>2. /\ r \in Nat /\ run \in Nat
        /\ Scale * r <= run /\ run < Scale * r + Scale
    BY <1>1, <2>1, RunningFloor
  <2>3. Distribution(config, state, now).distributed = D + r
    BY <1>1, InStepCycle, LastTurn
  <2>4. Scale * D + run <= due /\ due <= Scale * (D + n) + run
    BY <1>4, <1>8 DEF EmissionInv, EmissionWithin
  <2>5. Current.global_reward_index = state.global_reward_index + ratio
    BY <1>1, <1>2, <1>8, <2>3, IndexAfter DEF Current
  <2> HIDE DEF p, D, r, run, staked
  <2>6. D + r \in Nat /\ (D + r) * Scale \in Nat
    BY <2>1, <2>2, ScaleAssumption, ProductNat
  <2>7. /\ ratio \in Nat /\ ratio * staked \in Nat
        /\ ratio * staked <= (D + r) * Scale
        /\ (D + r) * Scale < ratio * staked + staked
    <3>1. ratio = ((D + r) * Scale) \div staked
      BY DEF FromRatio
    <3> QED BY <1>2, <2>6, <3>1, DivBound, ProductNat
  <2> HIDE DEF ratio
  <2>8. shared = ratio * staked
    <3>1. gain = ratio
      BY <1>2, <2>5, <2>7
    <3> QED BY <3>1
  <2> HIDE DEF n
  <2> DEFINE a == Scale * D
             b == Scale * r
             c == n * Scale
             w == ratio * staked
  <2>9. /\ (D + r) * Scale = a + b /\ Scale * (D + n) = a + c /\ (n + 1) * Scale = c + Scale
        /\ a \in Nat /\ b \in Nat /\ c \in Nat
    BY <1>4, <2>1, <2>2, ScaleAssumption
  <2>10. /\ w \in Nat /\ w <= a + b /\ a + b < w + staked
         /\ b <= run /\ run < b + Scale /\ a + run <= due /\ due <= a + c + run
    BY <2>2, <2>4, <2>7, <2>9
  <2> HIDE DEF a, b, c, w
  <2>11. w <= due /\ due < w + (c + Scale) + staked
    BY <1>2, <2>2, <2>9, <2>10, ScaleAssumption
  <2>12. shared = w /\ (n + 1) * Scale = c + Scale
    BY <2>8, <2>9 DEF w
  <2> HIDE DEF shared
  <2> QED BY <2>11, <2>12
<1>9. goal
  BY <1>6, <1>7, <1>8
<1> QED BY <1>9

(* What the next call would add to the index is what a clock would have emitted
   since the last accrual, less than one MARS unit for each cycle it spans and one
   index unit for each staked token, for every schedule and every gap between the
   calls. *)
THEOREM AccrualIsOnSchedule == AccountSpec => []AccrualMatchesSchedule
<1>1. Init /\ HistoryInit => SchedInv /\ EmissionInv
  BY ScheduleAtFirst, EmissionInit
<1>2. SchedInv => TypeOK
  BY DEF SchedInv
<1>3. [Next /\ HistoryStep]_<<vars, history>> => [Next]_vars
  OBVIOUS
<1> QED BY <1>1, <1>2, <1>3, NextType, ScheduleStep, EmissionNext, AccrualAgrees, PTL
        DEF AccountSpec
===============================================================================
