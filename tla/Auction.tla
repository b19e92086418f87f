-------------------------------- MODULE Auction --------------------------------
(***************************************************************************)
(* The bootstrap auction.  Users delegate MARS to it through the airdrop   *)
(* and the lockdrop and deposit UST, of which they may take part back      *)
(* until the withdrawal window closes.  The owner then puts all of it into *)
(* an Astroport pool and may stake the LP tokens with the LP staking       *)
(* contract or with the Astroport generator.  Each user is due a share of  *)
(* the LP tokens, of the incentives, which vest, and of what the staked LP *)
(* tokens earn.                                                            *)
(*                                                                         *)
(* One action is one successful transaction: the entry point, the messages *)
(* it sends and the callbacks, which the chain runs in order and commits   *)
(* or reverts together.  What makes the code, or a contract it calls,      *)
(* return an error or panic is a guard.                                    *)
(***************************************************************************)
EXTENDS Tax, Totals

CONSTANTS
  Users,                    \* accounts that delegate, deposit and claim
  Owners,                   \* accounts that may own the contract
  Pools, NoPool,            \* MARS-UST pools, and none configured
  Stakings, NoStaking,      \* LP staking contracts, and none configured
  Generators,               \* generator contracts
  InitTimestamp, MarsDepositWindow, UstDepositWindow, WithdrawalWindow,
  MarsVestingDuration, LpTokensVestingDuration,
  MintChoices,              \* LP tokens a pool may mint for the deposits
  RewardChoices,            \* MARS and ASTRO a staking contract may pay at a time
  LiquidityChoices,         \* what a pool may return for LP tokens
  IncentiveAmounts,         \* amounts of MARS sent as incentives at a time
  MaxTime, MaxMars, MaxUst, MaxIncentives, MaxRewardIndex   \* bounds

VARIABLES
  now,      \* block time
  config,   \* CONFIG: owner, addresses and incentives; the windows are constants
  state,    \* STATE
  users,    \* USERS, the default record where nothing is stored
  balance,  \* coins and tokens the chain holds for this contract
  lp        \* its LP tokens: whose they are, how many it has and has staked where

vars == <<now, config, state, users, balance, lp>>

Contracts == Stakings \union Generators

ASSUME AuctionAssumption ==
  /\ IsFiniteSet(Users) /\ IsFiniteSet(Contracts)
  /\ NoPool \notin Pools /\ NoStaking \notin Contracts
  /\ Stakings \intersect Generators = {}
  /\ InitTimestamp \in Nat /\ MarsDepositWindow \in Nat
  /\ UstDepositWindow \in Nat /\ WithdrawalWindow \in Nat
  /\ MarsDepositWindow <= UstDepositWindow
  /\ MarsVestingDuration \in Nat \ {0} /\ LpTokensVestingDuration \in Nat
  /\ MintChoices \subseteq Nat
  /\ RewardChoices \subseteq [mars : Nat, astro : Nat]
  /\ LiquidityChoices \subseteq [mars : Nat, uusd : Nat]
  /\ IncentiveAmounts \subseteq Nat
  /\ MaxTime \in Nat /\ MaxMars \in Nat /\ MaxUst \in Nat
  /\ MaxIncentives \in Nat /\ MaxRewardIndex \in Nat

NoUser ==
  [mars_deposited |-> 0, ust_deposited |-> 0, ust_withdrawn_flag |-> FALSE,
   lp_shares |-> 0, withdrawn_lp_shares |-> 0,
   total_auction_incentives |-> 0, withdrawn_auction_incentives |-> 0,
   withdrawn_mars_incentives |-> 0, withdrawn_astro_incentives |-> 0,
   mars_reward_index |-> 0, astro_reward_index |-> 0]

NoState ==
  [total_mars_deposited |-> 0, total_ust_deposited |-> 0,
   lp_shares_minted |-> 0, lp_shares_withdrawn |-> 0,
   are_staked_for_single_incentives |-> FALSE,
   are_staked_for_dual_incentives |-> FALSE,
   pool_init_timestamp |-> 0,
   global_mars_reward_index |-> 0, global_astro_reward_index |-> 0]

-------------------------------------------------------------------------------
(* Windows *)

MarsDelegationsEnd == InitTimestamp + MarsDepositWindow

UstDepositsEnd == InitTimestamp + UstDepositWindow

HalfWindowEnd == UstDepositsEnd + (WithdrawalWindow \div 2)

FinalCutoff == HalfWindowEnd + (WithdrawalWindow \div 2)

AreWindowsClosed(t) ==
  t > UstDepositsEnd + WithdrawalWindow \/ t < InitTimestamp

\* Everything while UST is deposited, half in the first half of the withdrawal
\* window, then a share that falls linearly to nothing.
AllowedWithdrawalPercent(t) ==
  IF t <= UstDepositsEnd THEN One
  ELSE IF t <= HalfWindowEnd THEN FromRatio(50, 100)
  ELSE IF t < FinalCutoff
    THEN FromRatio(50 * (FinalCutoff - t), 100 * (FinalCutoff - HalfWindowEnd))
  ELSE 0

-------------------------------------------------------------------------------
(* Shares, incentives and rewards *)

\* Mutation: a user's two parts are added up and not halved.
UserLpShareUnhalved(info) ==
  IF state.total_mars_deposited = 0 \/ state.total_ust_deposited = 0
  THEN info.lp_shares
  ELSE MulFloor(state.lp_shares_minted,
                FromRatio(info.mars_deposited, state.total_mars_deposited)
                  + FromRatio(info.ust_deposited, state.total_ust_deposited))

UserLpShare(info) ==
  IF state.total_mars_deposited = 0 \/ state.total_ust_deposited = 0
  THEN info.lp_shares
  ELSE MulFloor(state.lp_shares_minted,
                (FromRatio(info.mars_deposited, state.total_mars_deposited)
                   + FromRatio(info.ust_deposited, state.total_ust_deposited)) \div 2)

Part(deposited, total) == IF deposited = 0 THEN 0 ELSE FromRatio(deposited, total)

AuctionReward(info) ==
  MulFloor(config.mars_rewards,
           (Part(info.mars_deposited, state.total_mars_deposited)
              + Part(info.ust_deposited, state.total_ust_deposited)) \div 2)

\* A record whose shares and incentives are computed where they were zero.
Provisioned(info) ==
  [info EXCEPT
     !.lp_shares = IF @ = 0 THEN UserLpShare(info) ELSE @,
     !.total_auction_incentives = IF @ = 0 THEN AuctionReward(info) ELSE @]

\* Mutation: the shares already withdrawn are not deducted.
WithdrawableLpSharesAgain(info) == info.lp_shares

\* The vesting of LP tokens is commented out.
WithdrawableLpShares(info) == info.lp_shares - info.withdrawn_lp_shares

Elapsed == now - state.pool_init_timestamp

\* Mutation: what was paid before is not deducted.
WithdrawableIncentivesGross(info) ==
  IF state.pool_init_timestamp = 0 THEN 0
  ELSE IF Elapsed >= MarsVestingDuration THEN info.total_auction_incentives
  ELSE MulFloor(info.total_auction_incentives, FromRatio(Elapsed, MarsVestingDuration))

\* Mutation: nothing is paid once the vesting is over.
WithdrawableIncentivesWhileVesting(info) ==
  IF state.pool_init_timestamp = 0 \/ Elapsed >= MarsVestingDuration THEN 0
  ELSE MulFloor(info.total_auction_incentives, FromRatio(Elapsed, MarsVestingDuration))
         - info.withdrawn_auction_incentives

\* Incentives vest linearly from the creation of the pool.
WithdrawableIncentives(info) ==
  IF \/ info.withdrawn_auction_incentives = info.total_auction_incentives
     \/ state.pool_init_timestamp = 0
  THEN 0
  ELSE IF Elapsed >= MarsVestingDuration
    THEN info.total_auction_incentives - info.withdrawn_auction_incentives
  ELSE MulFloor(info.total_auction_incentives, FromRatio(Elapsed, MarsVestingDuration))
         - info.withdrawn_auction_incentives

StakedShares == state.lp_shares_minted - state.lp_shares_withdrawn

\* A reward index once what has accrued is spread over the LP tokens.
RewardIndex(index, accrued) ==
  IF StakedShares = 0 THEN index ELSE index + FromRatio(accrued, StakedShares)

\* STATE once the rewards that arrived are spread.
WithRewards(st, accrued) ==
  [st EXCEPT !.global_mars_reward_index = RewardIndex(@, accrued.mars),
             !.global_astro_reward_index = RewardIndex(@, accrued.astro)]

AccruedReward(info, from, to) ==
  MulFloor(WithdrawableLpShares(info), to) - MulFloor(WithdrawableLpShares(info), from)

MarsStakingReward(info, st) ==
  AccruedReward(info, info.mars_reward_index, st.global_mars_reward_index)

AstroStakingReward(info, st) ==
  AccruedReward(info, info.astro_reward_index, st.global_astro_reward_index)

-------------------------------------------------------------------------------
(* Configuration, incentives and deposits *)

Init ==
  /\ now \in {0, InitTimestamp}
  /\ \E owner \in Owners, generator \in Generators :
       config = [owner |-> owner, astroport_lp_pool |-> NoPool,
                 mars_lp_staking_contract |-> NoStaking,
                 generator_contract |-> generator, mars_rewards |-> 0]
  /\ state = NoState
  /\ users = [u \in Users |-> NoUser]
  /\ balance = [uusd |-> 0, mars |-> 0, astro |-> 0]
  /\ lp = [pool |-> NoPool, held |-> 0, staked |-> [c \in Contracts |-> 0]]

Tick ==
  /\ now < MaxTime
  /\ now' = now + 1
  /\ UNCHANGED <<config, state, users, balance, lp>>

\* What the message leaves out keeps its value; the LP token goes with the pool.
UpdateConfig(sender, owner, pool, staking, generator) ==
  /\ sender = config.owner
  /\ config' = [config EXCEPT !.owner = owner, !.astroport_lp_pool = pool,
                              !.mars_lp_staking_contract = staking,
                              !.generator_contract = generator]
  /\ UNCHANGED <<now, state, users, balance, lp>>

\* MARS sent by anyone through the token's hook.
IncreaseMarsIncentives(amount) ==
  /\ amount > 0
  /\ state.lp_shares_minted = 0
  /\ config.mars_rewards + amount <= MaxIncentives
  /\ config' = [config EXCEPT !.mars_rewards = @ + amount]
  /\ balance' = [balance EXCEPT !.mars = @ + amount]
  /\ UNCHANGED <<now, state, users, lp>>

\* Sent by the airdrop or the lockdrop through the token's hook.
DepositMarsTokens(u, amount) ==
  /\ amount > 0
  /\ InitTimestamp <= now /\ now <= MarsDelegationsEnd
  /\ state.total_mars_deposited + amount <= MaxMars
  /\ state' = [state EXCEPT !.total_mars_deposited = @ + amount]
  /\ users' = [users EXCEPT ![u].mars_deposited = @ + amount]
  /\ balance' = [balance EXCEPT !.mars = @ + amount]
  /\ UNCHANGED <<now, config, lp>>

DepositUst(u, amount) ==
  /\ InitTimestamp <= now /\ now <= UstDepositsEnd
  /\ amount > 0
  /\ balance.uusd + amount <= MaxUst
  /\ state' = [state EXCEPT !.total_ust_deposited = @ + amount]
  /\ users' = [users EXCEPT ![u].ust_deposited = @ + amount]
  /\ balance' = [balance EXCEPT !.uusd = @ + amount]
  /\ UNCHANGED <<now, config, lp>>

\* The tax comes out of the amount; the chain refuses to send nothing.
WithdrawUst(u, amount) ==
  LET info == users[u]
      sent == DeductAstroportTax(amount) IN
  /\ ~info.ust_withdrawn_flag
  /\ amount <= MulFloor(info.ust_deposited, AllowedWithdrawalPercent(now))
  /\ amount <= state.total_ust_deposited
  /\ sent > 0
  /\ sent + ChainTax(sent) <= balance.uusd
  /\ state' = [state EXCEPT !.total_ust_deposited = @ - amount]
  /\ users' = [users EXCEPT ![u] =
       [info EXCEPT !.ust_deposited = @ - amount,
                    !.ust_withdrawn_flag = @ \/ now > UstDepositsEnd]]
  /\ balance' = [balance EXCEPT !.uusd = @ - sent - ChainTax(sent)]
  /\ UNCHANGED <<now, config, lp>>

-------------------------------------------------------------------------------
(* The pool *)

\* Mutation: all UST deposited is provided, and the tax comes on top.
UstForPoolUntaxed == state.total_ust_deposited

\* What is left of the UST deposited when the tax on sending it is deducted.
UstForPool == DeductAstroportTax(state.total_ust_deposited)

\* What the creation of the pool is checked for.  The pool takes no deposit without
\* MARS or without UST.
CanInitPool(sender, minted) ==
  /\ sender = config.owner
  /\ state.lp_shares_minted = 0
  /\ AreWindowsClosed(now)
  /\ config.astroport_lp_pool # NoPool
  /\ state.total_mars_deposited > 0 /\ UstForPool > 0
  /\ state.total_mars_deposited <= balance.mars
  /\ UstForPool + ChainTax(UstForPool) <= balance.uusd
  /\ minted > 0

\* Approve, provide liquidity and the callback, which has the lockdrop and the
\* airdrop enable claims: they may refuse, and then nothing has happened.
InitPool(sender, minted) ==
  /\ CanInitPool(sender, minted)
  /\ state' = [state EXCEPT !.lp_shares_minted = minted, !.pool_init_timestamp = now]
  /\ balance' = [balance EXCEPT !.mars = @ - state.total_mars_deposited,
                                !.uusd = @ - UstForPool - ChainTax(UstForPool)]
  /\ lp' = [lp EXCEPT !.pool = config.astroport_lp_pool, !.held = @ + minted]
  /\ UNCHANGED <<now, config, users>>

Staked == state.are_staked_for_single_incentives \/ state.are_staked_for_dual_incentives

\* The contract the LP tokens are taken back from, as far as the flags and the
\* addresses tell.
StakedWith ==
  IF state.are_staked_for_single_incentives THEN config.mars_lp_staking_contract
  ELSE config.generator_contract

\* A contract pays rewards where it holds a stake, and the generator alone ASTRO.
MayPay(contract, accrued) ==
  /\ accrued.mars + accrued.astro > 0 => contract \in Contracts /\ lp.staked[contract] > 0
  /\ accrued.astro > 0 => contract \in Generators

\* Rewards come from where the LP tokens are staked.
MayAccrue(accrued) ==
  IF Staked THEN MayPay(StakedWith, accrued) ELSE accrued.mars + accrued.astro = 0

\* Mutation: the flag of the contract left behind stays up.
StateAfterStakingBoth(single) ==
  IF single THEN [state EXCEPT !.are_staked_for_single_incentives = TRUE]
  ELSE [state EXCEPT !.are_staked_for_dual_incentives = TRUE]

StateAfterStaking(single) ==
  [state EXCEPT !.are_staked_for_single_incentives = single,
                !.are_staked_for_dual_incentives = ~single]

\* Unstake from the one contract, stake with the other and, when anything was
\* unstaked, the callback that spreads the rewards this has brought.  The token
\* refuses to send nothing.
StakeLpTokens(sender, single, accrued) ==
  LET to == IF single THEN config.mars_lp_staking_contract
            ELSE config.generator_contract IN
  /\ sender = config.owner
  /\ single => ~state.are_staked_for_single_incentives
  /\ ~single => ~state.are_staked_for_dual_incentives
  /\ to \in Contracts
  /\ StakedShares > 0
  /\ config.astroport_lp_pool = lp.pool
  /\ \/ /\ Staked
        /\ StakedWith \in Contracts
        /\ StakedShares <= lp.staked[StakedWith]
        /\ MayPay(StakedWith, accrued)
        /\ state' = WithRewards(StateAfterStaking(single), accrued)
        /\ lp' = [lp EXCEPT !.staked =
             [lp.staked EXCEPT ![StakedWith] = @ - StakedShares, ![to] = @ + StakedShares]]
     \/ /\ ~Staked
        /\ StakedShares <= lp.held
        /\ accrued.mars + accrued.astro = 0
        /\ state' = StateAfterStaking(single)
        /\ lp' = [lp EXCEPT !.held = @ - StakedShares,
                            !.staked[to] = @ + StakedShares]
  /\ balance' = [balance EXCEPT !.mars = @ + accrued.mars, !.astro = @ + accrued.astro]
  /\ UNCHANGED <<now, config, users>>

-------------------------------------------------------------------------------
(* Claims *)

\* Mutation: the rewards are computed before those that just arrived are spread.
SettledBeforeRewards(info, st, shares) ==
  [info EXCEPT !.withdrawn_auction_incentives = @ + WithdrawableIncentives(info),
               !.withdrawn_mars_incentives = @ + MarsStakingReward(info, state),
               !.mars_reward_index = st.global_mars_reward_index,
               !.withdrawn_astro_incentives = @ + AstroStakingReward(info, state),
               !.astro_reward_index = st.global_astro_reward_index,
               !.withdrawn_lp_shares = @ + shares]

\* The user's record after the callback, st being STATE once rewards are spread.
Settled(info, st, shares) ==
  [info EXCEPT !.withdrawn_auction_incentives = @ + WithdrawableIncentives(info),
               !.withdrawn_mars_incentives = @ + MarsStakingReward(info, st),
               !.mars_reward_index = st.global_mars_reward_index,
               !.withdrawn_astro_incentives = @ + AstroStakingReward(info, st),
               !.astro_reward_index = st.global_astro_reward_index,
               !.withdrawn_lp_shares = @ + shares]

\* Mutation: the difference is taken to the balance before the rewards came.
MarsForwardedFromEntry(before, rewards, paid, returned) ==
  (before + rewards - paid + returned) - before

\* The MARS the second callback sends on: what the contract has then, without
\* what it had when the rewards were in and paid.
MarsForwarded(before, rewards, paid, returned) ==
  (before + rewards - paid + returned) - (before + rewards - paid)

SharesToWithdraw(info, withdraw) == IF withdraw THEN WithdrawableLpShares(info) ELSE 0

\* The contract that has the LP tokens pays rewards and gives shares back; the LP
\* staking contract refuses to give nothing back.
CanUnstake(withdraw, shares, accrued) ==
  /\ MayAccrue(accrued)
  /\ Staked /\ withdraw => /\ StakedWith \in Contracts
                           /\ shares <= lp.staked[StakedWith]
                           /\ state.are_staked_for_single_incentives => shares > 0
  /\ ~Staked => shares <= lp.held

LpAfterUnstaking(shares) ==
  IF shares = 0 THEN lp
  ELSE IF Staked THEN [lp EXCEPT !.staked[StakedWith] = @ - shares]
  ELSE [lp EXCEPT !.held = @ - shares]

MarsDue(info, spread) == WithdrawableIncentives(info) + MarsStakingReward(info, spread)

\* What the pool returns: liquidity, if there are shares to give it.
Returned(shares, liquidity) == IF shares = 0 THEN [mars |-> 0, uusd |-> 0] ELSE liquidity

\* What a claim is checked for, from the entry point to the last transfer.
CanClaimRewards(u, withdraw, accrued, liquidity) ==
  /\ AreWindowsClosed(now)
  /\ users[u].mars_deposited # 0 \/ users[u].ust_deposited # 0
  /\ \E info \in {Provisioned(users[u])}, spread \in {WithRewards(state, accrued)} :
       LET shares   == SharesToWithdraw(info, withdraw)
           mars     == MarsDue(info, spread)
           returned == Returned(shares, liquidity)
           forward  == MarsForwarded(balance.mars, accrued.mars, mars, returned.mars)
           sent     == DeductTax(returned.uusd) IN
       /\ CanUnstake(withdraw, shares, accrued)
       /\ mars <= balance.mars + accrued.mars
       /\ AstroStakingReward(info, spread) <= balance.astro + accrued.astro
       /\ shares > 0 => config.astroport_lp_pool = lp.pool
       /\ 0 <= forward /\ forward <= balance.mars + accrued.mars - mars + returned.mars
       /\ returned.uusd > 0 => sent > 0
       /\ sent + ChainTax(sent) <= balance.uusd + returned.uusd

\* ClaimRewards, which anyone may send for u, with its two callbacks: accrued is
\* what the staking contract pays, liquidity what the pool returns for the shares.
\* The entry point saves info, and the first callback STATE with the rewards spread.
ClaimRewards(u, withdraw, accrued, liquidity) ==
  \E info \in {Provisioned(users[u])}, spread \in {WithRewards(state, accrued)} :
    LET shares   == SharesToWithdraw(info, withdraw)
        mars     == MarsDue(info, spread)
        returned == Returned(shares, liquidity)
        forward  == MarsForwarded(balance.mars, accrued.mars, mars, returned.mars)
        sent     == DeductTax(returned.uusd) IN
    /\ CanClaimRewards(u, withdraw, accrued, liquidity)
    /\ users' = [users EXCEPT ![u] = Settled(info, spread, shares)]
    /\ state' = [spread EXCEPT !.lp_shares_withdrawn = @ + shares]
    /\ lp' = LpAfterUnstaking(shares)
    /\ balance' =
         [uusd  |-> balance.uusd + returned.uusd - sent - ChainTax(sent),
          mars  |-> balance.mars + accrued.mars - mars + returned.mars - forward,
          astro |-> balance.astro + accrued.astro - AstroStakingReward(info, spread)]
    /\ UNCHANGED <<now, config>>

\* The UserInfo query: what it says u can withdraw when pending has accrued.  Of the
\* generator it expects MARS by proxy, and panics when the pool has no proxy there;
\* a pool here has one.
QueryUserInfo(u, pending) ==
  LET info   == Provisioned(users[u])
      spread == WithRewards(state, pending) IN
  [withdrawable_lp_shares |-> WithdrawableLpShares(info),
   withdrawable_auction_incentives |-> WithdrawableIncentives(info),
   withdrawable_mars_incentives |-> IF Staked THEN MarsStakingReward(info, spread) ELSE 0,
   withdrawable_astro_incentives |->
     IF state.are_staked_for_dual_incentives THEN AstroStakingReward(info, spread) ELSE 0]

-------------------------------------------------------------------------------

\* What a staking contract may pay, while the indexes are below the bound.
Accruals ==
  {accrued \in RewardChoices :
     /\ accrued.mars > 0 => state.global_mars_reward_index < MaxRewardIndex
     /\ accrued.astro > 0 => state.global_astro_reward_index < MaxRewardIndex}

OwnerConfigures ==
  \E sender \in Owners, owner \in Owners,
     pool \in Pools \union {config.astroport_lp_pool},
     staking \in Stakings \union {config.mars_lp_staking_contract},
     generator \in Generators :
       UpdateConfig(sender, owner, pool, staking, generator)

OwnerStakes ==
  \E sender \in Owners, single \in BOOLEAN, accrued \in Accruals :
    StakeLpTokens(sender, single, accrued)

OwnerCreatesPool ==
  \E sender \in Owners, minted \in MintChoices : InitPool(sender, minted)

UserDeposits ==
  \E u \in Users, amount \in 1 .. MaxUst : DepositUst(u, amount) \/ WithdrawUst(u, amount)

Claims(u, withdraw) ==
  \E accrued \in Accruals, liquidity \in LiquidityChoices :
    ClaimRewards(u, withdraw, accrued, liquidity)

UserClaims == \E u \in Users, withdraw \in BOOLEAN : Claims(u, withdraw)

UserDelegates ==
  \E u \in Users, amount \in 1 .. MaxMars : DepositMarsTokens(u, amount)

Next ==
  \/ Tick
  \/ \E amount \in IncentiveAmounts : IncreaseMarsIncentives(amount)
  \/ OwnerConfigures
  \/ OwnerCreatesPool
  \/ OwnerStakes
  \/ UserDelegates
  \/ UserDeposits
  \/ UserClaims

Spec == Init /\ [][Next]_vars
===============================================================================
