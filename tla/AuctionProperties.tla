-------------------------- MODULE AuctionProperties --------------------------
(* What the auction promises, and what its documentation says of it. *)
EXTENDS Auction

ConfigRecords ==
  [owner : Owners, astroport_lp_pool : Pools \union {NoPool},
   mars_lp_staking_contract : Stakings \union {NoStaking},
   generator_contract : Generators, mars_rewards : Nat]

StateRecords ==
  [total_mars_deposited : Nat, total_ust_deposited : Nat,
   lp_shares_minted : Nat, lp_shares_withdrawn : Nat,
   are_staked_for_single_incentives : BOOLEAN,
   are_staked_for_dual_incentives : BOOLEAN,
   pool_init_timestamp : Nat,
   global_mars_reward_index : Nat, global_astro_reward_index : Nat]

UserRecords ==
  [mars_deposited : Nat, ust_deposited : Nat, ust_withdrawn_flag : BOOLEAN,
   lp_shares : Nat, withdrawn_lp_shares : Nat,
   total_auction_incentives : Nat, withdrawn_auction_incentives : Nat,
   withdrawn_mars_incentives : Nat, withdrawn_astro_incentives : Nat,
   mars_reward_index : Nat, astro_reward_index : Nat]

(* Every stored value has its type; no checked subtraction went below zero. *)
TypeOK ==
  /\ now \in Nat
  /\ config \in ConfigRecords
  /\ state \in StateRecords
  /\ users \in [Users -> UserRecords]
  /\ balance \in [uusd : Nat, mars : Nat, astro : Nat]
  /\ lp \in [pool : Pools \union {NoPool}, held : Nat, staked : [Contracts -> Nat]]

PoolCreated == state.lp_shares_minted > 0

Field(f) == [u \in Users |-> users[u][f]]

\* What a user is owed of each kind when nothing more accrues.
IncentivesOwed ==
  [u \in Users |-> Provisioned(users[u]).total_auction_incentives
                     - users[u].withdrawn_auction_incentives]

MarsOwed == [u \in Users |-> MarsStakingReward(Provisioned(users[u]), state)]

AstroOwed == [u \in Users |-> AstroStakingReward(Provisioned(users[u]), state)]

(* Until the pool is created the UST held covers the deposits, although taxes are
   paid on what is withdrawn, and the users' deposits add up to the totals that
   shares and refunds are taken from. *)
DepositsCovered ==
  /\ Total(Field("mars_deposited")) = state.total_mars_deposited
  /\ Total(Field("ust_deposited")) = state.total_ust_deposited
  /\ ~PoolCreated => state.total_ust_deposited <= balance.uusd

(* Once the windows are over, both tokens are there and a pool is configured, the
   owner can create the pool: nothing that was paid before is missing. *)
PoolCreatable ==
  /\ AreWindowsClosed(now) /\ ~PoolCreated
  /\ config.astroport_lp_pool # NoPool
  /\ state.total_mars_deposited > 0 /\ UstForPool > 0
  => \A minted \in MintChoices \ {0} : CanInitPool(config.owner, minted)

(* The shares of all users, those not computed yet included, are within the LP
   tokens minted, and a share computed at an early claim is what a late one gives. *)
SharesOfMinted ==
  /\ \A u \in Users :
       users[u].lp_shares # 0 => users[u].lp_shares = UserLpShare(users[u])
  /\ Total([u \in Users |-> Provisioned(users[u]).lp_shares]) <= state.lp_shares_minted

(* The MARS held covers, besides the MARS for the pool, the incentives and the
   staking rewards of all users, vested or not and claimed in any order, and the
   ASTRO held covers theirs; so nobody is paid from what another is due. *)
RewardsSolvent ==
  /\ (IF PoolCreated THEN 0 ELSE state.total_mars_deposited)
       + Total(IncentivesOwed) + Total(MarsOwed) <= balance.mars
  /\ Total(AstroOwed) <= balance.astro

(* No LP token is lost: those not withdrawn are all in one place, the one the flags
   name, and what users have withdrawn adds up to what the contract recorded. *)
LpTracked ==
  /\ Total(Field("withdrawn_lp_shares")) = state.lp_shares_withdrawn
  /\ lp.held + Total(lp.staked) = StakedShares
  /\ ~Staked => lp.held = StakedShares
  /\ state.are_staked_for_single_incentives =>
       /\ ~state.are_staked_for_dual_incentives
       /\ \E c \in Stakings : lp.staked[c] = StakedShares
  /\ state.are_staked_for_dual_incentives =>
       \E c \in Generators : lp.staked[c] = StakedShares

\* The addresses name the pool and the contract that has the LP tokens.
AddressesRight ==
  /\ config.astroport_lp_pool = lp.pool
  /\ Staked => StakedWith \in Contracts /\ lp.staked[StakedWith] = StakedShares

(* Whoever has LP tokens left can withdraw them, wherever they are staked, whatever
   the others have withdrawn and whatever the staking contract then pays and the
   pool returns, as long as the owner leaves the addresses; the chain alone refuses
   UST that is all tax. *)
SharesWithdrawable ==
  PoolCreated /\ AddressesRight =>
    \A u \in Users, accrued \in RewardChoices, liquidity \in LiquidityChoices :
      /\ users[u].mars_deposited + users[u].ust_deposited > 0
      /\ WithdrawableLpShares(Provisioned(users[u])) > 0
      /\ MayAccrue(accrued)
      /\ liquidity.uusd > 0 => DeductTax(liquidity.uusd) > 0
      => CanClaimRewards(u, TRUE, accrued, liquidity)

\* What has vested of a user's incentives: nothing before the pool is created, all
\* of them when MarsVestingDuration is over.
VestedIncentives(info) ==
  IF ~PoolCreated THEN 0
  ELSE IF Elapsed >= MarsVestingDuration THEN info.total_auction_incentives
  ELSE MulFloor(info.total_auction_incentives, FromRatio(Elapsed, MarsVestingDuration))

(* Each claim, however many went before and whatever else it claims, brings what a
   user has been paid of his incentives to what has vested by then, neither more
   nor less, and nothing but his claim changes what he has been paid. *)
PaidAsVested ==
  [][\A u \in Users :
       LET claims == \E withdraw \in BOOLEAN : Claims(u, withdraw)
           paid   == users'[u].withdrawn_auction_incentives IN
       /\ paid = VestedIncentives(users[u])' \/ ~claims
       /\ paid = users[u].withdrawn_auction_incentives \/ claims]_vars

Paid(u, f) == users'[u][f] - users[u][f]

(* A claim pays what the UserInfo query announces just before it: the callback,
   which works from balances before and after, finds the rewards the query asked
   the staking contract for.  While the LP tokens are with the LP staking contract
   the query is silent on ASTRO, so this is left out there. *)
QueryMatchesClaim ==
  [][\A u \in {v \in Users : users'[v] # users[v]}, withdraw \in BOOLEAN,
        accrued \in Accruals, liquidity \in LiquidityChoices :
       LET q == QueryUserInfo(u, accrued) IN
       ClaimRewards(u, withdraw, accrued, liquidity) =>
         /\ Paid(u, "withdrawn_auction_incentives") = q.withdrawable_auction_incentives
         /\ Paid(u, "withdrawn_mars_incentives") = q.withdrawable_mars_incentives
         /\ withdraw => Paid(u, "withdrawn_lp_shares") = q.withdrawable_lp_shares
         /\ state.are_staked_for_dual_incentives =>
              Paid(u, "withdrawn_astro_incentives") = q.withdrawable_astro_incentives
    ]_vars

-------------------------------------------------------------------------------

\* Time passes and users ask for what is theirs, with and without their LP tokens.
Fairness ==
  /\ WF_vars(Tick)
  /\ \A u \in Users, withdraw \in BOOLEAN : WF_vars(Claims(u, withdraw))

FairSpec == Spec /\ Fairness

Served(u) ==
  LET info == Provisioned(users[u]) IN
  /\ WithdrawableLpShares(info) = 0
  /\ info.withdrawn_auction_incentives = info.total_auction_incentives

(* Once there is a pool everyone who took part gets all shares and all incentives,
   however the owner moves the LP tokens between the staking contracts, unless he
   changes the addresses under them.  The pool is created early enough for the
   vesting to end before the clock stops. *)
EveryoneServed ==
  \A u \in Users :
    /\ PoolCreated
    /\ state.pool_init_timestamp + MarsVestingDuration <= MaxTime
    /\ users[u].mars_deposited + users[u].ust_deposited > 0
    ~> Served(u) \/ ~AddressesRight

-------------------------------------------------------------------------------
(* What the documentation says and the code does not do *)

(* calculate_auction_reward_for_user: "user's Auction Reward  = ( user's MARS share
   % + user's UST share % ) / 2 * Total Auction Incentives". *)
IncentivesProRata ==
  PoolCreated =>
    \A u \in Users :
      users[u].total_auction_incentives # 0 =>
        users[u].total_auction_incentives = AuctionReward(users[u])

(* README of the contract: "Users MARS-UST LP shares are also vested linearly on a
   90 day period". *)
SharesVest ==
  \A u \in Users :
    PoolCreated /\ Elapsed < LpTokensVestingDuration =>
      users[u].withdrawn_lp_shares
        <= MulFloor(users[u].lp_shares, FromRatio(Elapsed, LpTokensVestingDuration))
===============================================================================
