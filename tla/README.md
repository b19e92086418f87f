# Verification of the Mars periphery contracts

TLA+ models of the contracts that run the Mars token launch on Terra, the TLC
runs that check them on small instances, and theorems checked by TLAPS. Paths
below are relative to the repository.

## Inventory

The system is a set of CosmWasm contracts (`contracts/`), the message types and
helpers they share (`packages/`) and the scripts that deploy them (`scripts/`).
A transaction runs one entry point, then the messages it returned, in order,
each with its own messages, and commits or reverts as a whole. Integers are
checked: an overflow or an underflow aborts the transaction.

| Component | State | Operations | Hard part |
| --- | --- | --- | --- |
| Lockdrop (`contracts/lockdrop`) | config, totals, one record per user, one per position | deposit and withdraw UST, deposit in the Red Bank, delegate MARS, enable claims, claim, unlock, nuke | rewards and shares computed lazily, at different times; three callbacks; windows; rounding |
| Auction (`contracts/auction`) | config, totals, reward indexes, one record per user | deposit MARS (from lockdrop and airdrop) and UST, withdraw UST, create the pool, stake LP tokens in either of two contracts, claim and withdraw | a chain of messages over five contracts; differences of balances taken in callbacks; cached shares |
| LP staking (`contracts/lp_staking`) | config, emission cycle, reward index, one record per staker | bond, unbond, claim, update config | lazy computation over many cycles; rounding; stakeless periods |
| Airdrop (`contracts/airdrop`) | config, unclaimed tokens, one record per user | claim with a Merkle proof, delegate to the auction, enable claims, withdraw, transfer unclaimed | claim before or after the switch; boundary of the claim period |
| Claim verification (`contracts/airdrop/src/crypto.rs`) | none | verify_claim | fold over the proof in sorted order |
| Shared packages | none | message builders, balance queries, tax deduction | rounding of the tax |
| Scripts | none | instantiate and configure in order | the order itself |

How they interact. The lockdrop and the airdrop send MARS to the auction by a
cw20 `Send` that names the user (`DepositMarsTokens`). When the auction creates
its liquidity pool, its callback tells both to enable claims. The auction
stakes its LP tokens in the LP staking contract or in the Astroport generator
and claims rewards from them. The lockdrop deposits UST in the Red Bank and
claims xMARS from the incentives contract, both in another repository.

What makes each component correct:

- Lockdrop: UST is credited once; positions and their list agree; one late
  withdrawal of at most half; MARS is conserved and every reward is funded;
  every position is backed by maUST and, where its refund is at least one unit,
  can be unlocked; nobody is paid twice; the UST on record is held, whatever the
  taxes.
- Auction: MARS and UST deposits are conserved until the pool is created, LP
  shares of all users together do not exceed the shares minted, vested
  incentives never exceed the total, reward indexes never pay more than came in.
- LP staking: what is distributed follows the emission schedule however often
  the contract is called; the stakes add up; claims are funded.
- Airdrop: a user claims once and gets claimed minus delegated once; the
  unclaimed balance is never paid out twice; the owner takes only what is left.
- Together: one MARS supply, conserved over all contracts; claims are enabled
  in both contracts exactly when the pool exists.

## Modules

| Module | Content |
| --- | --- |
| `FixedPoint` | `Decimal` as an integer number of `1/Scale`, with the two floors of `from_ratio` and of the product with an amount |
| `Totals` | the total of a function with a finite domain |
| `Lockdrop` | the lockdrop contract |
| `LockdropProperties` | what it promises, and what its documentation says |
| `MCLockdrop` | the values a `.cfg` cannot write |
| `FixedPointTheorems`, `TotalsTheorems` | lemmas on the two helper modules, on a deducted tax, and induction on the natural numbers and on the turns of a loop |
| `LockdropProofs` | type correctness and safety of the lockdrop, and what the launch needs of it |
| `LpStaking` | the LP staking contract |
| `EmissionSchedule` | abstract: the schedule of rewards as a clock would run it |
| `LpStakingProperties` | what LP staking promises, and what its comments say |
| `LpStakingAccounts` | the same contract with history variables for what is emitted, distributed and paid |
| `MCLpStaking`, `MCLpStakingAccounts` | LP staking for TLC |
| `LpStakingProofs` | type correctness and safety of LP staking, that it runs its schedule and keeps its accounts, and that stakes can be taken out |
| `Merkle` | the lists of claims: the scripts' trees and proofs, the contract's verification |
| `MerkleTheorems` | only leaves verify, and the scripts' proofs do, for lists of any size |
| `Airdrop` | the airdrop contract |
| `AirdropProperties` | what it promises, and what its comments say |
| `MCAirdrop` | the airdrop and its lists for TLC |
| `AirdropProofs` | type correctness and safety of the airdrop, and that exactly what is listed can be claimed |
| `Tax` | the stability tax the chain takes, and the two deductions the contracts make for it |
| `Auction` | the auction contract |
| `AuctionProperties` | what it promises, and what its documentation says |
| `MCAuction` | the auction for TLC |
| `AuctionProofs` | type correctness, solvency, vesting and the query of the auction, that its pool can be created and its shares withdrawn |
| `Launch` | lockdrop, airdrop and auction over one clock, with the transactions that run through several of them |
| `LaunchPromise` | abstract: MARS is committed, all parts open in one step, MARS is paid |
| `LaunchProperties` | what the contracts promise together, and the mapping to `LaunchPromise` |
| `MCLaunch` | the launch for TLC |
| `LaunchProofs` | safety of the launch, from the theorems of the three contracts |

`Launch` composes `Lockdrop` and `Auction` (both with `Tax`) and `Airdrop` (with
`Merkle`); all of them rest on `FixedPoint` and `Totals`. Every module of
properties extends the module of its contract, every `...Proofs` module extends
the properties.

### Lockdrop

Each variable is a storage item of `contracts/lockdrop/src/state.rs`: `config`,
`state`, `userInfo` with `stored` (the keys that are present, which decide whom
a nuke reaches) and `lockup`; `balance` is what the chain holds for the
contract and `now` the block time. A position is named `<<user, duration>>`,
which is what the string `user + duration` in the code distinguishes. The
unlock timestamp is a function of the duration and is not stored again.

One action is one successful transaction. The callbacks of a call are inside
its action, in the order the code queues them: `DepositUstInRedBank` contains
`UpdateStateOnRedBankDeposit`; `ClaimRewards` and `ClaimRewardsAndUnlock`
contain `UpdateStateOnClaim`, the second also `DissolvePosition`. Every
condition under which the code returns an error or panics, in a callback too,
is a guard, because it reverts the whole transaction; so are the refusals of
other contracts (a cw20 transfer or a native transfer of nothing, a balance
that is too small). `Provisioned` is the lazy computation of the maUST share
and the MARS rewards with which every delegation and claim starts.

What the other contracts do is a choice: the Red Bank mints any amount in
`MintChoices`, a claim brings any amount in `XmarsAccruals` of xMARS (only to a
contract that has held maUST), and the auction may enable claims whenever the
contract accepts it. `OrderlySpec` restricts the last: claims are enabled after
the windows, as the deployment plans it, and nobody nukes.

The contract sends UST twice, to a user who withdraws and to the Red Bank, each
time less the tax deducted from the amount its records change by. The chain takes
its own tax, rounded the other way, from the same balance, so that what is held
may exceed what is on record (`UstCovered` has `<=`). The Red Bank gets less than
`final_ust_locked` says, and may mint fewer maUST than that; shares and refunds
are fractions of the recorded amount. A withdrawal or a deposit of which the tax
leaves nothing is refused by the chain, a withdrawal of zero among them.

### LP staking

`config`, `state` and `stakerInfo` are the storage items of
`contracts/lp_staking/src/state.rs`; `lpBalance` and `marsBalance` are what the
chain holds for the contract, LP tokens by token because the owner may name
another one. A record that is not stored is the default one, which the code
reads in its place; the two are never told apart.

`ComputeReward` is the function of that name. Its loop over the cycles is the
recursive function `Turns`: `turns[n]` is what the loop has distributed, the
rewards of the cycle and the time it has reached after n turns, and
`DistributeCycle` is the body. `Current` is `STATE` brought up to the block
time, the first step of every call. `UpdateConfig` takes for each option of the
message either a new value or the old one. `Unbond` and `Claim` contain the
transfers they send, whose refusal (a transfer of nothing, a balance too small)
reverts the call.

The code keeps `last_distributed` and never runs between calls, so that
promises about time are statements about what the next call would find.
`EmissionSchedule` is such a promise: a clock that moves second by second, with
the cycle and its rewards changing when a cycle ends. `FollowsSchedule` maps it
to `now`, `config.reward_increase` and the cycle and rewards of `Current`; the
calls that compute lazily are then stutters of the schedule, a tick is one
second of it and the owner's call is its `Adjust`.

`LpStakingAccounts` adds history variables: `due`, what the schedule has
emitted since the last accrual; `distributed`, what the global index has given
to the stakes; `paid`; and `stakeChanges`, the number of calls that changed a
stake, in which alone `CreditsMatchDistribution` allows a rounding: between
them, the floors of `compute_staker_reward` telescope.

### Airdrop

`config`, `state` and `users` are the storage items of
`contracts/airdrop/src/state.rs`. `marsBalance`, `received`, `auctioned` and
`transferred` are the entries of the MARS token that concern the contract: what
it holds and where it has sent the rest. They are what the records are compared
with.

A claim before the auction's end is a record only; after it, the claim is paid
at once. `Claim` has both, as the code does in one handler. `UpdateConfig`
takes for each option of the message a new value or the old one; that its
second check on the window reads the start the same message may have changed is
kept. The auction is external: any contract the owner has configured may enable
claims once.

`Merkle` has the two sides of a proof. `Levels` and `MerkleProof` are what
`merkletreejs` computes for `scripts/helpers/airdrop_helpers`: leaves sorted by
hash (`SortedHashes`), pairs hashed in sorted order, a leaf or node without a
neighbour moved up (`Above`); the proof takes on each level the neighbour of the
node above the leaf (`Places`, `Siblings`). `VerifyClaim` is the contract's fold
over a proof (`HashesOnTheWay`). Hashes are numbers; an injective function stands
for Keccak, under which no hash of a pair is that of a leaf, so a proof is
accepted only for what was hashed, and what the model is about is that both sides
agree on the order and the shape of the tree. `Claim` is tried with every proof
of every leaf of every list, for every user and amount.

### Auction

`config`, `state` and `users` are the storage items of
`contracts/auction/src/state.rs`; a user without a record has the default one.
`balance` is what the chain holds for the contract in UST, MARS and ASTRO. `lp`
is the entry of the LP token: which pool minted it, how many the contract holds
and how many it has staked with which contract. What the flags
`are_staked_for_single_incentives` and `are_staked_for_dual_incentives` and the
configured addresses say is compared with it, since the owner may change an
address under a stake.

`InitPool` is the entry point with the approval, the deposit in the pool and the
callback `UpdateStateOnLiquidityAdditionToPool`. `StakeLpTokens` is the unstaking
from one contract, the staking with the other and the callback
`UpdateStateOnRewardClaim` that spreads the rewards this has brought.
`ClaimRewards` is the entry point with the same callback and, when LP tokens are
taken out, the callback `TransferLiquidityWithdrawn`: the
rewards received are the difference of two balances, and so is what the pool
returns, taken after the first has been paid (`MarsForwarded`). `Provisioned`
is the lazy computation of LP shares and incentives with which a claim starts;
before the pool exists it finds no LP token to share and whatever incentives
have been funded by then.

`Tax` has the tax the chain takes on a transfer and the two deductions: the one
of the package, through a rounded reciprocal, for what users get out of the
pool, and the one of the Astroport library for what goes into the pool and for
withdrawals of UST.

What is outside is a choice: the staking contracts pay any member of
`RewardChoices` (MARS from either, ASTRO from the generator only, and nothing
where nothing is staked), the pool mints any of `MintChoices` and returns any of
`LiquidityChoices`. It takes no deposit of zero, so that a pool needs MARS and
UST. `QueryUserInfo` is the query of that name, as a function of what the
staking contract says is pending. Of the generator the query expects an amount of
MARS by proxy and panics when there is none (`contract.rs:1156`); the model is
that of a pool with a proxy there.

### Launch

The state is that of the three contracts, each an instance of its own module
with its variables renamed. Three transactions run through several contracts
and are joint actions: `DelegateFromLockdrop` and `DelegateFromAirdrop` send
MARS with the hook that credits the user in the auction, and `CreatePool`
contains the messages by which the callback of the auction has lockdrop and
airdrop enable claims. A contract that refuses its part reverts the whole, so a
joint action is the conjunction of the parts. The clock is joint as well. All
other calls are steps of one contract (`LockdropStep`, `AirdropStep`,
`AuctionStep`). In the launch the airdrop knows one auction, and both contracts
let only that one enable claims.

`LaunchSchedule` is the one assumption on the deployment: the auction starts
when the windows of the lockdrop have ended, as `scripts/deploy_configs.ts` sets
it for each network (lockdrop: five and two days from the start; airdrop and
auction: seven days after it). LP staking is not in it: the auction and the
staking contract meet only in what the latter pays, which is a choice of the
auction's model.

`LaunchPromise` is what the launch promises as a whole, with three variables:
the MARS committed, the MARS paid to users and the parts that are open.
`KeepsPromise` maps them to the auction's total, to what has left each of the
three contracts to users, and to the two switches and the existence of the
pool. Everything else the contracts do is a stutter of it.

### Abstractions

Amounts are small numbers. `Scale` is 12 instead of 10^18, so that the floors
fall in different places; the theorems hold for every positive scale. Payouts
to users are not tracked once they have left. MARS or UST that somebody transfers
to a contract without a message is not modelled: it is in both of the balances
of which the handlers take the difference. `nuke` takes `NukeBatchSize`
users per call where the code takes ten.

## Runs

The lockdrop runs have two users (one in `lockdrop_early_unlock`), durations 1 and
2 with boosts 1 and 2 where two durations matter, windows of 2 and 1 time units,
and a clock that goes past the last unlock. Two users are what an order of claims,
a batch that holds one and not the other, and one user taking another's share need;
two durations are what a user's total over several positions needs. The tax is a
half, at most one unit, so that the cap is reached, the deductions round, and of
one unit nothing is left. The amounts are the smallest that make shares fractional.
Two to four units of UST may be locked, and two, four or five maUST minted: fewer than
on record, which leaves some positions without a refund, or as many and more.
`lockdrop_windows` has windows of 6 and 5 instead, so that the withdrawal window has
a flat part and several times in its falling one, of which the first lets an amount
be withdrawn that the tax leaves something of; two owners, and addresses that are
configured one by one, in any order.

| Run | Checks | Shows |
| --- | --- | --- |
| `lockdrop_orderly` | `TypeOK`, `UstConserved`, `MarsConserved`, `RewardsFunded`, `RewardBasisFrozen`, `EveryPositionUnlocks` | in an orderly launch UST and MARS are conserved to the unit, every reward is funded although each is computed at a different time, and without xMARS every position whose refund is at least one unit is dissolved in the end |
| `lockdrop_windows` | `LateWithdrawalOnce` | around the boundaries of wide windows, with claims enabled early or late, the one late withdrawal of at most half survives every order of deposits, withdrawals, delegations, claims, unlocks and nukes |
| `lockdrop_nuke` | `PositionsMatchLockups`, `UstCovered`, `PositionsBacked`, `ShareCoversPositions`, `XmarsSolvent`, `PaidRewardsFinal` | every order of deposits, taxed withdrawals, claims, delegations, unlocks and nukes, before and after the Red Bank deposit: records agree, the UST on record is held, positions stay backed |
| `lockdrop_stuck` | `EveryPositionUnlocks` | with xMARS it may never be (finding 1) |
| `lockdrop_early_unlock` | `UnlockedOnlyAfterExpiry` | finding 2 |
| `lp_schedule` | `TypeOK`, `FollowsSchedule` | the lazily computed cycle and rewards are those of the schedule, with the owner changing rewards and growth at any time |
| `lp_accounts` | `AccrualMatchesSchedule`, `CreditsMatchDistribution`, `StakesAddUp`, `RewardsAlwaysCredited`, `StakeAlwaysWithdrawable` | what is distributed is what is emitted, and what is credited is what is distributed, up to bounded roundings; stakes, total and LP tokens agree though the owner switches the token; crediting never fails; a stake can be taken out at any time, with or without MARS |
| `airdrop_claims` | `MarsConserved`, `PaidOnce`, `DelegationsInOneAuction`, `ClaimsAreListed`, `ListedCanClaim`, `EveryClaimPaid` | claims with proofs before and after the auction, delegations, withdrawals, changes of lists, auction and window, and the owner's transfers, in any order, pay everyone once what a list grants and leave nobody unpaid |
| `auction_deposits` | `DepositsCovered`, `PoolCreatable`, `SharesOfMinted`, `PaidAsVested`, `LpTracked`, `SharesWithdrawable` | deposits and taxed withdrawals around the windows, incentives, the pool, claims before and after it and moves of the LP tokens, in any order, leave the deposits covered, the pool creatable, shares within what was minted and withdrawable, every LP token accounted for, and with each claim exactly the incentives paid that have vested |
| `auction_rewards` | `RewardsSolvent`, `QueryMatchesClaim`, `EveryoneServed` | with rewards from both staking contracts what is held covers what all are owed, a claim pays what the query announced, and everyone is served |
| `auction_incentives` | `IncentivesProRata` | finding 3 |
| `launch` | `DelegationsMatch`, `RecordedDelegationsMatch`, `ClaimsEnabledTogether`, `PoolCreatable`, `KeepsPromise` | lockdrop, airdrop and auction together: no delegation is lost or counted twice, neither contract refuses its part in the pool creation, claims are enabled in both at that moment, and the whole implements its promise |

The `TypeOK` of the airdrop and of the auction is in no run because it is proved.

The LP staking runs have cycles of 2 and a schedule from 1 to 6 in `lp_accounts`
(two whole cycles and one cut short) and from 1 to 5 in `lp_schedule` (two whole
cycles and a last one without length), a clock that starts before it and reaches or
passes its end, and growth of one half, so that rewards and rates are fractional.
The schedule does not depend on how much is staked, so one user and one token are enough for `lp_schedule`, which has
several rewards and growths instead; the others have two users, who stake and
leave at different times.

The airdrop run has two users and a third account that is in the lists only;
two lists, of three leaves (a leaf without a neighbour, proofs of one and of
two hashes) and of two, which grant one user different amounts; two auctions,
so that one can be replaced; and windows between the times 0, 2 and 3 with a
clock to 4, so that calls fall before, at and after both ends. The MARS sent
covers the claims of both users or only of one.

The auction runs have two users, one LP staking contract, and generators of
which `auction_deposits` has two, so that the owner can change the address under
a stake. The tax is a quarter with a cap of two, which is reached; the amounts
are those for which the deductions round. `auction_deposits` has a withdrawal
window of two, so that each of its halves is a time of its own, vesting of two,
so that there is a time at which half has vested, and no rewards;
`auction_rewards` has windows and vesting of one instant each, and rewards of
MARS from either contract and of both tokens from the generator, until the indexes
pass `MaxRewardIndex`: while nothing has been withdrawn MARS accrues twice and
ASTRO once. Five LP tokens are minted, which two users cannot halve. As
`auction_deposits` has no rewards, that rewards never block a withdrawal or move
an LP token rests on the theorems. `auction_incentives` needs one user only.

The launch run has two users with one position and one list of claims, one unit
of each token per delegation, windows of the lockdrop from 0 to 3 and of the
auction at 3, and a clock to 5. What a single contract does with larger numbers
is the matter of its own runs; here it is the order of calls to all three that
counts. The UST goes to the Red Bank in it, so that a nuke after a delegation
refunds a user and leaves room for deposits: only the deposit window keeps him
from coming back. No LP token is staked, because that touches nothing the contracts
share; the tax is zero for the same reason. The airdrop holds one unit of MARS at
most (`MaxAirdropMars`), all that a user of the run can be due there.

`CHECK_DEADLOCK FALSE` is set in the runs of the lockdrop, the auction and the
launch because the system really stops: after the last unlock or withdrawal, with
the clock at its bound, no call that changes anything succeeds. In
LP staking and in the airdrop the owner can always call, and deadlock is
checked.

Bounds: `MaxTime` on the clock, `MaxUst` on the UST held, which the roundings of
the tax let grow beyond what is on record, `MaxMars` on the incentives,
`MaxXmars` on the xMARS that ever accrues. They appear only in guards (`Tick`,
`DepositUst`, `IncreaseMarsIncentives`, `ClaimAllowed`). In LP staking
`MaxStake` bounds what is staked in all, `MaxMars` the MARS held, and
`MaxStakeChanges` (in `LpStakingAccounts` only) the calls that change a stake.
In the auction `MaxMars`, `MaxUst` and `MaxIncentives` bound what is sent to it
and `MaxRewardIndex` the indexes up to which staking contracts still pay.

Fairness (`LockdropProperties!Fairness`) is weak fairness of the clock, of the
owner configuring the contract and depositing in the Red Bank, of the auction
enabling claims after the windows, and of each unlock. The contract schedules
nothing itself: these are the people the protocol relies on, each of whom can
repeat a call until it succeeds. Deposits, withdrawals, delegations and other
claims are not fair. In the airdrop (`AirdropProperties!Fairness`) the
configured auction enables claims, which its pool creation does, and each user
withdraws; nothing else is fair. Once claims are enabled a withdrawal stays
possible until it is made, so that weak fairness is enough. In the auction
(`AuctionProperties!Fairness`) time passes and each user claims, with and without
his LP tokens; the owner, who creates the pool and moves the LP tokens, is not
fair. `EveryoneServed` therefore starts from a pool that exists.

## Findings

1. A user whose positions are all dissolved keeps a nonzero UST total, because
   the decrement is commented out, and a maUST share of zero, which the next
   claim computes anew. The share earns xMARS that is owed to others, whose
   claims and unlocks then fail.
2. The test of the unlock timestamp is commented out.
3. `handle_claim_rewards_and_unlock` of the auction computes and saves a user's
   incentives whenever they are zero, also before the pool exists, while
   incentives can still be sent. A user who claims in between is left with a
   share of what had arrived by then; the rest of his share stays in the
   contract for good.

Divergences seen while modelling for which no run is kept:

- Lockdrop: `handle_enable_claims` (`contract.rs:466`) tests that the windows are
  not open, which is also true before they open; in the launch the schedule
  excludes it (`ClaimsEnabledTogether`). `UserInfo.total_ust_locked` still counts
  dissolved positions (the cause of 1). A nuke before the Red Bank deposit leaves
  `State.total_ust_locked` as it is, and drops the record of a user whose MARS is
  in the auction; he stays credited there (`DelegationsMatch` has `<=` for that
  reason). A position so small that its refund rounds to nothing can never be
  dissolved by its user, because a transfer of nothing is refused
  (`contract.rs:1062`). Of one unit of UST that is so even when as many maUST come
  back as UST is on record, unless that number divides 10^18. A withdrawal of so little that the tax leaves
  nothing is refused as well.
- Airdrop: `handle_transfer_unclaimed_tokens` (`contract.rs:466`) refuses while
  `to_timestamp` is ahead of the block time and `handle_claim` once it is behind,
  so that in the last second both are possible.
- Auction: the vesting of LP tokens is commented out (`contract.rs:1247`), where
  the README of the contract has them vest over 90 days (`SharesVest` says so).
  While the LP tokens are with the LP staking contract the UserInfo query reports
  no ASTRO, also none that is due from before, which a claim pays. A withdrawal
  of LP tokens always claims the rewards of the stake (`contract.rs:761`), so that
  an LP staking contract short of MARS blocks it until it is funded. The owner can
  change an address under a stake, which blocks every claim until it is changed
  back. A withdrawal of so little UST that the tax leaves nothing is refused by
  the chain. A pool never comes to be if no MARS or no UST was deposited, and
  what was deposited of the other stays in the contract.
- LP staking: `unbond` pays the pending rewards only when asked to, where its
  comment says that they are always transferred.
- Scripts: `get_MerkleProof` takes a proof of one hash for a missing leaf, and so
  withholds one that `verify_claim` would accept in a list of 2^k + 1 leaves.

## Proofs

A property that says what somebody can do is about a guard. `CanUnbond`,
`CanClaim`, `CanInitPool`, `CanClaimRewards` and the two `CanEnableClaims` are all
the conditions of their actions; what the actions add assigns each variable once,
so that an action is possible exactly when its guard holds. That makes
`StakeAlwaysWithdrawable`, `ListedCanClaim`, `PoolCreatable` and
`SharesWithdrawable` state predicates, which can be proved, and lets them speak of
every amount, every payment of a staking contract and every return of the pool.

The theorems about the lockdrop hold for every finite set of users and
durations, all boosts, windows, amounts and scales that satisfy
`ScaleAssumption` and `LockdropAssumption`; the latter is what the instantiation checks (windows) and
what the types give (amounts are natural numbers), and that no lockup duration
is zero; `TaxAssumption` says that the tax rate and its cap are natural numbers.

- `TypeCorrect`: `TypeOK` is inductive by itself. The work
  is in the subtractions: a withdrawal is at most the allowed share, which is at
  most one (`AllowedPercentBound`, `WholeBound`).
- `PositionsMatchLockupsHolds`, `UstCoveredHolds`, `PositionsBackedHolds` share the invariant `SafetyInv`. None of the three is
  inductive alone. A nuke drops users whose total is zero, and keeps positions
  and lists in agreement only because a user's total covers his positions
  (`UserTotalCovers`). The maUST backing is established at the Red Bank deposit
  from the total of all positions being at most the amount the refunds are
  fractions of (`UstWithinPrincipal`), whatever was minted for it, and
  preserved because the deposit happens once and after the windows
  (`RedBankOnce`), and because no user lists another user's position
  (`OwnPositions`), so that a nuke refunds each position once. That the UST on
  record is held needs the tax: what is sent and what the chain takes on it are
  together at most the amount it was deducted from (`PackageTaxWithin`, from
  `ReciprocalBound` and `TaxWithin` in `FixedPointTheorems`), for every rate and cap.
- `LateWithdrawalsHold` follows from the type invariant: from the end of the deposit
  window on, the percentage that may be withdrawn is at most a half, for all times
  and window lengths and whatever the decimal division drops.
- `RewardBasisIsFrozen`: at the last second of the withdrawal window that percentage
  is zero, so a withdrawal takes nothing, and incentives are refused.
- `PaidRewardsAreFinal`: a reward is settled only when it is not zero and claims are
  enabled (`RewardsInv`); the first keeps it from being recomputed, the second from
  being delegated.
- `RewardsAreFunded` assumes that claims are not enabled before the windows
  close, which the lockdrop does not enforce (see the findings). An orderly launch
  guarantees it (`OrderlyRewardsAreFunded`), and so does the launch of the three
  contracts (`LaunchFundsRewards` in `LaunchProofs`): the auction enables claims, and
  starts no earlier. The invariant `FundInv` says that the weights of the open positions are within the
  recorded total, that nothing is paid before the end, and that no one delegates more
  than his reward. At the tick that ends the windows each reward is a floored share of the
  incentives, and their sum is within them; after it, each payment or delegation takes
  from the MARS held what it takes from the MARS owed.
- `MarsIsConserved` and `UstIsConserved` are about launches without a nuke, which
  forgets users together with what they had. For the second the totals move by the
  same amount in each action (`UstMoves`), and equality needs no rounding argument.
- `SharesCover`: the refunds of a user's positions are rounded one by one, his share
  once, so their sum is at most the share (`SharesWithin`). From then on every
  unlock takes the same refund from both. `ShareInv` adds to the property that no share is
  computed before the Red Bank deposit.
- `XmarsIsSolvent` uses `XmarsInv`. What a user is owed is the difference of two
  floors, which rises by jumps that no claim pays for. The invariant
  counts instead `EarnedUnits`, his share times the index now, less `Scale` times the floor of
  the earlier reading: the total of these is at most the xMARS held times `Scale`.
  A claim raises the index by no more than the xMARS it brings, divided by the maUST
  left (`IndexGain`), and the user who claims gives up what he is paid.

- `StakingTypeCorrect` (`LpStakingProofs`): for every schedule whose start is
  before its end. The loop over the cycles needs an induction over its turns
  (`ComputeRewardType`), of which `TurnsDefined` says that the recursive
  function exists. The induction theorems of the TLAPS library take the
  property as an operator parameter, which the provers cannot instantiate;
  `TotalsTheorems` proves induction for a set instead (`SetInduction`,
  from the well-foundedness of `<`), and from it that iterating a function on
  states is defined (`IterationExists`).
- `StakesAddUpHolds`, `RewardsAlwaysCreditedHolds` (`LpStakingProofs`) share
  `StakingInv`, which adds to the sums that the index of whoever has a stake is
  not ahead of the contract's (`IndexesBehind`). It is what makes the
  subtraction in `compute_staker_reward` defined although a fresh record starts
  with an index of one: with no stake both products are zero.
- `StakeAlwaysWithdrawableHolds` follows from the same invariant: the total covers
  each stake, so neither the subtraction nor the transfer can fail, for any part
  of the stake and any MARS balance, zero included.
- `CreditsAreExact` (`LpStakingProofs`) counts in units of `1/Scale` what each user
  was given and has earned since, with only the earlier reading of the index rounded
  (`Exact`). A call that keeps the stake moves the one into the other exactly; where
  the stake changes, the remainders of the old and the new one differ by less than
  a unit (`ExactCredited`). The property leaves out the remainder of each staker's
  last reading; `AccountsInv` keeps one unit in hand for it (`Slack`), which the call
  that gave him a stake has paid for.
- `ScheduleFollowed` (`LpStakingProofs`): the contract implements `EmissionSchedule`.
  `InStep` says that the state is at the cycle of its last accrual, so that the turns
  of the loop reach the running cycle (`LastTurn`). A turn over a cycle that has ended
  does not depend on when it is made (`TurnWhenever`, `SharedTurns`), so that a second
  later the loop has made the same turns, and one more where a cycle has ended
  (`TurnLater`): what a call would find changes as the schedule does (`FoundLater`). A
  second call at one time finds what the first left (`SameTimeAgain`).
- `AccrualIsOnSchedule` (`LpStakingProofs`) follows `due` through the same turns:
  it is what the turns distributed and what the running cycle has emitted
  (`EmissionWithin`), but for less than one MARS unit per turn, because each
  turn rounds once (`RunningFloor`, `TurnTakes`).

- `AirdropTypeCorrect`, `MarsConservedHolds`, `PaidOnceHolds` and
  `DelegationsInOneAuctionHolds` (`AirdropProofs`), for all users, auctions,
  lists, windows and amounts, whatever claims the proofs let through. The last three share
  `AirdropInv`. It adds that a withdrawal needs a claim and enabled claims
  (`WithdrawalsInOrder`), without which a later claim or delegation would count
  against MARS already paid, and that nothing is delegated while there is no
  auction (`DelegationsNeedAuction`), without which the first auction
  configured could find MARS delegated elsewhere. Each action moves the totals
  by what it changes in one record (`UserShift`) or in none (`RecordsKept`).
- `OnlyLeavesVerify`, `MerkleProofsVerify` (`MerkleTheorems`), for every finite
  list that is not empty. The first goes down the proof: a hash that is in the
  tree and is that of a pair is so of two nodes of the tree (`PartInTree`, from
  `PairHashInjective`), so that the hash the fold started with is in the tree, and
  since it is even it is that of a leaf. It holds for every sequence of hashes a
  caller could send, not only for proofs some tree has. The second goes up: at each
  level the fold has the node above the leaf (`NodeAbove`), whether there was a
  neighbour to combine it with or not, and the level at which only the root is left
  is reached because a level of more than one node is followed by a shorter one
  (`LevelsOfList`). That the leaves can be sorted at all is `OrderingExists`.
- `ClaimsAreListedHolds` and `ListedCanClaimHolds` (`AirdropProofs`) carry the two
  over to the contract. They assume what the owner's lists are: finite, not empty,
  with a hash for each leaf, and a hash for each pair of a user and an amount
  that is tried (`AirdropAssumption`). For the second, MARS nobody has claimed is in
  the contract, by `MarsConserved`.

- `AuctionTypeCorrect`, `DepositsAreCovered`, `SharesWithinMinted`,
  `LpTokensTracked`, `AuctionSolvent` (`AuctionProofs`), for all users, windows,
  taxes, amounts, scales and rewards, share `AuctionInv`. None of the five is
  inductive. What it adds, and why:
  - `WindowsKept` orders the phases. Totals stand still once the windows are over,
    which is why a share computed early is right later; no share is computed
    before there are LP tokens; an incentive computed early is at most what the
    final incentives give.
  - `RecordsBounded` says of each user what the sums need: the shares cached are
    the shares due, nothing is withdrawn beyond them, and no index is ahead of the
    contract's, so that the subtraction of two floors is defined.
  - `MarsBacked` and `AstroBacked` are solvency without rounding. What is owed at a
    reward index is floored twice, at the last claim and now; `Exact` is what a
    user is owed times `Scale` plus the remainder of the first floor. The total of
    these grows by no more than what arrives when an index rises
    (the rewards are floored over the LP tokens left), and falls by at least what
    is paid when a user claims. `RewardsSolvent` itself is not kept by a step that
    raises an index: the floors in it may all jump at once, which only the
    remainders pay for.
  - `DepositsCovered` needs the tax: what is sent and its tax are together at most
    the amount recorded, for every rate and cap (`AstroportTaxWithin`, from the same
    `TaxWithin`). It is about UST; that the MARS deposited is held too is part of
    `RewardsSolvent`.
- `PoolCreatableHolds` and `SharesWithdrawableHolds` follow from `AuctionInv`. For
  the first the MARS recorded must be held besides the incentives and rewards of all
  users, which is solvency again (`OwedSolvent`), and what goes into the pool and its
  tax must be within the UST recorded. For the second nothing a claim sends may be
  more than is there at that moment: the incentives vested and the rewards at the
  index the callback has just raised are covered by what was held and what has
  arrived (`DueCovered`: the parts owed to one user of `MarsBacked`, to which the
  rewards are added before they are spread), and the LP tokens left to him are within
  those staked where the flags and addresses say (`SharesAtHand`, from `LpTracked`
  and the sum of all shares).
- `IncentivesPaidAsVested` says of every step that a claim brings what a user has been
  paid to what has vested by then, and that no other step changes it. It uses
  `VestedInv`, `AuctionInv` with `PaidWithinVested` (nobody has been paid more than has
  vested): what had vested of an amount has vested later (`VestedGrows`), and the
  amount of a user is fixed before any of it is paid. With the bound the
  subtraction in a claim is defined, and the claim pays exactly the difference
  (`ClaimPaysVested`).
- `QueriesAreHonest` uses `QueryInv`, `AuctionInv` with `NoRewardsYet`: until the LP
  tokens are first staked the reward indexes are zero, so that the query, which
  reports no staking rewards then, agrees with the claim. Afterwards both bring the
  index up to date over the same LP tokens, the query from what the staking contract
  reports as pending, the callback from what has arrived (`QueryTold`).
- `LaunchRunsLockdrop`, `LaunchRunsAirdrop`, `LaunchRunsAuction` (`LaunchProofs`):
  in the launch each contract goes through a behaviour of its own specification,
  so that its safety theorems hold there. `Launch` has the proof module of each
  contract as an instance, whose theorems the proofs about the launch cite.
- `ClaimsAreEnabledTogether` is inductive with what the schedule gives
  (`LaunchInv`): MARS is in the auction only once it has started, which is after
  the windows of the lockdrop.
- `LaunchCreatesPool` takes what the auction needs for its pool from
  `PoolCreatableHolds`, and what the two others need from `LaunchInv`: nobody has
  enabled claims before the pool exists, so neither refuses for that, and the
  windows of the lockdrop are over when those of the auction are.
- `DelegationsAgree` (`DelegationsInv`) follows one amount through both contracts
  of a joint step. `RecordsAgree` is the same to the unit for users on record. It
  needs that a record is only made while deposits are open (`KeepsRecord`), when
  nothing can have been delegated, and that a user not on record has no UST, so
  that no other call makes one (`StoredOnly`, in `RecordsInv` of the lockdrop).
- `PromiseKept`: the launch implements `LaunchPromise`. Each contract's own steps
  never reduce the MARS it has paid and pay none before claims are enabled
  (`PaymentsNext` in each of the three proof modules); with
  `ClaimsAreEnabledTogether` each step of the launch is then a step of the promise
  or a stutter (`PromiseStep`).

The argument about rounding is `ShareBound` (a floored share times the whole is
at most the part times the total) together with `TotalScale` (what holds for
each index up to a factor holds for the totals). Totals are counted as sets of
units, so their lemmas come from facts about cardinality: changing one index
(`TotalUpdate`), comparing (`TotalMono`), setting a set of indices to zero
(`TotalSplit`), summing by user or all at once (`TotalNested`).

Only model-checked: liveness under fairness (`EveryPositionUnlocks`,
`EveryClaimPaid`, `EveryoneServed`), which the prover cannot reach. What their
steps need is proved where it is a matter of state: for `EveryoneServed` that
shares can be withdrawn and what is due is held (`SharesWithdrawableHolds`,
`AuctionSolvent`), for `EveryClaimPaid` that what is owed is held
(`MarsConservedHolds`), for `EveryPositionUnlocks` that rewards are funded and
positions backed (`OrderlyRewardsAreFunded`, `PositionsBackedHolds`). All other
properties of the passing runs are theorems.

## Not modelled

- Queries, but for the auction's UserInfo: they read, and return what is stored
  or what the handlers' computations define.
- `migrate`: it returns an error or does nothing.
- Message encoding, attributes and events.
- The pool's prices and slippage: the auction accepts whatever it mints.
- Mars core (Red Bank, incentives, address provider), Astroport and the tokens
  beyond the choices and refusals named above: their code is elsewhere.
- The scripts, but for the trees and proofs of the airdrop and the schedule.

## What could follow

The auction composed with LP staking, in place of the choice of rewards it makes now.
