--------------------------------- MODULE Launch ---------------------------------
(***************************************************************************)
(* The launch: lockdrop, airdrop and auction together, over one clock.     *)
(* Each contract takes its own steps, and three transactions run through   *)
(* two or three of them: MARS delegated from the lockdrop or the airdrop   *)
(* goes to the auction, and the auction has both enable claims when it     *)
(* creates the pool.  A contract that refuses its part reverts the whole,  *)
(* so a joint action is the conjunction of the parts.                      *)
(***************************************************************************)
EXTENDS Integers, FiniteSets, Sequences

CONSTANTS
  Users, Owners, Scale, TaxRate, TaxCap, MaxTime,
  \* of the lockdrop
  Durations, Boost, LockdropInitTimestamp, DepositWindow, LockdropWithdrawalWindow,
  SecondsPerDurationUnit, NukeBatchSize, ConfigUpdates, MaUstMintChoices,
  XmarsAccruals, MaxXmars,
  \* of the airdrop
  LeafHash, TheAuction, NoAuction, Lists, ListChoices, Timestamps,
  ClaimAmounts,
  \* of the auction
  Pools, NoPool, Stakings, NoStaking, Generators,
  AuctionInitTimestamp, MarsDepositWindow, UstDepositWindow, WithdrawalWindow,
  MarsVestingDuration, LpTokensVestingDuration, LpMintChoices, RewardChoices,
  LiquidityChoices, IncentiveAmounts, MaxIncentives, MaxRewardIndex,
  \* amounts of UST and MARS in each of them, and bounds
  MarsAmounts, MaxUst, MaxMars, MaxAirdropMars

VARIABLES
  now,
  lockdropConfig, lockdropState, userInfo, stored, lockup, lockdropBalance,
  airdropConfig, airdropState, airdropUsers, airdropMars, received, auctioned,
  transferred,
  auctionConfig, auctionState, auctionUsers, auctionBalance, lp

lockdropVars == <<lockdropConfig, lockdropState, userInfo, stored, lockup, lockdropBalance>>

airdropVars ==
  <<airdropConfig, airdropState, airdropUsers, airdropMars, received, auctioned,
    transferred>>

auctionVars == <<auctionConfig, auctionState, auctionUsers, auctionBalance, lp>>

vars == <<now, lockdropVars, airdropVars, auctionVars>>

\* The one auction the airdrop may be configured with.
Auctions == {TheAuction}

\* Each contract comes with its theorems, which those about the launch cite.
LD == INSTANCE LockdropProofs WITH
  InitTimestamp <- LockdropInitTimestamp,
  WithdrawalWindow <- LockdropWithdrawalWindow,
  MintChoices <- MaUstMintChoices,
  config <- lockdropConfig, state <- lockdropState, balance <- lockdropBalance

AD == INSTANCE AirdropProofs WITH
  config <- airdropConfig, state <- airdropState, users <- airdropUsers,
  marsBalance <- airdropMars, MaxMars <- MaxAirdropMars

AU == INSTANCE AuctionProofs WITH
  InitTimestamp <- AuctionInitTimestamp,
  MintChoices <- LpMintChoices,
  config <- auctionConfig, state <- auctionState, users <- auctionUsers,
  balance <- auctionBalance

\* What each contract assumes of its constants, in the names they have here.
ASSUME LaunchAssumption ==
  /\ Scale \in Nat \ {0} /\ TaxRate \in Nat /\ TaxCap \in Nat
  /\ Users \subseteq Nat /\ IsFiniteSet(Users)
  /\ MaxTime \in Nat /\ MaxUst \in Nat
  /\ MaxMars \in Nat /\ MaxAirdropMars \in Nat
  /\ MarsAmounts \subseteq Nat

ASSUME LaunchLockdropAssumption ==
  /\ Durations \subseteq Nat \ {0} /\ IsFiniteSet(Durations)
  /\ Boost \in [Durations -> Nat]
  /\ LockdropInitTimestamp \in Nat /\ SecondsPerDurationUnit \in Nat \ {0}
  /\ LockdropWithdrawalWindow \in Nat \ {0} /\ DepositWindow \in Nat
  /\ LockdropWithdrawalWindow < DepositWindow
  /\ NukeBatchSize \in Nat \ {0}
  /\ ConfigUpdates \subseteq SUBSET LD!Addresses
  /\ MaUstMintChoices \subseteq Nat /\ XmarsAccruals \subseteq Nat
  /\ MaxXmars \in Nat

ASSUME LaunchAirdropAssumption ==
  /\ \A leaf \in DOMAIN LeafHash :
       LeafHash[leaf] \in Nat /\ LeafHash[leaf] % 2 = 0
  /\ \A leaf1, leaf2 \in DOMAIN LeafHash :
       LeafHash[leaf1] = LeafHash[leaf2] => leaf1 = leaf2
  /\ \A list \in Lists :
       IsFiniteSet(list) /\ list # {} /\ list \subseteq DOMAIN LeafHash
  /\ ListChoices \subseteq Seq(Lists) /\ Users \X ClaimAmounts \subseteq DOMAIN LeafHash
  /\ NoAuction # TheAuction
  /\ Timestamps \subseteq Nat /\ ClaimAmounts \subseteq Nat

ASSUME LaunchAuctionAssumption ==
  /\ IsFiniteSet(Stakings \union Generators)
  /\ NoPool \notin Pools /\ NoStaking \notin Stakings \union Generators
  /\ Stakings \intersect Generators = {}
  /\ AuctionInitTimestamp \in Nat /\ MarsDepositWindow \in Nat
  /\ UstDepositWindow \in Nat /\ WithdrawalWindow \in Nat
  /\ MarsDepositWindow <= UstDepositWindow
  /\ MarsVestingDuration \in Nat \ {0} /\ LpTokensVestingDuration \in Nat
  /\ LpMintChoices \subseteq Nat
  /\ RewardChoices \subseteq [mars : Nat, astro : Nat]
  /\ LiquidityChoices \subseteq [mars : Nat, uusd : Nat]
  /\ IncentiveAmounts \subseteq Nat
  /\ MaxIncentives \in Nat /\ MaxRewardIndex \in Nat

\* The deployment starts the auction when the windows of the lockdrop end.
ASSUME LaunchSchedule == LD!WithdrawEnd <= AuctionInitTimestamp

-------------------------------------------------------------------------------

Init == LD!Init /\ AD!Init /\ AU!Init

Tick == LD!Tick /\ AD!Tick /\ AU!Tick

\* The lockdrop sends the user's MARS with the hook that credits him.
DelegateFromLockdrop(u, amount) ==
  /\ LD!DepositMarsToAuction(u, amount)
  /\ AU!DepositMarsTokens(u, amount)
  /\ UNCHANGED airdropVars

\* Mutation: the airdrop records the delegation and sends nothing.
DelegateFromAirdropUnsent(u, amount) ==
  /\ AD!DelegateMarsToBootstrapAuction(u, amount)
  /\ UNCHANGED <<lockdropVars, auctionVars>>

\* So does the airdrop.
DelegateFromAirdrop(u, amount) ==
  /\ AD!DelegateMarsToBootstrapAuction(u, amount)
  /\ AU!DepositMarsTokens(u, amount)
  /\ UNCHANGED lockdropVars

\* Mutation: the callback leaves the message to the airdrop out.
CreatePoolForgettingAirdrop(sender, minted) ==
  /\ AU!InitPool(sender, minted)
  /\ LD!EnableClaims
  /\ UNCHANGED airdropVars

\* Mutation: it leaves the message to the lockdrop out.
CreatePoolForgettingLockdrop(sender, minted) ==
  /\ AU!InitPool(sender, minted)
  /\ AD!EnableClaims(TheAuction)
  /\ UNCHANGED lockdropVars

\* The callback of the auction has both contracts enable claims.
CreatePool(sender, minted) ==
  /\ AU!InitPool(sender, minted)
  /\ LD!EnableClaims
  /\ AD!EnableClaims(TheAuction)

-------------------------------------------------------------------------------
(* What each contract does by itself *)

LockdropStep ==
  /\ \/ LD!AdminStep
     \/ \E amount \in MarsAmounts : LD!IncreaseMarsIncentives(amount)
     \/ LD!UserStep
     \/ LD!NukeLockdrop
  /\ UNCHANGED <<airdropVars, auctionVars>>

AirdropStep ==
  /\ \/ \E amount \in MarsAmounts : AD!IncreaseMarsIncentives(amount)
     \/ AD!OwnerStep
     \/ AD!UserStep
  /\ UNCHANGED <<lockdropVars, auctionVars>>

AuctionStep ==
  /\ \/ \E amount \in IncentiveAmounts : AU!IncreaseMarsIncentives(amount)
     \/ AU!OwnerConfigures
     \/ AU!OwnerStakes
     \/ AU!UserDeposits
     \/ AU!UserClaims
  /\ UNCHANGED <<lockdropVars, airdropVars>>

-------------------------------------------------------------------------------

UserDelegates ==
  \E u \in Users, amount \in 1 .. MaxMars :
    \/ amount \in MarsAmounts /\ DelegateFromLockdrop(u, amount)
    \/ amount <= MaxAirdropMars /\ DelegateFromAirdrop(u, amount)

OwnerCreatesPool ==
  \E sender \in Owners, minted \in LpMintChoices : CreatePool(sender, minted)

Next ==
  \/ Tick
  \/ UserDelegates
  \/ OwnerCreatesPool
  \/ LockdropStep
  \/ AirdropStep
  \/ AuctionStep

Spec == Init /\ [][Next]_vars
===============================================================================
