----------------------------- MODULE LaunchProofs -----------------------------
(***************************************************************************)
(* Theorems about the launch.  In it each contract still follows its own   *)
(* specification, so whatever holds of a contract by itself holds of it    *)
(* there; and lockdrop and airdrop enable claims with the pool and at no   *)
(* other time, for all windows, users and amounts.                         *)
(***************************************************************************)
EXTENDS LaunchProperties, FiniteSetTheorems, TLAPS

-------------------------------------------------------------------------------
(* The clock *)

\* Only Tick moves the clock.
LEMMA LockdropKeepsClock == ASSUME LockdropStep PROVE UNCHANGED now
<1>1. CASE LD!AdminStep
  BY <1>1 DEF LD!AdminStep, LD!UpdateConfig, LD!DepositUstInRedBank
<1>2. CASE \E amount \in MarsAmounts : LD!IncreaseMarsIncentives(amount)
  BY <1>2 DEF LD!IncreaseMarsIncentives
<1>3. CASE LD!UserStep
  <2>1. ASSUME NEW u, NEW d, NEW amount, LD!DepositUst(u, d, amount)
        PROVE  UNCHANGED now
    BY <2>1 DEF LD!DepositUst
  <2>2. ASSUME NEW u, NEW d, NEW amount, LD!WithdrawUst(u, d, amount)
        PROVE  UNCHANGED now
    BY <2>2 DEF LD!WithdrawUst
  <2>3. ASSUME NEW u, NEW accrued, LD!ClaimRewards(u, accrued)
        PROVE  UNCHANGED now
    BY <2>3 DEF LD!ClaimRewards
  <2>4. ASSUME NEW u, NEW d, NEW accrued, LD!ClaimRewardsAndUnlock(u, d, accrued)
        PROVE  UNCHANGED now
    BY <2>4 DEF LD!ClaimRewardsAndUnlock
  <2> QED BY <1>3, <2>1, <2>2, <2>3, <2>4 DEF LD!UserStep
<1>4. CASE LD!NukeLockdrop
  BY <1>4 DEF LD!NukeLockdrop
<1> QED BY <1>1, <1>2, <1>3, <1>4 DEF LockdropStep

LEMMA AirdropKeepsClock == ASSUME AirdropStep PROVE UNCHANGED now
<1>1. CASE \E amount \in MarsAmounts : AD!IncreaseMarsIncentives(amount)
  BY <1>1 DEF AD!IncreaseMarsIncentives
<1>2. CASE AD!OwnerStep
  BY <1>2 DEF AD!OwnerStep, AD!UpdateConfig, AD!TransferUnclaimedTokens
<1>3. CASE AD!UserStep
  BY <1>3 DEF AD!UserStep, AD!Claim, AD!WithdrawAirdropReward
<1> QED BY <1>1, <1>2, <1>3 DEF AirdropStep

LEMMA AuctionKeepsClock == ASSUME AuctionStep PROVE UNCHANGED now
<1>1. CASE \E amount \in IncentiveAmounts : AU!IncreaseMarsIncentives(amount)
  BY <1>1 DEF AU!IncreaseMarsIncentives
<1>2. CASE AU!OwnerConfigures
  BY <1>2 DEF AU!OwnerConfigures, AU!UpdateConfig
<1>3. CASE AU!OwnerStakes
  BY <1>3 DEF AU!OwnerStakes, AU!StakeLpTokens
<1>4. CASE AU!UserDeposits
  <2>1. ASSUME NEW u, NEW amount, AU!DepositUst(u, amount) \/ AU!WithdrawUst(u, amount)
        PROVE  UNCHANGED now
    BY <2>1 DEF AU!DepositUst, AU!WithdrawUst
  <2> QED BY <1>4, <2>1 DEF AU!UserDeposits
<1>5. CASE AU!UserClaims
  <2>1. ASSUME NEW u, NEW withdraw, NEW accrued, NEW liquidity,
               AU!ClaimRewards(u, withdraw, accrued, liquidity)
        PROVE  UNCHANGED now
    BY <2>1 DEF AU!ClaimRewards
  <2> QED BY <1>5, <2>1 DEF AU!UserClaims, AU!Claims
<1> QED BY <1>1, <1>2, <1>3, <1>4, <1>5 DEF AuctionStep

-------------------------------------------------------------------------------
(* Each contract in the launch *)

LEMMA LockdropSteps == ASSUME [Next]_vars PROVE [LD!Next]_(LD!vars)
<1>1. CASE Tick
  BY <1>1 DEF Tick, LD!Next
<1>2. CASE UserDelegates
  <2>1. PICK u \in Users, amount \in 1 .. MaxMars :
          \/ amount \in MarsAmounts /\ DelegateFromLockdrop(u, amount)
          \/ DelegateFromAirdrop(u, amount)
    BY <1>2 DEF UserDelegates
  <2>2. CASE amount \in MarsAmounts /\ DelegateFromLockdrop(u, amount)
    BY <2>2 DEF DelegateFromLockdrop, LD!Next, LD!UserDelegates
  <2>3. CASE DelegateFromAirdrop(u, amount)
    BY <2>3 DEF DelegateFromAirdrop, AU!DepositMarsTokens, lockdropVars, LD!vars
  <2> QED BY <2>1, <2>2, <2>3
<1>3. CASE OwnerCreatesPool
  BY <1>3 DEF OwnerCreatesPool, CreatePool, LD!Next
<1>4. CASE LockdropStep
  BY <1>4 DEF LockdropStep, LD!Next
<1>5. CASE AirdropStep
  BY <1>5, AirdropKeepsClock DEF AirdropStep, lockdropVars, LD!vars
<1>6. CASE AuctionStep
  BY <1>6, AuctionKeepsClock DEF AuctionStep, lockdropVars, LD!vars
<1>7. CASE UNCHANGED vars
  BY <1>7 DEF vars, lockdropVars, LD!vars
<1> QED BY <1>1, <1>2, <1>3, <1>4, <1>5, <1>6, <1>7 DEF Next

LEMMA AirdropSteps == ASSUME [Next]_vars PROVE [AD!Next]_(AD!vars)
<1>1. CASE Tick
  BY <1>1 DEF Tick, AD!Next
<1>2. CASE UserDelegates
  <2>1. PICK u \in Users, amount \in 1 .. MaxMars :
          \/ amount \in MarsAmounts /\ DelegateFromLockdrop(u, amount)
          \/ amount <= MaxAirdropMars /\ DelegateFromAirdrop(u, amount)
    BY <1>2 DEF UserDelegates
  <2>2. CASE amount \in MarsAmounts /\ DelegateFromLockdrop(u, amount)
    BY <2>2 DEF DelegateFromLockdrop, AU!DepositMarsTokens, airdropVars, AD!vars
  <2>3. CASE amount <= MaxAirdropMars /\ DelegateFromAirdrop(u, amount)
    <3>1. amount \in 1 .. MaxAirdropMars
      BY <2>3, LaunchAssumption
    <3> QED BY <2>3, <3>1 DEF DelegateFromAirdrop, AD!Next, AD!UserDelegates
  <2> QED BY <2>1, <2>2, <2>3
<1>3. CASE OwnerCreatesPool
  BY <1>3 DEF OwnerCreatesPool, CreatePool, AD!Next, Auctions
<1>4. CASE LockdropStep
  BY <1>4, LockdropKeepsClock DEF LockdropStep, airdropVars, AD!vars
<1>5. CASE AirdropStep
  BY <1>5 DEF AirdropStep, AD!Next
<1>6. CASE AuctionStep
  BY <1>6, AuctionKeepsClock DEF AuctionStep, airdropVars, AD!vars
<1>7. CASE UNCHANGED vars
  BY <1>7 DEF vars, airdropVars, AD!vars
<1> QED BY <1>1, <1>2, <1>3, <1>4, <1>5, <1>6, <1>7 DEF Next

LEMMA AuctionSteps == ASSUME [Next]_vars PROVE [AU!Next]_(AU!vars)
<1>1. CASE Tick
  BY <1>1 DEF Tick, AU!Next
<1>2. CASE UserDelegates
  BY <1>2 DEF UserDelegates, DelegateFromLockdrop, DelegateFromAirdrop, AU!Next,
       AU!UserDelegates
<1>3. CASE OwnerCreatesPool
  BY <1>3 DEF OwnerCreatesPool, CreatePool, AU!Next, AU!OwnerCreatesPool
<1>4. CASE LockdropStep
  BY <1>4, LockdropKeepsClock DEF LockdropStep, auctionVars, AU!vars
<1>5. CASE AirdropStep
  BY <1>5, AirdropKeepsClock DEF AirdropStep, auctionVars, AU!vars
<1>6. CASE AuctionStep
  BY <1>6 DEF AuctionStep, AU!Next
<1>7. CASE UNCHANGED vars
  BY <1>7 DEF vars, auctionVars, AU!vars
<1> QED BY <1>1, <1>2, <1>3, <1>4, <1>5, <1>6, <1>7 DEF Next

(* The lockdrop in the launch takes only steps of the lockdrop: what holds of it
   in any company holds of it beside the auction and the airdrop. *)
THEOREM LaunchRunsLockdrop == Spec => LD!Spec
<1>1. Init => LD!Init
  BY DEF Init
<1>2. [Next]_vars => [LD!Next]_(LD!vars)
  BY LockdropSteps
<1> QED BY <1>1, <1>2, PTL DEF Spec, LD!Spec

(* So does the airdrop, which the auction alone tells to enable claims. *)
THEOREM LaunchRunsAirdrop == Spec => AD!Spec
<1>1. Init => AD!Init
  BY DEF Init
<1>2. [Next]_vars => [AD!Next]_(AD!vars)
  BY AirdropSteps
<1> QED BY <1>1, <1>2, PTL DEF Spec, AD!Spec

(* And the auction, to which MARS comes from the other two. *)
THEOREM LaunchRunsAuction == Spec => AU!Spec
<1>1. Init => AU!Init
  BY DEF Init
<1>2. [Next]_vars => [AU!Next]_(AU!vars)
  BY AuctionSteps
<1> QED BY <1>1, <1>2, PTL DEF Spec, AU!Spec

-------------------------------------------------------------------------------
(* Claims and the pool *)

(* Besides the property itself: the fields it is about are there, and the pool,
   which needs MARS, cannot be created before the auction has begun. *)
LaunchInv ==
  /\ now \in Nat
  /\ "are_claims_allowed" \in DOMAIN lockdropState
  /\ "are_claims_enabled" \in DOMAIN airdropConfig
  /\ {"total_mars_deposited", "lp_shares_minted"} \subseteq DOMAIN auctionState
  /\ auctionState.total_mars_deposited # 0 => AuctionInitTimestamp <= now
  /\ ClaimsEnabledTogether

LEMMA LaunchInvInit == Init => LaunchInv
<1> SUFFICES ASSUME Init PROVE LaunchInv
  OBVIOUS
<1>1. lockdropState.are_claims_allowed = FALSE
      /\ "are_claims_allowed" \in DOMAIN lockdropState /\ now \in Nat
  BY LaunchAssumption, LaunchLockdropAssumption, LaunchAuctionAssumption DEF Init, LD!Init
<1>2. airdropConfig.are_claims_enabled = FALSE
      /\ "are_claims_enabled" \in DOMAIN airdropConfig
  BY DEF Init, AD!Init
<1>3. /\ {"total_mars_deposited", "lp_shares_minted"} \subseteq DOMAIN auctionState
      /\ auctionState.lp_shares_minted = 0 /\ auctionState.total_mars_deposited = 0
  BY DEF Init, AU!Init, AU!NoState
<1> QED BY <1>1, <1>2, <1>3 DEF LaunchInv, ClaimsEnabledTogether, PoolCreated, AU!PoolCreated,
             LD!ClaimsOnlyAfterWindows

\* What the steps of the lockdrop leave alone when they do not enable claims.
LEMMA LockdropKeepsClaims ==
  ASSUME "are_claims_allowed" \in DOMAIN lockdropState,
         LockdropStep \/ \E u, amount : LD!DepositMarsToAuction(u, amount)
  PROVE  /\ "are_claims_allowed" \in DOMAIN lockdropState'
         /\ lockdropState'.are_claims_allowed = lockdropState.are_claims_allowed
<1>1. CASE LD!AdminStep
  BY <1>1 DEF LD!AdminStep, LD!UpdateConfig, LD!DepositUstInRedBank, LD!StateAfterRedBank
<1>2. CASE \E amount \in MarsAmounts : LD!IncreaseMarsIncentives(amount)
  BY <1>2 DEF LD!IncreaseMarsIncentives
<1>3. CASE LD!UserStep
  <2>1. ASSUME NEW u, NEW d, NEW amount, LD!DepositUst(u, d, amount)
        PROVE  /\ "are_claims_allowed" \in DOMAIN lockdropState'
               /\ lockdropState'.are_claims_allowed = lockdropState.are_claims_allowed
    BY <2>1 DEF LD!DepositUst
  <2>2. ASSUME NEW u, NEW d, NEW amount, LD!WithdrawUst(u, d, amount)
        PROVE  /\ "are_claims_allowed" \in DOMAIN lockdropState'
               /\ lockdropState'.are_claims_allowed = lockdropState.are_claims_allowed
    BY <2>2 DEF LD!WithdrawUst
  <2>3. ASSUME NEW u, NEW accrued, LD!ClaimRewards(u, accrued)
        PROVE  /\ "are_claims_allowed" \in DOMAIN lockdropState'
               /\ lockdropState'.are_claims_allowed = lockdropState.are_claims_allowed
    BY <2>3 DEF LD!ClaimRewards
  <2>4. ASSUME NEW u, NEW d, NEW accrued, LD!ClaimRewardsAndUnlock(u, d, accrued)
        PROVE  /\ "are_claims_allowed" \in DOMAIN lockdropState'
               /\ lockdropState'.are_claims_allowed = lockdropState.are_claims_allowed
    BY <2>4 DEF LD!ClaimRewardsAndUnlock
  <2> QED BY <1>3, <2>1, <2>2, <2>3, <2>4 DEF LD!UserStep
<1>4. CASE LD!NukeLockdrop
  BY <1>4 DEF LD!NukeLockdrop
<1>5. CASE \E u, amount : LD!DepositMarsToAuction(u, amount)
  BY <1>5 DEF LD!DepositMarsToAuction
<1> QED BY <1>1, <1>2, <1>3, <1>4, <1>5 DEF LockdropStep

\* The same of the airdrop.
LEMMA AirdropKeepsClaims ==
  ASSUME "are_claims_enabled" \in DOMAIN airdropConfig,
         AirdropStep \/ \E u, amount : AD!DelegateMarsToBootstrapAuction(u, amount)
  PROVE  /\ "are_claims_enabled" \in DOMAIN airdropConfig'
         /\ airdropConfig'.are_claims_enabled = airdropConfig.are_claims_enabled
<1>1. CASE \E amount \in MarsAmounts : AD!IncreaseMarsIncentives(amount)
  BY <1>1 DEF AD!IncreaseMarsIncentives
<1>2. CASE AD!OwnerStep
  BY <1>2 DEF AD!OwnerStep, AD!UpdateConfig, AD!TransferUnclaimedTokens
<1>3. CASE AD!UserStep
  BY <1>3 DEF AD!UserStep, AD!Claim, AD!WithdrawAirdropReward
<1>4. CASE \E u, amount : AD!DelegateMarsToBootstrapAuction(u, amount)
  BY <1>4 DEF AD!DelegateMarsToBootstrapAuction
<1> QED BY <1>1, <1>2, <1>3, <1>4 DEF AirdropStep

\* The auction's own steps create no pool and take no MARS for it.
LEMMA AuctionKeepsPool ==
  ASSUME {"total_mars_deposited", "lp_shares_minted"} \subseteq DOMAIN auctionState,
         AuctionStep
  PROVE  /\ {"total_mars_deposited", "lp_shares_minted"} \subseteq DOMAIN auctionState'
         /\ auctionState'.lp_shares_minted = auctionState.lp_shares_minted
         /\ auctionState'.total_mars_deposited = auctionState.total_mars_deposited
<1>1. CASE \E amount \in IncentiveAmounts : AU!IncreaseMarsIncentives(amount)
  BY <1>1 DEF AU!IncreaseMarsIncentives
<1>2. CASE AU!OwnerConfigures
  BY <1>2 DEF AU!OwnerConfigures, AU!UpdateConfig
<1>3. CASE AU!OwnerStakes
  <2>1. PICK single, accrued :
          auctionState' = AU!StateAfterStaking(single)
            \/ auctionState' = AU!WithRewards(AU!StateAfterStaking(single), accrued)
    BY <1>3 DEF AU!OwnerStakes, AU!StakeLpTokens
  <2> QED BY <2>1 DEF AU!StateAfterStaking, AU!WithRewards
<1>4. CASE AU!UserDeposits
  BY <1>4 DEF AU!UserDeposits, AU!DepositUst, AU!WithdrawUst
<1>5. CASE AU!UserClaims
  <2>1. PICK u, withdraw, accrued, liquidity :
          AU!ClaimRewards(u, withdraw, accrued, liquidity)
    BY <1>5 DEF AU!UserClaims, AU!Claims
  <2>2. PICK shares :
          auctionState' =
            [AU!WithRewards(auctionState, accrued) EXCEPT !.lp_shares_withdrawn = @ + shares]
    BY <2>1 DEF AU!ClaimRewards
  <2> QED BY <2>2 DEF AU!WithRewards
<1> QED BY <1>1, <1>2, <1>3, <1>4, <1>5 DEF AuctionStep

LEMMA LaunchInvNext == LaunchInv /\ [Next]_vars => LaunchInv'
<1> SUFFICES ASSUME LaunchInv, [Next]_vars PROVE LaunchInv'
  OBVIOUS
<1> USE DEF LaunchInv, ClaimsEnabledTogether, PoolCreated, AU!PoolCreated,
            LD!ClaimsOnlyAfterWindows, LD!WithdrawEnd, LD!DepositEnd
<1>1. CASE Tick
  <2>1. now' = now + 1 /\ UNCHANGED <<lockdropState, airdropConfig, auctionState>>
    BY <1>1 DEF Tick, LD!Tick, AD!Tick, AU!Tick
  <2> QED BY <2>1, LaunchAssumption, LaunchLockdropAssumption, LaunchAuctionAssumption
<1>2. CASE UserDelegates
  <2>1. PICK u \in Users, amount \in 1 .. MaxMars :
          \/ amount \in MarsAmounts /\ DelegateFromLockdrop(u, amount)
          \/ DelegateFromAirdrop(u, amount)
    BY <1>2 DEF UserDelegates
  <2>2. AU!DepositMarsTokens(u, amount)
    BY <2>1 DEF DelegateFromLockdrop, DelegateFromAirdrop
  <2>3. /\ {"total_mars_deposited", "lp_shares_minted"} \subseteq DOMAIN auctionState'
        /\ auctionState'.lp_shares_minted = auctionState.lp_shares_minted
        /\ AuctionInitTimestamp <= now /\ UNCHANGED now
    BY <2>2 DEF AU!DepositMarsTokens
  <2>4. /\ "are_claims_allowed" \in DOMAIN lockdropState'
        /\ lockdropState'.are_claims_allowed = lockdropState.are_claims_allowed
    BY <2>1, LockdropKeepsClaims DEF DelegateFromLockdrop, DelegateFromAirdrop, lockdropVars
  <2>5. /\ "are_claims_enabled" \in DOMAIN airdropConfig'
        /\ airdropConfig'.are_claims_enabled = airdropConfig.are_claims_enabled
    BY <2>1, AirdropKeepsClaims DEF DelegateFromLockdrop, DelegateFromAirdrop, airdropVars
  <2> QED BY <2>3, <2>4, <2>5
<1>3. CASE OwnerCreatesPool
  <2>1. PICK sender, minted : CreatePool(sender, minted)
    BY <1>3 DEF OwnerCreatesPool
  <2>2. /\ {"total_mars_deposited", "lp_shares_minted"} \subseteq DOMAIN auctionState'
        /\ auctionState'.lp_shares_minted > 0
        /\ auctionState'.total_mars_deposited = auctionState.total_mars_deposited
        /\ UNCHANGED now
    BY <2>1 DEF CreatePool, AU!InitPool, AU!CanInitPool
  <2>3. "are_claims_allowed" \in DOMAIN lockdropState' /\ lockdropState'.are_claims_allowed
    BY <2>1 DEF CreatePool, LD!EnableClaims
  <2>4. "are_claims_enabled" \in DOMAIN airdropConfig' /\ airdropConfig'.are_claims_enabled
    BY <2>1 DEF CreatePool, AD!EnableClaims
  <2>5. AuctionInitTimestamp <= now
    BY <2>1 DEF CreatePool, AU!InitPool, AU!CanInitPool
  <2>6. now > AuctionInitTimestamp + UstDepositWindow + WithdrawalWindow
    BY <2>1, <2>5, LaunchAssumption, LaunchLockdropAssumption, LaunchAuctionAssumption
       DEF CreatePool, AU!InitPool, AU!CanInitPool, AU!AreWindowsClosed, AU!UstDepositsEnd
  <2>7. now > LD!WithdrawEnd
    BY <2>6, LaunchAssumption, LaunchLockdropAssumption, LaunchAuctionAssumption, LaunchSchedule
  <2> QED BY <2>2, <2>3, <2>4, <2>5, <2>7
<1>4. CASE LockdropStep
  BY <1>4, LockdropKeepsClaims, LockdropKeepsClock DEF LockdropStep, airdropVars, auctionVars
<1>5. CASE AirdropStep
  BY <1>5, AirdropKeepsClaims, AirdropKeepsClock DEF AirdropStep, lockdropVars, auctionVars
<1>6. CASE AuctionStep
  BY <1>6, AuctionKeepsPool, AuctionKeepsClock DEF AuctionStep, lockdropVars, airdropVars
<1>7. CASE UNCHANGED vars
  BY <1>7 DEF vars, lockdropVars, airdropVars, auctionVars
<1> QED BY <1>1, <1>2, <1>3, <1>4, <1>5, <1>6, <1>7 DEF Next

(* Lockdrop and airdrop enable claims when the pool is created, both and at no other
   time, and so never before the lockdrop's windows are over: for all schedules in
   which the auction starts when those windows end. *)
THEOREM ClaimsAreEnabledTogether == Spec => []ClaimsEnabledTogether
<1>1. LaunchInv => ClaimsEnabledTogether
  BY DEF LaunchInv
<1> QED BY <1>1, LaunchInvInit, LaunchInvNext, PTL DEF Spec

-------------------------------------------------------------------------------
(* Delegations *)

(* The fields the property is about are there and hold natural numbers. *)
LockdropDelegations ==
  /\ "total_mars_delegated" \in DOMAIN lockdropState
  /\ lockdropState.total_mars_delegated \in Nat
  /\ DOMAIN userInfo = Users
  /\ \A u \in Users : /\ "delegated_mars_incentives" \in DOMAIN userInfo[u]
                      /\ userInfo[u].delegated_mars_incentives \in Nat

AirdropDelegations ==
  /\ "total_delegated_amount" \in DOMAIN airdropState
  /\ airdropState.total_delegated_amount \in Nat
  /\ DOMAIN airdropUsers = Users
  /\ \A u \in Users : /\ "delegated_amount" \in DOMAIN airdropUsers[u]
                      /\ airdropUsers[u].delegated_amount \in Nat

AuctionDelegations ==
  /\ "total_mars_deposited" \in DOMAIN auctionState
  /\ auctionState.total_mars_deposited \in Nat
  /\ DOMAIN auctionUsers = Users
  /\ \A u \in Users : /\ "mars_deposited" \in DOMAIN auctionUsers[u]
                      /\ auctionUsers[u].mars_deposited \in Nat

DelegationsInv ==
  LockdropDelegations /\ AirdropDelegations /\ AuctionDelegations /\ DelegationsMatch

LEMMA DelegationsInit == Init => DelegationsInv
<1> SUFFICES ASSUME Init PROVE DelegationsInv
  OBVIOUS
<1>1. LockdropDelegations /\ lockdropState.total_mars_delegated = 0
      /\ \A u \in Users : userInfo[u].delegated_mars_incentives = 0
  BY DEF Init, LD!Init, LD!NoUser, LockdropDelegations
<1>2. AirdropDelegations /\ airdropState.total_delegated_amount = 0
      /\ \A u \in Users : airdropUsers[u].delegated_amount = 0
  BY DEF Init, AD!Init, AD!NoUser, AirdropDelegations
<1>3. AuctionDelegations /\ auctionState.total_mars_deposited = 0
      /\ \A u \in Users : auctionUsers[u].mars_deposited = 0
  BY DEF Init, AU!Init, AU!NoState, AU!NoUser, AuctionDelegations
<1> QED BY <1>1, <1>2, <1>3 DEF DelegationsInv, DelegationsMatch, Delegated

\* A step of the lockdrop by itself may forget a user, with what he delegated.
LockdropForgetsAtMost ==
  /\ "total_mars_delegated" \in DOMAIN lockdropState'
  /\ lockdropState'.total_mars_delegated = lockdropState.total_mars_delegated
  /\ DOMAIN userInfo' = Users
  /\ \A u \in Users :
       /\ "delegated_mars_incentives" \in DOMAIN userInfo'[u]
       /\ \/ userInfo'[u].delegated_mars_incentives = 0
          \/ userInfo'[u].delegated_mars_incentives = userInfo[u].delegated_mars_incentives

KeepsDelegated(info, u) ==
  /\ "delegated_mars_incentives" \in DOMAIN info
  /\ info.delegated_mars_incentives = userInfo[u].delegated_mars_incentives

KeepsTotal(st) ==
  /\ "total_mars_delegated" \in DOMAIN st
  /\ st.total_mars_delegated = lockdropState.total_mars_delegated

LEMMA OneRecordChanged ==
  ASSUME LockdropDelegations, NEW u \in Users, NEW info, KeepsDelegated(info, u),
         userInfo' = [userInfo EXCEPT ![u] = info], KeepsTotal(lockdropState')
  PROVE  LockdropForgetsAtMost
BY DEF LockdropDelegations, LockdropForgetsAtMost, KeepsDelegated, KeepsTotal

LEMMA LockdropKeepsRecords ==
  ASSUME LockdropDelegations, LockdropStep PROVE LockdropForgetsAtMost
<1> USE DEF LockdropDelegations
<1>1. CASE LD!AdminStep
  <2>1. CASE UNCHANGED <<lockdropState, userInfo>>
    BY <2>1 DEF LockdropForgetsAtMost
  <2>2. ASSUME NEW minted, lockdropState' = LD!StateAfterRedBank(minted), UNCHANGED userInfo
        PROVE  LockdropForgetsAtMost
    BY <2>2 DEF LockdropForgetsAtMost, LD!StateAfterRedBank
  <2> QED BY <1>1, <2>1, <2>2 DEF LD!AdminStep, LD!UpdateConfig, LD!DepositUstInRedBank
<1>2. CASE \E amount \in MarsAmounts : LD!IncreaseMarsIncentives(amount)
  BY <1>2 DEF LD!IncreaseMarsIncentives, LockdropForgetsAtMost
<1>3. CASE LD!UserStep
  <2>1. ASSUME NEW u \in Users
        PROVE  /\ "delegated_mars_incentives" \in DOMAIN LD!Provisioned(u)
               /\ LD!Provisioned(u).delegated_mars_incentives
                    = userInfo[u].delegated_mars_incentives
    BY <2>1 DEF LD!Provisioned
  <2>2. ASSUME NEW info, NEW accrued, "delegated_mars_incentives" \in DOMAIN info
        PROVE  /\ "delegated_mars_incentives" \in DOMAIN LD!Settled(info, accrued)
               /\ LD!Settled(info, accrued).delegated_mars_incentives
                    = info.delegated_mars_incentives
    BY <2>2 DEF LD!Settled
  <2>3. ASSUME NEW u \in Users, NEW d, NEW amount, LD!DepositUst(u, d, amount)
        PROVE  LockdropForgetsAtMost
    <3>1. KeepsTotal(lockdropState')
      BY <2>3 DEF LD!DepositUst, KeepsTotal
    <3>2. PICK ust, positions : userInfo' = [userInfo EXCEPT ![u] =
            [userInfo[u] EXCEPT !.total_ust_locked = ust, !.lockup_positions = positions]]
      BY <2>3 DEF LD!DepositUst
    <3> DEFINE info == [userInfo[u] EXCEPT !.total_ust_locked = ust,
                                           !.lockup_positions = positions]
    <3>3. KeepsDelegated(info, u)
      BY DEF KeepsDelegated
    <3>4. userInfo' = [userInfo EXCEPT ![u] = info]
      BY <3>2
    <3> HIDE DEF info
    <3> QED BY <3>1, <3>3, <3>4, OneRecordChanged
  <2>4. ASSUME NEW u \in Users, NEW d, NEW amount, LD!WithdrawUst(u, d, amount)
        PROVE  LockdropForgetsAtMost
    <3>1. KeepsTotal(lockdropState')
      BY <2>4 DEF LD!WithdrawUst, KeepsTotal
    <3>2. PICK ust, positions : userInfo' = [userInfo EXCEPT ![u] =
            [userInfo[u] EXCEPT !.total_ust_locked = ust, !.lockup_positions = positions]]
      BY <2>4 DEF LD!WithdrawUst
    <3> DEFINE info == [userInfo[u] EXCEPT !.total_ust_locked = ust,
                                           !.lockup_positions = positions]
    <3>3. KeepsDelegated(info, u)
      BY DEF KeepsDelegated
    <3>4. userInfo' = [userInfo EXCEPT ![u] = info]
      BY <3>2
    <3> HIDE DEF info
    <3> QED BY <3>1, <3>3, <3>4, OneRecordChanged
  <2>5. ASSUME NEW u \in Users, NEW accrued, LD!ClaimRewards(u, accrued)
        PROVE  LockdropForgetsAtMost
    <3>1. KeepsTotal(lockdropState')
      BY <2>5 DEF LD!ClaimRewards, KeepsTotal
    <3>2. KeepsDelegated(LD!Settled(LD!Provisioned(u), accrued), u)
      BY <2>1, <2>2 DEF KeepsDelegated
    <3>3. userInfo' = [userInfo EXCEPT ![u] = LD!Settled(LD!Provisioned(u), accrued)]
      BY <2>5 DEF LD!ClaimRewards
    <3> QED BY <3>1, <3>2, <3>3, OneRecordChanged
  <2>6. ASSUME NEW u \in Users, NEW d, NEW accrued, LD!ClaimRewardsAndUnlock(u, d, accrued)
        PROVE  LockdropForgetsAtMost
    <3>1. KeepsTotal(lockdropState')
      BY <2>6 DEF LD!ClaimRewardsAndUnlock, KeepsTotal
    <3>2. PICK refund : userInfo' = [userInfo EXCEPT ![u] =
            [LD!Settled(LD!Provisioned(u), accrued) EXCEPT
               !.total_maust_share = @ - refund, !.lockup_positions = @ \ {<<u, d>>}]]
      BY <2>6 DEF LD!ClaimRewardsAndUnlock
    <3> DEFINE info == [LD!Settled(LD!Provisioned(u), accrued) EXCEPT
               !.total_maust_share = @ - refund, !.lockup_positions = @ \ {<<u, d>>}]
    <3>3. KeepsDelegated(info, u)
      BY <2>1, <2>2 DEF KeepsDelegated
    <3>4. userInfo' = [userInfo EXCEPT ![u] = info]
      BY <3>2
    <3> HIDE DEF info
    <3> QED BY <3>1, <3>3, <3>4, OneRecordChanged
  <2> QED BY <1>3, <2>3, <2>4, <2>5, <2>6 DEF LD!UserStep
<1>4. CASE LD!NukeLockdrop
  <2>1. PICK removed, refunds :
          /\ userInfo' = [u \in Users |->
               IF u \in removed THEN LD!NoUser
               ELSE IF u \in LD!Nuked
                 THEN [userInfo[u] EXCEPT !.total_ust_locked = @ - LD!NukedUst(u),
                                          !.total_maust_share = @ - LD!NukedMaUst(u),
                                          !.lockup_positions = {}]
               ELSE userInfo[u]]
          /\ lockdropState' = [lockdropState EXCEPT !.total_maust_locked = @ - refunds]
    BY <1>4 DEF LD!NukeLockdrop
  <2> QED BY <2>1 DEF LD!NoUser, LockdropForgetsAtMost
<1> QED BY <1>1, <1>2, <1>3, <1>4 DEF LockdropStep

LEMMA LockdropKeepsDelegations ==
  ASSUME LockdropDelegations, LockdropStep
  PROVE  /\ LockdropDelegations'
         /\ lockdropState'.total_mars_delegated = lockdropState.total_mars_delegated
         /\ \A u \in Users : userInfo'[u].delegated_mars_incentives
                               <= userInfo[u].delegated_mars_incentives
BY LockdropKeepsRecords DEF LockdropForgetsAtMost, LockdropDelegations

\* The airdrop by itself changes no delegation.
LEMMA AirdropKeepsDelegations ==
  ASSUME AirdropDelegations, AirdropStep
  PROVE  /\ AirdropDelegations'
         /\ airdropState'.total_delegated_amount = airdropState.total_delegated_amount
         /\ \A u \in Users : airdropUsers'[u].delegated_amount
                               = airdropUsers[u].delegated_amount
<1> USE DEF AirdropDelegations
<1>1. CASE \E amount \in MarsAmounts : AD!IncreaseMarsIncentives(amount)
  BY <1>1 DEF AD!IncreaseMarsIncentives
<1>2. CASE AD!OwnerStep
  BY <1>2 DEF AD!OwnerStep, AD!UpdateConfig, AD!TransferUnclaimedTokens
<1>3. CASE AD!UserStep
  <2>1. CASE \E u \in Users : AD!WithdrawAirdropReward(u)
    BY <2>1 DEF AD!WithdrawAirdropReward
  <2>2. ASSUME NEW u \in Users, NEW amount, NEW proof, NEW index,
               AD!Claim(u, amount, proof, index)
        PROVE  /\ AirdropDelegations'
               /\ airdropState'.total_delegated_amount = airdropState.total_delegated_amount
               /\ \A v \in Users : airdropUsers'[v].delegated_amount
                                     = airdropUsers[v].delegated_amount
    <3>1. /\ airdropUsers' = [airdropUsers EXCEPT ![u] = AD!UserAfterClaim(u, amount)]
          /\ airdropState' = AD!StateAfterClaim(amount)
      BY <2>2 DEF AD!Claim
    <3> QED BY <3>1 DEF AD!UserAfterClaim, AD!StateAfterClaim
  <2> QED BY <1>3, <2>1, <2>2 DEF AD!UserStep
<1> QED BY <1>1, <1>2, <1>3 DEF AirdropStep

\* Nor does the auction by itself change what it was sent.
LEMMA AuctionKeepsDelegations ==
  ASSUME AuctionDelegations, AuctionStep
  PROVE  /\ AuctionDelegations'
         /\ auctionState'.total_mars_deposited = auctionState.total_mars_deposited
         /\ \A u \in Users : auctionUsers'[u].mars_deposited
                               = auctionUsers[u].mars_deposited
<1> USE DEF AuctionDelegations
<1>1. CASE \E amount \in IncentiveAmounts : AU!IncreaseMarsIncentives(amount)
  BY <1>1 DEF AU!IncreaseMarsIncentives
<1>2. CASE AU!OwnerConfigures
  BY <1>2 DEF AU!OwnerConfigures, AU!UpdateConfig
<1>3. CASE AU!OwnerStakes
  <2>1. PICK single, accrued :
          /\ \/ auctionState' = AU!StateAfterStaking(single)
             \/ auctionState' = AU!WithRewards(AU!StateAfterStaking(single), accrued)
          /\ UNCHANGED auctionUsers
    BY <1>3 DEF AU!OwnerStakes, AU!StakeLpTokens
  <2> QED BY <2>1 DEF AU!StateAfterStaking, AU!WithRewards
<1>4. CASE AU!UserDeposits
  <2>1. PICK u \in Users, amount \in 1 .. MaxUst :
          AU!DepositUst(u, amount) \/ AU!WithdrawUst(u, amount)
    BY <1>4 DEF AU!UserDeposits
  <2>2. CASE AU!DepositUst(u, amount)
    BY <2>2 DEF AU!DepositUst
  <2>3. CASE AU!WithdrawUst(u, amount)
    BY <2>3 DEF AU!WithdrawUst
  <2> QED BY <2>1, <2>2, <2>3
<1>5. CASE AU!UserClaims
  <2>1. PICK u \in Users, withdraw \in BOOLEAN, accrued \in AU!Accruals,
             liquidity \in LiquidityChoices :
          AU!ClaimRewards(u, withdraw, accrued, liquidity)
    BY <1>5 DEF AU!UserClaims, AU!Claims
  <2>2. PICK shares :
          /\ auctionState' =
               [AU!WithRewards(auctionState, accrued) EXCEPT !.lp_shares_withdrawn = @ + shares]
          /\ auctionUsers' = [auctionUsers EXCEPT ![u] =
               AU!Settled(AU!Provisioned(auctionUsers[u]),
                          AU!WithRewards(auctionState, accrued), shares)]
    BY <2>1 DEF AU!ClaimRewards
  <2>3. ASSUME NEW info, NEW st, NEW taken, "mars_deposited" \in DOMAIN info
        PROVE  /\ "mars_deposited" \in DOMAIN AU!Settled(AU!Provisioned(info), st, taken)
               /\ AU!Settled(AU!Provisioned(info), st, taken).mars_deposited
                    = info.mars_deposited
    BY <2>3 DEF AU!Settled, AU!Provisioned
  <2> QED BY <2>2, <2>3 DEF AU!WithRewards
<1> QED BY <1>1, <1>2, <1>3, <1>4, <1>5 DEF AuctionStep

\* A delegation is recorded at both ends.
LEMMA DelegationsStep ==
  ASSUME DelegationsInv, NEW u \in Users, NEW amount \in 1 .. MaxMars,
         DelegateFromLockdrop(u, amount) \/ DelegateFromAirdrop(u, amount)
  PROVE  DelegationsInv'
<1> USE DEF DelegationsInv, LockdropDelegations, AirdropDelegations, AuctionDelegations,
            DelegationsMatch, Delegated
<1>1. /\ AuctionDelegations'
      /\ auctionState'.total_mars_deposited = auctionState.total_mars_deposited + amount
      /\ \A v \in Users : auctionUsers'[v].mars_deposited
                            = auctionUsers[v].mars_deposited + (IF v = u THEN amount ELSE 0)
  <2>1. /\ auctionState' = [auctionState EXCEPT !.total_mars_deposited = @ + amount]
        /\ auctionUsers' = [auctionUsers EXCEPT ![u].mars_deposited = @ + amount]
    BY DEF DelegateFromLockdrop, DelegateFromAirdrop, AU!DepositMarsTokens
  <2> QED BY <2>1
<1>2. CASE DelegateFromLockdrop(u, amount)
  <2>1. /\ "delegated_mars_incentives" \in DOMAIN LD!Provisioned(u)
        /\ LD!Provisioned(u).delegated_mars_incentives = userInfo[u].delegated_mars_incentives
    BY DEF LD!Provisioned
  <2>2. /\ userInfo' = [userInfo EXCEPT ![u] =
             [LD!Provisioned(u) EXCEPT !.delegated_mars_incentives = @ + amount]]
        /\ lockdropState' = [lockdropState EXCEPT !.total_mars_delegated = @ + amount]
    BY <1>2 DEF DelegateFromLockdrop, LD!DepositMarsToAuction
  <2>3. /\ LockdropDelegations'
        /\ lockdropState'.total_mars_delegated = lockdropState.total_mars_delegated + amount
        /\ \A v \in Users : userInfo'[v].delegated_mars_incentives
             = userInfo[v].delegated_mars_incentives + (IF v = u THEN amount ELSE 0)
    BY <2>1, <2>2
  <2>4. UNCHANGED <<airdropState, airdropUsers>>
    BY <1>2 DEF DelegateFromLockdrop, airdropVars
  <2> QED BY <1>1, <2>3, <2>4
<1>3. CASE DelegateFromAirdrop(u, amount)
  <2>1. /\ airdropUsers' = [airdropUsers EXCEPT ![u].delegated_amount = @ + amount]
        /\ airdropState' = [airdropState EXCEPT !.total_delegated_amount = @ + amount]
    BY <1>3 DEF DelegateFromAirdrop, AD!DelegateMarsToBootstrapAuction
  <2>2. /\ AirdropDelegations'
        /\ airdropState'.total_delegated_amount = airdropState.total_delegated_amount + amount
        /\ \A v \in Users : airdropUsers'[v].delegated_amount
             = airdropUsers[v].delegated_amount + (IF v = u THEN amount ELSE 0)
    BY <2>1
  <2>3. UNCHANGED <<lockdropState, userInfo>>
    BY <1>3 DEF DelegateFromAirdrop, lockdropVars
  <2> QED BY <1>1, <2>2, <2>3
<1> QED BY <1>2, <1>3

LEMMA DelegationsNext == DelegationsInv /\ [Next]_vars => DelegationsInv'
<1> SUFFICES ASSUME DelegationsInv, [Next]_vars PROVE DelegationsInv'
  OBVIOUS
<1>1. CASE Tick
  <2>1. UNCHANGED <<lockdropState, userInfo, airdropState, airdropUsers, auctionState,
                    auctionUsers>>
    BY <1>1 DEF Tick, LD!Tick, AD!Tick, AU!Tick
  <2> QED BY <2>1 DEF DelegationsInv, LockdropDelegations, AirdropDelegations,
               AuctionDelegations, DelegationsMatch, Delegated
<1>2. CASE UserDelegates
  BY <1>2, DelegationsStep DEF UserDelegates
<1>3. CASE OwnerCreatesPool
  <2>1. /\ UNCHANGED <<userInfo, airdropState, airdropUsers, auctionUsers>>
        /\ lockdropState' = [lockdropState EXCEPT !.are_claims_allowed = TRUE]
        /\ \E minted : auctionState' = [auctionState EXCEPT !.lp_shares_minted = minted,
                                                            !.pool_init_timestamp = now]
    BY <1>3 DEF OwnerCreatesPool, CreatePool, LD!EnableClaims, AD!EnableClaims, AU!InitPool
  <2> QED BY <2>1 DEF DelegationsInv, LockdropDelegations, AirdropDelegations,
               AuctionDelegations, DelegationsMatch, Delegated
<1>4. CASE LockdropStep
  <2>1. UNCHANGED <<airdropState, airdropUsers, auctionState, auctionUsers>>
    BY <1>4 DEF LockdropStep, airdropVars, auctionVars
  <2>2. /\ LockdropDelegations'
        /\ lockdropState'.total_mars_delegated = lockdropState.total_mars_delegated
        /\ \A u \in Users : userInfo'[u].delegated_mars_incentives
                              <= userInfo[u].delegated_mars_incentives
    BY <1>4, LockdropKeepsDelegations DEF DelegationsInv
  <2> QED BY <2>1, <2>2 DEF DelegationsInv, LockdropDelegations, AirdropDelegations,
               AuctionDelegations, DelegationsMatch, Delegated
<1>5. CASE AirdropStep
  <2>1. UNCHANGED <<lockdropState, userInfo, auctionState, auctionUsers>>
    BY <1>5 DEF AirdropStep, lockdropVars, auctionVars
  <2>2. /\ AirdropDelegations'
        /\ airdropState'.total_delegated_amount = airdropState.total_delegated_amount
        /\ \A u \in Users : airdropUsers'[u].delegated_amount
                              = airdropUsers[u].delegated_amount
    BY <1>5, AirdropKeepsDelegations DEF DelegationsInv
  <2> QED BY <2>1, <2>2 DEF DelegationsInv, LockdropDelegations, AuctionDelegations,
               DelegationsMatch, Delegated
<1>6. CASE AuctionStep
  <2>1. UNCHANGED <<lockdropState, userInfo, airdropState, airdropUsers>>
    BY <1>6 DEF AuctionStep, lockdropVars, airdropVars
  <2>2. /\ AuctionDelegations'
        /\ auctionState'.total_mars_deposited = auctionState.total_mars_deposited
        /\ \A u \in Users : auctionUsers'[u].mars_deposited
                              = auctionUsers[u].mars_deposited
    BY <1>6, AuctionKeepsDelegations DEF DelegationsInv
  <2> QED BY <2>1, <2>2 DEF DelegationsInv, LockdropDelegations, AirdropDelegations,
               DelegationsMatch, Delegated
<1>7. CASE UNCHANGED vars
  BY <1>7 DEF vars, lockdropVars, airdropVars, auctionVars, DelegationsInv,
       LockdropDelegations, AirdropDelegations, AuctionDelegations, DelegationsMatch, Delegated
<1> QED BY <1>1, <1>2, <1>3, <1>4, <1>5, <1>6, <1>7 DEF Next

(* The MARS the auction has is what lockdrop and airdrop recorded as delegated, and no
   user's records there exceed what the auction credits him with, through any
   interleaving of the three, nukes of the lockdrop included. *)
THEOREM DelegationsAgree == Spec => []DelegationsMatch
<1>1. DelegationsInv => DelegationsMatch
  BY DEF DelegationsInv
<1> QED BY <1>1, DelegationsInit, DelegationsNext, PTL DEF Spec

-------------------------------------------------------------------------------
(* The promise *)

\* The finite sets of the launch, as each contract's theorems ask for them.
LEMMA FiniteSets ==
  /\ LD!IsFiniteSet(Users) /\ LD!IsFiniteSet(Durations)
  /\ AD!IsFiniteSet(Users) /\ AD!IsFiniteSet(Auctions)
  /\ \A list \in Lists : AD!IsFiniteSet(list)
  /\ AU!IsFiniteSet(Users) /\ AU!IsFiniteSet(Stakings \union Generators)
<1>1. /\ IsFiniteSet(Users) /\ IsFiniteSet(Durations)
      /\ IsFiniteSet(Stakings \union Generators)
  BY LaunchAssumption, LaunchLockdropAssumption, LaunchAuctionAssumption
<1>2. AD!IsFiniteSet(Auctions)
  <2>1. IsFiniteSet(Auctions)
    BY FS_Singleton DEF Auctions
  <2> QED BY <2>1 DEF IsFiniteSet, AD!IsFiniteSet
<1>3. LD!IsFiniteSet(Users) /\ LD!IsFiniteSet(Durations)
  BY <1>1 DEF IsFiniteSet, LD!IsFiniteSet
<1>4. AD!IsFiniteSet(Users) /\ \A list \in Lists : AD!IsFiniteSet(list)
  BY <1>1, LaunchAirdropAssumption DEF IsFiniteSet, AD!IsFiniteSet
<1>5. AU!IsFiniteSet(Users) /\ AU!IsFiniteSet(Stakings \union Generators)
  BY <1>1 DEF IsFiniteSet, AU!IsFiniteSet
<1> QED BY <1>2, <1>3, <1>4, <1>5

LEMMA LockdropPayments == LD!TypeOK /\ [LD!Next]_(LD!vars) => LD!PaymentsGrow
BY FiniteSets, LD!PaymentsNext, LaunchAssumption, LaunchLockdropAssumption, Zenon
   DEF LD!Addresses

LEMMA AirdropPayments ==
  AD!TypeOK /\ AD!TypeOK' /\ [AD!Next]_(AD!vars) => AD!PaymentsGrow
<1>1. NoAuction \notin Auctions
  BY LaunchAirdropAssumption DEF Auctions
<1> QED BY <1>1, FiniteSets, AD!PaymentsNext, LaunchAssumption, LaunchAirdropAssumption

LEMMA AuctionPayments == AU!VestedInv /\ [AU!Next]_(AU!vars) => AU!PaymentsGrow
BY FiniteSets, AU!PaymentsNext, LaunchAssumption, LaunchAuctionAssumption DEF AU!Contracts

LEMMA LockdropTypes == Spec => []LD!TypeOK
<1>1. LD!Spec => []LD!TypeOK
  BY FiniteSets, LD!TypeCorrect, LaunchAssumption, LaunchLockdropAssumption, Zenon
     DEF LD!Addresses
<1> QED BY <1>1, LaunchRunsLockdrop, PTL

LEMMA AirdropTypes == Spec => []AD!TypeOK
<1>1. NoAuction \notin Auctions
  BY LaunchAirdropAssumption DEF Auctions
<1>2. AD!Spec => []AD!TypeOK
  BY <1>1, FiniteSets, AD!AirdropTypeCorrect, LaunchAssumption, LaunchAirdropAssumption
<1> QED BY <1>2, LaunchRunsAirdrop, PTL

LEMMA AuctionVested == Spec => []AU!VestedInv
<1>1. AU!Spec => []AU!VestedInv
  BY FiniteSets, AU!VestedInvariant, LaunchAssumption, LaunchAuctionAssumption DEF AU!Contracts
<1> QED BY <1>1, LaunchRunsAuction, PTL

Paid == LockdropPaid + AirdropPaid + AuctionPaid

(* What is known of every state of the launch. *)
LaunchKnown ==
  LaunchInv /\ DelegationsInv /\ LD!TypeOK /\ AD!TypeOK /\ AU!VestedInv

LEMMA LaunchIsKnown == Spec => []LaunchKnown
<1>1. Spec => []LaunchInv
  BY LaunchInvInit, LaunchInvNext, PTL DEF Spec
<1>2. Spec => []DelegationsInv
  BY DelegationsInit, DelegationsNext, PTL DEF Spec
<1> QED BY <1>1, <1>2, LockdropTypes, AirdropTypes, AuctionVested, PTL DEF LaunchKnown

\* The three kinds of payments together.
LEMMA SumsGrow ==
  ASSUME NEW a \in Int, NEW b \in Int, NEW c \in Int,
         NEW a1 \in Int, NEW b1 \in Int, NEW c1 \in Int,
         a <= a1, b <= b1, c <= c1
  PROVE  a + b + c \in Int /\ a1 + b1 + c1 \in Int /\ a + b + c <= a1 + b1 + c1
OBVIOUS

LEMMA PaidGrows ==
  LaunchKnown /\ LaunchKnown' /\ [Next]_vars =>
    /\ Paid \in Int /\ Paid' \in Int
    /\ Paid <= Paid'
    /\ ~PoolCreated => Paid' = Paid
<1> SUFFICES ASSUME LaunchKnown, LaunchKnown', [Next]_vars
             PROVE  /\ Paid \in Int /\ Paid' \in Int
                    /\ Paid <= Paid'
                    /\ ~PoolCreated => Paid' = Paid
  OBVIOUS
<1>1. /\ LockdropPaid \in Int /\ LockdropPaid' \in Int
      /\ LockdropPaid <= LockdropPaid'
      /\ ~PoolCreated => LockdropPaid' = LockdropPaid
  <2>1. LD!PaymentsGrow
    BY LockdropPayments, LockdropSteps DEF LaunchKnown
  <2>2. ~PoolCreated => ~lockdropState.are_claims_allowed
    BY DEF LaunchKnown, LaunchInv, ClaimsEnabledTogether
  <2>3. LockdropPaid \in Int /\ LockdropPaid' \in Int
    BY DEF LaunchKnown, LockdropPaid, LD!TypeOK, LD!ConfigRecords, LD!StateRecords,
           LD!BalanceRecords
  <2> QED BY <2>1, <2>2, <2>3 DEF LockdropPaid, LD!PaymentsGrow, LD!MarsPaidOut
<1>2. /\ AirdropPaid \in Int /\ AirdropPaid' \in Int
      /\ AirdropPaid <= AirdropPaid'
      /\ ~PoolCreated => AirdropPaid' = AirdropPaid
  <2>1. AD!PaymentsGrow
    BY AirdropPayments, AirdropSteps DEF LaunchKnown
  <2>2. ~PoolCreated => ~airdropConfig.are_claims_enabled
    BY DEF LaunchKnown, LaunchInv, ClaimsEnabledTogether
  <2> QED BY <2>1, <2>2 DEF AirdropPaid, AD!PaymentsGrow
<1>3. /\ AuctionPaid \in Int /\ AuctionPaid' \in Int
      /\ AuctionPaid <= AuctionPaid'
      /\ ~PoolCreated => AuctionPaid' = AuctionPaid
  <2>1. AU!PaymentsGrow
    BY AuctionPayments, AuctionSteps DEF LaunchKnown
  <2> QED BY <2>1 DEF AuctionPaid, AU!PaymentsGrow, AU!MarsPaidOut, AU!PaidIncentives,
               AU!PaidRewards, PoolCreated
<1>4. /\ Paid = LockdropPaid + AirdropPaid + AuctionPaid
      /\ Paid' = LockdropPaid' + AirdropPaid' + AuctionPaid'
  BY DEF Paid
<1>5. Paid \in Int /\ Paid' \in Int /\ Paid <= Paid'
  BY <1>1, <1>2, <1>3, <1>4, SumsGrow
<1>6. ~PoolCreated => Paid' = Paid
  BY <1>1, <1>2, <1>3, <1>4, Zenon
<1> QED BY <1>5, <1>6

\* The three are open together.
LEMMA OpenTogether ==
  LaunchInv => /\ PoolCreated => OpenParts = LaunchParts
               /\ ~PoolCreated => OpenParts = {}
BY DEF LaunchInv, ClaimsEnabledTogether, OpenParts, LaunchParts

LEMMA PromiseAtFirst == Init => Promise!PromiseInit
<1> SUFFICES ASSUME Init PROVE Promise!PromiseInit
  OBVIOUS
<1>1. LaunchInv
  BY LaunchInvInit
<1>2. /\ auctionState.total_mars_deposited = 0 /\ ~PoolCreated
  BY DEF Init, AU!Init, AU!NoState, PoolCreated, AU!PoolCreated
<1>3. LockdropPaid = 0
  BY LaunchLockdropAssumption DEF Init, LD!Init, LockdropPaid
<1>4. AirdropPaid = 0
  <2>1. NoAuction \notin Auctions
    BY LaunchAirdropAssumption DEF Auctions
  <2>2. AD!Init => AD!Total(received) = 0
    BY <2>1, FiniteSets, AD!NothingPaidAtFirst, LaunchAssumption, LaunchAirdropAssumption
  <2> QED BY <2>2 DEF Init, AirdropPaid
<1>5. AuctionPaid = 0
  <2>1. AU!Init => AU!MarsPaidOut = 0
    BY FiniteSets, AU!NothingPaidAtFirst, LaunchAssumption, LaunchAuctionAssumption
       DEF AU!Contracts
  <2> QED BY <2>1 DEF Init, AuctionPaid, AU!MarsPaidOut, AU!PaidIncentives, AU!PaidRewards
<1> QED BY <1>1, <1>2, <1>3, <1>4, <1>5, OpenTogether DEF Promise!PromiseInit

\* A step that commits nothing and opens nothing stutters or pays.
LEMMA StutterOrPay ==
  LaunchKnown /\ LaunchKnown' /\ [Next]_vars
    /\ auctionState'.total_mars_deposited = auctionState.total_mars_deposited
    /\ PoolCreated' = PoolCreated
  => [Promise!PromiseNext]_(Promise!promise)
<1> SUFFICES ASSUME LaunchKnown, LaunchKnown', [Next]_vars,
                    auctionState'.total_mars_deposited = auctionState.total_mars_deposited,
                    PoolCreated' = PoolCreated
             PROVE  [Promise!PromiseNext]_(Promise!promise)
  OBVIOUS
<1>1. OpenParts' = OpenParts /\ (PoolCreated => OpenParts = LaunchParts)
  <2>1. LaunchInv /\ LaunchInv'
    BY DEF LaunchKnown
  <2>2. /\ PoolCreated => OpenParts = LaunchParts
        /\ ~PoolCreated => OpenParts = {}
    BY <2>1, OpenTogether
  <2>3. (/\ PoolCreated => OpenParts = LaunchParts
         /\ ~PoolCreated => OpenParts = {})'
    BY <2>1, OpenTogether, PTL
  <2> QED BY <2>2, <2>3 DEF LaunchParts
<1>2. Paid' = Paid \/ (PoolCreated /\ Paid < Paid')
  BY PaidGrows
<1> QED BY <1>1, <1>2 DEF Paid, Promise!promise, Promise!PromiseNext, Promise!Pay

LEMMA PromiseStep ==
  LaunchKnown /\ LaunchKnown' /\ [Next]_vars => [Promise!PromiseNext]_(Promise!promise)
<1> SUFFICES ASSUME LaunchKnown, LaunchKnown', [Next]_vars
             PROVE  [Promise!PromiseNext]_(Promise!promise)
  OBVIOUS
<1>1. /\ PoolCreated => OpenParts = LaunchParts
      /\ ~PoolCreated => OpenParts = {}
  BY OpenTogether DEF LaunchKnown
<1>2. (/\ PoolCreated => OpenParts = LaunchParts
       /\ ~PoolCreated => OpenParts = {})'
  <2>1. LaunchInv'
    BY DEF LaunchKnown
  <2> QED BY <2>1, OpenTogether, PTL
<1>3. {"total_mars_deposited", "lp_shares_minted"} \subseteq DOMAIN auctionState
      /\ auctionState.total_mars_deposited \in Nat
  BY DEF LaunchKnown, LaunchInv, DelegationsInv, AuctionDelegations
<1>4. ~PoolCreated => Paid' = Paid
  BY PaidGrows
<1>5. CASE UserDelegates
  <2>1. PICK u \in Users, amount \in 1 .. MaxMars : AU!DepositMarsTokens(u, amount)
    BY <1>5 DEF UserDelegates, DelegateFromLockdrop, DelegateFromAirdrop
  <2>2. now <= AU!MarsDelegationsEnd
    BY <2>1 DEF AU!DepositMarsTokens
  <2>3. AU!VestedInv /\ now <= AU!MarsDelegationsEnd => ~AU!PoolCreated
    BY FiniteSets, AU!NoPoolYet, LaunchAssumption, LaunchAuctionAssumption DEF AU!Contracts
  <2>4. ~PoolCreated
    BY <2>2, <2>3 DEF LaunchKnown, PoolCreated
  <2>5. /\ auctionState'.total_mars_deposited = auctionState.total_mars_deposited + amount
        /\ auctionState'.lp_shares_minted = auctionState.lp_shares_minted
    BY <1>3, <2>1 DEF AU!DepositMarsTokens
  <2>6. ~PoolCreated'
    BY <2>4, <2>5 DEF PoolCreated, AU!PoolCreated
  <2>7. amount \in Nat \ {0}
    BY LaunchAssumption
  <2>8. auctionState'.total_mars_deposited > auctionState.total_mars_deposited
    BY <1>3, <2>5, <2>7
  <2> QED BY <1>1, <1>2, <1>4, <2>4, <2>6, <2>8
          DEF Paid, Promise!promise, Promise!PromiseNext, Promise!Commit
<1>6. CASE OwnerCreatesPool
  <2>1. PICK sender, minted : AU!InitPool(sender, minted)
    BY <1>6 DEF OwnerCreatesPool, CreatePool
  <2>2. /\ ~PoolCreated /\ auctionState.total_mars_deposited > 0
        /\ auctionState'.total_mars_deposited = auctionState.total_mars_deposited
    BY <1>3, <2>1 DEF AU!InitPool, AU!CanInitPool, PoolCreated, AU!PoolCreated
  <2>3. PoolCreated'
    BY <1>3, <2>1 DEF AU!InitPool, AU!CanInitPool, PoolCreated, AU!PoolCreated
  <2> QED BY <1>1, <1>2, <1>4, <2>2, <2>3
          DEF Paid, Promise!promise, Promise!PromiseNext, Promise!Open
<1>7. ASSUME /\ auctionState'.total_mars_deposited = auctionState.total_mars_deposited
             /\ auctionState'.lp_shares_minted = auctionState.lp_shares_minted
      PROVE  [Promise!PromiseNext]_(Promise!promise)
  BY <1>7, StutterOrPay DEF PoolCreated, AU!PoolCreated
<1>8. CASE Tick \/ UNCHANGED vars
  BY <1>7, <1>8 DEF Tick, AU!Tick, vars, auctionVars
<1>9. CASE LockdropStep \/ AirdropStep
  BY <1>7, <1>9 DEF LockdropStep, AirdropStep, auctionVars
<1>10. CASE AuctionStep
  BY <1>3, <1>7, <1>10, AuctionKeepsPool
<1> QED BY <1>5, <1>6, <1>8, <1>9, <1>10 DEF Next

(* The launch implements its promise: whatever the three contracts do, MARS is
   committed only before the pool is created and paid to users only after it, and
   they open for claims in one step, for all windows, users and amounts. *)
THEOREM PromiseKept == Spec => KeepsPromise
<1> QED
  BY PromiseAtFirst, PromiseStep, LaunchIsKnown, PTL DEF Spec, KeepsPromise,
     Promise!PromiseSpec

-------------------------------------------------------------------------------
(* Delegations of users on record *)

LEMMA LockdropRecords == Spec => []LD!RecordsInv
<1>1. LD!Spec => []LD!RecordsInv
  BY FiniteSets, LD!RecordsInvariant, LaunchAssumption, LaunchLockdropAssumption, Zenon
     DEF LD!Addresses
<1> QED BY <1>1, LaunchRunsLockdrop, PTL

\* As long as the lockdrop takes deposits nobody has delegated anything.
LEMMA NothingDelegatedYet ==
  ASSUME LaunchKnown, LD!IsDepositOpen(now), NEW v \in Users
  PROVE  Delegated(v) = auctionUsers[v].mars_deposited
<1>1. /\ LaunchInv /\ DelegationsInv /\ AU!VestedInv
      /\ now \in Nat /\ auctionState.total_mars_deposited \in Nat
  BY DEF LaunchKnown, LaunchInv, DelegationsInv, AuctionDelegations
<1>2. now < AuctionInitTimestamp
  BY <1>1, LaunchLockdropAssumption, LaunchAuctionAssumption, LaunchSchedule
     DEF LD!IsDepositOpen, LD!DepositEnd, LD!WithdrawEnd
<1>3. auctionState.total_mars_deposited = 0
  BY <1>1, <1>2, LaunchAuctionAssumption DEF LaunchInv
<1>4. auctionUsers[v].mars_deposited <= auctionState.total_mars_deposited
  <2>1. AU!VestedInv => \A u \in Users :
          auctionUsers[u].mars_deposited <= auctionState.total_mars_deposited
    BY FiniteSets, AU!NoneAboveTotal, LaunchAssumption, LaunchAuctionAssumption
       DEF AU!Contracts
  <2> QED BY <1>1, <2>1
<1>5. /\ userInfo[v].delegated_mars_incentives \in Nat
      /\ airdropUsers[v].delegated_amount \in Nat
      /\ auctionUsers[v].mars_deposited \in Nat
      /\ Delegated(v) <= auctionUsers[v].mars_deposited
  BY <1>1 DEF DelegationsInv, LockdropDelegations, AirdropDelegations, AuctionDelegations,
       DelegationsMatch
<1> QED BY <1>3, <1>4, <1>5 DEF Delegated

LEMMA RecordedNext ==
  LaunchKnown /\ LaunchKnown' /\ LD!RecordsInv /\ RecordedDelegationsMatch /\ [Next]_vars
    => RecordedDelegationsMatch'
<1> SUFFICES ASSUME LaunchKnown, LaunchKnown', LD!RecordsInv, RecordedDelegationsMatch,
                    [Next]_vars
             PROVE  RecordedDelegationsMatch'
  OBVIOUS
<1>1. /\ LockdropDelegations /\ AirdropDelegations /\ AuctionDelegations
      /\ stored \subseteq Users
  BY DEF LaunchKnown, DelegationsInv, LD!TypeOK
<1>2. CASE UNCHANGED <<userInfo, stored, airdropUsers, auctionUsers>>
  BY <1>2 DEF RecordedDelegationsMatch, Delegated
<1>3. CASE Tick \/ OwnerCreatesPool \/ UNCHANGED vars
  <2>1. UNCHANGED <<userInfo, stored, airdropUsers, auctionUsers>>
    BY <1>3, Zenon DEF Tick, LD!Tick, AD!Tick, AU!Tick, OwnerCreatesPool, CreatePool,
         LD!EnableClaims, AD!EnableClaims, AU!InitPool, vars, lockdropVars, airdropVars,
         auctionVars
  <2> QED BY <1>2, <2>1
<1>4. CASE UserDelegates
  <2>1. PICK u \in Users, amount \in 1 .. MaxMars :
          \/ amount \in MarsAmounts /\ DelegateFromLockdrop(u, amount)
          \/ DelegateFromAirdrop(u, amount)
    BY <1>4 DEF UserDelegates
  <2>2. amount \in Nat
    BY LaunchAssumption
  <2>3. auctionUsers' = [auctionUsers EXCEPT ![u].mars_deposited = @ + amount]
    BY <2>1 DEF DelegateFromLockdrop, DelegateFromAirdrop, AU!DepositMarsTokens
  <2>4. ASSUME NEW v \in Users
        PROVE  auctionUsers'[v].mars_deposited
                 = auctionUsers[v].mars_deposited + IF v = u THEN amount ELSE 0
    BY <1>1, <2>2, <2>3 DEF AuctionDelegations
  <2>5. CASE amount \in MarsAmounts /\ DelegateFromLockdrop(u, amount)
    <3>1. LD!RecordsInv =>
            \A w \in Users, n \in MarsAmounts :
              LD!DepositMarsToAuction(w, n) =>
                /\ stored' = stored
                /\ \A v \in Users :
                     userInfo'[v].delegated_mars_incentives
                       = userInfo[v].delegated_mars_incentives + IF v = w THEN n ELSE 0
      BY FiniteSets, LD!DelegationsKeepRecords, LaunchAssumption, LaunchLockdropAssumption,
         Zenon DEF LD!Addresses
    <3>2. LD!DepositMarsToAuction(u, amount) /\ UNCHANGED airdropUsers
      BY <2>5 DEF DelegateFromLockdrop, airdropVars
    <3>3. /\ stored' = stored
          /\ \A v \in Users :
               userInfo'[v].delegated_mars_incentives
                 = userInfo[v].delegated_mars_incentives + IF v = u THEN amount ELSE 0
      BY <2>5, <3>1, <3>2
    <3>4. ASSUME NEW v \in stored PROVE Delegated(v)' = auctionUsers'[v].mars_deposited
      <4>1. v \in Users /\ Delegated(v) = auctionUsers[v].mars_deposited
        BY <1>1 DEF RecordedDelegationsMatch
      <4>2. /\ userInfo[v].delegated_mars_incentives \in Nat
            /\ airdropUsers[v].delegated_amount \in Nat
            /\ auctionUsers[v].mars_deposited \in Nat
        BY <1>1, <4>1 DEF LockdropDelegations, AirdropDelegations, AuctionDelegations
      <4> QED BY <2>2, <2>4, <3>2, <3>3, <4>1, <4>2 DEF Delegated
    <3> QED BY <3>3, <3>4 DEF RecordedDelegationsMatch
  <2>6. CASE DelegateFromAirdrop(u, amount)
    <3>1. /\ airdropUsers' = [airdropUsers EXCEPT ![u].delegated_amount = @ + amount]
          /\ UNCHANGED <<userInfo, stored>>
      BY <2>6 DEF DelegateFromAirdrop, AD!DelegateMarsToBootstrapAuction, lockdropVars
    <3>2. ASSUME NEW v \in stored PROVE Delegated(v)' = auctionUsers'[v].mars_deposited
      <4>1. v \in Users /\ Delegated(v) = auctionUsers[v].mars_deposited
        BY <1>1 DEF RecordedDelegationsMatch
      <4>2. /\ userInfo[v].delegated_mars_incentives \in Nat
            /\ airdropUsers[v].delegated_amount \in Nat
            /\ auctionUsers[v].mars_deposited \in Nat
        BY <1>1, <4>1 DEF LockdropDelegations, AirdropDelegations, AuctionDelegations
      <4>3. airdropUsers'[v].delegated_amount
              = airdropUsers[v].delegated_amount + IF v = u THEN amount ELSE 0
        BY <1>1, <2>2, <3>1, <4>1 DEF AirdropDelegations
      <4> QED BY <2>2, <2>4, <3>1, <4>1, <4>2, <4>3 DEF Delegated
    <3> QED BY <3>1, <3>2 DEF RecordedDelegationsMatch
  <2> QED BY <2>1, <2>5, <2>6
<1>5. CASE LockdropStep
  <2>1. UNCHANGED <<airdropUsers, auctionUsers>>
    BY <1>5 DEF LockdropStep, airdropVars, auctionVars
  <2>2. LD!RecordsKept
    <3>1. LD!RecordsInv /\ (\/ LD!AdminStep
                            \/ \E amount \in MarsAmounts : LD!IncreaseMarsIncentives(amount)
                            \/ LD!UserStep
                            \/ LD!NukeLockdrop)
          => LD!RecordsKept
      BY FiniteSets, LD!OwnStepsKeepRecords, LaunchAssumption, LaunchLockdropAssumption,
         Zenon DEF LD!Addresses
    <3> QED BY <1>5, <3>1, Zenon DEF LockdropStep
  <2>3. stored' \subseteq Users
    BY DEF LaunchKnown, LD!TypeOK
  <2>4. ASSUME NEW v \in stored' PROVE Delegated(v)' = auctionUsers'[v].mars_deposited
    <3>1. v \in Users
      BY <2>3
    <3>2. /\ v \in stored \/ LD!IsDepositOpen(now)
          /\ userInfo'[v].delegated_mars_incentives = userInfo[v].delegated_mars_incentives
      BY <2>2, <2>4, <3>1 DEF LD!RecordsKept, LD!KeepsRecord
    <3>3. Delegated(v) = auctionUsers[v].mars_deposited
      BY <3>1, <3>2, NothingDelegatedYet DEF RecordedDelegationsMatch
    <3> QED BY <2>1, <3>2, <3>3 DEF Delegated
  <2> QED BY <2>4 DEF RecordedDelegationsMatch
<1>6. CASE AirdropStep
  <2>1. UNCHANGED <<userInfo, stored, auctionUsers>>
    BY <1>6 DEF AirdropStep, lockdropVars, auctionVars
  <2>2. \A u \in Users : airdropUsers'[u].delegated_amount
                            = airdropUsers[u].delegated_amount
    BY <1>1, <1>6, AirdropKeepsDelegations
  <2> QED BY <1>1, <2>1, <2>2 DEF RecordedDelegationsMatch, Delegated
<1>7. CASE AuctionStep
  <2>1. UNCHANGED <<userInfo, stored, airdropUsers>>
    BY <1>7 DEF AuctionStep, lockdropVars, airdropVars
  <2>2. \A u \in Users : auctionUsers'[u].mars_deposited = auctionUsers[u].mars_deposited
    BY <1>1, <1>7, AuctionKeepsDelegations
  <2> QED BY <1>1, <2>1, <2>2 DEF RecordedDelegationsMatch, Delegated
<1> QED BY <1>3, <1>4, <1>5, <1>6, <1>7, Zenon DEF Next

(* Of a user on record the lockdrop and the airdrop know exactly the MARS the auction
   credits him with: a nuke forgets what he delegated only together with him, and he
   cannot come back once anything could have been delegated. *)
THEOREM RecordsAgree == Spec => []RecordedDelegationsMatch
<1>1. Init => RecordedDelegationsMatch
  BY DEF Init, LD!Init, RecordedDelegationsMatch
<1> QED BY <1>1, RecordedNext, LaunchIsKnown, LockdropRecords, PTL DEF Spec

-------------------------------------------------------------------------------
(* The creation of the pool *)

LEMMA AuctionCreatable == Spec => []AU!PoolCreatable
<1>1. AU!Spec => []AU!PoolCreatable
  BY FiniteSets, AU!PoolCreatableHolds, LaunchAssumption, LaunchAuctionAssumption
     DEF AU!Contracts
<1> QED BY <1>1, LaunchRunsAuction, PTL

(* Once the auction is due and the two others know its address, none of the three
   refuses its part of creating the pool: the MARS and the UST are there, both have
   yet to enable claims, and the lockdrop's windows are over. *)
THEOREM LaunchCreatesPool == Spec => []PoolCreatable
<1>1. LaunchInv /\ AU!PoolCreatable => PoolCreatable
  <2> SUFFICES ASSUME LaunchInv, AU!PoolCreatable,
                      AU!AreWindowsClosed(now), ~PoolCreated,
                      auctionConfig.astroport_lp_pool # NoPool,
                      auctionState.total_mars_deposited > 0, AU!UstForPool > 0,
                      "auction_contract_address" \in lockdropConfig.known,
                      airdropConfig.auction_contract_address = TheAuction,
                      NEW minted \in LpMintChoices \ {0}
               PROVE  /\ AU!CanInitPool(auctionConfig.owner, minted)
                      /\ LD!CanEnableClaims
                      /\ AD!CanEnableClaims(TheAuction)
    BY DEF PoolCreatable
  <2>1. AU!CanInitPool(auctionConfig.owner, minted)
    BY DEF AU!PoolCreatable, PoolCreated
  <2>2. ~lockdropState.are_claims_allowed /\ ~airdropConfig.are_claims_enabled
    BY DEF LaunchInv, ClaimsEnabledTogether
  <2>3. AuctionInitTimestamp <= now /\ now \in Nat
    BY DEF LaunchInv
  <2>4. now > AuctionInitTimestamp
    BY <2>3, LaunchAuctionAssumption DEF AU!AreWindowsClosed, AU!UstDepositsEnd
  <2>5. ~LD!IsWithdrawOpen(now)
    BY <2>3, <2>4, LaunchLockdropAssumption, LaunchAuctionAssumption, LaunchSchedule
       DEF LD!IsWithdrawOpen, LD!WithdrawEnd, LD!DepositEnd
  <2> QED BY <2>1, <2>2, <2>5 DEF LD!CanEnableClaims, AD!CanEnableClaims, Auctions
<1>2. Spec => []LaunchInv
  BY LaunchInvInit, LaunchInvNext, PTL DEF Spec
<1> QED BY <1>1, <1>2, AuctionCreatable, PTL

-------------------------------------------------------------------------------
(* Rewards in the launch *)

(* In the launch the lockdrop can always pay the MARS of all its users: claims wait
   for its windows because the auction, which enables them, starts no earlier. *)
THEOREM LaunchFundsRewards == Spec => []LD!RewardsFunded
<1>1. LD!Spec /\ []LD!ClaimsOnlyAfterWindows => []LD!RewardsFunded
  BY FiniteSets, LD!RewardsAreFunded, LaunchAssumption, LaunchLockdropAssumption, Zenon
     DEF LD!Addresses
<1>2. ClaimsEnabledTogether => LD!ClaimsOnlyAfterWindows
  BY DEF ClaimsEnabledTogether
<1> QED BY <1>1, <1>2, LaunchRunsLockdrop, ClaimsAreEnabledTogether, PTL
===============================================================================
