------------------------------- MODULE Lockdrop -------------------------------
(***************************************************************************)
(* The lockdrop contract.  Users lock UST for a chosen duration while the  *)
(* deposit window is open and may take part of it back until the           *)
(* withdrawal window closes.  The owner then moves all of it to the Red    *)
(* Bank in exchange for maUST.  Each position earns a share of the MARS    *)
(* incentives, which its user may delegate to the auction until the        *)
(* auction enables claims, and a share of the xMARS that accrues on the    *)
(* maUST.                                                                  *)
(*                                                                         *)
(* One action is one successful transaction: the entry point, the messages *)
(* it emits and the callbacks those trigger, which the chain runs in order *)
(* and commits or reverts together.  A condition under which the code      *)
(* returns an error or panics, in the entry point or in a later message,   *)
(* disables the action.                                                    *)
(***************************************************************************)
EXTENDS Tax, Totals

CONSTANTS
  Users,                   \* depositors, named by their rank in address order
  Durations,               \* the durations listed in config.lockup_durations
  Boost,                   \* boost of each of those durations
  Owners,                  \* accounts that may own the contract
  InitTimestamp, DepositWindow, WithdrawalWindow, SecondsPerDurationUnit,
  NukeBatchSize,           \* users one NukeLockdrop call handles
  ConfigUpdates,           \* sets of addresses one UpdateConfig call may set
  MarsAmounts,             \* amounts a call that moves MARS may name
  MintChoices,             \* maUST the Red Bank may mint for the deposit
  XmarsAccruals,           \* xMARS a claim may bring from the incentives contract
  MaxTime, MaxUst, MaxMars, MaxXmars   \* bounds on the clock and the amounts

VARIABLES
  now,       \* block time
  config,    \* CONFIG: owner, addresses set so far, MARS incentives
  state,     \* STATE
  userInfo,  \* USER_INFO, the default record where nothing is stored
  stored,    \* the keys of USER_INFO
  lockup,    \* LOCKUP_INFO by lockup id, the default record where nothing is stored
  balance    \* tokens the chain holds for this contract

vars == <<now, config, state, userInfo, stored, lockup, balance>>

Addresses == {"address_provider", "ma_ust_token", "auction_contract_address"}

ASSUME LockdropAssumption ==
  /\ Users \subseteq Nat /\ IsFiniteSet(Users)
  /\ Durations \subseteq Nat \ {0} /\ IsFiniteSet(Durations)
  /\ Boost \in [Durations -> Nat]
  /\ InitTimestamp \in Nat /\ SecondsPerDurationUnit \in Nat \ {0}
  /\ WithdrawalWindow \in Nat \ {0} /\ DepositWindow \in Nat
  /\ WithdrawalWindow < DepositWindow
  /\ NukeBatchSize \in Nat \ {0}
  /\ ConfigUpdates \subseteq SUBSET Addresses
  /\ MarsAmounts \subseteq Nat /\ MintChoices \subseteq Nat
  /\ XmarsAccruals \subseteq Nat
  /\ MaxTime \in Nat /\ MaxUst \in Nat /\ MaxMars \in Nat /\ MaxXmars \in Nat

LockupIds == Users \X Durations

NoUser ==
  [total_ust_locked |-> 0, total_maust_share |-> 0, lockup_positions |-> {},
   total_mars_incentives |-> 0, delegated_mars_incentives |-> 0,
   lockdrop_claimed |-> FALSE, reward_index |-> 0, total_xmars_claimed |-> 0]

NoLockup ==
  [duration |-> 0, ust_locked |-> 0, lockdrop_reward |-> 0,
   withdrawal_flag |-> FALSE]

-------------------------------------------------------------------------------
(* Windows *)

DepositEnd == InitTimestamp + DepositWindow

WithdrawEnd == DepositEnd + WithdrawalWindow

\* Mutation: deposits open with the window and never close.
IsDepositOpenOnceStarted(t) == InitTimestamp <= t

IsDepositOpen(t) == InitTimestamp <= t /\ t <= DepositEnd

IsWithdrawOpen(t) == InitTimestamp <= t /\ t <= WithdrawEnd

UnlockTimestamp(d) == WithdrawEnd + d * SecondsPerDurationUnit

HalfWindowEnd == DepositEnd + (WithdrawalWindow \div 2)

\* Mutation: the linear decrease to nothing is forgotten.
FlatWithdrawalPercent(t) == IF t < DepositEnd THEN One ELSE FromRatio(50, 100)

\* Mutation: the ratio is built upside down.
InvertedWithdrawalPercent(t) == IF t < DepositEnd THEN One ELSE FromRatio(100, 50)

\* Everything before the deposit window ends, half until the middle of the
\* withdrawal window, then a share that falls linearly from one half to nothing.
AllowedWithdrawalPercent(t) ==
  IF t < DepositEnd THEN One
  ELSE IF t <= HalfWindowEnd THEN FromRatio(50, 100)
  ELSE IF t < WithdrawEnd
    THEN FromRatio(50 * (WithdrawEnd - t), 100 * (WithdrawEnd - HalfWindowEnd))
  ELSE 0

-------------------------------------------------------------------------------
(* Computations *)

CalculateWeight(amount, d) == amount * Boost[d]

\* Mutation: the weight is divided by the UST total instead of the total weight.
MarsIncentivesPerUst(amount, d) ==
  IF state.total_ust_locked = 0 THEN 0
  ELSE MulFloor(config.lockdrop_incentives,
                FromRatio(CalculateWeight(amount, d), state.total_ust_locked))

MarsIncentivesForLockup(amount, d) ==
  IF state.total_deposits_weight = 0 THEN 0
  ELSE MulFloor(config.lockdrop_incentives,
                FromRatio(CalculateWeight(amount, d), state.total_deposits_weight))

\* Mutation: the share is rounded up.
MaUstShareRoundedUp(ust) ==
  IF state.final_ust_locked = 0 THEN 0
  ELSE (state.final_maust_locked * ust + state.final_ust_locked - 1)
          \div state.final_ust_locked

MaUstShare(ust) ==
  IF state.final_ust_locked = 0 THEN 0
  ELSE MulFloor(state.final_maust_locked, FromRatio(ust, state.final_ust_locked))

PositionRewards(u) ==
  [id \in userInfo[u].lockup_positions |->
     MarsIncentivesForLockup(lockup[id].ust_locked, id[2])]

\* Mutation: the share is taken of the maUST left instead of the maUST minted.
ProvisionedFromMaUstLeft(u) ==
  LET info == userInfo[u] IN
  [info EXCEPT
     !.total_maust_share =
        IF @ # 0 \/ state.final_ust_locked = 0 THEN @
        ELSE MulFloor(state.total_maust_locked,
                      FromRatio(info.total_ust_locked, state.final_ust_locked)),
     !.total_mars_incentives =
        IF @ = 0 THEN Total(PositionRewards(u)) ELSE @]

\* Mutation: the MARS reward is computed anew each time.
ProvisionedAnew(u) ==
  LET info == userInfo[u] IN
  [info EXCEPT
     !.total_maust_share =
        IF @ = 0 THEN MaUstShare(info.total_ust_locked) ELSE @,
     !.total_mars_incentives = Total(PositionRewards(u))]

\* USER_INFO[u] after the lazy computations every delegation and claim starts with.
Provisioned(u) ==
  LET info == userInfo[u] IN
  [info EXCEPT
     !.total_maust_share =
        IF @ = 0 THEN MaUstShare(info.total_ust_locked) ELSE @,
     !.total_mars_incentives =
        IF @ = 0 THEN Total(PositionRewards(u)) ELSE @]

\* LOCKUP_INFO after them.
RewardedLockups(u) ==
  [id \in LockupIds |->
     IF /\ userInfo[u].total_mars_incentives = 0
        /\ id \in userInfo[u].lockup_positions
     THEN [lockup[id] EXCEPT !.lockdrop_reward = PositionRewards(u)[id]]
     ELSE lockup[id]]

XmarsIndexAfter(accrued) ==
  IF accrued = 0 \/ state.total_maust_locked = 0
  THEN state.xmars_rewards_index
  ELSE state.xmars_rewards_index + FromRatio(accrued, state.total_maust_locked)

AccruedXmars(share, from, to) ==
  IF state.final_ust_locked = 0 THEN 0
  ELSE MulFloor(share, to) - MulFloor(share, from)

-------------------------------------------------------------------------------
(* Configuration and funding *)

Init ==
  /\ now \in {0, InitTimestamp}
  /\ \E owner \in Owners, known \in SUBSET {"address_provider", "ma_ust_token"} :
        config = [owner |-> owner, known |-> known, lockdrop_incentives |-> 0]
  /\ state = [final_ust_locked |-> 0, final_maust_locked |-> 0,
              total_ust_locked |-> 0, total_maust_locked |-> 0,
              total_deposits_weight |-> 0, total_mars_delegated |-> 0,
              are_claims_allowed |-> FALSE, xmars_rewards_index |-> 0]
  /\ userInfo = [u \in Users |-> NoUser]
  /\ stored = {}
  /\ lockup = [id \in LockupIds |-> NoLockup]
  /\ balance = [uusd |-> 0, maust |-> 0, mars |-> 0, xmars |-> 0]

Tick ==
  /\ now < MaxTime
  /\ now' = now + 1
  /\ UNCHANGED <<config, state, userInfo, stored, lockup, balance>>

UpdateConfig(sender, addresses, newOwner) ==
  /\ sender = config.owner
  /\ config' = [config EXCEPT !.known = @ \union addresses, !.owner = newOwner]
  /\ UNCHANGED <<now, state, userInfo, stored, lockup, balance>>

IncreaseMarsIncentives(amount) ==
  /\ amount > 0
  /\ "address_provider" \in config.known
  /\ now < WithdrawEnd
  /\ config.lockdrop_incentives + amount <= MaxMars
  /\ config' = [config EXCEPT !.lockdrop_incentives = @ + amount]
  /\ balance' = [balance EXCEPT !.mars = @ + amount]
  /\ UNCHANGED <<now, state, userInfo, stored, lockup>>

-------------------------------------------------------------------------------
(* Deposits and withdrawals *)

DepositUst(u, d, amount) ==
  LET id   == <<u, d>>
      pos  == lockup[id]
      info == userInfo[u] IN
  /\ IsDepositOpen(now)
  /\ amount > 0
  /\ balance.uusd + amount <= MaxUst
  /\ lockup' = [lockup EXCEPT ![id] =
       [pos EXCEPT !.duration = d, !.ust_locked = @ + amount]]
  /\ userInfo' = [userInfo EXCEPT ![u] =
       [info EXCEPT !.total_ust_locked = @ + amount,
                    !.lockup_positions =
                       IF pos.duration = 0 THEN @ \union {id} ELSE @]]
  /\ stored' = stored \union {u}
  /\ state' = [state EXCEPT
       !.total_ust_locked = @ + amount,
       !.total_deposits_weight = @ + CalculateWeight(amount, d)]
  /\ balance' = [balance EXCEPT !.uusd = @ + amount]
  /\ UNCHANGED <<now, config>>

\* Mutation: an emptied position is saved instead of removed.
CloseLockupBySaving(id) == [lockup[id] EXCEPT !.ust_locked = 0]

\* LOCKUP_INFO[id] once its UST is gone.
CloseLockup(id) == NoLockup

\* The amount leaves the records in full, and the user is sent what is left of
\* it after tax.  The chain refuses to send nothing.
WithdrawUst(u, d, amount) ==
  LET id   == <<u, d>>
      pos  == lockup[id]
      info == userInfo[u]
      left == pos.ust_locked - amount
      sent == DeductTax(amount)
      late == now >= DepositEnd IN
  /\ IsWithdrawOpen(now)
  /\ pos.ust_locked # 0
  /\ amount <= MulFloor(pos.ust_locked, AllowedWithdrawalPercent(now))
  /\ late => ~pos.withdrawal_flag
  /\ amount <= info.total_ust_locked
  /\ amount <= state.total_ust_locked
  /\ CalculateWeight(amount, d) <= state.total_deposits_weight
  /\ left = 0 => id \in info.lockup_positions
  /\ 0 < sent
  /\ sent + ChainTax(sent) <= balance.uusd
  /\ lockup' = [lockup EXCEPT ![id] =
       IF left = 0 THEN CloseLockup(id)
       ELSE [pos EXCEPT !.ust_locked = left,
                        !.withdrawal_flag = IF late THEN TRUE ELSE @]]
  /\ userInfo' = [userInfo EXCEPT ![u] =
       [info EXCEPT !.total_ust_locked = @ - amount,
                    !.lockup_positions = IF left = 0 THEN @ \ {id} ELSE @]]
  /\ stored' = stored \union {u}
  /\ state' = [state EXCEPT
       !.total_ust_locked = @ - amount,
       !.total_deposits_weight = @ - CalculateWeight(amount, d)]
  /\ balance' = [balance EXCEPT !.uusd = @ - sent - ChainTax(sent)]
  /\ UNCHANGED <<now, config>>

-------------------------------------------------------------------------------
(* Red Bank deposit, delegation and claims *)

\* What the lockdrop checks when it is told to enable claims.
CanEnableClaims ==
  /\ "auction_contract_address" \in config.known
  /\ ~IsWithdrawOpen(now)
  /\ ~state.are_claims_allowed

\* The auction contract calls this from the transaction that creates the pool.
EnableClaims ==
  /\ CanEnableClaims
  /\ state' = [state EXCEPT !.are_claims_allowed = TRUE]
  /\ UNCHANGED <<now, config, userInfo, stored, lockup, balance>>

\* Mutation: the total is reset before it is copied.
StateAfterRedBankResetFirst(minted) ==
  [state EXCEPT !.final_ust_locked = 0,
                !.final_maust_locked = minted,
                !.total_ust_locked = 0,
                !.total_maust_locked = minted]

StateAfterRedBank(minted) ==
  [state EXCEPT !.final_ust_locked = state.total_ust_locked,
                !.final_maust_locked = minted,
                !.total_ust_locked = 0,
                !.total_maust_locked = minted]

\* The deposit message and the callback that records what the Red Bank minted.
\* What is left of the UST after tax is deposited, all of it is recorded.  The
\* chain refuses to send nothing.
DepositUstInRedBank(sender, minted) ==
  LET sent == DeductTax(state.total_ust_locked) IN
  /\ sender = config.owner
  /\ {"address_provider", "ma_ust_token"} \subseteq config.known
  /\ now >= InitTimestamp /\ ~IsWithdrawOpen(now)
  /\ state.final_maust_locked = 0
  /\ 0 < sent
  /\ sent + ChainTax(sent) <= balance.uusd
  /\ state' = StateAfterRedBank(minted)
  /\ balance' = [balance EXCEPT !.uusd = @ - sent - ChainTax(sent),
                                !.maust = @ + minted]
  /\ UNCHANGED <<now, config, userInfo, stored, lockup>>

\* The MARS is sent on to the auction, which refuses a deposit of nothing.
DepositMarsToAuction(u, amount) ==
  LET info == Provisioned(u) IN
  /\ now >= WithdrawEnd
  /\ ~state.are_claims_allowed
  /\ {"address_provider", "auction_contract_address"} \subseteq config.known
  /\ userInfo[u].lockup_positions # {}
  /\ 0 < amount
  /\ amount <= info.total_mars_incentives - info.delegated_mars_incentives
  /\ amount <= balance.mars
  /\ userInfo' = [userInfo EXCEPT ![u] =
       [info EXCEPT !.delegated_mars_incentives = @ + amount]]
  /\ stored' = stored \union {u}
  /\ lockup' = RewardedLockups(u)
  /\ state' = [state EXCEPT !.total_mars_delegated = @ + amount]
  /\ balance' = [balance EXCEPT !.mars = @ - amount]
  /\ UNCHANGED <<now, config>>

\* Mutation: delegated MARS is paid out again.
MarsDueWithDelegation(info) ==
  IF info.lockdrop_claimed THEN 0 ELSE info.total_mars_incentives

\* MARS a claim pays: all that was not delegated, once.
MarsDue(info) ==
  IF info.lockdrop_claimed THEN 0
  ELSE info.total_mars_incentives - info.delegated_mars_incentives

\* xMARS a claim pays when it finds info and brings accrued.
XmarsDue(info, accrued) ==
  AccruedXmars(info.total_maust_share, info.reward_index, XmarsIndexAfter(accrued))

XmarsClaimed == [u \in Users |-> userInfo[u].total_xmars_claimed]

\* Mutation: the user's index is left where it was.
SettledWithoutIndex(info, accrued) ==
  [info EXCEPT
     !.total_xmars_claimed = @ + XmarsDue(info, accrued),
     !.lockdrop_claimed = @ \/ MarsDue(info) > 0]

\* The user's record after the UpdateStateOnClaim callback.
Settled(info, accrued) ==
  [info EXCEPT
     !.reward_index =
        IF state.final_ust_locked = 0 THEN @ ELSE XmarsIndexAfter(accrued),
     !.total_xmars_claimed = @ + XmarsDue(info, accrued),
     !.lockdrop_claimed = @ \/ MarsDue(info) > 0]

\* What the entry point and the UpdateStateOnClaim callback check before paying
\* the user.  xMARS only accrues to a contract that has held maUST.
ClaimAllowed(u, accrued) ==
  LET info == Provisioned(u) IN
  /\ "address_provider" \in config.known
  /\ userInfo[u].total_ust_locked # 0
  /\ state.are_claims_allowed
  /\ accrued > 0 => state.final_maust_locked > 0
  /\ balance.xmars + accrued + Total(XmarsClaimed) <= MaxXmars
  /\ XmarsDue(info, accrued) >= 0
  /\ XmarsDue(info, accrued) <= balance.xmars + accrued
  /\ info.delegated_mars_incentives <= info.total_mars_incentives
  /\ MarsDue(info) <= balance.mars

BalanceAfterClaim(u, accrued) ==
  LET info == Provisioned(u) IN
  [balance EXCEPT !.mars = @ - MarsDue(info),
                  !.xmars = @ + accrued - XmarsDue(info, accrued)]

\* ClaimRewardsAndUnlock without a position to unlock; anyone may send it for u.
ClaimRewards(u, accrued) ==
  /\ ClaimAllowed(u, accrued)
  /\ userInfo' = [userInfo EXCEPT ![u] = Settled(Provisioned(u), accrued)]
  /\ stored' = stored \union {u}
  /\ lockup' = RewardedLockups(u)
  /\ state' = [state EXCEPT !.xmars_rewards_index = XmarsIndexAfter(accrued)]
  /\ balance' = BalanceAfterClaim(u, accrued)
  /\ UNCHANGED <<now, config>>

\* ClaimRewardsAndUnlock with one: the DissolvePosition callback runs after the
\* claim.  The cw20 token refuses to transfer nothing.
ClaimRewardsAndUnlock(u, d, accrued) ==
  LET id     == <<u, d>>
      info   == Settled(Provisioned(u), accrued)
      refund == MaUstShare(lockup[id].ust_locked) IN
  /\ ClaimAllowed(u, accrued)
  /\ lockup[id].ust_locked # 0
  /\ id \in info.lockup_positions
  /\ "ma_ust_token" \in config.known
  /\ 0 < refund
  /\ refund <= state.total_maust_locked
  /\ refund <= info.total_maust_share
  /\ refund <= balance.maust
  /\ userInfo' = [userInfo EXCEPT ![u] =
       [info EXCEPT !.total_maust_share = @ - refund,
                    !.lockup_positions = @ \ {id}]]
  /\ stored' = stored \union {u}
  /\ lockup' = [RewardedLockups(u) EXCEPT ![id] = CloseLockup(id)]
  /\ state' = [state EXCEPT !.xmars_rewards_index = XmarsIndexAfter(accrued),
                            !.total_maust_locked = @ - refund]
  /\ balance' = [BalanceAfterClaim(u, accrued) EXCEPT !.maust = @ - refund]
  /\ UNCHANGED <<now, config>>

-------------------------------------------------------------------------------
(* Nuke: refund the maUST of the first users in address order *)

NukeBatch ==
  {u \in stored : Cardinality({v \in stored : v < u}) < NukeBatchSize}

\* The users of the batch that still have UST on record; the others are dropped.
Nuked == {u \in NukeBatch : userInfo[u].total_ust_locked # 0}

NukedUst(u) ==
  Total([id \in userInfo[u].lockup_positions |-> lockup[id].ust_locked])

NukedMaUst(u) ==
  Total([id \in userInfo[u].lockup_positions |-> MaUstShare(lockup[id].ust_locked)])

LockupsAfterNuke ==
  [id \in LockupIds |->
     IF \E u \in Nuked : id \in userInfo[u].lockup_positions
     THEN CloseLockup(id) ELSE lockup[id]]

NukeLockdrop ==
  LET refunds == Total([u \in Nuked |-> NukedMaUst(u)])
      removed == {u \in NukeBatch : \/ u \notin Nuked
                                    \/ userInfo[u].total_ust_locked = NukedUst(u)} IN
  /\ \A u \in Nuked : /\ NukedUst(u) <= userInfo[u].total_ust_locked
                       /\ NukedMaUst(u) <= userInfo[u].total_maust_share
  /\ refunds <= state.total_maust_locked
  /\ refunds <= balance.maust
  /\ refunds > 0 => "ma_ust_token" \in config.known
  /\ lockup' = LockupsAfterNuke
  /\ userInfo' = [u \in Users |->
       IF u \in removed THEN NoUser
       ELSE IF u \in Nuked
         THEN [userInfo[u] EXCEPT !.total_ust_locked = @ - NukedUst(u),
                                  !.total_maust_share = @ - NukedMaUst(u),
                                  !.lockup_positions = {}]
       ELSE userInfo[u]]
  /\ stored' = stored \ removed
  /\ state' = [state EXCEPT !.total_maust_locked = @ - refunds]
  /\ balance' = [balance EXCEPT !.maust = @ - refunds]
  /\ UNCHANGED <<now, config>>

-------------------------------------------------------------------------------

AdminStep ==
  \E sender \in Owners :
     \/ \E addresses \in ConfigUpdates, newOwner \in Owners :
           UpdateConfig(sender, addresses, newOwner)
     \/ \E minted \in MintChoices : DepositUstInRedBank(sender, minted)

UserStep ==
  \E u \in Users :
     \/ \E d \in Durations, amount \in 1 .. MaxUst : DepositUst(u, d, amount)
     \/ \E d \in Durations, amount \in 0 .. MaxUst : WithdrawUst(u, d, amount)
     \/ \E accrued \in XmarsAccruals : ClaimRewards(u, accrued)
     \/ \E d \in Durations, accrued \in XmarsAccruals :
           ClaimRewardsAndUnlock(u, d, accrued)

UserDelegates ==
  \E u \in Users, amount \in MarsAmounts : DepositMarsToAuction(u, amount)

Next ==
  \/ Tick
  \/ AdminStep
  \/ \E amount \in MarsAmounts : IncreaseMarsIncentives(amount)
  \/ UserStep
  \/ UserDelegates
  \/ EnableClaims
  \/ NukeLockdrop

Spec == Init /\ [][Next]_vars

\* A launch that goes as the deployment plans it: the auction creates its pool,
\* and so enables claims, after this contract's windows close, and nobody calls
\* NukeLockdrop.
OrderlyNext ==
  \/ Tick
  \/ AdminStep
  \/ \E amount \in MarsAmounts : IncreaseMarsIncentives(amount)
  \/ UserStep
  \/ UserDelegates
  \/ now > WithdrawEnd /\ EnableClaims

OrderlySpec == Init /\ [][OrderlyNext]_vars

===============================================================================
