-------------------------- MODULE LockdropProperties --------------------------
(* What the lockdrop contract promises, and what its documentation says of it. *)
EXTENDS Lockdrop

ConfigRecords ==
  [owner : Owners, known : SUBSET Addresses, lockdrop_incentives : Nat]

StateRecords ==
  [final_ust_locked : Nat, final_maust_locked : Nat,
   total_ust_locked : Nat, total_maust_locked : Nat,
   total_deposits_weight : Nat, total_mars_delegated : Nat,
   are_claims_allowed : BOOLEAN, xmars_rewards_index : Nat]

UserRecords ==
  [total_ust_locked : Nat, total_maust_share : Nat,
   lockup_positions : SUBSET LockupIds,
   total_mars_incentives : Nat, delegated_mars_incentives : Nat,
   lockdrop_claimed : BOOLEAN, reward_index : Nat, total_xmars_claimed : Nat]

LockupRecords ==
  [duration : Nat, ust_locked : Nat, lockdrop_reward : Nat,
   withdrawal_flag : BOOLEAN]

BalanceRecords == [uusd : Nat, maust : Nat, mars : Nat, xmars : Nat]

(* Every stored value has its type; no checked subtraction went below zero. *)
TypeOK ==
  /\ now \in Nat
  /\ config \in ConfigRecords
  /\ state \in StateRecords
  /\ userInfo \in [Users -> UserRecords]
  /\ stored \subseteq Users
  /\ lockup \in [LockupIds -> LockupRecords]
  /\ balance \in BalanceRecords

-------------------------------------------------------------------------------
(* Positions and UST *)

UserTotals == [u \in Users |-> userInfo[u].total_ust_locked]

PositionsUst == [id \in LockupIds |-> lockup[id].ust_locked]

\* UST on record as taken in and not given back before the Red Bank deposit; the
\* maUST of a position is the fraction of it that the position makes up.
Principal ==
  IF state.final_ust_locked = 0 THEN state.total_ust_locked
  ELSE state.final_ust_locked

(* USER_INFO.lockup_positions and LOCKUP_INFO never disagree: a user lists an
   id exactly when a nonempty position with that duration is stored under it.
   Deposits create the pair, withdrawals, unlocks and nukes remove it. *)
PositionsMatchLockups ==
  \A id \in LockupIds :
    /\ id \in userInfo[id[1]].lockup_positions <=> lockup[id].ust_locked > 0
    /\ lockup[id].duration = IF lockup[id].ust_locked > 0 THEN id[2] ELSE 0
    /\ lockup[id].ust_locked > 0 => id[1] \in stored

(* UST is never credited twice, whatever the interleaving of deposits,
   withdrawals, unlocks and nukes: the contract holds the UST it has on record,
   though each transfer is taxed on top of what is sent; the positions of a user
   hold no more than the total his maUST share is computed from, and the totals
   of all users no more than the amount those shares are fractions of. *)
UstCovered ==
  /\ state.total_ust_locked <= balance.uusd
  /\ \A u \in Users : NukedUst(u) <= userInfo[u].total_ust_locked
  /\ Total(UserTotals) <= Principal

(* Without NukeLockdrop the totals are equal to the last unit. *)
UstConserved == Total(UserTotals) = Principal

-------------------------------------------------------------------------------
(* maUST *)

\* What dissolving each position would refund.
Refunds == [id \in LockupIds |-> MaUstShare(lockup[id].ust_locked)]

(* Every open position can be paid its maUST: the refunds of all positions
   together never exceed total_maust_locked, which the contract does hold,
   whatever the rounding and whichever positions have left before. *)
PositionsBacked ==
  /\ Total(Refunds) <= state.total_maust_locked
  /\ state.total_maust_locked = balance.maust

(* A maUST share that has been computed covers the refunds of the positions
   the user still has, so unlocking one never fails on the checked subtraction. *)
ShareCoversPositions ==
  \A u \in Users :
    userInfo[u].total_maust_share # 0 =>
      NukedMaUst(u) <= userInfo[u].total_maust_share

-------------------------------------------------------------------------------
(* MARS *)

UserDelegations == [u \in Users |-> userInfo[u].delegated_mars_incentives]

\* MARS each user has been paid by claims.
MarsPaid ==
  [u \in Users |->
     IF userInfo[u].lockdrop_claimed
     THEN userInfo[u].total_mars_incentives - userInfo[u].delegated_mars_incentives
     ELSE 0]

\* MARS each user can still get, by claim or delegation.
MarsOwed ==
  [u \in Users |->
     IF userInfo[u].total_ust_locked = 0 THEN 0 ELSE MarsDue(Provisioned(u))]

(* Every MARS received as incentive is still held, was delegated to the
   auction by a user whose reward covers it, or was paid to a user who had not
   delegated it. *)
MarsConserved ==
  /\ \A u \in Users :
       userInfo[u].delegated_mars_incentives <= userInfo[u].total_mars_incentives
  /\ Total(UserDelegations) = state.total_mars_delegated
  /\ balance.mars + state.total_mars_delegated + Total(MarsPaid)
       = config.lockdrop_incentives

(* Once the windows are closed the MARS held covers what every user can still
   claim or delegate, although each reward is computed at a different time. *)
RewardsFunded ==
  now >= WithdrawEnd => Total(MarsOwed) <= balance.mars

-------------------------------------------------------------------------------
(* xMARS *)

XmarsOwed ==
  [u \in Users |->
     IF userInfo[u].total_ust_locked = 0 THEN 0 ELSE XmarsDue(Provisioned(u), 0)]

(* No user's index runs ahead of the contract's, so what he is owed is never
   negative; until a first position leaves, the xMARS held covers what all
   users are owed. *)
XmarsSolvent ==
  /\ \A u \in Users : userInfo[u].reward_index <= state.xmars_rewards_index
  /\ state.total_maust_locked = state.final_maust_locked =>
       Total(XmarsOwed) <= balance.xmars

-------------------------------------------------------------------------------
(* Action properties *)

(* From the last second of the withdrawal window on, everything MARS rewards
   are computed from stands still: the incentives, the weights and the UST of
   every position until the position is closed. *)
RewardBasisFrozen ==
  [][now >= WithdrawEnd =>
       /\ config'.lockdrop_incentives = config.lockdrop_incentives
       /\ state'.total_deposits_weight = state.total_deposits_weight
       /\ \A id \in LockupIds :
            lockup'[id].ust_locked \in {0, lockup[id].ust_locked}]_vars

(* Once the deposit window is over a position is reduced at most once, by at
   most half, and stays marked until it is closed. *)
LateWithdrawalOnce ==
  [][\A id \in LockupIds :
       now >= DepositEnd /\ lockup'[id].ust_locked # 0 =>
         /\ lockup[id].withdrawal_flag => lockup'[id].withdrawal_flag
         /\ lockup'[id].ust_locked < lockup[id].ust_locked =>
              /\ ~lockup[id].withdrawal_flag /\ lockup'[id].withdrawal_flag
              /\ lockup[id].ust_locked <= 2 * lockup'[id].ust_locked]_vars

(* A MARS reward that has been paid stays settled while the user is stored: it
   is neither recomputed nor delegated nor paid again. *)
PaidRewardsFinal ==
  [][\A u \in Users :
       userInfo[u].lockdrop_claimed /\ u \in stored' =>
         /\ userInfo'[u].lockdrop_claimed
         /\ userInfo'[u].total_mars_incentives = userInfo[u].total_mars_incentives
         /\ userInfo'[u].delegated_mars_incentives
              = userInfo[u].delegated_mars_incentives]_vars

-------------------------------------------------------------------------------
(* Liveness *)

\* Owner, auction and users keep trying what the protocol asks of them.
Fairness ==
  /\ WF_vars(Tick)
  /\ WF_vars(\E sender \in Owners, addresses \in ConfigUpdates :
               UpdateConfig(sender, addresses, sender))
  /\ WF_vars(\E sender \in Owners, minted \in MintChoices :
               DepositUstInRedBank(sender, minted))
  /\ WF_vars(EnableClaims /\ now > WithdrawEnd)
  /\ \A u \in Users, d \in Durations :
       WF_vars(ClaimRewardsAndUnlock(u, d, 0))

FairOrderlySpec == OrderlySpec /\ Fairness

\* A position that can never be dissolved: its refund, a share of less than the
\* deposit, rounds to nothing, or all of the UST would go in tax and no deposit is
\* made.
Worthless(id) ==
  IF state.final_ust_locked = 0 THEN DeductTax(state.total_ust_locked) = 0
  ELSE MaUstShare(lockup[id].ust_locked) = 0

(* After the windows close every position whose refund is at least one unit of
   maUST is eventually dissolved and the refund handed out: no order of the
   other users' claims and unlocks keeps a user from unlocking. *)
EveryPositionUnlocks ==
  \A id \in LockupIds :
    (now > WithdrawEnd /\ lockup[id].ust_locked > 0)
      ~> (lockup[id].ust_locked = 0 \/ Worthless(id))

-------------------------------------------------------------------------------
(* What the documentation says and the code does not do *)

(* handle_enable_claims: "Claims can only be enabled after the deposit /
   withdrawal windows are closed". *)
ClaimsOnlyAfterWindows ==
  state.are_claims_allowed => now > WithdrawEnd

(* LockupInfo.unlock_timestamp: "Timestamp beyond which this position can be
   unlocked". *)
UnlockedOnlyAfterExpiry ==
  [][\A id \in LockupIds :
       now > WithdrawEnd /\ lockup[id].ust_locked # 0 /\ lockup'[id].ust_locked = 0
         => now >= UnlockTimestamp(id[2])]_vars
===============================================================================
