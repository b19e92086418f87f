---------------------------- MODULE LockdropProofs ----------------------------
(* Theorems about the lockdrop contract, for any users, durations and amounts. *)
EXTENDS LockdropProperties, TotalsTheorems, FixedPointTheorems

(* What is sent and the tax the chain takes on it are within the amount the tax
   was deducted from. *)
LEMMA PackageTaxWithin ==
  ASSUME NEW amount \in Nat
  PROVE  /\ DeductTax(amount) \in Nat /\ ChainTax(DeductTax(amount)) \in Nat
         /\ DeductTax(amount) + ChainTax(DeductTax(amount)) <= amount
<1> DEFINE left == MulFloor(amount, (Scale * Scale) \div (Scale + TaxRate))
<1>1. TaxRate \in Nat /\ TaxCap \in Nat /\ Scale + TaxRate # 0
  BY TaxAssumption, ScaleAssumption
<1>2. DeductTax(amount) = amount - Capped(amount - left)
  BY <1>1 DEF DeductTax, ComputeTax, ReverseDecimal, One
<1>3. left \in Nat /\ left * (Scale + TaxRate) <= amount * Scale
  BY <1>1, ReciprocalBound
<1> HIDE DEF left
<1>4. QED
  BY <1>1, <1>2, <1>3, TaxWithin DEF ChainTax, Capped

\* Something is left of the UST when the tax is deducted: there was some.
LEMMA RedBankTakesUst ==
  ASSUME state \in StateRecords, NEW sender, NEW minted, DepositUstInRedBank(sender, minted)
  PROVE  /\ state.total_ust_locked \in Nat \ {0}
         /\ state'.final_ust_locked = state.total_ust_locked
         /\ userInfo' = userInfo
<1>1. state.total_ust_locked \in Nat
  BY DEF StateRecords
<1>2. 0 < DeductTax(state.total_ust_locked)
  BY DEF DepositUstInRedBank
<1>3. /\ DeductTax(state.total_ust_locked) \in Nat
      /\ ChainTax(DeductTax(state.total_ust_locked)) \in Nat
      /\ DeductTax(state.total_ust_locked) + ChainTax(DeductTax(state.total_ust_locked))
           <= state.total_ust_locked
  BY <1>1, PackageTaxWithin
<1>4. state.total_ust_locked # 0
  BY <1>1, <1>2, <1>3
<1>5. state'.final_ust_locked = state.total_ust_locked /\ userInfo' = userInfo
  BY DEF DepositUstInRedBank, StateAfterRedBank, StateRecords
<1>6. QED
  BY <1>1, <1>4, <1>5

LEMMA LockupIdsFinite == IsFiniteSet(LockupIds)
BY LockdropAssumption, FS_Product DEF LockupIds

(* The maUST share of an amount of UST is a natural number. *)
LEMMA MaUstShareType ==
  ASSUME state \in StateRecords, NEW ust \in Nat
  PROVE  MaUstShare(ust) \in Nat
<1>1. CASE state.final_ust_locked = 0
  BY <1>1 DEF MaUstShare
<1>2. CASE state.final_ust_locked # 0
  <2>1. /\ state.final_ust_locked \in Nat \ {0}
        /\ state.final_maust_locked \in Nat
    BY <1>2 DEF StateRecords
  <2>2. QED
    BY <1>2, <2>1, FromRatioBound, MulFloorBound DEF MaUstShare
<1>3. QED
  BY <1>1, <1>2

(* So are the MARS rewards of a user's positions, and their total. *)
LEMMA PositionRewardsType ==
  ASSUME TypeOK, NEW u \in Users
  PROVE  /\ PositionRewards(u) \in [userInfo[u].lockup_positions -> Nat]
         /\ Total(PositionRewards(u)) \in Nat
<1>1. /\ userInfo[u].lockup_positions \in SUBSET LockupIds
      /\ config.lockdrop_incentives \in Nat
      /\ state.total_deposits_weight \in Nat
  BY DEF TypeOK, UserRecords, ConfigRecords, StateRecords
<1>2. ASSUME NEW amount \in Nat, NEW d \in Durations
      PROVE  MarsIncentivesForLockup(amount, d) \in Nat
  <2>1. CalculateWeight(amount, d) \in Nat
    BY LockdropAssumption, ProductNat DEF CalculateWeight
  <2>2. CASE state.total_deposits_weight = 0
    BY <2>2 DEF MarsIncentivesForLockup
  <2>3. CASE state.total_deposits_weight # 0
    BY <1>1, <2>1, <2>3, FromRatioBound, MulFloorBound DEF MarsIncentivesForLockup
  <2>4. QED
    BY <2>2, <2>3
<1>3. ASSUME NEW id \in userInfo[u].lockup_positions
      PROVE  MarsIncentivesForLockup(lockup[id].ust_locked, id[2]) \in Nat
  <2>1. id \in LockupIds
    BY <1>1
  <2>2. id[2] \in Durations /\ lockup[id].ust_locked \in Nat
    BY <2>1 DEF TypeOK, LockupRecords, LockupIds
  <2>3. QED
    BY <1>2, <2>2
<1>4. PositionRewards(u) \in [userInfo[u].lockup_positions -> Nat]
  BY <1>3 DEF PositionRewards
<1>5. IsFiniteSet(userInfo[u].lockup_positions)
  BY <1>1, LockupIdsFinite, FS_Subset
<1>6. QED
  BY <1>4, <1>5, TotalType

LEMMA ProvisionedType ==
  ASSUME TypeOK, NEW u \in Users
  PROVE  Provisioned(u) \in UserRecords
<1>1. userInfo[u] \in UserRecords /\ state \in StateRecords
  BY DEF TypeOK
<1>2. MaUstShare(userInfo[u].total_ust_locked) \in Nat
  BY <1>1, MaUstShareType DEF UserRecords
<1>3. Total(PositionRewards(u)) \in Nat
  BY PositionRewardsType
<1>4. userInfo[u].total_maust_share \in Nat /\ userInfo[u].total_mars_incentives \in Nat
  BY <1>1 DEF UserRecords
<1>5. QED
  BY <1>1, <1>2, <1>3, <1>4 DEF Provisioned, UserRecords

LEMMA RewardedLockupsType ==
  ASSUME TypeOK, NEW u \in Users
  PROVE  RewardedLockups(u) \in [LockupIds -> LockupRecords]
<1> SUFFICES ASSUME NEW id \in LockupIds
             PROVE  RewardedLockups(u)[id] \in LockupRecords
  BY DEF RewardedLockups
<1>1. lockup[id] \in LockupRecords
  BY DEF TypeOK
<1>2. id \in userInfo[u].lockup_positions => PositionRewards(u)[id] \in Nat
  BY PositionRewardsType
<1>3. QED
  BY <1>1, <1>2 DEF RewardedLockups, LockupRecords

(* The xMARS index only grows. *)
LEMMA XmarsIndexGrows ==
  ASSUME state \in StateRecords, NEW accrued \in Nat
  PROVE  /\ XmarsIndexAfter(accrued) \in Nat
         /\ state.xmars_rewards_index <= XmarsIndexAfter(accrued)
<1>1. state.xmars_rewards_index \in Nat /\ state.total_maust_locked \in Nat
  BY DEF StateRecords
<1>2. CASE accrued = 0 \/ state.total_maust_locked = 0
  BY <1>1, <1>2 DEF XmarsIndexAfter
<1>3. CASE ~(accrued = 0 \/ state.total_maust_locked = 0)
  <2>1. FromRatio(accrued, state.total_maust_locked) \in Nat
    BY <1>1, <1>3, FromRatioBound
  <2>2. QED
    BY <1>1, <1>3, <2>1 DEF XmarsIndexAfter
<1>4. QED
  BY <1>2, <1>3

(* A withdrawal may take at most everything, and at most half from the end of
   the deposit window on. *)
LEMMA AllowedPercentBound ==
  ASSUME NEW t \in Nat
  PROVE  /\ AllowedWithdrawalPercent(t) \in Nat
         /\ AllowedWithdrawalPercent(t) <= Scale
         /\ t >= DepositEnd => 2 * AllowedWithdrawalPercent(t) <= Scale
<1>1. /\ Scale \in Nat \ {0} /\ DepositEnd \in Nat
      /\ WithdrawalWindow \in Nat \ {0} /\ WithdrawEnd = DepositEnd + WithdrawalWindow
      /\ HalfWindowEnd = DepositEnd + (WithdrawalWindow \div 2)
  BY ScaleAssumption, LockdropAssumption DEF DepositEnd, WithdrawEnd, HalfWindowEnd
<1>2. WithdrawalWindow \div 2 \in Nat /\ (WithdrawalWindow \div 2) * 2 <= WithdrawalWindow
  BY <1>1, DivBound
<1>3. HalfWindowEnd \in Nat /\ HalfWindowEnd < WithdrawEnd /\ WithdrawEnd \in Nat
  BY <1>1, <1>2
<1>4. CASE t < DepositEnd
  BY <1>1, <1>4 DEF AllowedWithdrawalPercent, One
<1>5. CASE ~(t < DepositEnd) /\ t <= HalfWindowEnd
  <2>1. /\ FromRatio(50, 100) \in Nat
        /\ FromRatio(50, 100) * 100 <= 50 * Scale
    BY FromRatioBound
  <2> DEFINE r == FromRatio(50, 100)
  <2>2. AllowedWithdrawalPercent(t) = r
    BY <1>5 DEF AllowedWithdrawalPercent
  <2> HIDE DEF r
  <2>3. QED
    BY <1>1, <2>1, <2>2 DEF r
<1>6. CASE ~(t < DepositEnd) /\ ~(t <= HalfWindowEnd) /\ t < WithdrawEnd
  <2> DEFINE n == WithdrawEnd - t
             m == WithdrawEnd - HalfWindowEnd
             r == FromRatio(50 * n, 100 * m)
  <2>1. n \in Nat /\ m \in Nat \ {0} /\ n <= m
    BY <1>3, <1>6
  <2>2. AllowedWithdrawalPercent(t) = r
    BY <1>6 DEF AllowedWithdrawalPercent
  <2> HIDE DEF n, m
  <2>3. 50 * n \in Nat /\ 100 * m \in Nat \ {0} /\ 100 * m = 2 * (50 * m)
        /\ 50 * n <= 50 * m
    BY <2>1
  <2>4. r \in Nat /\ r * (100 * m) <= (50 * n) * Scale
    BY <2>3, FromRatioBound
  <2>5. (50 * n) * Scale <= (50 * m) * Scale
    BY <1>1, <2>1, <2>3, ProductMono
  <2> HIDE DEF r
  <2>6. (2 * r) * (50 * m) <= Scale * (50 * m)
    <3> DEFINE k == 50 * m
               l == 50 * n
    <3>1. k \in Nat /\ l \in Nat /\ 100 * m = 2 * k
      BY <2>1
    <3> HIDE DEF k, l
    <3>2. r * (2 * k) <= l * Scale /\ l * Scale <= k * Scale
      BY <2>4, <2>5, <3>1 DEF k, l
    <3>3. l * Scale \in Nat /\ k * Scale \in Nat
      BY <1>1, <3>1, ProductNat
    <3>4. r * (2 * k) = (2 * r) * k /\ k * Scale = Scale * k
      BY <1>1, <2>4, <3>1
    <3>5. (2 * r) * k \in Nat
      BY <2>4, <3>1, ProductNat
    <3> QED
      BY <3>2, <3>3, <3>4, <3>5 DEF k
  <2>7. 2 * r <= Scale
    BY <1>1, <2>1, <2>3, <2>4, <2>6, ProductCancel
  <2>8. QED
    BY <1>1, <2>2, <2>4, <2>7
<1>7. CASE ~(t < DepositEnd) /\ ~(t <= HalfWindowEnd) /\ ~(t < WithdrawEnd)
  BY <1>1, <1>7 DEF AllowedWithdrawalPercent
<1>8. QED
  BY <1>4, <1>5, <1>6, <1>7

(* A claim that is allowed pays natural amounts and leaves natural balances. *)
LEMMA ClaimType ==
  ASSUME TypeOK, NEW u \in Users, NEW accrued \in XmarsAccruals,
         ClaimAllowed(u, accrued)
  PROVE  /\ MarsDue(Provisioned(u)) \in Nat
         /\ XmarsDue(Provisioned(u), accrued) \in Nat
         /\ Settled(Provisioned(u), accrued) \in UserRecords
         /\ BalanceAfterClaim(u, accrued) \in BalanceRecords
         /\ XmarsIndexAfter(accrued) \in Nat
<1> DEFINE info == Provisioned(u)
<1>1. info \in UserRecords
  BY ProvisionedType
<1>2. accrued \in Nat /\ state \in StateRecords /\ balance \in BalanceRecords
  BY LockdropAssumption DEF TypeOK
<1>3. XmarsIndexAfter(accrued) \in Nat
  BY <1>2, XmarsIndexGrows
<1>4. /\ info.delegated_mars_incentives <= info.total_mars_incentives
      /\ MarsDue(info) <= balance.mars
      /\ XmarsDue(info, accrued) >= 0
      /\ XmarsDue(info, accrued) <= balance.xmars + accrued
  BY DEF ClaimAllowed
<1> HIDE DEF info
<1>5. MarsDue(info) \in Nat
  BY <1>1, <1>4 DEF MarsDue, UserRecords
<1>6. XmarsDue(info, accrued) \in Int
  <2>1. /\ MulFloor(info.total_maust_share, XmarsIndexAfter(accrued)) \in Nat
        /\ MulFloor(info.total_maust_share, info.reward_index) \in Nat
    BY <1>1, <1>3, MulFloorBound DEF UserRecords
  <2>2. QED
    BY <2>1 DEF XmarsDue, AccruedXmars
<1>7. XmarsDue(info, accrued) \in Nat
  BY <1>4, <1>6
<1>8. Settled(info, accrued) \in UserRecords
  <2>1. /\ info.reward_index \in Nat
        /\ info.total_xmars_claimed + XmarsDue(info, accrued) \in Nat
        /\ (info.lockdrop_claimed \/ MarsDue(info) > 0) \in BOOLEAN
    BY <1>1, <1>7 DEF UserRecords
  <2>2. QED
    BY <1>1, <1>3, <2>1 DEF Settled, UserRecords
<1>9. [balance EXCEPT !.mars = @ - MarsDue(info),
                      !.xmars = @ + accrued - XmarsDue(info, accrued)] \in BalanceRecords
  <2>1. /\ balance.mars - MarsDue(info) \in Nat
        /\ balance.xmars + accrued - XmarsDue(info, accrued) \in Nat
    BY <1>2, <1>4, <1>5, <1>7 DEF BalanceRecords
  <2>2. QED
    BY <1>2, <2>1 DEF BalanceRecords
<1>10. BalanceAfterClaim(u, accrued) \in BalanceRecords
  BY <1>9 DEF BalanceAfterClaim, info
<1>11. QED
  BY <1>3, <1>5, <1>7, <1>8, <1>10 DEF info

(* What a nuke takes from a user is a natural amount of UST and of maUST. *)
LEMMA NukedType ==
  ASSUME TypeOK, NEW u \in Users
  PROVE  /\ IsFiniteSet(userInfo[u].lockup_positions)
         /\ [id \in userInfo[u].lockup_positions |-> lockup[id].ust_locked]
              \in [userInfo[u].lockup_positions -> Nat]
         /\ [id \in userInfo[u].lockup_positions |-> MaUstShare(lockup[id].ust_locked)]
              \in [userInfo[u].lockup_positions -> Nat]
         /\ NukedUst(u) \in Nat
         /\ NukedMaUst(u) \in Nat
<1>1. userInfo[u].lockup_positions \in SUBSET LockupIds
  BY DEF TypeOK, UserRecords
<1>2. IsFiniteSet(userInfo[u].lockup_positions)
  BY <1>1, LockupIdsFinite, FS_Subset
<1>3. \A id \in userInfo[u].lockup_positions : lockup[id].ust_locked \in Nat
  BY <1>1 DEF TypeOK, LockupRecords
<1>4. \A id \in userInfo[u].lockup_positions : MaUstShare(lockup[id].ust_locked) \in Nat
  BY <1>3, MaUstShareType DEF TypeOK
<1>5. QED
  BY <1>2, <1>3, <1>4, TotalType DEF NukedUst, NukedMaUst

-------------------------------------------------------------------------------
(* Type correctness, one lemma per operation that touches a user *)

LEMMA DepositUstType ==
  ASSUME TypeOK, NEW u \in Users, NEW d \in Durations, NEW amount \in 1 .. MaxUst,
         DepositUst(u, d, amount)
  PROVE  TypeOK'
<1> DEFINE id   == <<u, d>>
           pos  == lockup[id]
           info == userInfo[u]
<1>1. id \in LockupIds /\ amount \in Nat /\ d \in Nat
  BY LockdropAssumption DEF LockupIds
<1>2. pos \in LockupRecords /\ info \in UserRecords
  BY <1>1 DEF TypeOK
<1>3. CalculateWeight(amount, d) \in Nat
  BY <1>1, LockdropAssumption, ProductNat DEF CalculateWeight
<1>4. lockup' \in [LockupIds -> LockupRecords]
  <2>1. pos.ust_locked + amount \in Nat
    BY <1>1, <1>2 DEF LockupRecords
  <2>2. [pos EXCEPT !.duration = d, !.ust_locked = @ + amount] \in LockupRecords
    BY <1>1, <1>2, <2>1 DEF LockupRecords
  <2>3. lockup' = [lockup EXCEPT ![id] =
                     [pos EXCEPT !.duration = d, !.ust_locked = @ + amount]]
    BY DEF DepositUst
  <2>4. QED
    BY <1>1, <2>2, <2>3, Zenon DEF TypeOK
<1>5. userInfo' \in [Users -> UserRecords]
  <2> DEFINE ids == IF pos.duration = 0 THEN info.lockup_positions \union {id}
                    ELSE info.lockup_positions
  <2>1. info.total_ust_locked + amount \in Nat /\ ids \in SUBSET LockupIds
    BY <1>1, <1>2 DEF UserRecords
  <2> HIDE DEF ids, info
  <2>2. [info EXCEPT !.total_ust_locked = @ + amount,
                     !.lockup_positions = ids] \in UserRecords
    BY <1>2, <2>1 DEF UserRecords
  <2>3. userInfo' = [userInfo EXCEPT ![u] =
                       [info EXCEPT !.total_ust_locked = @ + amount,
                                    !.lockup_positions = ids]]
    BY DEF DepositUst, ids, info
  <2>4. QED
    BY <2>2, <2>3, Zenon DEF TypeOK
<1>6. state' \in StateRecords
  <2>1. /\ state.total_ust_locked + amount \in Nat
        /\ state.total_deposits_weight + CalculateWeight(amount, d) \in Nat
    BY <1>1, <1>3 DEF TypeOK, StateRecords
  <2>2. QED
    BY <2>1 DEF DepositUst, TypeOK, StateRecords
<1>7. balance' \in BalanceRecords
  BY <1>1 DEF DepositUst, TypeOK, BalanceRecords
<1>8. QED
  BY <1>4, <1>5, <1>6, <1>7 DEF DepositUst, TypeOK

LEMMA WithdrawUstType ==
  ASSUME TypeOK, NEW u \in Users, NEW d \in Durations, NEW amount \in 0 .. MaxUst,
         WithdrawUst(u, d, amount)
  PROVE  TypeOK'
<1> DEFINE id   == <<u, d>>
           pos  == lockup[id]
           info == userInfo[u]
           pct  == AllowedWithdrawalPercent(now)
           left == pos.ust_locked - amount
           late == now >= DepositEnd
<1>1. id \in LockupIds /\ amount \in Nat /\ d \in Durations
  BY LockdropAssumption DEF LockupIds
<1>2. pos \in LockupRecords /\ info \in UserRecords
  BY <1>1 DEF TypeOK
<1>3. CalculateWeight(amount, d) \in Nat
  BY <1>1, LockdropAssumption, ProductNat DEF CalculateWeight
<1>4. left \in Nat
  <2>1. pct \in Nat /\ pct <= Scale
    BY AllowedPercentBound DEF TypeOK
  <2>2. amount <= MulFloor(pos.ust_locked, pct)
    BY DEF WithdrawUst
  <2>3. MulFloor(pos.ust_locked, pct) <= pos.ust_locked
    BY <1>2, <2>1, WholeBound DEF LockupRecords
  <2>4. MulFloor(pos.ust_locked, pct) \in Nat /\ pos.ust_locked \in Nat
    BY <1>2, <2>1, MulFloorBound DEF LockupRecords
  <2> HIDE DEF pct, pos
  <2>5. QED
    BY <1>1, <2>2, <2>3, <2>4
<1>5. lockup' \in [LockupIds -> LockupRecords]
  <2> DEFINE pos1 == [pos EXCEPT !.ust_locked = left,
                                 !.withdrawal_flag = IF late THEN TRUE ELSE @]
             new  == IF left = 0 THEN CloseLockup(id) ELSE pos1
  <2>1. pos1 \in LockupRecords
    <3>1. pos.withdrawal_flag \in BOOLEAN
      BY <1>2 DEF LockupRecords
    <3> HIDE DEF left, late, pos
    <3>2. QED
      BY <1>2, <1>4, <3>1 DEF LockupRecords
  <2>2. new \in LockupRecords
    BY <2>1 DEF CloseLockup, NoLockup, LockupRecords
  <2>3. lockup' = [lockup EXCEPT ![id] = new]
    BY DEF WithdrawUst
  <2> HIDE DEF new
  <2>4. QED
    BY <1>1, <2>2, <2>3, Zenon DEF TypeOK
<1>6. userInfo' \in [Users -> UserRecords]
  <2> DEFINE ids == IF left = 0 THEN info.lockup_positions \ {id}
                    ELSE info.lockup_positions
  <2>1. info.total_ust_locked - amount \in Nat /\ ids \in SUBSET LockupIds
    BY <1>1, <1>2 DEF UserRecords, WithdrawUst
  <2>2. userInfo' = [userInfo EXCEPT ![u] =
                       [info EXCEPT !.total_ust_locked = @ - amount,
                                    !.lockup_positions = ids]]
    BY DEF WithdrawUst
  <2> HIDE DEF ids, info
  <2>3. [info EXCEPT !.total_ust_locked = @ - amount,
                     !.lockup_positions = ids] \in UserRecords
    BY <1>2, <2>1 DEF UserRecords
  <2>4. QED
    BY <2>2, <2>3, Zenon DEF TypeOK
<1>7. state' \in StateRecords
  <2>1. /\ state.total_ust_locked - amount \in Nat
        /\ state.total_deposits_weight - CalculateWeight(amount, d) \in Nat
    BY <1>1, <1>3 DEF TypeOK, StateRecords, WithdrawUst
  <2>2. QED
    BY <2>1 DEF WithdrawUst, TypeOK, StateRecords
<1>8. balance' \in BalanceRecords
  <2> DEFINE sent == DeductTax(amount)
             tax  == ChainTax(sent)
  <2>1. sent \in Nat /\ tax \in Nat
    BY <1>1, PackageTaxWithin
  <2>2. /\ sent + tax <= balance.uusd
        /\ balance' = [balance EXCEPT !.uusd = @ - sent - tax]
    BY DEF WithdrawUst
  <2> HIDE DEF sent, tax
  <2>3. balance.uusd - sent - tax \in Nat
    BY <2>1, <2>2 DEF TypeOK, BalanceRecords
  <2>4. QED
    BY <2>2, <2>3 DEF TypeOK, BalanceRecords
<1>9. QED
  BY <1>5, <1>6, <1>7, <1>8 DEF WithdrawUst, TypeOK

LEMMA DepositMarsType ==
  ASSUME TypeOK, NEW u \in Users, NEW amount \in MarsAmounts,
         DepositMarsToAuction(u, amount)
  PROVE  TypeOK'
<1> DEFINE info == Provisioned(u)
<1>1. info \in UserRecords /\ amount \in Nat
  BY ProvisionedType, LockdropAssumption
<1>2. userInfo' = [userInfo EXCEPT ![u] =
                     [info EXCEPT !.delegated_mars_incentives = @ + amount]]
  BY DEF DepositMarsToAuction
<1> HIDE DEF info
<1>3. info.delegated_mars_incentives + amount \in Nat
  BY <1>1 DEF UserRecords
<1>4. [info EXCEPT !.delegated_mars_incentives = @ + amount] \in UserRecords
  BY <1>1, <1>3 DEF UserRecords
<1>5. userInfo' \in [Users -> UserRecords]
  BY <1>2, <1>4, Zenon DEF TypeOK
<1>6. lockup' \in [LockupIds -> LockupRecords]
  BY RewardedLockupsType DEF DepositMarsToAuction
<1>7. state' \in StateRecords /\ balance' \in BalanceRecords
  BY <1>1 DEF DepositMarsToAuction, TypeOK, StateRecords, BalanceRecords
<1>8. QED
  BY <1>5, <1>6, <1>7 DEF DepositMarsToAuction, TypeOK

LEMMA ClaimRewardsType ==
  ASSUME TypeOK, NEW u \in Users, NEW accrued \in XmarsAccruals,
         ClaimRewards(u, accrued)
  PROVE  TypeOK'
<1>1. ClaimAllowed(u, accrued)
  BY DEF ClaimRewards
<1>2. /\ Settled(Provisioned(u), accrued) \in UserRecords
      /\ BalanceAfterClaim(u, accrued) \in BalanceRecords
      /\ XmarsIndexAfter(accrued) \in Nat
  BY <1>1, ClaimType
<1>3. userInfo' \in [Users -> UserRecords]
  BY <1>2 DEF ClaimRewards, TypeOK
<1>4. lockup' \in [LockupIds -> LockupRecords]
  BY RewardedLockupsType DEF ClaimRewards
<1>5. state' \in StateRecords
  BY <1>2 DEF ClaimRewards, TypeOK, StateRecords
<1>6. QED
  BY <1>2, <1>3, <1>4, <1>5 DEF ClaimRewards, TypeOK

LEMMA ClaimRewardsAndUnlockType ==
  ASSUME TypeOK, NEW u \in Users, NEW d \in Durations, NEW accrued \in XmarsAccruals,
         ClaimRewardsAndUnlock(u, d, accrued)
  PROVE  TypeOK'
<1> DEFINE id     == <<u, d>>
           info   == Settled(Provisioned(u), accrued)
           refund == MaUstShare(lockup[id].ust_locked)
           after  == BalanceAfterClaim(u, accrued)
<1>1. ClaimAllowed(u, accrued) /\ id \in LockupIds
  BY DEF ClaimRewardsAndUnlock, LockupIds
<1>2. /\ info \in UserRecords /\ after \in BalanceRecords
      /\ XmarsIndexAfter(accrued) \in Nat
  BY <1>1, ClaimType
<1>3. refund \in Nat
  BY <1>1, MaUstShareType DEF TypeOK, LockupRecords
<1>4. /\ refund <= state.total_maust_locked
      /\ refund <= info.total_maust_share
      /\ refund <= balance.maust
      /\ after.maust = balance.maust
      /\ state' = [state EXCEPT !.xmars_rewards_index = XmarsIndexAfter(accrued),
                                !.total_maust_locked = @ - refund]
      /\ balance' = [after EXCEPT !.maust = @ - refund]
      /\ userInfo' = [userInfo EXCEPT ![u] =
                        [info EXCEPT !.total_maust_share = @ - refund,
                                     !.lockup_positions = @ \ {id}]]
      /\ lockup' = [RewardedLockups(u) EXCEPT ![id] = NoLockup]
  <2>1. after.maust = balance.maust
    BY DEF TypeOK, BalanceRecords, BalanceAfterClaim
  <2>2. QED
    BY <2>1, Zenon DEF ClaimRewardsAndUnlock, CloseLockup
<1> HIDE DEF id, info, refund, after
<1>5. info.total_maust_share - refund \in Nat
  BY <1>2, <1>3, <1>4 DEF UserRecords
<1>6. info.lockup_positions \ {id} \in SUBSET LockupIds
  BY <1>2 DEF UserRecords
<1>7. [info EXCEPT !.total_maust_share = @ - refund,
                   !.lockup_positions = @ \ {id}] \in UserRecords
  BY <1>2, <1>5, <1>6 DEF UserRecords
<1>8. userInfo' \in [Users -> UserRecords]
  BY <1>4, <1>7, Zenon DEF TypeOK
<1>9. lockup' \in [LockupIds -> LockupRecords]
  BY <1>4, RewardedLockupsType DEF NoLockup, LockupRecords
<1>10. state' \in StateRecords
  <2>1. state.total_maust_locked - refund \in Nat
    BY <1>3, <1>4 DEF TypeOK, StateRecords
  <2>2. QED
    BY <1>2, <1>4, <2>1 DEF TypeOK, StateRecords
<1>11. balance' \in BalanceRecords
  <2>1. after.maust - refund \in Nat
    BY <1>3, <1>4 DEF TypeOK, BalanceRecords
  <2>2. QED
    BY <1>2, <1>4, <2>1 DEF BalanceRecords
<1>12. QED
  BY <1>8, <1>9, <1>10, <1>11 DEF ClaimRewardsAndUnlock, TypeOK

(* What all users of a nuke get back is a natural amount. *)
LEMMA RefundsType ==
  ASSUME TypeOK
  PROVE  /\ IsFiniteSet(Nuked)
         /\ [u \in Nuked |-> NukedMaUst(u)] \in [Nuked -> Nat]
         /\ Total([u \in Nuked |-> NukedMaUst(u)]) \in Nat
<1>1. Nuked \subseteq Users
  BY DEF Nuked, NukeBatch, TypeOK
<1>2. IsFiniteSet(Nuked)
  BY <1>1, LockdropAssumption, FS_Subset
<1>3. [u \in Nuked |-> NukedMaUst(u)] \in [Nuked -> Nat]
  BY <1>1, NukedType
<1>4. QED
  BY <1>2, <1>3, TotalType

LEMMA NukeType ==
  ASSUME TypeOK, NukeLockdrop
  PROVE  TypeOK'
<1> DEFINE refunds == Total([u \in Nuked |-> NukedMaUst(u)])
<1>1. refunds \in Nat
  BY RefundsType
<1>2. /\ refunds <= state.total_maust_locked
      /\ refunds <= balance.maust
      /\ state' = [state EXCEPT !.total_maust_locked = @ - refunds]
      /\ balance' = [balance EXCEPT !.maust = @ - refunds]
  BY Zenon DEF NukeLockdrop
<1> HIDE DEF refunds
<1>3. state' \in StateRecords /\ balance' \in BalanceRecords
  BY <1>1, <1>2 DEF TypeOK, StateRecords, BalanceRecords
<1>4. lockup' \in [LockupIds -> LockupRecords]
  BY DEF NukeLockdrop, LockupsAfterNuke, TypeOK, CloseLockup, NoLockup, LockupRecords
<1>5. userInfo' \in [Users -> UserRecords]
  <2> SUFFICES ASSUME NEW u \in Users PROVE userInfo'[u] \in UserRecords
    BY DEF NukeLockdrop
  <2>1. userInfo[u] \in UserRecords /\ NoUser \in UserRecords
    BY DEF TypeOK, NoUser, UserRecords
  <2>2. CASE u \in Nuked
    <3> DEFINE info == userInfo[u]
    <3>1. /\ NukedUst(u) \in Nat /\ NukedUst(u) <= info.total_ust_locked
          /\ NukedMaUst(u) \in Nat /\ NukedMaUst(u) <= info.total_maust_share
      BY <2>2, NukedType DEF NukeLockdrop
    <3> HIDE DEF info
    <3>2. /\ info.total_ust_locked - NukedUst(u) \in Nat
          /\ info.total_maust_share - NukedMaUst(u) \in Nat
      BY <2>1, <3>1 DEF UserRecords, info
    <3>3. [info EXCEPT !.total_ust_locked = @ - NukedUst(u),
                       !.total_maust_share = @ - NukedMaUst(u),
                       !.lockup_positions = {}] \in UserRecords
      BY <2>1, <3>2 DEF UserRecords, info
    <3>4. userInfo'[u] \in
            {NoUser, [info EXCEPT !.total_ust_locked = @ - NukedUst(u),
                                  !.total_maust_share = @ - NukedMaUst(u),
                                  !.lockup_positions = {}]}
      BY <2>2 DEF NukeLockdrop, info
    <3>5. QED
      BY <2>1, <3>3, <3>4
  <2>3. CASE u \notin Nuked
    <3>1. userInfo'[u] \in {NoUser, userInfo[u]}
      BY <2>3 DEF NukeLockdrop
    <3>2. QED
      BY <2>1, <3>1
  <2>4. QED
    BY <2>2, <2>3
<1>6. stored' \subseteq Users
  BY DEF NukeLockdrop, TypeOK
<1>7. QED
  BY <1>3, <1>4, <1>5, <1>6 DEF NukeLockdrop, TypeOK

LEMMA InitType == Init => TypeOK
BY LockdropAssumption DEF Init, TypeOK, ConfigRecords, StateRecords, UserRecords,
   LockupRecords, BalanceRecords, NoUser, NoLockup, Addresses

LEMMA NextType ==
  ASSUME TypeOK, [Next]_vars
  PROVE  TypeOK'
<1>1. CASE Tick
  BY <1>1 DEF Tick, TypeOK
<1>2. ASSUME NEW sender \in Owners, NEW addresses \in ConfigUpdates,
             NEW newOwner \in Owners, UpdateConfig(sender, addresses, newOwner)
      PROVE  TypeOK'
  <2>1. addresses \in SUBSET Addresses
    BY LockdropAssumption
  <2>2. config.known \union addresses \in SUBSET Addresses
    BY <2>1 DEF TypeOK, ConfigRecords
  <2>3. config' \in ConfigRecords
    BY <1>2, <2>2 DEF UpdateConfig, TypeOK, ConfigRecords
  <2>4. QED
    BY <1>2, <2>3 DEF UpdateConfig, TypeOK
<1>3. ASSUME NEW sender \in Owners, NEW minted \in MintChoices,
             DepositUstInRedBank(sender, minted)
      PROVE  TypeOK'
  <2>1. minted \in Nat
    BY LockdropAssumption
  <2>2. state' \in StateRecords
    BY <1>3, <2>1 DEF DepositUstInRedBank, StateAfterRedBank, TypeOK, StateRecords
  <2> DEFINE sent == DeductTax(state.total_ust_locked)
             tax  == ChainTax(sent)
  <2>3. sent \in Nat /\ tax \in Nat
    BY PackageTaxWithin DEF TypeOK, StateRecords
  <2>6. /\ sent + tax <= balance.uusd
        /\ balance' = [balance EXCEPT !.uusd = @ - sent - tax, !.maust = @ + minted]
    BY <1>3 DEF DepositUstInRedBank
  <2> HIDE DEF sent, tax
  <2>7. balance.uusd - sent - tax \in Nat /\ balance.maust + minted \in Nat
    BY <2>1, <2>3, <2>6 DEF TypeOK, BalanceRecords
  <2>4. balance' \in BalanceRecords
    BY <2>6, <2>7 DEF TypeOK, BalanceRecords
  <2>5. QED
    BY <1>3, <2>2, <2>4 DEF DepositUstInRedBank, TypeOK
<1>4. CASE AdminStep
  BY <1>2, <1>3, <1>4 DEF AdminStep
<1>5. ASSUME NEW amount \in MarsAmounts, IncreaseMarsIncentives(amount)
      PROVE  TypeOK'
  <2>1. amount \in Nat
    BY LockdropAssumption
  <2>2. config' \in ConfigRecords /\ balance' \in BalanceRecords
    BY <1>5, <2>1 DEF IncreaseMarsIncentives, TypeOK, ConfigRecords, BalanceRecords
  <2>3. QED
    BY <1>5, <2>2 DEF IncreaseMarsIncentives, TypeOK
<1>6. CASE UserStep
  BY <1>6, DepositUstType, WithdrawUstType, ClaimRewardsType,
     ClaimRewardsAndUnlockType DEF UserStep
<1>11. CASE UserDelegates
  BY <1>11, DepositMarsType DEF UserDelegates
<1>7. CASE EnableClaims
  BY <1>7 DEF EnableClaims, TypeOK, StateRecords
<1>8. CASE NukeLockdrop
  BY <1>8, NukeType
<1>9. CASE UNCHANGED vars
  BY <1>9 DEF vars, TypeOK
<1>10. QED
  BY <1>1, <1>4, <1>5, <1>6, <1>7, <1>8, <1>9, <1>11 DEF Next

(* Every value the contract stores keeps its type, so none of its checked
   subtractions goes below zero, for any users, durations, boosts, windows,
   amounts and scale of the decimals. *)
THEOREM TypeCorrect == Spec => []TypeOK
<1>1. Init => TypeOK
  BY InitType
<1>2. TypeOK /\ [Next]_vars => TypeOK'
  BY NextType
<1>3. QED
  BY <1>1, <1>2, PTL DEF Spec

-------------------------------------------------------------------------------
(* Safety: positions and lockups agree, no UST is credited twice, and every open
   position is backed by maUST.  The three share one inductive invariant. *)

\* The UST of the positions of u, as a function on all lockup ids.
UstOf(u) == [id \in LockupIds |-> IF id[1] = u THEN lockup[id].ust_locked ELSE 0]

OwnPositions ==
  \A u \in Users : \A id \in userInfo[u].lockup_positions : id[1] = u

UserTotalCovers ==
  \A u \in Users : Total(UstOf(u)) <= userInfo[u].total_ust_locked

\* The deposit in the Red Bank comes after the windows and happens once.
RedBankOnce ==
  /\ state.final_ust_locked # 0 => now > WithdrawEnd /\ state.total_ust_locked = 0
  /\ state.final_ust_locked = 0 => state.total_maust_locked = 0

UstWithinPrincipal ==
  /\ state.total_ust_locked <= balance.uusd
  /\ Total(UserTotals) <= Principal
  /\ Total(PositionsUst) <= Principal

SafetyInv ==
  /\ TypeOK
  /\ OwnPositions
  /\ PositionsMatchLockups
  /\ UserTotalCovers
  /\ RedBankOnce
  /\ UstWithinPrincipal
  /\ PositionsBacked

(* The totals are totals of natural-valued functions on finite sets. *)
LEMMA TotalsTyped ==
  ASSUME TypeOK
  PROVE  /\ IsFiniteSet(LockupIds) /\ IsFiniteSet(Users)
         /\ PositionsUst \in [LockupIds -> Nat] /\ Total(PositionsUst) \in Nat
         /\ UserTotals \in [Users -> Nat] /\ Total(UserTotals) \in Nat
         /\ Refunds \in [LockupIds -> Nat] /\ Total(Refunds) \in Nat
         /\ \A u \in Users : UstOf(u) \in [LockupIds -> Nat] /\ Total(UstOf(u)) \in Nat
<1>1. IsFiniteSet(LockupIds) /\ IsFiniteSet(Users)
  BY LockupIdsFinite, LockdropAssumption
<1>2. \A id \in LockupIds : lockup[id].ust_locked \in Nat
  BY DEF TypeOK, LockupRecords
<1>3. \A u \in Users : userInfo[u].total_ust_locked \in Nat
  BY DEF TypeOK, UserRecords
<1>4. \A id \in LockupIds : MaUstShare(lockup[id].ust_locked) \in Nat
  BY <1>2, MaUstShareType DEF TypeOK
<1>5. PositionsUst \in [LockupIds -> Nat]
  BY <1>2 DEF PositionsUst
<1>6. UserTotals \in [Users -> Nat]
  BY <1>3 DEF UserTotals
<1>7. Refunds \in [LockupIds -> Nat]
  BY <1>4 DEF Refunds
<1>8. \A u \in Users : UstOf(u) \in [LockupIds -> Nat]
  BY <1>2 DEF UstOf
<1>9. \A u \in Users : Total(UstOf(u)) \in Nat
  BY <1>1, <1>8, TotalType
<1>10. QED
  BY <1>1, <1>5, <1>6, <1>7, <1>8, <1>9, TotalType

(* The UST a nuke takes from a user is the UST of the positions of that user. *)
LEMMA NukedUstIsUstOf ==
  ASSUME TypeOK, OwnPositions, PositionsMatchLockups, NEW u \in Users
  PROVE  NukedUst(u) = Total(UstOf(u))
<1> DEFINE P == userInfo[u].lockup_positions
           f == [id \in P |-> lockup[id].ust_locked]
<1>1. P \subseteq LockupIds /\ f \in [P -> Nat]
  BY NukedType DEF TypeOK, UserRecords
<1>2. UstOf(u) \in [LockupIds -> Nat]
  BY TotalsTyped
<1>3. ASSUME NEW id \in LockupIds
      PROVE  UstOf(u)[id] = IF id \in P THEN f[id] ELSE 0
  <2>1. lockup[id].ust_locked \in Nat
    BY DEF TypeOK, LockupRecords
  <2>2. id \in P => id[1] = u
    BY DEF OwnPositions
  <2>3. id[1] = u => (id \in P <=> lockup[id].ust_locked > 0)
    BY DEF PositionsMatchLockups
  <2>4. QED
    BY <2>1, <2>2, <2>3 DEF UstOf
<1> HIDE DEF P, f
<1>4. Total(UstOf(u)) = Total(f)
  BY <1>1, <1>2, <1>3, TotalExtend
<1>5. QED
  BY <1>4 DEF f, P, NukedUst

(* A step that leaves the UST, the maUST and the list of positions alone
   preserves the invariant. *)
LEMMA SamePositionsSafe ==
  ASSUME SafetyInv, TypeOK',
         \A id \in LockupIds : /\ lockup'[id].ust_locked = lockup[id].ust_locked
                               /\ lockup'[id].duration = lockup[id].duration,
         \A u \in Users :
           /\ userInfo'[u].total_ust_locked = userInfo[u].total_ust_locked
           /\ userInfo'[u].lockup_positions = userInfo[u].lockup_positions,
         stored \subseteq stored',
         state'.final_ust_locked = state.final_ust_locked,
         state'.final_maust_locked = state.final_maust_locked,
         state'.total_ust_locked = state.total_ust_locked,
         state'.total_maust_locked = state.total_maust_locked,
         balance'.uusd = balance.uusd, balance'.maust = balance.maust,
         now <= now'
  PROVE  SafetyInv'
<1>1. \A u \in Users : UstOf(u)' = UstOf(u)
  BY DEF UstOf
<1>2. PositionsUst' = PositionsUst
  BY DEF PositionsUst
<1>3. UserTotals' = UserTotals
  BY DEF UserTotals
<1>4. \A ust : MaUstShare(ust)' = MaUstShare(ust)
  BY DEF MaUstShare
<1>5. Refunds' = Refunds
  BY <1>4 DEF Refunds
<1>6. OwnPositions'
  BY DEF SafetyInv, OwnPositions
<1>7. PositionsMatchLockups'
  BY DEF SafetyInv, PositionsMatchLockups, LockupIds
<1>8. UserTotalCovers'
  BY <1>1 DEF SafetyInv, UserTotalCovers
<1>9. RedBankOnce'
  <2>1. now \in Nat /\ now' \in Nat /\ WithdrawEnd \in Nat
    BY LockdropAssumption DEF SafetyInv, TypeOK, WithdrawEnd, DepositEnd
  <2>2. QED
    BY <2>1 DEF SafetyInv, RedBankOnce
<1>10. UstWithinPrincipal'
  BY <1>2, <1>3 DEF SafetyInv, UstWithinPrincipal, Principal
<1>11. PositionsBacked'
  BY <1>5 DEF SafetyInv, PositionsBacked
<1>12. QED
  BY <1>6, <1>7, <1>8, <1>9, <1>10, <1>11 DEF SafetyInv

-------------------------------------------------------------------------------
(* Steps that move UST or maUST *)

\* A step within the windows that adds delta UST to the position of u for d, to
\* the total of u and to the total of the contract, at least delta to the UST
\* held, and moves no maUST.
MovesUst(u, d, delta) ==
  /\ \A id \in LockupIds :
       lockup'[id].ust_locked =
         IF id = <<u, d>> THEN lockup[id].ust_locked + delta ELSE lockup[id].ust_locked
  /\ \A v \in Users :
       userInfo'[v].total_ust_locked =
         IF v = u THEN userInfo[v].total_ust_locked + delta
         ELSE userInfo[v].total_ust_locked
  /\ balance.uusd + delta <= balance'.uusd
  /\ balance'.maust = balance.maust
  /\ state'.total_ust_locked = state.total_ust_locked + delta
  /\ state'.final_ust_locked = state.final_ust_locked
  /\ state'.total_maust_locked = state.total_maust_locked
  /\ now <= WithdrawEnd

LEMMA MovesUstSafe ==
  ASSUME SafetyInv, TypeOK', NEW u \in Users, NEW d \in Durations, NEW delta \in Int,
         MovesUst(u, d, delta)
  PROVE  UserTotalCovers' /\ RedBankOnce' /\ UstWithinPrincipal' /\ PositionsBacked'
<1> DEFINE id == <<u, d>>
<1>1. id \in LockupIds /\ id[1] = u
  BY DEF LockupIds
<1>2. /\ IsFiniteSet(LockupIds) /\ IsFiniteSet(Users)
      /\ PositionsUst \in [LockupIds -> Nat] /\ Total(PositionsUst) \in Nat
      /\ UserTotals \in [Users -> Nat] /\ Total(UserTotals) \in Nat
      /\ Refunds \in [LockupIds -> Nat] /\ Total(Refunds) \in Nat
      /\ \A v \in Users : UstOf(v) \in [LockupIds -> Nat] /\ Total(UstOf(v)) \in Nat
  BY TotalsTyped DEF SafetyInv
<1>3. /\ PositionsUst' \in [LockupIds -> Nat]
      /\ UserTotals' \in [Users -> Nat]
      /\ \A v \in Users : UstOf(v)' \in [LockupIds -> Nat]
  <2>1. \A i \in LockupIds : lockup'[i].ust_locked \in Nat
    BY DEF TypeOK, LockupRecords
  <2>2. \A v \in Users : userInfo'[v].total_ust_locked \in Nat
    BY DEF TypeOK, UserRecords
  <2>3. QED
    BY <2>1, <2>2 DEF PositionsUst, UserTotals, UstOf
<1>4. now \in Nat /\ WithdrawEnd \in Nat
  BY LockdropAssumption DEF SafetyInv, TypeOK, WithdrawEnd, DepositEnd
<1>5. state.final_ust_locked = 0 /\ state.total_maust_locked = 0
  BY <1>4 DEF SafetyInv, RedBankOnce, MovesUst
<1>6. Total(PositionsUst') = Total(PositionsUst) + delta
  <2>1. PositionsUst'[id] = PositionsUst[id] + delta
    BY <1>1 DEF PositionsUst, MovesUst
  <2>2. \A i \in LockupIds : i # id => PositionsUst'[i] = PositionsUst[i]
    BY DEF PositionsUst, MovesUst
  <2>3. /\ IsFiniteSet(LockupIds) /\ id \in LockupIds
        /\ PositionsUst \in [LockupIds -> Nat] /\ PositionsUst' \in [LockupIds -> Nat]
    BY <1>1, <1>2, <1>3
  <2> HIDE DEF id
  <2>4. QED
    BY <2>1, <2>2, <2>3, TotalShift
<1>7. Total(UserTotals') = Total(UserTotals) + delta
  <2>1. UserTotals'[u] = UserTotals[u] + delta
    BY DEF UserTotals, MovesUst
  <2>2. \A v \in Users : v # u => UserTotals'[v] = UserTotals[v]
    BY DEF UserTotals, MovesUst
  <2>3. /\ IsFiniteSet(Users)
        /\ UserTotals \in [Users -> Nat] /\ UserTotals' \in [Users -> Nat]
    BY <1>2, <1>3
  <2>4. QED
    BY <2>1, <2>2, <2>3, TotalShift
<1>8. Total(UstOf(u)') = Total(UstOf(u)) + delta
  <2>1. UstOf(u)'[id] = UstOf(u)[id] + delta
    BY <1>1 DEF UstOf, MovesUst
  <2>2. \A i \in LockupIds : i # id => UstOf(u)'[i] = UstOf(u)[i]
    BY DEF UstOf, MovesUst
  <2>3. /\ IsFiniteSet(LockupIds) /\ id \in LockupIds
        /\ UstOf(u) \in [LockupIds -> Nat] /\ UstOf(u)' \in [LockupIds -> Nat]
    BY <1>1, <1>2, <1>3
  <2> HIDE DEF id
  <2>4. QED
    BY <2>1, <2>2, <2>3, TotalShift
<1>9. \A v \in Users \ {u} : UstOf(v)' = UstOf(v)
  BY <1>1 DEF UstOf, MovesUst
<1>10. UserTotalCovers'
  <2> SUFFICES ASSUME NEW v \in Users
               PROVE  Total(UstOf(v)') <= userInfo'[v].total_ust_locked
    BY DEF UserTotalCovers
  <2>1. /\ Total(UstOf(v)) \in Nat
        /\ userInfo[v].total_ust_locked \in Nat
        /\ Total(UstOf(v)) <= userInfo[v].total_ust_locked
    BY <1>2 DEF SafetyInv, TypeOK, UserRecords, UserTotalCovers
  <2>2. QED
    <3>1. userInfo'[v].total_ust_locked =
            IF v = u THEN userInfo[v].total_ust_locked + delta
            ELSE userInfo[v].total_ust_locked
      BY DEF MovesUst
    <3>2. QED
      BY <1>8, <1>9, <2>1, <3>1
<1>11. RedBankOnce'
  BY <1>5 DEF RedBankOnce, MovesUst
<1>12. UstWithinPrincipal'
  <2>1. /\ Principal = state.total_ust_locked
        /\ Principal' = state.total_ust_locked + delta
        /\ state.total_ust_locked \in Nat
    BY <1>5 DEF Principal, MovesUst, SafetyInv, TypeOK, StateRecords
  <2>2. state'.total_ust_locked <= balance'.uusd
    <3>1. /\ state.total_ust_locked <= balance.uusd
          /\ balance.uusd \in Nat /\ balance'.uusd \in Nat
      BY DEF SafetyInv, UstWithinPrincipal, TypeOK, BalanceRecords
    <3>2. /\ balance.uusd + delta <= balance'.uusd
          /\ state'.total_ust_locked = state.total_ust_locked + delta
      BY DEF MovesUst
    <3>3. QED
      BY <2>1, <3>1, <3>2
  <2>3. Total(UserTotals) <= Principal /\ Total(PositionsUst) <= Principal
    BY DEF SafetyInv, UstWithinPrincipal
  <2>4. QED
    BY <1>2, <1>6, <1>7, <2>1, <2>2, <2>3 DEF UstWithinPrincipal
<1>13. PositionsBacked'
  <2>1. \A i \in LockupIds : Refunds'[i] = 0
    BY <1>5 DEF Refunds, MaUstShare, MovesUst
  <2>2. Refunds' \in [LockupIds -> Nat]
    BY <1>5 DEF Refunds, MaUstShare, MovesUst
  <2>3. Total(Refunds') = 0
    BY <2>1, <2>2, TotalZero
  <2>4. QED
    BY <1>5, <2>3 DEF SafetyInv, MovesUst, PositionsBacked
<1>14. QED
  BY <1>10, <1>11, <1>12, <1>13

LEMMA DepositUstSafe ==
  ASSUME SafetyInv, NEW u \in Users, NEW d \in Durations, NEW amount \in 1 .. MaxUst,
         DepositUst(u, d, amount)
  PROVE  SafetyInv'
<1> DEFINE id == <<u, d>>
<1>1. TypeOK /\ TypeOK'
  BY DepositUstType DEF SafetyInv
<1>2. id \in LockupIds /\ id[1] = u /\ id[2] = d /\ amount \in Nat /\ amount > 0
  BY LockdropAssumption DEF LockupIds, DepositUst
<1>3. /\ lockup'[id].ust_locked = lockup[id].ust_locked + amount
      /\ lockup'[id].duration = d
      /\ \A i \in LockupIds \ {id} : lockup'[i] = lockup[i]
  BY <1>1, <1>2 DEF DepositUst, TypeOK, LockupRecords
<1>4. /\ userInfo'[u].total_ust_locked = userInfo[u].total_ust_locked + amount
      /\ userInfo'[u].lockup_positions =
           IF lockup[id].duration = 0 THEN userInfo[u].lockup_positions \union {id}
           ELSE userInfo[u].lockup_positions
      /\ \A v \in Users \ {u} : userInfo'[v] = userInfo[v]
  BY <1>1 DEF DepositUst, TypeOK, UserRecords
<1>5. stored' = stored \union {u}
  BY DEF DepositUst
<1>6. lockup[id].ust_locked \in Nat /\ (lockup[id].ust_locked > 0 <=> lockup[id].duration # 0)
  <2>1. d # 0 /\ lockup[id].ust_locked \in Nat
    BY <1>1, <1>2, LockdropAssumption DEF TypeOK, LockupRecords
  <2>2. QED
    BY <1>2, <2>1 DEF SafetyInv, PositionsMatchLockups
<1>7. OwnPositions'
  BY <1>2, <1>4 DEF SafetyInv, OwnPositions
<1>8. PositionsMatchLockups'
  <2> SUFFICES ASSUME NEW i \in LockupIds
               PROVE  /\ i \in userInfo'[i[1]].lockup_positions <=> lockup'[i].ust_locked > 0
                      /\ lockup'[i].duration = IF lockup'[i].ust_locked > 0 THEN i[2] ELSE 0
                      /\ lockup'[i].ust_locked > 0 => i[1] \in stored'
    BY Zenon DEF PositionsMatchLockups
  <2>1. /\ i \in userInfo[i[1]].lockup_positions <=> lockup[i].ust_locked > 0
        /\ lockup[i].duration = IF lockup[i].ust_locked > 0 THEN i[2] ELSE 0
        /\ lockup[i].ust_locked > 0 => i[1] \in stored
    BY DEF SafetyInv, PositionsMatchLockups
  <2>2. CASE i = id
    <3>1. lockup'[id].ust_locked > 0
      BY <1>2, <1>3, <1>6
    <3>2. id \in userInfo'[u].lockup_positions
      BY <1>2, <1>4, <1>6, <2>1, <2>2
    <3>3. QED
      BY <1>2, <1>3, <1>5, <2>2, <3>1, <3>2
  <2>3. CASE i # id
    <3>1. i[1] \in Users
      BY DEF LockupIds
    <3>2. i \in userInfo'[i[1]].lockup_positions <=> i \in userInfo[i[1]].lockup_positions
      BY <1>4, <2>3, <3>1
    <3>3. QED
      BY <1>3, <1>5, <2>1, <2>3, <3>2
  <2>4. QED
    BY <2>2, <2>3
<1>9. UserTotalCovers' /\ RedBankOnce' /\ UstWithinPrincipal' /\ PositionsBacked'
  <2>1. /\ balance'.uusd = balance.uusd + amount
        /\ balance'.maust = balance.maust
        /\ state'.total_ust_locked = state.total_ust_locked + amount
        /\ state'.final_ust_locked = state.final_ust_locked
        /\ state'.total_maust_locked = state.total_maust_locked
    BY <1>1 DEF DepositUst, TypeOK, StateRecords, BalanceRecords
  <2>2. now <= WithdrawEnd
    <3>1. now \in Nat /\ DepositEnd \in Nat /\ WithdrawEnd = DepositEnd + WithdrawalWindow
          /\ WithdrawalWindow \in Nat
      BY <1>1, LockdropAssumption DEF TypeOK, DepositEnd, WithdrawEnd
    <3>2. QED
      BY <3>1 DEF DepositUst, IsDepositOpen
  <2>3. MovesUst(u, d, amount)
    <3>1. balance.uusd + amount <= balance'.uusd
      BY <1>1, <1>2, <2>1 DEF TypeOK, BalanceRecords
    <3>2. QED
      BY <1>2, <1>3, <1>4, <2>1, <2>2, <3>1 DEF MovesUst
  <2>4. amount \in Int
    BY <1>2
  <2>5. QED
    BY <1>1, <2>3, <2>4, MovesUstSafe
<1>10. QED
  BY <1>1, <1>7, <1>8, <1>9 DEF SafetyInv

LEMMA WithdrawUstSafe ==
  ASSUME SafetyInv, NEW u \in Users, NEW d \in Durations, NEW amount \in 0 .. MaxUst,
         WithdrawUst(u, d, amount)
  PROVE  SafetyInv'
<1> DEFINE id   == <<u, d>>
           left == lockup[id].ust_locked - amount
<1>1. TypeOK /\ TypeOK'
  BY WithdrawUstType DEF SafetyInv
<1>2. id \in LockupIds /\ id[1] = u /\ id[2] = d /\ amount \in Nat
  BY LockdropAssumption DEF LockupIds
<1>3. /\ lockup[id].ust_locked \in Nat /\ lockup[id].ust_locked # 0
      /\ lockup'[id].ust_locked = left
      /\ lockup'[id].duration = IF left = 0 THEN 0 ELSE lockup[id].duration
      /\ \A i \in LockupIds \ {id} : lockup'[i] = lockup[i]
  BY <1>1, <1>2 DEF WithdrawUst, TypeOK, LockupRecords, CloseLockup, NoLockup
<1>4. left \in Nat
  BY <1>1, <1>2, <1>3 DEF TypeOK, LockupRecords
<1>5. /\ userInfo'[u].total_ust_locked = userInfo[u].total_ust_locked - amount
      /\ userInfo'[u].lockup_positions =
           IF left = 0 THEN userInfo[u].lockup_positions \ {id}
           ELSE userInfo[u].lockup_positions
      /\ \A v \in Users \ {u} : userInfo'[v] = userInfo[v]
  BY <1>1 DEF WithdrawUst, TypeOK, UserRecords
<1>6. stored' = stored \union {u}
  BY DEF WithdrawUst
<1> HIDE DEF left
<1>7. OwnPositions'
  BY <1>2, <1>5 DEF SafetyInv, OwnPositions
<1>8. PositionsMatchLockups'
  <2> SUFFICES ASSUME NEW i \in LockupIds
               PROVE  /\ i \in userInfo'[i[1]].lockup_positions <=> lockup'[i].ust_locked > 0
                      /\ lockup'[i].duration = IF lockup'[i].ust_locked > 0 THEN i[2] ELSE 0
                      /\ lockup'[i].ust_locked > 0 => i[1] \in stored'
    BY Zenon DEF PositionsMatchLockups
  <2>1. /\ i \in userInfo[i[1]].lockup_positions <=> lockup[i].ust_locked > 0
        /\ lockup[i].duration = IF lockup[i].ust_locked > 0 THEN i[2] ELSE 0
        /\ lockup[i].ust_locked > 0 => i[1] \in stored
    BY DEF SafetyInv, PositionsMatchLockups
  <2>2. CASE i = id /\ left = 0
    <3>1. id \notin userInfo'[u].lockup_positions
      BY <1>5, <2>2
    <3>2. lockup'[id].ust_locked = 0 /\ lockup'[id].duration = 0
      BY <1>3, <2>2
    <3>3. QED
      BY <1>2, <2>2, <3>1, <3>2
  <2>3. CASE i = id /\ left # 0
    <3>1. lockup[id].ust_locked > 0 /\ lockup'[id].ust_locked > 0
      BY <1>3, <1>4, <2>3
    <3>2. QED
      BY <1>2, <1>3, <1>5, <1>6, <2>1, <2>3, <3>1
  <2>4. CASE i # id
    <3>1. i[1] \in Users
      BY DEF LockupIds
    <3>2. i \in userInfo'[i[1]].lockup_positions <=> i \in userInfo[i[1]].lockup_positions
      BY <1>5, <2>4, <3>1
    <3>3. QED
      BY <1>3, <1>6, <2>1, <2>4, <3>2
  <2>5. QED
    BY <2>2, <2>3, <2>4
<1>9. UserTotalCovers' /\ RedBankOnce' /\ UstWithinPrincipal' /\ PositionsBacked'
  <2>1. /\ balance.uusd - amount <= balance'.uusd
        /\ balance'.maust = balance.maust
        /\ state'.total_ust_locked = state.total_ust_locked - amount
        /\ state'.final_ust_locked = state.final_ust_locked
        /\ state'.total_maust_locked = state.total_maust_locked
        /\ now <= WithdrawEnd
    <3> DEFINE sent == DeductTax(amount)
               tax  == ChainTax(sent)
    <3>1. sent \in Nat /\ tax \in Nat /\ sent + tax <= amount
      BY <1>2, PackageTaxWithin
    <3>2. balance' = [balance EXCEPT !.uusd = @ - sent - tax]
      BY DEF WithdrawUst
    <3> HIDE DEF sent, tax
    <3>3. balance.uusd - amount <= balance'.uusd /\ balance'.maust = balance.maust
      BY <1>1, <1>2, <3>1, <3>2 DEF TypeOK, BalanceRecords
    <3>4. QED
      BY <1>1, <3>3 DEF WithdrawUst, IsWithdrawOpen, TypeOK, StateRecords
  <2> DEFINE delta == 0 - amount
  <2>2. delta \in Int
    BY <1>2
  <2>3. /\ lockup'[id].ust_locked = lockup[id].ust_locked + delta
        /\ userInfo'[u].total_ust_locked = userInfo[u].total_ust_locked + delta
        /\ balance.uusd + delta <= balance'.uusd
        /\ state'.total_ust_locked = state.total_ust_locked + delta
    <3>1. /\ lockup[id].ust_locked \in Nat /\ userInfo[u].total_ust_locked \in Nat
          /\ balance.uusd \in Nat /\ balance'.uusd \in Nat /\ state.total_ust_locked \in Nat
      BY <1>1, <1>2 DEF TypeOK, LockupRecords, UserRecords, BalanceRecords, StateRecords
    <3>2. QED
      BY <1>2, <1>3, <1>5, <2>1, <3>1 DEF left
  <2> HIDE DEF delta
  <2>4. MovesUst(u, d, delta)
    BY <1>2, <1>3, <1>5, <2>1, <2>3 DEF MovesUst
  <2>5. QED
    BY <1>1, <2>2, <2>4, MovesUstSafe
<1>10. QED
  BY <1>1, <1>7, <1>8, <1>9 DEF SafetyInv

LEMMA DepositUstInRedBankSafe ==
  ASSUME SafetyInv, NEW sender \in Owners, NEW minted \in MintChoices,
         DepositUstInRedBank(sender, minted)
  PROVE  SafetyInv'
<1> DEFINE F == state.total_ust_locked
<1>1. TypeOK /\ TypeOK'
  <2>1. AdminStep
    BY Zenon DEF AdminStep
  <2>2. QED
    BY <2>1, NextType DEF SafetyInv, Next
<1>2. /\ F \in Nat \ {0} /\ minted \in Nat /\ now > WithdrawEnd
  <2>1. /\ now \in Nat /\ InitTimestamp \in Nat /\ WithdrawEnd \in Nat /\ F \in Nat
        /\ minted \in Nat
    BY <1>1, LockdropAssumption DEF TypeOK, StateRecords, WithdrawEnd, DepositEnd
  <2>2. F # 0
    <3> DEFINE sent == DeductTax(F)
    <3>1. sent \in Nat /\ ChainTax(sent) \in Nat /\ sent + ChainTax(sent) <= F
      BY <2>1, PackageTaxWithin
    <3>2. 0 < sent
      BY DEF DepositUstInRedBank
    <3> HIDE DEF sent, F
    <3>3. QED
      BY <2>1, <3>1, <3>2
  <2> HIDE DEF F
  <2>3. QED
    BY <2>1, <2>2 DEF DepositUstInRedBank, IsWithdrawOpen
<1>3. state.final_ust_locked = 0 /\ state.total_maust_locked = 0
  BY <1>2 DEF SafetyInv, RedBankOnce
<1>4. /\ state'.final_ust_locked = F /\ state'.final_maust_locked = minted
      /\ state'.total_ust_locked = 0 /\ state'.total_maust_locked = minted
      /\ balance'.maust = balance.maust + minted
      /\ UNCHANGED <<now, userInfo, stored, lockup>>
  BY <1>1 DEF DepositUstInRedBank, StateAfterRedBank, TypeOK, StateRecords, BalanceRecords
<1>5. /\ IsFiniteSet(LockupIds)
      /\ PositionsUst \in [LockupIds -> Nat] /\ Total(PositionsUst) \in Nat
      /\ Refunds' \in [LockupIds -> Nat] /\ Total(Refunds') \in Nat
  <2>1. /\ IsFiniteSet(LockupIds)
        /\ PositionsUst \in [LockupIds -> Nat] /\ Total(PositionsUst) \in Nat
    BY <1>1, TotalsTyped
  <2>2. \A i \in LockupIds : lockup'[i].ust_locked \in Nat
    BY <1>1 DEF TypeOK, LockupRecords
  <2>3. \A ust \in Nat : MaUstShare(ust)' \in Nat
    <3> SUFFICES ASSUME NEW ust \in Nat PROVE MaUstShare(ust)' \in Nat
      OBVIOUS
    <3>1. MaUstShare(ust)' = MulFloor(minted, FromRatio(ust, F))
      BY <1>2, <1>4 DEF MaUstShare
    <3>2. QED
      BY <1>2, <3>1, ShareBound
  <2>4. Refunds' \in [LockupIds -> Nat]
    BY <2>2, <2>3 DEF Refunds
  <2>5. QED
    BY <2>1, <2>4, TotalType
<1>6. Total(PositionsUst) <= F
  BY <1>3 DEF SafetyInv, UstWithinPrincipal, Principal
<1>7. Total(Refunds') <= minted
  <2>1. ASSUME NEW i \in LockupIds
        PROVE  Refunds'[i] * F <= PositionsUst[i] * minted
    <3>1. lockup[i].ust_locked \in Nat
      BY <1>1 DEF TypeOK, LockupRecords
    <3>2. Refunds'[i] = MulFloor(minted, FromRatio(lockup[i].ust_locked, F))
      BY <1>2, <1>4 DEF Refunds, MaUstShare
    <3>3. PositionsUst[i] = lockup[i].ust_locked
      BY DEF PositionsUst
    <3> HIDE DEF F
    <3>4. QED
      BY <1>2, <3>1, <3>2, <3>3, ShareBound
  <2> HIDE DEF F
  <2>2. CASE minted = 0
    <3>1. ASSUME NEW i \in LockupIds PROVE Refunds'[i] = 0
      <4>1. /\ Refunds'[i] \in Nat /\ PositionsUst[i] \in Nat
        BY <1>5
      <4>2. Refunds'[i] * F <= 0 * F
        BY <1>2, <2>1, <2>2, <4>1
      <4>3. Refunds'[i] <= 0
        BY <1>2, <4>1, <4>2, ProductCancel
      <4>4. QED
        BY <4>1, <4>3
    <3>2. Refunds' \in [LockupIds -> Nat]
      BY <1>5
    <3>3. Total(Refunds') = 0
      BY <3>1, <3>2, TotalZero
    <3>4. QED
      BY <2>2, <3>3
  <2>3. CASE minted # 0
    <3>1. /\ Refunds' \in [LockupIds -> Nat] /\ PositionsUst \in [LockupIds -> Nat]
          /\ IsFiniteSet(LockupIds) /\ F \in Nat /\ minted \in Nat \ {0}
      BY <1>2, <1>5, <2>3
    <3>2. Total(Refunds') * F <= Total(PositionsUst) * minted
      BY <2>1, <3>1, TotalScale
    <3>3. Total(PositionsUst) * minted <= F * minted
      BY <1>2, <1>5, <1>6, ProductMono
    <3>4. Total(Refunds') * F <= minted * F
      <4>1. Total(Refunds') * F \in Nat /\ Total(PositionsUst) * minted \in Nat
            /\ F * minted \in Nat /\ F * minted = minted * F
        BY <1>2, <1>5, ProductNat
      <4>2. QED
        BY <3>2, <3>3, <4>1
    <3>5. QED
      BY <1>2, <1>5, <3>4, ProductCancel
  <2>4. QED
    BY <2>2, <2>3
<1>8. OwnPositions'
  BY <1>4 DEF SafetyInv, OwnPositions
<1>9. PositionsMatchLockups'
  BY <1>4 DEF SafetyInv, PositionsMatchLockups
<1>10. UserTotalCovers'
  BY <1>4 DEF SafetyInv, UserTotalCovers, UstOf
<1>11. RedBankOnce'
  BY <1>2, <1>4 DEF RedBankOnce
<1>12. UstWithinPrincipal'
  <2>1. UserTotals' = UserTotals /\ PositionsUst' = PositionsUst
    BY <1>4 DEF UserTotals, PositionsUst
  <2>2. Principal = F /\ Principal' = F
    BY <1>2, <1>3, <1>4 DEF Principal
  <2>3. balance'.uusd \in Nat
    BY <1>1 DEF TypeOK, BalanceRecords
  <2>4. QED
    BY <1>4, <2>1, <2>2, <2>3 DEF SafetyInv, UstWithinPrincipal
<1>13. PositionsBacked'
  <2>1. balance.maust = 0
    BY <1>3 DEF SafetyInv, PositionsBacked
  <2>2. QED
    BY <1>2, <1>4, <1>7, <2>1 DEF PositionsBacked
<1>14. QED
  BY <1>1, <1>8, <1>9, <1>10, <1>11, <1>12, <1>13 DEF SafetyInv

(* A position without UST has no share. *)
LEMMA NoShareOfNothing ==
  ASSUME state \in StateRecords
  PROVE  MaUstShare(0) = 0
<1>1. CASE state.final_ust_locked = 0
  BY <1>1 DEF MaUstShare
<1>2. CASE state.final_ust_locked # 0
  <2> DEFINE F == state.final_ust_locked
             M == state.final_maust_locked
             s == MulFloor(M, FromRatio(0, F))
  <2>1. F \in Nat \ {0} /\ M \in Nat /\ MaUstShare(0) = s
    BY <1>2 DEF MaUstShare, StateRecords
  <2> HIDE DEF F, M
  <2>2. s \in Nat /\ s * F <= 0 * M
    BY <2>1, ShareBound
  <2> HIDE DEF s
  <2>3. s * F <= 0 * F
    BY <2>1, <2>2
  <2>4. s <= 0
    BY <2>1, <2>2, <2>3, ProductCancel
  <2>5. QED
    BY <2>1, <2>2, <2>4
<1>3. QED
  BY <1>1, <1>2

(* The computations of a claim leave the UST and the positions alone. *)
LEMMA ClaimKeepsPositions ==
  ASSUME TypeOK, NEW u \in Users, NEW accrued
  PROVE  /\ Provisioned(u).total_ust_locked = userInfo[u].total_ust_locked
         /\ Provisioned(u).lockup_positions = userInfo[u].lockup_positions
         /\ Settled(Provisioned(u), accrued).total_ust_locked
              = userInfo[u].total_ust_locked
         /\ Settled(Provisioned(u), accrued).lockup_positions
              = userInfo[u].lockup_positions
         /\ \A id \in LockupIds :
              /\ RewardedLockups(u)[id].ust_locked = lockup[id].ust_locked
              /\ RewardedLockups(u)[id].duration = lockup[id].duration
<1> DEFINE info == Provisioned(u)
<1>1. info \in UserRecords /\ userInfo[u] \in UserRecords
  BY ProvisionedType DEF TypeOK
<1>2. /\ info.total_ust_locked = userInfo[u].total_ust_locked
      /\ info.lockup_positions = userInfo[u].lockup_positions
  BY <1>1 DEF Provisioned, UserRecords
<1> HIDE DEF info
<1>3. /\ Settled(info, accrued).total_ust_locked = info.total_ust_locked
      /\ Settled(info, accrued).lockup_positions = info.lockup_positions
  BY <1>1 DEF Settled, UserRecords
<1>4. ASSUME NEW id \in LockupIds
      PROVE  /\ RewardedLockups(u)[id].ust_locked = lockup[id].ust_locked
             /\ RewardedLockups(u)[id].duration = lockup[id].duration
  BY DEF RewardedLockups, TypeOK, LockupRecords
<1>5. QED
  BY <1>2, <1>3, <1>4 DEF info

LEMMA ClaimRewardsAndUnlockSafe ==
  ASSUME SafetyInv, NEW u \in Users, NEW d \in Durations, NEW accrued \in XmarsAccruals,
         ClaimRewardsAndUnlock(u, d, accrued)
  PROVE  SafetyInv'
<1> DEFINE id     == <<u, d>>
           info   == Settled(Provisioned(u), accrued)
           refund == MaUstShare(lockup[id].ust_locked)
           after  == BalanceAfterClaim(u, accrued)
<1>1. TypeOK /\ TypeOK' /\ id \in LockupIds /\ id[1] = u
  BY ClaimRewardsAndUnlockType DEF SafetyInv, LockupIds
<1>2. /\ IsFiniteSet(LockupIds) /\ IsFiniteSet(Users)
      /\ PositionsUst \in [LockupIds -> Nat] /\ Total(PositionsUst) \in Nat
      /\ UserTotals \in [Users -> Nat] /\ Total(UserTotals) \in Nat
      /\ Refunds \in [LockupIds -> Nat] /\ Total(Refunds) \in Nat
      /\ \A v \in Users : UstOf(v) \in [LockupIds -> Nat] /\ Total(UstOf(v)) \in Nat
  BY <1>1, TotalsTyped
<1>3. /\ 0 < refund /\ refund <= state.total_maust_locked
      /\ stored' = stored \union {u}
      /\ state' = [state EXCEPT !.xmars_rewards_index = XmarsIndexAfter(accrued),
                                !.total_maust_locked = @ - refund]
      /\ balance' = [after EXCEPT !.maust = @ - refund]
      /\ userInfo' = [userInfo EXCEPT ![u] =
                        [info EXCEPT !.total_maust_share = @ - refund,
                                     !.lockup_positions = @ \ {id}]]
      /\ lockup' = [RewardedLockups(u) EXCEPT ![id] = NoLockup]
      /\ now' = now
  BY Zenon DEF ClaimRewardsAndUnlock, CloseLockup
<1>4. after \in BalanceRecords /\ after.maust = balance.maust /\ after.uusd = balance.uusd
  <2>1. ClaimAllowed(u, accrued)
    BY DEF ClaimRewardsAndUnlock
  <2>2. after \in BalanceRecords
    BY <1>1, <2>1, ClaimType
  <2>3. QED
    BY <1>1, <2>2 DEF TypeOK, BalanceRecords, BalanceAfterClaim
<1>5. refund \in Nat /\ refund = Refunds[id]
  BY <1>1, <1>2 DEF Refunds
<1>6. /\ lockup'[id].ust_locked = 0 /\ lockup'[id].duration = 0
      /\ \A i \in LockupIds : i # id =>
           /\ lockup'[i].ust_locked = lockup[i].ust_locked
           /\ lockup'[i].duration = lockup[i].duration
  <2>1. RewardedLockups(u) \in [LockupIds -> LockupRecords]
    BY <1>1, RewardedLockupsType
  <2>2. lockup'[id] = NoLockup /\ \A i \in LockupIds : i # id => lockup'[i] = RewardedLockups(u)[i]
    BY <1>1, <1>3, <2>1
  <2>3. QED
    BY <1>1, <2>2, ClaimKeepsPositions DEF NoLockup
<1>7. /\ userInfo'[u].total_ust_locked = userInfo[u].total_ust_locked
      /\ userInfo'[u].lockup_positions = userInfo[u].lockup_positions \ {id}
      /\ \A v \in Users : v # u => userInfo'[v] = userInfo[v]
  <2>1. /\ info.total_ust_locked = userInfo[u].total_ust_locked
        /\ info.lockup_positions = userInfo[u].lockup_positions
    BY <1>1, ClaimKeepsPositions
  <2>2. info \in UserRecords
    BY <1>1, ClaimType DEF ClaimRewardsAndUnlock
  <2> HIDE DEF info, refund, id
  <2>3. /\ userInfo'[u] = [info EXCEPT !.total_maust_share = @ - refund,
                                       !.lockup_positions = @ \ {id}]
        /\ \A v \in Users : v # u => userInfo'[v] = userInfo[v]
    BY <1>1, <1>3, Zenon DEF TypeOK
  <2>4. QED
    BY <2>1, <2>2, <2>3 DEF UserRecords
<1>8. /\ state'.final_ust_locked = state.final_ust_locked
      /\ state'.final_maust_locked = state.final_maust_locked
      /\ state'.total_ust_locked = state.total_ust_locked
      /\ state'.total_maust_locked = state.total_maust_locked - refund
      /\ balance'.maust = balance.maust - refund
      /\ balance'.uusd = balance.uusd
  <2> HIDE DEF refund, after
  <2>1. QED
    BY <1>1, <1>3, <1>4 DEF TypeOK, StateRecords, BalanceRecords
<1> HIDE DEF refund, info, after, id
<1>9. /\ PositionsUst' \in [LockupIds -> Nat] /\ UserTotals' = UserTotals
      /\ Refunds' \in [LockupIds -> Nat]
      /\ \A v \in Users : UstOf(v)' \in [LockupIds -> Nat]
  <2>1. \A i \in LockupIds : lockup'[i].ust_locked \in Nat
    BY <1>1 DEF TypeOK, LockupRecords
  <2>2. \A ust : MaUstShare(ust)' = MaUstShare(ust)
    BY <1>8 DEF MaUstShare
  <2>3. \A i \in LockupIds : MaUstShare(lockup'[i].ust_locked) \in Nat
    BY <1>1, <2>1, MaUstShareType DEF TypeOK
  <2>4. UserTotals' = UserTotals
    BY <1>7 DEF UserTotals
  <2>5. QED
    BY <2>1, <2>2, <2>3, <2>4 DEF PositionsUst, UstOf, Refunds
<1>10. Total(PositionsUst') <= Total(PositionsUst)
  <2>1. \A i \in LockupIds : PositionsUst'[i] <= PositionsUst[i]
    BY <1>1, <1>6 DEF PositionsUst, TypeOK, LockupRecords
  <2>2. /\ PositionsUst \in [LockupIds -> Nat] /\ PositionsUst' \in [LockupIds -> Nat]
        /\ IsFiniteSet(LockupIds)
    BY <1>2, <1>9
  <2>3. QED
    BY <2>1, <2>2, TotalMono
<1>11. \A v \in Users : Total(UstOf(v)') <= Total(UstOf(v))
  <2> SUFFICES ASSUME NEW v \in Users PROVE Total(UstOf(v)') <= Total(UstOf(v))
    OBVIOUS
  <2>1. \A i \in LockupIds : UstOf(v)'[i] <= UstOf(v)[i]
    BY <1>1, <1>6 DEF UstOf, TypeOK, LockupRecords
  <2>2. /\ UstOf(v) \in [LockupIds -> Nat] /\ UstOf(v)' \in [LockupIds -> Nat]
        /\ IsFiniteSet(LockupIds)
    BY <1>2, <1>9
  <2>3. QED
    BY <2>1, <2>2, TotalMono
<1>12. Total(Refunds') = Total(Refunds) - refund
  <2>1. \A ust : MaUstShare(ust)' = MaUstShare(ust)
    BY <1>8 DEF MaUstShare
  <2>2. Refunds'[id] = 0
    BY <1>1, <1>6, <2>1, NoShareOfNothing DEF Refunds, TypeOK
  <2>3. \A i \in LockupIds : i # id => Refunds'[i] = Refunds[i]
    BY <1>6, <2>1 DEF Refunds
  <2> DEFINE delta == 0 - refund
  <2>4. delta \in Int /\ Refunds'[id] = Refunds[id] + delta
    BY <1>5, <2>2
  <2>5. /\ Refunds \in [LockupIds -> Nat] /\ Refunds' \in [LockupIds -> Nat]
        /\ IsFiniteSet(LockupIds) /\ id \in LockupIds
    BY <1>1, <1>2, <1>9
  <2> HIDE DEF delta
  <2>6. Total(Refunds') = Total(Refunds) + delta
    BY <2>3, <2>4, <2>5, TotalShift
  <2>7. QED
    BY <1>2, <1>5, <2>6 DEF delta
<1>13. OwnPositions'
  BY <1>7 DEF SafetyInv, OwnPositions
<1>14. PositionsMatchLockups'
  <2> SUFFICES ASSUME NEW i \in LockupIds
               PROVE  /\ i \in userInfo'[i[1]].lockup_positions <=> lockup'[i].ust_locked > 0
                      /\ lockup'[i].duration = IF lockup'[i].ust_locked > 0 THEN i[2] ELSE 0
                      /\ lockup'[i].ust_locked > 0 => i[1] \in stored'
    BY Zenon DEF PositionsMatchLockups
  <2>1. /\ i \in userInfo[i[1]].lockup_positions <=> lockup[i].ust_locked > 0
        /\ lockup[i].duration = IF lockup[i].ust_locked > 0 THEN i[2] ELSE 0
        /\ lockup[i].ust_locked > 0 => i[1] \in stored
    BY DEF SafetyInv, PositionsMatchLockups
  <2>2. CASE i = id
    <3>1. id \notin userInfo'[u].lockup_positions
      BY <1>7
    <3>2. QED
      BY <1>1, <1>6, <2>2, <3>1
  <2>3. CASE i # id
    <3>1. i[1] \in Users
      BY DEF LockupIds
    <3>2. i \in userInfo'[i[1]].lockup_positions <=> i \in userInfo[i[1]].lockup_positions
      BY <1>7, <2>3, <3>1
    <3>3. QED
      BY <1>3, <1>6, <2>1, <2>3, <3>2
  <2>4. QED
    BY <2>2, <2>3
<1>15. UserTotalCovers'
  <2> SUFFICES ASSUME NEW v \in Users
               PROVE  Total(UstOf(v)') <= userInfo'[v].total_ust_locked
    BY DEF UserTotalCovers
  <2>1. userInfo'[v].total_ust_locked = userInfo[v].total_ust_locked
    BY <1>7
  <2>2. /\ Total(UstOf(v)) \in Nat /\ userInfo[v].total_ust_locked \in Nat
        /\ Total(UstOf(v)) <= userInfo[v].total_ust_locked
    BY <1>1, <1>2 DEF SafetyInv, TypeOK, UserRecords, UserTotalCovers
  <2>3. Total(UstOf(v)') \in Nat
    BY <1>2, <1>9, TotalType
  <2>4. QED
    BY <1>11, <2>1, <2>2, <2>3
<1>16. RedBankOnce'
  <2>1. state.final_ust_locked # 0
    BY <1>3, <1>5 DEF SafetyInv, RedBankOnce
  <2>2. QED
    BY <1>3, <1>8, <2>1 DEF SafetyInv, RedBankOnce
<1>17. UstWithinPrincipal'
  <2>1. Principal' = Principal /\ Principal \in Nat
    BY <1>1, <1>8 DEF Principal, TypeOK, StateRecords
  <2>2. Total(PositionsUst') \in Nat
    BY <1>2, <1>9, TotalType
  <2>3. QED
    BY <1>2, <1>8, <1>9, <1>10, <2>1, <2>2 DEF SafetyInv, UstWithinPrincipal
<1>18. PositionsBacked'
  <2>1. Total(Refunds) <= state.total_maust_locked /\ state.total_maust_locked \in Nat
        /\ balance.maust = state.total_maust_locked
    BY <1>1 DEF SafetyInv, PositionsBacked, TypeOK, StateRecords
  <2>2. QED
    BY <1>2, <1>5, <1>8, <1>12, <2>1 DEF PositionsBacked
<1>19. QED
  BY <1>1, <1>13, <1>14, <1>15, <1>16, <1>17, <1>18 DEF SafetyInv

-------------------------------------------------------------------------------
(* The nuke *)

LEMMA NukeLockdropSafe ==
  ASSUME SafetyInv, NukeLockdrop
  PROVE  SafetyInv'
<1> DEFINE refunds == Total([u \in Nuked |-> NukedMaUst(u)])
           P       == [u \in Nuked |-> userInfo[u].lockup_positions]
           Z       == UNION {P[u] : u \in Nuked}
           removed == {u \in NukeBatch : \/ u \notin Nuked
                                         \/ userInfo[u].total_ust_locked = NukedUst(u)}
<1>1. TypeOK /\ TypeOK'
  BY NukeType DEF SafetyInv
<1>2. /\ IsFiniteSet(LockupIds) /\ IsFiniteSet(Users)
      /\ PositionsUst \in [LockupIds -> Nat] /\ Total(PositionsUst) \in Nat
      /\ UserTotals \in [Users -> Nat] /\ Total(UserTotals) \in Nat
      /\ Refunds \in [LockupIds -> Nat] /\ Total(Refunds) \in Nat
      /\ \A v \in Users : UstOf(v) \in [LockupIds -> Nat] /\ Total(UstOf(v)) \in Nat
  BY <1>1, TotalsTyped
<1>3. Nuked \subseteq Users /\ NukeBatch \subseteq stored /\ IsFiniteSet(Nuked)
      /\ Nuked \subseteq NukeBatch
  BY <1>1, RefundsType DEF Nuked, NukeBatch, TypeOK
<1>4. /\ refunds \in Nat /\ refunds <= state.total_maust_locked
      /\ state'.final_ust_locked = state.final_ust_locked
      /\ state'.final_maust_locked = state.final_maust_locked
      /\ state'.total_ust_locked = state.total_ust_locked
      /\ state'.total_maust_locked = state.total_maust_locked - refunds
      /\ balance'.maust = balance.maust - refunds
      /\ balance'.uusd = balance.uusd
      /\ now' = now
  <2>1. /\ refunds <= state.total_maust_locked
        /\ state' = [state EXCEPT !.total_maust_locked = @ - refunds]
        /\ balance' = [balance EXCEPT !.maust = @ - refunds]
        /\ now' = now
    BY Zenon DEF NukeLockdrop
  <2>2. refunds \in Nat
    BY <1>1, RefundsType
  <2> HIDE DEF refunds
  <2>3. QED
    BY <1>1, <2>1, <2>2 DEF TypeOK, StateRecords, BalanceRecords
<1>5. \A i \in LockupIds : i \in Z <=> \E u \in Nuked : i \in userInfo[u].lockup_positions
  OBVIOUS
<1>6. \A i \in LockupIds : lockup'[i] = IF i \in Z THEN NoLockup ELSE lockup[i]
  <2>1. \A i \in LockupIds :
          lockup'[i] = IF \E u \in Nuked : i \in userInfo[u].lockup_positions
                       THEN NoLockup ELSE lockup[i]
    BY DEF NukeLockdrop, LockupsAfterNuke, CloseLockup
  <2> HIDE DEF Z
  <2>2. QED
    BY <1>5, <2>1
<1>7. \A u \in Users : u \in Nuked =>
        /\ userInfo'[u].lockup_positions = {}
        /\ userInfo'[u].total_ust_locked \in Nat
        /\ userInfo'[u].total_ust_locked <= userInfo[u].total_ust_locked
  <2> SUFFICES ASSUME NEW u \in Users, u \in Nuked
               PROVE  /\ userInfo'[u].lockup_positions = {}
                      /\ userInfo'[u].total_ust_locked \in Nat
                      /\ userInfo'[u].total_ust_locked <= userInfo[u].total_ust_locked
    OBVIOUS
  <2> DEFINE info == userInfo[u]
  <2>1. info \in UserRecords /\ NukedUst(u) \in Nat /\ NukedUst(u) <= info.total_ust_locked
    BY <1>1, NukedType DEF NukeLockdrop, TypeOK
  <2>2. userInfo'[u] \in
          {NoUser, [info EXCEPT !.total_ust_locked = @ - NukedUst(u),
                                !.total_maust_share = @ - NukedMaUst(u),
                                !.lockup_positions = {}]}
    BY DEF NukeLockdrop
  <2>3. NoUser.lockup_positions = {} /\ NoUser.total_ust_locked = 0
    BY DEF NoUser
  <2> DEFINE info1 == [info EXCEPT !.total_ust_locked = @ - NukedUst(u),
                                   !.total_maust_share = @ - NukedMaUst(u),
                                   !.lockup_positions = {}]
  <2> HIDE DEF info
  <2>4. /\ info1.lockup_positions = {}
        /\ info1.total_ust_locked = info.total_ust_locked - NukedUst(u)
    BY <2>1 DEF UserRecords
  <2> HIDE DEF info1
  <2>5. userInfo'[u] = NoUser \/ userInfo'[u] = info1
    BY <2>2 DEF info1, info
  <2>6. info.total_ust_locked \in Nat
    BY <2>1 DEF UserRecords
  <2>7. QED
    BY <2>1, <2>3, <2>4, <2>5, <2>6 DEF info
<1>8. \A u \in Users : u \in removed /\ u \notin Nuked =>
        /\ userInfo'[u].lockup_positions = {}
        /\ userInfo'[u].total_ust_locked = 0
        /\ userInfo[u].total_ust_locked = 0
  BY DEF NukeLockdrop, Nuked, NoUser
<1>9. \A u \in Users : u \notin removed /\ u \notin Nuked =>
        userInfo'[u] = userInfo[u]
  BY DEF NukeLockdrop
<1>10. stored' = stored \ removed
  BY DEF NukeLockdrop
<1> HIDE DEF removed, refunds
<1>11. \A i \in LockupIds : i \in Z =>
         /\ i[1] \in Nuked
         /\ i \in userInfo[i[1]].lockup_positions
  BY <1>3, <1>5 DEF SafetyInv, OwnPositions
<1>12. \A i \in LockupIds : i[1] \in Nuked /\ i \notin Z => lockup[i].ust_locked = 0
  <2> SUFFICES ASSUME NEW i \in LockupIds, i[1] \in Nuked, i \notin Z
               PROVE  lockup[i].ust_locked = 0
    OBVIOUS
  <2>1. i \notin userInfo[i[1]].lockup_positions
    BY <1>5
  <2>2. lockup[i].ust_locked \in Nat
    BY <1>1 DEF TypeOK, LockupRecords
  <2>3. QED
    BY <2>1, <2>2 DEF SafetyInv, PositionsMatchLockups
<1>13. \A i \in LockupIds : i[1] \in removed /\ i[1] \notin Nuked => lockup[i].ust_locked = 0
  <2> SUFFICES ASSUME NEW i \in LockupIds, i[1] \in removed, i[1] \notin Nuked
               PROVE  lockup[i].ust_locked = 0
    OBVIOUS
  <2> DEFINE u == i[1]
  <2>1. u \in Users
    BY DEF LockupIds
  <2>2. userInfo[u].total_ust_locked = 0
    BY <1>8, <2>1
  <2>3. Total(UstOf(u)) <= 0
    BY <2>1, <2>2 DEF SafetyInv, UserTotalCovers
  <2>4. UstOf(u)[i] <= Total(UstOf(u))
    <3>1. /\ UstOf(u) \in [LockupIds -> Nat] /\ IsFiniteSet(LockupIds)
      BY <1>2, <2>1
    <3> HIDE DEF u
    <3>2. UstOf(u)[i] <= Total(UstOf(u))
      BY <3>1, TotalPoint
    <3>3. QED
      BY <3>2
  <2>5. UstOf(u)[i] = lockup[i].ust_locked
    BY DEF UstOf
  <2>6. lockup[i].ust_locked \in Nat /\ Total(UstOf(u)) \in Nat
    BY <1>1, <1>2, <2>1 DEF TypeOK, LockupRecords
  <2>7. QED
    BY <2>3, <2>4, <2>5, <2>6
<1> HIDE DEF Z, P
<1>14. OwnPositions'
  <2> SUFFICES ASSUME NEW u \in Users, NEW i \in userInfo'[u].lockup_positions
               PROVE  i[1] = u
    BY DEF OwnPositions
  <2>1. userInfo'[u] = userInfo[u]
    BY <1>7, <1>8, <1>9
  <2>2. QED
    BY <2>1 DEF SafetyInv, OwnPositions
<1>15. PositionsMatchLockups'
  <2> SUFFICES ASSUME NEW i \in LockupIds
               PROVE  /\ i \in userInfo'[i[1]].lockup_positions <=> lockup'[i].ust_locked > 0
                      /\ lockup'[i].duration = IF lockup'[i].ust_locked > 0 THEN i[2] ELSE 0
                      /\ lockup'[i].ust_locked > 0 => i[1] \in stored'
    BY Zenon DEF PositionsMatchLockups
  <2>1. /\ i \in userInfo[i[1]].lockup_positions <=> lockup[i].ust_locked > 0
        /\ lockup[i].duration = IF lockup[i].ust_locked > 0 THEN i[2] ELSE 0
        /\ lockup[i].ust_locked > 0 => i[1] \in stored
        /\ i[1] \in Users
    BY DEF SafetyInv, PositionsMatchLockups, LockupIds
  <2>2. NoLockup.ust_locked = 0 /\ NoLockup.duration = 0
    BY DEF NoLockup
  <2>3. CASE i[1] \in Nuked
    <3>1. lockup'[i].ust_locked = 0 /\ lockup'[i].duration = 0
      BY <1>6, <1>12, <2>1, <2>2, <2>3
    <3>2. QED
      BY <1>7, <2>1, <2>3, <3>1
  <2>4. CASE i[1] \notin Nuked /\ i[1] \in removed
    <3>1. lockup'[i].ust_locked = 0 /\ lockup'[i].duration = 0
      BY <1>6, <1>13, <2>1, <2>2, <2>4
    <3>2. QED
      BY <1>8, <2>1, <2>4, <3>1
  <2>5. CASE i[1] \notin Nuked /\ i[1] \notin removed
    <3>1. lockup'[i] = lockup[i]
      BY <1>6, <1>11, <2>5
    <3>2. QED
      BY <1>9, <1>10, <2>1, <2>5, <3>1
  <2>6. QED
    BY <2>3, <2>4, <2>5
<1>16. \A i \in LockupIds : lockup'[i].ust_locked \in Nat
                            /\ lockup'[i].ust_locked <= lockup[i].ust_locked
  <2>1. NoLockup.ust_locked = 0
    BY DEF NoLockup
  <2>2. \A i \in LockupIds : lockup[i].ust_locked \in Nat
    BY <1>1 DEF TypeOK, LockupRecords
  <2>3. QED
    BY <1>6, <2>1, <2>2
<1>17. UserTotalCovers'
  <2> SUFFICES ASSUME NEW u \in Users
               PROVE  Total(UstOf(u)') <= userInfo'[u].total_ust_locked
    BY DEF UserTotalCovers
  <2>1. UstOf(u)' \in [LockupIds -> Nat] /\ userInfo'[u].total_ust_locked \in Nat
    BY <1>1, <1>16 DEF UstOf, TypeOK, UserRecords
  <2>2. CASE u \in Nuked \/ u \in removed
    <3>1. \A i \in LockupIds : UstOf(u)'[i] = 0
      BY <1>6, <1>12, <1>13, <2>2 DEF UstOf, NoLockup
    <3>2. Total(UstOf(u)') = 0
      BY <2>1, <3>1, TotalZero
    <3>3. QED
      BY <2>1, <3>2
  <2>3. CASE u \notin Nuked /\ u \notin removed
    <3>1. \A i \in LockupIds : i[1] = u => lockup'[i] = lockup[i]
      BY <1>6, <1>11, <2>3
    <3>2. UstOf(u)' = UstOf(u)
      BY <3>1 DEF UstOf
    <3>3. QED
      BY <1>9, <2>3, <3>2 DEF SafetyInv, UserTotalCovers
  <2>4. QED
    BY <2>2, <2>3
<1>18. RedBankOnce'
  <2>1. state.total_maust_locked \in Nat
    BY <1>1 DEF TypeOK, StateRecords
  <2>2. QED
    BY <1>4, <2>1 DEF SafetyInv, RedBankOnce
<1>19. UstWithinPrincipal'
  <2>1. Principal' = Principal /\ Principal \in Nat
    BY <1>1, <1>4 DEF Principal, TypeOK, StateRecords
  <2>2. Total(PositionsUst') \in Nat /\ Total(PositionsUst') <= Total(PositionsUst)
    <3>1. /\ PositionsUst \in [LockupIds -> Nat] /\ PositionsUst' \in [LockupIds -> Nat]
          /\ IsFiniteSet(LockupIds)
          /\ \A i \in LockupIds : PositionsUst'[i] <= PositionsUst[i]
      BY <1>2, <1>16 DEF PositionsUst
    <3>2. QED
      BY <3>1, TotalMono, TotalType
  <2>3. Total(UserTotals') \in Nat /\ Total(UserTotals') <= Total(UserTotals)
    <3>1. \A u \in Users : userInfo[u].total_ust_locked \in Nat
                           /\ userInfo'[u].total_ust_locked \in Nat
      BY <1>1 DEF TypeOK, UserRecords
    <3>2. \A u \in Users : userInfo'[u].total_ust_locked <= userInfo[u].total_ust_locked
      BY <1>7, <1>8, <1>9, <3>1
    <3>3. /\ UserTotals \in [Users -> Nat] /\ UserTotals' \in [Users -> Nat]
          /\ IsFiniteSet(Users)
          /\ \A u \in Users : UserTotals'[u] <= UserTotals[u]
      BY <1>2, <3>1, <3>2 DEF UserTotals
    <3>4. QED
      BY <3>3, TotalMono, TotalType
  <2>4. QED
    BY <1>2, <1>4, <2>1, <2>2, <2>3 DEF SafetyInv, UstWithinPrincipal
<1>20. refunds = Total([i \in Z |-> Refunds[i]]) /\ Z \subseteq LockupIds
  <2>1. \A u \in Nuked : P[u] = userInfo[u].lockup_positions /\ P[u] \subseteq LockupIds
    BY <1>1, <1>3 DEF P, TypeOK, UserRecords
  <2>2. \A u, v \in Nuked : u # v => P[u] \cap P[v] = {}
    BY <1>3, <2>1 DEF SafetyInv, OwnPositions
  <2>3. Total([u \in Nuked |-> Total([i \in P[u] |-> Refunds[i]])])
          = Total([i \in Z |-> Refunds[i]])
    <3>1. /\ IsFiniteSet(Nuked) /\ IsFiniteSet(LockupIds)
          /\ Refunds \in [LockupIds -> Nat]
          /\ \A u \in Nuked : P[u] \subseteq LockupIds
      BY <1>2, <1>3, <2>1
    <3>2. QED
      BY <2>2, <3>1, TotalNested DEF Z
  <2>4. ASSUME NEW u \in Nuked
        PROVE  NukedMaUst(u) = Total([i \in P[u] |-> Refunds[i]])
    <3>1. \A i \in P[u] : Refunds[i] = MaUstShare(lockup[i].ust_locked)
      BY <2>1 DEF Refunds
    <3>2. [i \in P[u] |-> Refunds[i]] = [i \in P[u] |-> MaUstShare(lockup[i].ust_locked)]
      BY <3>1, Zenon
    <3>3. P[u] = userInfo[u].lockup_positions
      BY <2>1
    <3>4. QED
      BY <3>2, <3>3, Zenon DEF NukedMaUst
  <2>5. [u \in Nuked |-> NukedMaUst(u)]
          = [u \in Nuked |-> Total([i \in P[u] |-> Refunds[i]])]
    BY <2>4, Zenon
  <2>6. Z \subseteq LockupIds
    BY <2>1 DEF Z
  <2>7. QED
    BY <2>3, <2>5, <2>6, Zenon DEF refunds
<1>21. Total(Refunds') = Total(Refunds) - refunds
  <2>1. \A ust : MaUstShare(ust)' = MaUstShare(ust)
    BY <1>4 DEF MaUstShare
  <2>2. Refunds' = [i \in LockupIds |-> IF i \in Z THEN 0 ELSE Refunds[i]]
    <3>1. MaUstShare(0) = 0
      BY <1>1, NoShareOfNothing DEF TypeOK
    <3>2. \A i \in LockupIds : MaUstShare(lockup[i].ust_locked)'
            = IF i \in Z THEN 0 ELSE MaUstShare(lockup[i].ust_locked)
      BY <1>6, <2>1, <3>1 DEF NoLockup
    <3>3. QED
      BY <3>2 DEF Refunds
  <2>3. Total([i \in LockupIds |-> IF i \in Z THEN 0 ELSE Refunds[i]])
          = Total(Refunds) - Total([i \in Z |-> Refunds[i]])
    <3>1. /\ IsFiniteSet(LockupIds) /\ Refunds \in [LockupIds -> Nat]
          /\ Z \subseteq LockupIds
      BY <1>2, <1>20
    <3>2. QED
      BY <3>1, TotalSplit, Zenon
  <2>4. QED
    BY <1>20, <2>2, <2>3, Zenon
<1>22. PositionsBacked'
  <2>1. Total(Refunds) <= state.total_maust_locked /\ state.total_maust_locked \in Nat
        /\ balance.maust = state.total_maust_locked
    BY <1>1 DEF SafetyInv, PositionsBacked, TypeOK, StateRecords
  <2>2. QED
    BY <1>2, <1>4, <1>21, <2>1 DEF PositionsBacked
<1>23. QED
  BY <1>1, <1>14, <1>15, <1>17, <1>18, <1>19, <1>22 DEF SafetyInv

-------------------------------------------------------------------------------
(* The theorems *)

LEMMA InitSafe == Init => SafetyInv
<1> SUFFICES ASSUME Init PROVE SafetyInv
  OBVIOUS
<1>1. TypeOK
  BY InitType
<1>2. /\ \A id \in LockupIds : lockup[id].ust_locked = 0 /\ lockup[id].duration = 0
      /\ \A u \in Users : /\ userInfo[u].total_ust_locked = 0
                          /\ userInfo[u].lockup_positions = {}
      /\ state.final_ust_locked = 0 /\ state.total_ust_locked = 0
      /\ state.total_maust_locked = 0 /\ balance.uusd = 0 /\ balance.maust = 0
  BY DEF Init, NoUser, NoLockup
<1>3. Total(PositionsUst) = 0
  BY <1>1, <1>2, TotalsTyped, TotalZero DEF PositionsUst
<1>4. Total(UserTotals) = 0
  BY <1>1, <1>2, TotalsTyped, TotalZero DEF UserTotals
<1>5. Total(Refunds) = 0
  BY <1>1, <1>2, TotalsTyped, TotalZero, NoShareOfNothing DEF Refunds, TypeOK
<1>6. \A u \in Users : Total(UstOf(u)) = 0
  <2> SUFFICES ASSUME NEW u \in Users PROVE Total(UstOf(u)) = 0
    OBVIOUS
  <2>1. UstOf(u) \in [LockupIds -> Nat] /\ \A i \in LockupIds : UstOf(u)[i] = 0
    BY <1>1, <1>2, TotalsTyped DEF UstOf
  <2>2. QED
    BY <2>1, TotalZero
<1>7. OwnPositions /\ PositionsMatchLockups
  <2>1. \A id \in LockupIds : id[1] \in Users
    BY DEF LockupIds
  <2>2. QED
    BY <1>2, <2>1 DEF OwnPositions, PositionsMatchLockups
<1>8. UserTotalCovers /\ RedBankOnce
  BY <1>2, <1>6 DEF UserTotalCovers, RedBankOnce
<1>9. UstWithinPrincipal /\ PositionsBacked
  BY <1>2, <1>3, <1>4, <1>5 DEF UstWithinPrincipal, PositionsBacked, Principal
<1>10. QED
  BY <1>1, <1>7, <1>8, <1>9 DEF SafetyInv

LEMMA NextSafe ==
  ASSUME SafetyInv, [Next]_vars
  PROVE  SafetyInv'
<1>1. TypeOK /\ TypeOK' /\ now \in Nat
  BY NextType DEF SafetyInv, TypeOK
<1>2. CASE Tick
  BY <1>1, <1>2, SamePositionsSafe DEF Tick
<1>3. ASSUME NEW sender \in Owners, NEW addresses \in ConfigUpdates,
             NEW newOwner \in Owners, UpdateConfig(sender, addresses, newOwner)
      PROVE  SafetyInv'
  BY <1>1, <1>3, SamePositionsSafe DEF UpdateConfig
<1>4. CASE AdminStep
  BY <1>3, <1>4, DepositUstInRedBankSafe DEF AdminStep
<1>5. ASSUME NEW amount \in MarsAmounts, IncreaseMarsIncentives(amount)
      PROVE  SafetyInv'
  <2>1. balance'.uusd = balance.uusd /\ balance'.maust = balance.maust
    BY <1>1, <1>5 DEF IncreaseMarsIncentives, TypeOK, BalanceRecords
  <2>2. QED
    BY <1>1, <1>5, <2>1, SamePositionsSafe DEF IncreaseMarsIncentives
<1>6. ASSUME NEW u \in Users, NEW amount \in MarsAmounts, DepositMarsToAuction(u, amount)
      PROVE  SafetyInv'
  <2> DEFINE info == Provisioned(u)
  <2>1. info \in UserRecords /\ info.total_ust_locked = userInfo[u].total_ust_locked
        /\ info.lockup_positions = userInfo[u].lockup_positions
    BY <1>1, ProvisionedType, ClaimKeepsPositions
  <2>2. userInfo' = [userInfo EXCEPT ![u] =
                       [info EXCEPT !.delegated_mars_incentives = @ + amount]]
    BY <1>6 DEF DepositMarsToAuction
  <2> HIDE DEF info
  <2>3. \A v \in Users :
          /\ userInfo'[v].total_ust_locked = userInfo[v].total_ust_locked
          /\ userInfo'[v].lockup_positions = userInfo[v].lockup_positions
    <3>1. /\ userInfo'[u] = [info EXCEPT !.delegated_mars_incentives = @ + amount]
          /\ \A v \in Users : v # u => userInfo'[v] = userInfo[v]
      BY <1>1, <2>2, Zenon DEF TypeOK
    <3>2. QED
      BY <2>1, <3>1 DEF UserRecords
  <2>4. \A id \in LockupIds : /\ lockup'[id].ust_locked = lockup[id].ust_locked
                              /\ lockup'[id].duration = lockup[id].duration
    BY <1>1, <1>6, ClaimKeepsPositions DEF DepositMarsToAuction
  <2>5. /\ state'.final_ust_locked = state.final_ust_locked
        /\ state'.final_maust_locked = state.final_maust_locked
        /\ state'.total_ust_locked = state.total_ust_locked
        /\ state'.total_maust_locked = state.total_maust_locked
        /\ balance'.uusd = balance.uusd /\ balance'.maust = balance.maust
        /\ stored \subseteq stored' /\ now <= now'
    BY <1>1, <1>6 DEF DepositMarsToAuction, TypeOK, StateRecords, BalanceRecords
  <2>6. QED
    BY <1>1, <2>3, <2>4, <2>5, SamePositionsSafe
<1>7. ASSUME NEW u \in Users, NEW accrued \in XmarsAccruals, ClaimRewards(u, accrued)
      PROVE  SafetyInv'
  <2>1. \A v \in Users :
          /\ userInfo'[v].total_ust_locked = userInfo[v].total_ust_locked
          /\ userInfo'[v].lockup_positions = userInfo[v].lockup_positions
    BY <1>1, <1>7, ClaimKeepsPositions DEF ClaimRewards, TypeOK
  <2>2. \A id \in LockupIds : /\ lockup'[id].ust_locked = lockup[id].ust_locked
                              /\ lockup'[id].duration = lockup[id].duration
    BY <1>1, <1>7, ClaimKeepsPositions DEF ClaimRewards
  <2>3. /\ state'.final_ust_locked = state.final_ust_locked
        /\ state'.final_maust_locked = state.final_maust_locked
        /\ state'.total_ust_locked = state.total_ust_locked
        /\ state'.total_maust_locked = state.total_maust_locked
        /\ stored \subseteq stored' /\ now <= now'
    BY <1>1, <1>7 DEF ClaimRewards, TypeOK, StateRecords
  <2>4. balance'.uusd = balance.uusd /\ balance'.maust = balance.maust
    BY <1>1, <1>7 DEF ClaimRewards, BalanceAfterClaim, TypeOK, BalanceRecords
  <2>5. QED
    BY <1>1, <2>1, <2>2, <2>3, <2>4, SamePositionsSafe
<1>8. CASE UserStep
  BY <1>7, <1>8, DepositUstSafe, WithdrawUstSafe, ClaimRewardsAndUnlockSafe
  DEF UserStep
<1>13. CASE UserDelegates
  BY <1>6, <1>13 DEF UserDelegates
<1>9. CASE EnableClaims
  <2>1. /\ state'.final_ust_locked = state.final_ust_locked
        /\ state'.final_maust_locked = state.final_maust_locked
        /\ state'.total_ust_locked = state.total_ust_locked
        /\ state'.total_maust_locked = state.total_maust_locked
    BY <1>1, <1>9 DEF EnableClaims, TypeOK, StateRecords
  <2>2. QED
    BY <1>1, <1>9, <2>1, SamePositionsSafe DEF EnableClaims
<1>10. CASE NukeLockdrop
  BY <1>10, NukeLockdropSafe
<1>11. CASE UNCHANGED vars
  BY <1>1, <1>11, SamePositionsSafe DEF vars
<1>12. QED
  BY <1>2, <1>4, <1>5, <1>8, <1>9, <1>10, <1>11, <1>13 DEF Next

(* The lists of positions in USER_INFO and the positions in LOCKUP_INFO agree
   after any sequence of deposits, withdrawals, unlocks and nukes. *)
THEOREM PositionsMatchLockupsHolds == Spec => []PositionsMatchLockups
<1>1. SafetyInv => PositionsMatchLockups
  BY DEF SafetyInv
<1>2. QED
  BY <1>1, InitSafe, NextSafe, PTL DEF Spec

(* UST is never credited twice: what the contract has on record for its users
   and their positions is never more than it holds or deposited. *)
THEOREM UstCoveredHolds == Spec => []UstCovered
<1>1. SafetyInv => UstCovered
  BY NukedUstIsUstOf DEF SafetyInv, UstWithinPrincipal, UserTotalCovers, UstCovered
<1>2. QED
  BY <1>1, InitSafe, NextSafe, PTL DEF Spec

(* The maUST the contract holds covers the refunds of all open positions
   together, whatever the roundings and the order in which positions leave. *)
THEOREM PositionsBackedHolds == Spec => []PositionsBacked
<1>1. SafetyInv => PositionsBacked
  BY DEF SafetyInv
<1>2. QED
  BY <1>1, InitSafe, NextSafe, PTL DEF Spec

-------------------------------------------------------------------------------
(* Payments of MARS *)

\* MARS that left the contract and was not delegated.
MarsPaidOut ==
  config.lockdrop_incentives - balance.mars - state.total_mars_delegated

\* It never shrinks, and stays while claims are not allowed.
PaymentsGrow ==
  /\ MarsPaidOut <= MarsPaidOut'
  /\ ~state.are_claims_allowed => MarsPaidOut' = MarsPaidOut

\* What an operation that pays no MARS does to the three amounts.
MarsKept ==
  /\ config'.lockdrop_incentives = config.lockdrop_incentives
  /\ balance'.mars = balance.mars
  /\ state'.total_mars_delegated = state.total_mars_delegated

LEMMA PaymentsNext == TypeOK /\ [Next]_vars => PaymentsGrow
<1> SUFFICES ASSUME TypeOK, [Next]_vars PROVE PaymentsGrow
  OBVIOUS
<1>1. /\ config \in ConfigRecords /\ state \in StateRecords /\ balance \in BalanceRecords
      /\ config.lockdrop_incentives \in Nat /\ balance.mars \in Nat
      /\ state.total_mars_delegated \in Nat
  BY DEF TypeOK, ConfigRecords, StateRecords, BalanceRecords
<1>2. ASSUME MarsKept PROVE PaymentsGrow
  BY <1>1, <1>2 DEF MarsKept, PaymentsGrow, MarsPaidOut
<1>3. CASE Tick \/ UNCHANGED vars \/ EnableClaims
  BY <1>1, <1>2, <1>3 DEF Tick, vars, EnableClaims, MarsKept, StateRecords
<1>4. CASE AdminStep
  <2>1. ASSUME NEW sender, NEW addresses, NEW newOwner,
               UpdateConfig(sender, addresses, newOwner)
        PROVE  MarsKept
    BY <1>1, <2>1 DEF UpdateConfig, MarsKept, ConfigRecords
  <2>2. ASSUME NEW sender, NEW minted, DepositUstInRedBank(sender, minted)
        PROVE  MarsKept
    BY <1>1, <2>2 DEF DepositUstInRedBank, StateAfterRedBank, MarsKept, StateRecords,
         BalanceRecords
  <2> QED BY <1>2, <1>4, <2>1, <2>2 DEF AdminStep
<1>5. ASSUME NEW amount \in MarsAmounts, IncreaseMarsIncentives(amount) PROVE PaymentsGrow
  <2>1. /\ config'.lockdrop_incentives = config.lockdrop_incentives + amount
        /\ balance'.mars = balance.mars + amount
        /\ state' = state
    BY <1>1, <1>5 DEF IncreaseMarsIncentives, ConfigRecords, BalanceRecords
  <2>2. amount \in Nat
    BY LockdropAssumption
  <2> QED BY <1>1, <2>1, <2>2 DEF PaymentsGrow, MarsPaidOut
<1>6. CASE UserStep
  <2>1. ASSUME NEW u, NEW d, NEW amount,
               DepositUst(u, d, amount) \/ WithdrawUst(u, d, amount)
        PROVE  MarsKept
    BY <1>1, <2>1 DEF DepositUst, WithdrawUst, MarsKept, StateRecords, BalanceRecords
  <2>2. ASSUME NEW u \in Users, NEW accrued \in XmarsAccruals, ClaimAllowed(u, accrued)
        PROVE  /\ MarsDue(Provisioned(u)) \in Nat
               /\ state.are_claims_allowed
               /\ BalanceAfterClaim(u, accrued).mars
                    = balance.mars - MarsDue(Provisioned(u))
               /\ BalanceAfterClaim(u, accrued) \in BalanceRecords
    <3>1. MarsDue(Provisioned(u)) \in Nat /\ BalanceAfterClaim(u, accrued) \in BalanceRecords
      BY <2>2, ClaimType
    <3>2. state.are_claims_allowed
      BY <2>2 DEF ClaimAllowed
    <3>3. BalanceAfterClaim(u, accrued).mars = balance.mars - MarsDue(Provisioned(u))
      BY <1>1 DEF BalanceAfterClaim, BalanceRecords
    <3> QED BY <3>1, <3>2, <3>3
  <2>3. ASSUME NEW u \in Users, NEW accrued \in XmarsAccruals, ClaimRewards(u, accrued)
        PROVE  PaymentsGrow
    <3>1. /\ ClaimAllowed(u, accrued)
          /\ balance' = BalanceAfterClaim(u, accrued)
          /\ config' = config
          /\ state'.total_mars_delegated = state.total_mars_delegated
      BY <1>1, <2>3 DEF ClaimRewards, StateRecords
    <3> QED BY <1>1, <2>2, <3>1 DEF PaymentsGrow, MarsPaidOut
  <2>4. ASSUME NEW u \in Users, NEW d \in Durations, NEW accrued \in XmarsAccruals,
               ClaimRewardsAndUnlock(u, d, accrued)
        PROVE  PaymentsGrow
    <3>1. /\ ClaimAllowed(u, accrued)
          /\ config' = config
          /\ state'.total_mars_delegated = state.total_mars_delegated
      BY <1>1, <2>4 DEF ClaimRewardsAndUnlock, StateRecords
    <3>2. PICK refund : balance' = [BalanceAfterClaim(u, accrued) EXCEPT !.maust = @ - refund]
      BY <2>4 DEF ClaimRewardsAndUnlock
    <3>3. balance'.mars = BalanceAfterClaim(u, accrued).mars
      BY <2>2, <3>1, <3>2 DEF BalanceRecords
    <3> QED BY <1>1, <2>2, <3>1, <3>3 DEF PaymentsGrow, MarsPaidOut
  <2> QED BY <1>2, <1>6, <2>1, <2>3, <2>4 DEF UserStep
<1>7. CASE UserDelegates
  <2>1. PICK u \in Users, amount \in MarsAmounts : DepositMarsToAuction(u, amount)
    BY <1>7 DEF UserDelegates
  <2>2. /\ config' = config
        /\ balance'.mars = balance.mars - amount
        /\ state'.total_mars_delegated = state.total_mars_delegated + amount
    BY <1>1, <2>1 DEF DepositMarsToAuction, StateRecords, BalanceRecords
  <2>3. amount \in Nat
    BY LockdropAssumption
  <2> QED BY <1>1, <2>2, <2>3 DEF PaymentsGrow, MarsPaidOut
<1>8. CASE NukeLockdrop
  <2> DEFINE refunds == Total([u \in Nuked |-> NukedMaUst(u)])
  <2>1. /\ state' = [state EXCEPT !.total_maust_locked = @ - refunds]
        /\ balance' = [balance EXCEPT !.maust = @ - refunds]
        /\ config' = config
    BY <1>8, Zenon DEF NukeLockdrop
  <2> HIDE DEF refunds
  <2>2. MarsKept
    BY <1>1, <2>1 DEF MarsKept, StateRecords, BalanceRecords
  <2> QED BY <1>2, <2>2
<1> QED BY <1>3, <1>4, <1>5, <1>6, <1>7, <1>8 DEF Next

-------------------------------------------------------------------------------
(* Records that are kept *)

\* Nobody without a record has UST in his.
StoredOnly == \A u \in Users : u \notin stored => userInfo[u].total_ust_locked = 0

RecordsInv == SafetyInv /\ StoredOnly

\* A record is only made while deposits are open, and what was delegated stays in
\* it as long as it is kept.
KeepsRecord(v) ==
  v \in stored' =>
    /\ v \in stored \/ IsDepositOpen(now)
    /\ userInfo'[v].delegated_mars_incentives = userInfo[v].delegated_mars_incentives

RecordsKept == StoredOnly' /\ \A v \in Users : KeepsRecord(v)

\* Operations on one user, who has a record before and after.
LEMMA OneRecordKept ==
  ASSUME TypeOK, StoredOnly, NEW u \in Users, u \in stored \/ IsDepositOpen(now),
         NEW info \in UserRecords,
         info.delegated_mars_incentives = userInfo[u].delegated_mars_incentives,
         userInfo' = [userInfo EXCEPT ![u] = info], stored' = stored \union {u}
  PROVE  RecordsKept
BY DEF TypeOK, StoredOnly, KeepsRecord, RecordsKept

LEMMA PositionsOfStored ==
  ASSUME SafetyInv, NEW u \in Users, NEW d \in Durations, lockup[<<u, d>>].ust_locked # 0
  PROVE  u \in stored
<1>1. <<u, d>> \in LockupIds /\ lockup[<<u, d>>].ust_locked \in Nat
  BY DEF SafetyInv, TypeOK, LockupIds, LockupRecords
<1> QED BY <1>1 DEF SafetyInv, PositionsMatchLockups

LEMMA NukeKeepsRecords == ASSUME RecordsInv, NukeLockdrop PROVE RecordsKept
<1>1. /\ userInfo \in [Users -> UserRecords] /\ stored \subseteq Users
      /\ NukeBatch \subseteq stored /\ Nuked \subseteq NukeBatch
      /\ \A u \in Users : userInfo[u] \in UserRecords
  BY DEF RecordsInv, SafetyInv, TypeOK, NukeBatch, Nuked
<1> DEFINE removed == {u \in NukeBatch : \/ u \notin Nuked
                                          \/ userInfo[u].total_ust_locked = NukedUst(u)}
           left(u) == [userInfo[u] EXCEPT !.total_ust_locked = @ - NukedUst(u),
                                          !.total_maust_share = @ - NukedMaUst(u),
                                          !.lockup_positions = {}]
<1>2. /\ userInfo' = [u \in Users |->
           IF u \in removed THEN NoUser ELSE IF u \in Nuked THEN left(u) ELSE userInfo[u]]
      /\ stored' = stored \ removed
  BY Zenon DEF NukeLockdrop
<1>left. ASSUME NEW u \in Users
         PROVE  left(u).delegated_mars_incentives = userInfo[u].delegated_mars_incentives
  BY <1>1 DEF UserRecords
<1> HIDE DEF removed, left
<1>3. ASSUME NEW u \in Users, u \notin stored'
      PROVE  userInfo'[u].total_ust_locked = 0
  <2>1. CASE u \in removed
    BY <1>2, <2>1 DEF NoUser
  <2>2. CASE u \notin removed
    BY <1>1, <1>2, <1>3, <2>2 DEF RecordsInv, StoredOnly
  <2> QED BY <2>1, <2>2
<1>4. ASSUME NEW v \in Users, v \in stored'
      PROVE  /\ v \in stored
             /\ userInfo'[v].delegated_mars_incentives = userInfo[v].delegated_mars_incentives
  <2>1. v \notin removed /\ v \in stored
    BY <1>2, <1>4
  <2>2. CASE v \in Nuked
    <3>1. userInfo'[v] = left(v)
      BY <1>2, <2>1, <2>2
    <3> QED BY <1>left, <2>1, <3>1
  <2>3. CASE v \notin Nuked
    BY <1>2, <2>1, <2>3
  <2> QED BY <2>1, <2>2, <2>3
<1> QED BY <1>3, <1>4 DEF RecordsKept, StoredOnly, KeepsRecord

LEMMA UserKeepsRecords == ASSUME RecordsInv, UserStep PROVE RecordsKept
<1>1. TypeOK /\ SafetyInv /\ StoredOnly /\ \A u \in Users : userInfo[u] \in UserRecords
  BY DEF RecordsInv, SafetyInv, TypeOK
<1>2. TypeOK'
  BY <1>1, NextType DEF Next
<1>3. ASSUME NEW u \in Users, NEW info, u \in stored \/ IsDepositOpen(now),
             info.delegated_mars_incentives = userInfo[u].delegated_mars_incentives,
             userInfo' = [userInfo EXCEPT ![u] = info], stored' = stored \union {u}
      PROVE  RecordsKept
  <2>1. info \in UserRecords
    BY <1>1, <1>2, <1>3 DEF TypeOK
  <2> QED BY <1>1, <1>3, <2>1, OneRecordKept
<1>4. ASSUME NEW u \in Users, NEW d \in Durations, NEW amount, DepositUst(u, d, amount)
      PROVE  RecordsKept
  <2> DEFINE info == [userInfo[u] EXCEPT
        !.total_ust_locked = @ + amount,
        !.lockup_positions = IF lockup[<<u, d>>].duration = 0 THEN @ \union {<<u, d>>} ELSE @]
  <2>1. userInfo' = [userInfo EXCEPT ![u] = info]
    BY <1>4, Zenon DEF DepositUst
  <2>2. info.delegated_mars_incentives = userInfo[u].delegated_mars_incentives
    BY <1>1 DEF UserRecords
  <2>4. IsDepositOpen(now) /\ stored' = stored \union {u}
    BY <1>4 DEF DepositUst
  <2> HIDE DEF info
  <2> QED BY <1>3, <2>1, <2>2, <2>4
<1>5. ASSUME NEW u \in Users, NEW d \in Durations, NEW amount, WithdrawUst(u, d, amount)
      PROVE  RecordsKept
  <2> DEFINE info == [userInfo[u] EXCEPT
        !.total_ust_locked = @ - amount,
        !.lockup_positions =
           IF lockup[<<u, d>>].ust_locked - amount = 0 THEN @ \ {<<u, d>>} ELSE @]
  <2>1. userInfo' = [userInfo EXCEPT ![u] = info]
    BY <1>5, Zenon DEF WithdrawUst
  <2>2. info.delegated_mars_incentives = userInfo[u].delegated_mars_incentives
    BY <1>1 DEF UserRecords
  <2>4. lockup[<<u, d>>].ust_locked # 0 /\ stored' = stored \union {u}
    BY <1>5 DEF WithdrawUst
  <2>5. u \in stored
    BY <1>1, <2>4, PositionsOfStored
  <2> HIDE DEF info
  <2> QED BY <1>3, <2>1, <2>2, <2>4, <2>5
<1>6. ASSUME NEW u \in Users, NEW accrued, ClaimAllowed(u, accrued)
      PROVE  u \in stored
  BY <1>1, <1>6 DEF ClaimAllowed, StoredOnly
<1>7. ASSUME NEW u \in Users, NEW accrued
      PROVE  /\ Settled(Provisioned(u), accrued).delegated_mars_incentives
                  = userInfo[u].delegated_mars_incentives
             /\ "delegated_mars_incentives" \in DOMAIN Settled(Provisioned(u), accrued)
  <2>1. Provisioned(u) \in UserRecords
    BY <1>1, ProvisionedType
  <2>2. Provisioned(u).delegated_mars_incentives = userInfo[u].delegated_mars_incentives
    BY <1>1 DEF Provisioned, UserRecords
  <2> QED BY <2>1, <2>2 DEF Settled, UserRecords
<1>8. ASSUME NEW u \in Users, NEW accrued, ClaimRewards(u, accrued)
      PROVE  RecordsKept
  <2>1. /\ ClaimAllowed(u, accrued) /\ stored' = stored \union {u}
        /\ userInfo' = [userInfo EXCEPT ![u] = Settled(Provisioned(u), accrued)]
    BY <1>8 DEF ClaimRewards
  <2> QED BY <1>3, <1>6, <1>7, <2>1
<1>9. ASSUME NEW u \in Users, NEW d \in Durations, NEW accrued,
             ClaimRewardsAndUnlock(u, d, accrued)
      PROVE  RecordsKept
  <2> DEFINE info == [Settled(Provisioned(u), accrued) EXCEPT
        !.total_maust_share = @ - MaUstShare(lockup[<<u, d>>].ust_locked),
        !.lockup_positions = @ \ {<<u, d>>}]
  <2>1. userInfo' = [userInfo EXCEPT ![u] = info]
    BY <1>9, Zenon DEF ClaimRewardsAndUnlock
  <2>2. info.delegated_mars_incentives = userInfo[u].delegated_mars_incentives
    BY <1>7
  <2>4. ClaimAllowed(u, accrued) /\ stored' = stored \union {u}
    BY <1>9 DEF ClaimRewardsAndUnlock
  <2> HIDE DEF info
  <2> QED BY <1>3, <1>6, <2>1, <2>2, <2>4
<1> QED BY <1>4, <1>5, <1>8, <1>9 DEF UserStep

\* A delegation is to the record it comes from, and to no other.
LEMMA DelegationKeepsRecords ==
  ASSUME RecordsInv, NEW u \in Users, NEW amount \in MarsAmounts,
         DepositMarsToAuction(u, amount)
  PROVE  /\ StoredOnly' /\ stored' = stored /\ u \in stored
         /\ \A v \in Users :
              userInfo'[v].delegated_mars_incentives
                = userInfo[v].delegated_mars_incentives + IF v = u THEN amount ELSE 0
<1>1. TypeOK /\ SafetyInv /\ StoredOnly /\ userInfo \in [Users -> UserRecords]
      /\ amount \in Nat
  BY LockdropAssumption DEF RecordsInv, SafetyInv, TypeOK
<1>2. u \in stored
  <2>1. PICK id \in LockupIds : id \in userInfo[u].lockup_positions
    BY <1>1 DEF DepositMarsToAuction, UserRecords
  <2>2. id[1] = u /\ id \in LockupIds
    BY <1>1, <2>1 DEF SafetyInv, OwnPositions
  <2> QED BY <1>1, <2>1, <2>2 DEF SafetyInv, PositionsMatchLockups
<1> DEFINE info == [Provisioned(u) EXCEPT !.delegated_mars_incentives = @ + amount]
<1>3. userInfo' = [userInfo EXCEPT ![u] = info] /\ stored' = stored \union {u}
  BY DEF DepositMarsToAuction
<1>4. info.delegated_mars_incentives = userInfo[u].delegated_mars_incentives + amount
      /\ info.total_ust_locked = userInfo[u].total_ust_locked
  <2>1. Provisioned(u) \in UserRecords
    BY <1>1, ProvisionedType
  <2>2. /\ Provisioned(u).delegated_mars_incentives = userInfo[u].delegated_mars_incentives
        /\ Provisioned(u).total_ust_locked = userInfo[u].total_ust_locked
    BY <1>1 DEF Provisioned, UserRecords
  <2> QED BY <2>1, <2>2 DEF UserRecords
<1> HIDE DEF info
<1>5. ASSUME NEW v \in Users PROVE userInfo[v].delegated_mars_incentives \in Nat
  BY <1>1 DEF UserRecords
<1> QED BY <1>1, <1>2, <1>3, <1>4, <1>5 DEF StoredOnly

LEMMA RecordsInit == Init => RecordsInv
BY InitSafe DEF RecordsInv, StoredOnly, Init, NoUser

LEMMA RecordsNext == RecordsInv /\ [Next]_vars => RecordsInv'
<1> SUFFICES ASSUME RecordsInv, [Next]_vars PROVE RecordsInv'
  OBVIOUS
<1>1. SafetyInv'
  BY NextSafe DEF RecordsInv
<1> SUFFICES StoredOnly'
  BY <1>1 DEF RecordsInv
<1>2. ASSUME userInfo' = userInfo, stored' = stored PROVE StoredOnly'
  BY <1>2 DEF RecordsInv, StoredOnly
<1>3. CASE Tick \/ UNCHANGED vars \/ EnableClaims
           \/ \E amount \in MarsAmounts : IncreaseMarsIncentives(amount)
  <2>1. userInfo' = userInfo /\ stored' = stored
    BY <1>3, Zenon DEF Tick, vars, EnableClaims, IncreaseMarsIncentives
  <2> QED BY <1>2, <2>1
<1>4. CASE AdminStep
  <2>1. userInfo' = userInfo /\ stored' = stored
    BY <1>4, Zenon DEF AdminStep, UpdateConfig, DepositUstInRedBank
  <2> QED BY <1>2, <2>1
<1>5. CASE UserStep
  <2>1. RecordsKept
    BY <1>5, UserKeepsRecords
  <2> QED BY <2>1 DEF RecordsKept
<1>6. CASE UserDelegates
  <2>1. PICK u \in Users, amount \in MarsAmounts : DepositMarsToAuction(u, amount)
    BY <1>6, Zenon DEF UserDelegates
  <2> QED BY <2>1, DelegationKeepsRecords
<1>7. CASE NukeLockdrop
  <2>1. RecordsKept
    BY <1>7, NukeKeepsRecords
  <2> QED BY <2>1 DEF RecordsKept
<1> QED BY <1>3, <1>4, <1>5, <1>6, <1>7, Zenon DEF Next

LEMMA RecordsInvariant == Spec => []RecordsInv
BY RecordsInit, RecordsNext, PTL DEF Spec

\* What the lockdrop does by itself.
LEMMA OwnStepsKeepRecords ==
  RecordsInv /\ (\/ AdminStep
                 \/ \E amount \in MarsAmounts : IncreaseMarsIncentives(amount)
                 \/ UserStep
                 \/ NukeLockdrop)
  => RecordsKept
<1> SUFFICES ASSUME RecordsInv,
                    \/ AdminStep
                    \/ \E amount \in MarsAmounts : IncreaseMarsIncentives(amount)
                    \/ UserStep
                    \/ NukeLockdrop
             PROVE  RecordsKept
  OBVIOUS
<1>1. ASSUME userInfo' = userInfo, stored' = stored PROVE RecordsKept
  BY <1>1 DEF RecordsInv, StoredOnly, RecordsKept, KeepsRecord
<1>2. CASE AdminStep \/ \E amount \in MarsAmounts : IncreaseMarsIncentives(amount)
  <2>1. userInfo' = userInfo /\ stored' = stored
    BY <1>2, Zenon DEF AdminStep, UpdateConfig, DepositUstInRedBank, IncreaseMarsIncentives
  <2> QED BY <1>1, <2>1
<1> QED BY <1>2, UserKeepsRecords, NukeKeepsRecords

\* The same of a delegation, without hypotheses of its own.
LEMMA DelegationsKeepRecords ==
  RecordsInv =>
    \A u \in Users, amount \in MarsAmounts :
      DepositMarsToAuction(u, amount) =>
        /\ stored' = stored
        /\ \A v \in Users :
             userInfo'[v].delegated_mars_incentives
               = userInfo[v].delegated_mars_incentives + IF v = u THEN amount ELSE 0
BY DelegationKeepsRecords

-------------------------------------------------------------------------------
(* Withdrawals after the deposit window *)

\* From the end of the deposit window on, a position's record and the next one.
KeptLate(old, new) ==
  new.ust_locked # 0 =>
    /\ old.withdrawal_flag => new.withdrawal_flag
    /\ new.ust_locked < old.ust_locked =>
         /\ ~old.withdrawal_flag /\ new.withdrawal_flag
         /\ old.ust_locked <= 2 * new.ust_locked

PositionsKeptLate ==
  now >= DepositEnd => \A id \in LockupIds : KeptLate(lockup[id], lockup'[id])

\* Records that are closed, or keep their UST and their flag.
LEMMA ClosedOrKept ==
  ASSUME TypeOK,
         \A id \in LockupIds :
           \/ lockup'[id].ust_locked = 0
           \/ /\ lockup'[id].ust_locked = lockup[id].ust_locked
              /\ lockup'[id].withdrawal_flag = lockup[id].withdrawal_flag
  PROVE  PositionsKeptLate
<1> SUFFICES ASSUME NEW id \in LockupIds PROVE KeptLate(lockup[id], lockup'[id])
  BY DEF PositionsKeptLate
<1>1. lockup[id].ust_locked \in Nat
  BY DEF TypeOK, LockupRecords
<1> QED BY <1>1 DEF KeptLate

LEMMA RewardedKept ==
  ASSUME TypeOK, NEW u \in Users, NEW id \in LockupIds
  PROVE  /\ RewardedLockups(u)[id].ust_locked = lockup[id].ust_locked
         /\ RewardedLockups(u)[id].withdrawal_flag = lockup[id].withdrawal_flag
<1>1. lockup[id] \in LockupRecords
  BY DEF TypeOK
<1> QED BY <1>1 DEF RewardedLockups, LockupRecords

\* A withdrawal after the deposit window leaves at least half.
LEMMA LateWithdrawalHalves ==
  ASSUME TypeOK, now >= DepositEnd, NEW ust \in Nat, NEW amount \in Nat,
         amount <= MulFloor(ust, AllowedWithdrawalPercent(now))
  PROVE  amount <= ust /\ ust <= 2 * (ust - amount)
<1> DEFINE r == AllowedWithdrawalPercent(now)
<1>1. r \in Nat /\ 2 * r <= Scale
  BY AllowedPercentBound DEF TypeOK
<1> HIDE DEF r
<1>2. MulFloor(ust, r) \in Nat /\ 2 * MulFloor(ust, r) <= ust
  BY <1>1, MulFloorBound, HalfBound
<1> QED BY <1>2 DEF r

LEMMA LateNext == TypeOK /\ [Next]_vars => PositionsKeptLate
<1> SUFFICES ASSUME TypeOK, [Next]_vars PROVE PositionsKeptLate
  OBVIOUS
<1>1. /\ lockup \in [LockupIds -> LockupRecords] /\ now \in Nat
      /\ \A id \in LockupIds : /\ lockup[id] \in LockupRecords
                               /\ lockup[id].ust_locked \in Nat
      /\ NoLockup.ust_locked = 0
      /\ \A u \in Users, d \in Durations : <<u, d>> \in LockupIds
  BY DEF TypeOK, LockupRecords, NoLockup, LockupIds
<1>2. CASE lockup' = lockup
  BY <1>2, ClosedOrKept
<1>3. ASSUME NEW u \in Users, lockup' = RewardedLockups(u) PROVE PositionsKeptLate
  BY <1>3, RewardedKept, ClosedOrKept
<1>4. ASSUME NEW u \in Users, NEW d \in Durations, NEW amount \in 1 .. MaxUst,
             DepositUst(u, d, amount)
      PROVE  PositionsKeptLate
  <2> DEFINE id == <<u, d>>
             new == [lockup[id] EXCEPT !.duration = d, !.ust_locked = @ + amount]
  <2>1. lockup' = [lockup EXCEPT ![id] = new]
    BY <1>4, Zenon DEF DepositUst
  <2>2. /\ new.ust_locked = lockup[id].ust_locked + amount
        /\ new.withdrawal_flag = lockup[id].withdrawal_flag
    BY <1>1 DEF LockupRecords
  <2>3. amount \in Nat \ {0}
    BY LockdropAssumption
  <2> HIDE DEF new
  <2>4. ASSUME NEW i \in LockupIds PROVE KeptLate(lockup[i], lockup'[i])
    BY <1>1, <2>1, <2>2, <2>3 DEF KeptLate
  <2> QED BY <2>4 DEF PositionsKeptLate
<1>5. ASSUME NEW u \in Users, NEW d \in Durations, NEW amount \in 0 .. MaxUst,
             WithdrawUst(u, d, amount), now >= DepositEnd
      PROVE  PositionsKeptLate
  <2> DEFINE id == <<u, d>>
             left == lockup[id].ust_locked - amount
             new == IF left = 0 THEN CloseLockup(id)
                    ELSE [lockup[id] EXCEPT !.ust_locked = left, !.withdrawal_flag = TRUE]
  <2>1. lockup' = [lockup EXCEPT ![id] = new] /\ ~lockup[id].withdrawal_flag
        /\ amount <= MulFloor(lockup[id].ust_locked, AllowedWithdrawalPercent(now))
    BY <1>5 DEF WithdrawUst
  <2>2. amount \in Nat
    BY LockdropAssumption
  <2>3. lockup[id].ust_locked <= 2 * left
    BY <1>1, <1>5, <2>1, <2>2, LateWithdrawalHalves
  <2>4. KeptLate(lockup[id], new)
    <3>1. CASE left = 0
      BY <1>1, <3>1 DEF KeptLate, CloseLockup
    <3>2. CASE left # 0
      <4>1. new.ust_locked = left /\ new.withdrawal_flag = TRUE
        BY <1>1, <3>2 DEF LockupRecords
      <4> HIDE DEF new, left
      <4> QED BY <2>1, <2>3, <4>1 DEF KeptLate
    <3> QED BY <3>1, <3>2
  <2> HIDE DEF new
  <2>5. ASSUME NEW i \in LockupIds PROVE KeptLate(lockup[i], lockup'[i])
    BY <1>1, <2>1, <2>4 DEF KeptLate
  <2> QED BY <2>5 DEF PositionsKeptLate
<1>6. ASSUME NEW u \in Users, NEW d \in Durations, NEW accrued \in XmarsAccruals,
             ClaimRewardsAndUnlock(u, d, accrued)
      PROVE  PositionsKeptLate
  <2>1. lockup' = [RewardedLockups(u) EXCEPT ![<<u, d>>] = NoLockup]
    BY <1>6 DEF ClaimRewardsAndUnlock, CloseLockup
  <2>2. RewardedLockups(u) \in [LockupIds -> LockupRecords]
    BY RewardedLockupsType
  <2>3. ASSUME NEW i \in LockupIds
        PROVE  \/ lockup'[i].ust_locked = 0
               \/ /\ lockup'[i].ust_locked = lockup[i].ust_locked
                  /\ lockup'[i].withdrawal_flag = lockup[i].withdrawal_flag
    <3>1. CASE i = <<u, d>>
      BY <1>1, <2>1, <2>2, <3>1
    <3>2. CASE i # <<u, d>>
      <4>1. lockup'[i] = RewardedLockups(u)[i]
        BY <2>1, <2>2, <3>2
      <4> QED BY <4>1, RewardedKept
    <3> QED BY <3>1, <3>2
  <2> QED BY <2>3, ClosedOrKept
<1>7. CASE NukeLockdrop
  <2>1. lockup' = LockupsAfterNuke
    BY <1>7, Zenon DEF NukeLockdrop
  <2> QED BY <1>1, <2>1, ClosedOrKept DEF LockupsAfterNuke, CloseLockup
<1>8. CASE UserStep
  <2>1. ASSUME NEW u \in Users, NEW d \in Durations, NEW amount \in 0 .. MaxUst,
               WithdrawUst(u, d, amount)
        PROVE  PositionsKeptLate
    BY <1>5, <2>1 DEF PositionsKeptLate
  <2>2. ASSUME NEW u \in Users, NEW accrued \in XmarsAccruals, ClaimRewards(u, accrued)
        PROVE  PositionsKeptLate
    BY <1>3, <2>2 DEF ClaimRewards
  <2> QED BY <1>4, <1>6, <1>8, <2>1, <2>2 DEF UserStep
<1>9. CASE UserDelegates
  <2>1. PICK u \in Users, amount \in MarsAmounts : DepositMarsToAuction(u, amount)
    BY <1>9, Zenon DEF UserDelegates
  <2>2. lockup' = RewardedLockups(u)
    BY <2>1 DEF DepositMarsToAuction
  <2> QED BY <1>3, <2>2
<1>10. CASE \/ Tick \/ AdminStep \/ EnableClaims \/ UNCHANGED vars
            \/ \E amount \in MarsAmounts : IncreaseMarsIncentives(amount)
  <2>1. lockup' = lockup
    BY <1>10, Zenon DEF Tick, AdminStep, UpdateConfig, DepositUstInRedBank, EnableClaims,
         IncreaseMarsIncentives, vars
  <2> QED BY <1>2, <2>1
<1> QED BY <1>7, <1>8, <1>9, <1>10 DEF Next

(* Once the deposit window is over a position is reduced at most once and by at
   most half, for every length of the windows and however the ratio is rounded. *)
THEOREM LateWithdrawalsHold == Spec => LateWithdrawalOnce
<1>1. TypeOK /\ [Next]_vars =>
        [\A id \in LockupIds :
           now >= DepositEnd /\ lockup'[id].ust_locked # 0 =>
             /\ lockup[id].withdrawal_flag => lockup'[id].withdrawal_flag
             /\ lockup'[id].ust_locked < lockup[id].ust_locked =>
                  /\ ~lockup[id].withdrawal_flag /\ lockup'[id].withdrawal_flag
                  /\ lockup[id].ust_locked <= 2 * lockup'[id].ust_locked]_vars
  BY LateNext DEF PositionsKeptLate, KeptLate
<1> QED BY <1>1, TypeCorrect, PTL DEF Spec, LateWithdrawalOnce

-------------------------------------------------------------------------------
(* Rewards that are settled *)

\* A reward is only settled when there is one, and once claims are allowed.
SettledInOrder ==
  \A u \in Users :
    userInfo[u].lockdrop_claimed =>
      state.are_claims_allowed /\ userInfo[u].total_mars_incentives # 0

RewardsInv == TypeOK /\ SettledInOrder

\* The next record of a user whose reward is settled, and of one whose is not.
StaysSettled(old, new) ==
  /\ old.lockdrop_claimed =>
       /\ new.lockdrop_claimed
       /\ new.total_mars_incentives = old.total_mars_incentives
       /\ new.delegated_mars_incentives = old.delegated_mars_incentives
  /\ new.lockdrop_claimed =>
       state'.are_claims_allowed /\ new.total_mars_incentives # 0

RewardsStaySettled ==
  \A u \in Users : \/ StaysSettled(userInfo[u], userInfo'[u])
                   \/ u \notin stored' /\ ~userInfo'[u].lockdrop_claimed

\* Records that keep all that rewards consist of.
LEMMA SameReward ==
  ASSUME RewardsInv, NEW u \in Users, NEW new,
         state.are_claims_allowed => state'.are_claims_allowed,
         new.lockdrop_claimed = userInfo[u].lockdrop_claimed,
         new.total_mars_incentives = userInfo[u].total_mars_incentives,
         new.delegated_mars_incentives = userInfo[u].delegated_mars_incentives
  PROVE  StaysSettled(userInfo[u], new)
BY DEF RewardsInv, SettledInOrder, StaysSettled

\* Operations on one user.
LEMMA OneReward ==
  ASSUME RewardsInv, NEW u \in Users, NEW new,
         state.are_claims_allowed => state'.are_claims_allowed,
         userInfo' = [userInfo EXCEPT ![u] = new],
         StaysSettled(userInfo[u], new)
  PROVE  RewardsStaySettled
<1> SUFFICES ASSUME NEW v \in Users PROVE StaysSettled(userInfo[v], userInfo'[v])
  BY DEF RewardsStaySettled
<1>1. userInfo'[u] = new /\ (v # u => userInfo'[v] = userInfo[v])
  BY DEF RewardsInv, TypeOK
<1> QED BY <1>1, SameReward

\* A delegation or a claim computes the reward anew only where it was zero.
LEMMA ProvisionedKeepsReward ==
  ASSUME RewardsInv, NEW u \in Users
  PROVE  /\ Provisioned(u).lockdrop_claimed = userInfo[u].lockdrop_claimed
         /\ Provisioned(u).delegated_mars_incentives
              = userInfo[u].delegated_mars_incentives
         /\ userInfo[u].lockdrop_claimed =>
              Provisioned(u).total_mars_incentives = userInfo[u].total_mars_incentives
<1>1. userInfo[u] \in UserRecords
  BY DEF RewardsInv, TypeOK
<1> QED BY <1>1 DEF RewardsInv, SettledInOrder, Provisioned, UserRecords

LEMMA ClaimSettles ==
  ASSUME RewardsInv, NEW u \in Users, NEW accrued, ClaimAllowed(u, accrued),
         NEW new, state'.are_claims_allowed = state.are_claims_allowed,
         new.lockdrop_claimed = Settled(Provisioned(u), accrued).lockdrop_claimed,
         new.total_mars_incentives = Provisioned(u).total_mars_incentives,
         new.delegated_mars_incentives = Provisioned(u).delegated_mars_incentives
  PROVE  StaysSettled(userInfo[u], new)
<1> DEFINE info == Provisioned(u)
<1>1. info \in UserRecords
  BY ProvisionedType DEF RewardsInv
<1>2. /\ info.lockdrop_claimed = userInfo[u].lockdrop_claimed
      /\ info.delegated_mars_incentives = userInfo[u].delegated_mars_incentives
      /\ userInfo[u].lockdrop_claimed =>
           info.total_mars_incentives = userInfo[u].total_mars_incentives
  BY ProvisionedKeepsReward
<1> HIDE DEF info
<1>3. new.lockdrop_claimed <=> info.lockdrop_claimed \/ MarsDue(info) > 0
  BY <1>1 DEF Settled, UserRecords, info
<1>4. state.are_claims_allowed
  BY DEF ClaimAllowed
<1>5. info.total_mars_incentives \in Nat /\ info.delegated_mars_incentives \in Nat
  BY <1>1 DEF UserRecords
<1>6. MarsDue(info) > 0 => info.total_mars_incentives # 0
  BY <1>5 DEF MarsDue
<1> QED BY <1>2, <1>3, <1>4, <1>6 DEF StaysSettled, RewardsInv, SettledInOrder, info

LEMMA RewardsNext == RewardsInv /\ [Next]_vars => RewardsStaySettled /\ RewardsInv'
<1> SUFFICES ASSUME RewardsInv, [Next]_vars PROVE RewardsStaySettled /\ RewardsInv'
  OBVIOUS
<1>1. /\ TypeOK /\ TypeOK' /\ SettledInOrder /\ state \in StateRecords
      /\ \A u \in Users : userInfo[u] \in UserRecords
  BY NextType DEF RewardsInv, TypeOK
<1> SUFFICES RewardsStaySettled
  BY <1>1 DEF RewardsInv, SettledInOrder, RewardsStaySettled, StaysSettled
<1>2. ASSUME userInfo' = userInfo, state.are_claims_allowed => state'.are_claims_allowed
      PROVE  RewardsStaySettled
  BY <1>2, SameReward DEF RewardsStaySettled
<1>3. CASE \/ Tick \/ EnableClaims \/ UNCHANGED vars
           \/ \E amount \in MarsAmounts : IncreaseMarsIncentives(amount)
  BY <1>1, <1>2, <1>3 DEF Tick, EnableClaims, vars, IncreaseMarsIncentives, StateRecords
<1>4. CASE AdminStep
  <2>1. ASSUME NEW sender, NEW minted, DepositUstInRedBank(sender, minted)
        PROVE  RewardsStaySettled
    BY <1>1, <1>2, <2>1 DEF DepositUstInRedBank, StateAfterRedBank, StateRecords
  <2>2. ASSUME NEW sender, NEW addresses, NEW newOwner,
               UpdateConfig(sender, addresses, newOwner)
        PROVE  RewardsStaySettled
    BY <1>2, <2>2 DEF UpdateConfig
  <2> QED BY <1>4, <2>1, <2>2 DEF AdminStep
<1>5. ASSUME NEW u \in Users, NEW d, NEW amount, DepositUst(u, d, amount)
      PROVE  RewardsStaySettled
  <2> DEFINE new == [userInfo[u] EXCEPT
        !.total_ust_locked = @ + amount,
        !.lockup_positions = IF lockup[<<u, d>>].duration = 0 THEN @ \union {<<u, d>>} ELSE @]
  <2>1. userInfo' = [userInfo EXCEPT ![u] = new]
    BY <1>5, Zenon DEF DepositUst
  <2>2. /\ new.lockdrop_claimed = userInfo[u].lockdrop_claimed
        /\ new.total_mars_incentives = userInfo[u].total_mars_incentives
        /\ new.delegated_mars_incentives = userInfo[u].delegated_mars_incentives
    BY <1>1 DEF UserRecords
  <2>3. state'.are_claims_allowed = state.are_claims_allowed
    BY <1>1, <1>5 DEF DepositUst, StateRecords
  <2> HIDE DEF new
  <2> QED BY <2>1, <2>2, <2>3, SameReward, OneReward
<1>6. ASSUME NEW u \in Users, NEW d, NEW amount, WithdrawUst(u, d, amount)
      PROVE  RewardsStaySettled
  <2> DEFINE new == [userInfo[u] EXCEPT
        !.total_ust_locked = @ - amount,
        !.lockup_positions =
           IF lockup[<<u, d>>].ust_locked - amount = 0 THEN @ \ {<<u, d>>} ELSE @]
  <2>1. userInfo' = [userInfo EXCEPT ![u] = new]
    BY <1>6, Zenon DEF WithdrawUst
  <2>2. /\ new.lockdrop_claimed = userInfo[u].lockdrop_claimed
        /\ new.total_mars_incentives = userInfo[u].total_mars_incentives
        /\ new.delegated_mars_incentives = userInfo[u].delegated_mars_incentives
    BY <1>1 DEF UserRecords
  <2>3. state'.are_claims_allowed = state.are_claims_allowed
    BY <1>1, <1>6 DEF WithdrawUst, StateRecords
  <2> HIDE DEF new
  <2> QED BY <2>1, <2>2, <2>3, SameReward, OneReward
<1>7. ASSUME NEW u \in Users, NEW accrued, ClaimRewards(u, accrued)
      PROVE  RewardsStaySettled
  <2> DEFINE new == Settled(Provisioned(u), accrued)
  <2>1. userInfo' = [userInfo EXCEPT ![u] = new] /\ ClaimAllowed(u, accrued)
    BY <1>7 DEF ClaimRewards
  <2>2. state'.are_claims_allowed = state.are_claims_allowed
    BY <1>1, <1>7 DEF ClaimRewards, StateRecords
  <2>3. /\ new.total_mars_incentives = Provisioned(u).total_mars_incentives
        /\ new.delegated_mars_incentives = Provisioned(u).delegated_mars_incentives
    BY <1>1, ProvisionedType DEF Settled, UserRecords
  <2>4. StaysSettled(userInfo[u], new)
    BY <2>1, <2>2, <2>3, ClaimSettles
  <2> HIDE DEF new
  <2> QED BY <2>1, <2>2, <2>4, OneReward
<1>8. ASSUME NEW u \in Users, NEW d, NEW accrued, ClaimRewardsAndUnlock(u, d, accrued)
      PROVE  RewardsStaySettled
  <2> DEFINE info == Settled(Provisioned(u), accrued)
             new == [info EXCEPT
                       !.total_maust_share = @ - MaUstShare(lockup[<<u, d>>].ust_locked),
                       !.lockup_positions = @ \ {<<u, d>>}]
  <2>1. userInfo' = [userInfo EXCEPT ![u] = new] /\ ClaimAllowed(u, accrued)
    BY <1>8, Zenon DEF ClaimRewardsAndUnlock
  <2>2. state'.are_claims_allowed = state.are_claims_allowed
    BY <1>1, <1>8 DEF ClaimRewardsAndUnlock, StateRecords
  <2>3. /\ new.lockdrop_claimed = info.lockdrop_claimed
        /\ new.total_mars_incentives = Provisioned(u).total_mars_incentives
        /\ new.delegated_mars_incentives = Provisioned(u).delegated_mars_incentives
    BY <1>1, ProvisionedType DEF Settled, UserRecords
  <2>4. StaysSettled(userInfo[u], new)
    BY <2>1, <2>2, <2>3, ClaimSettles
  <2> HIDE DEF new
  <2> QED BY <2>1, <2>2, <2>4, OneReward
<1>9. CASE UserStep
  BY <1>5, <1>6, <1>7, <1>8, <1>9 DEF UserStep
<1>10. CASE UserDelegates
  <2>1. PICK u \in Users, amount \in MarsAmounts : DepositMarsToAuction(u, amount)
    BY <1>10, Zenon DEF UserDelegates
  <2> DEFINE new == [Provisioned(u) EXCEPT !.delegated_mars_incentives = @ + amount]
  <2>2. userInfo' = [userInfo EXCEPT ![u] = new] /\ ~state.are_claims_allowed
    BY <2>1 DEF DepositMarsToAuction
  <2>3. new.lockdrop_claimed = userInfo[u].lockdrop_claimed
    BY <1>1, ProvisionedType, ProvisionedKeepsReward DEF UserRecords
  <2>4. StaysSettled(userInfo[u], new)
    BY <1>1, <2>2, <2>3 DEF StaysSettled, SettledInOrder
  <2> HIDE DEF new
  <2> QED BY <2>2, <2>4, OneReward
<1>11. CASE NukeLockdrop
  <2> DEFINE removed == {u \in NukeBatch : \/ u \notin Nuked
                                            \/ userInfo[u].total_ust_locked = NukedUst(u)}
             left(u) == [userInfo[u] EXCEPT !.total_ust_locked = @ - NukedUst(u),
                                            !.total_maust_share = @ - NukedMaUst(u),
                                            !.lockup_positions = {}]
  <2>1. /\ userInfo' = [u \in Users |->
             IF u \in removed THEN NoUser ELSE IF u \in Nuked THEN left(u) ELSE userInfo[u]]
        /\ stored' = stored \ removed
    BY <1>11, Zenon DEF NukeLockdrop
  <2>2. state'.are_claims_allowed = state.are_claims_allowed
    <3>1. PICK refunds : state' = [state EXCEPT !.total_maust_locked = @ - refunds]
      BY <1>11, Zenon DEF NukeLockdrop
    <3> QED BY <1>1, <3>1 DEF StateRecords
  <2>3. ASSUME NEW u \in Users
        PROVE  /\ left(u).lockdrop_claimed = userInfo[u].lockdrop_claimed
               /\ left(u).total_mars_incentives = userInfo[u].total_mars_incentives
               /\ left(u).delegated_mars_incentives = userInfo[u].delegated_mars_incentives
    BY <1>1 DEF UserRecords
  <2> HIDE DEF removed, left
  <2>4. ASSUME NEW u \in Users
        PROVE  \/ StaysSettled(userInfo[u], userInfo'[u])
               \/ u \notin stored' /\ ~userInfo'[u].lockdrop_claimed
    <3>1. CASE u \in removed
      BY <2>1, <3>1 DEF NoUser
    <3>2. CASE u \notin removed /\ u \in Nuked
      <4>1. userInfo'[u] = left(u)
        BY <2>1, <3>2
      <4> QED BY <2>2, <2>3, <4>1, SameReward
    <3>3. CASE u \notin removed /\ u \notin Nuked
      <4>1. userInfo'[u] = userInfo[u]
        BY <2>1, <3>3
      <4> QED BY <2>2, <4>1, SameReward
    <3> QED BY <3>1, <3>2, <3>3
  <2> QED BY <2>4 DEF RewardsStaySettled
<1> QED BY <1>3, <1>4, <1>9, <1>10, <1>11 DEF Next

(* A MARS reward that has been paid is neither computed again nor delegated nor
   paid a second time, whatever the user and the others call afterwards. *)
THEOREM PaidRewardsAreFinal == Spec => PaidRewardsFinal
<1>1. Init => RewardsInv
  BY InitType DEF Init, NoUser, RewardsInv, SettledInOrder
<1>2. RewardsInv /\ [Next]_vars =>
        [\A u \in Users :
           userInfo[u].lockdrop_claimed /\ u \in stored' =>
             /\ userInfo'[u].lockdrop_claimed
             /\ userInfo'[u].total_mars_incentives = userInfo[u].total_mars_incentives
             /\ userInfo'[u].delegated_mars_incentives
                  = userInfo[u].delegated_mars_incentives]_vars
  BY RewardsNext DEF RewardsStaySettled, StaysSettled
<1>3. RewardsInv /\ [Next]_vars => RewardsInv'
  BY RewardsNext
<1> QED BY <1>1, <1>2, <1>3, PTL DEF Spec, PaidRewardsFinal

-------------------------------------------------------------------------------
(* What rewards are computed from *)

Weights == [id \in LockupIds |-> CalculateWeight(lockup[id].ust_locked, id[2])]

\* The incentives, the weights and the UST of every position that stays open.
BasisKept ==
  /\ config'.lockdrop_incentives = config.lockdrop_incentives
  /\ state'.total_deposits_weight = state.total_deposits_weight
  /\ \A id \in LockupIds : lockup'[id].ust_locked \in {0, lockup[id].ust_locked}

\* When the withdrawal window ends nothing can be withdrawn any more.
LEMMA NothingWithdrawnAtTheEnd ==
  ASSUME TypeOK, now >= WithdrawEnd, NEW u \in Users, NEW d \in Durations,
         NEW amount \in Nat, WithdrawUst(u, d, amount)
  PROVE  amount = 0 /\ lockup'[<<u, d>>].ust_locked = lockup[<<u, d>>].ust_locked
<1> DEFINE id == <<u, d>>
<1>1. /\ now \in Nat /\ DepositEnd \in Nat /\ HalfWindowEnd \in Nat /\ WithdrawEnd \in Nat
      /\ DepositEnd < WithdrawEnd /\ HalfWindowEnd < WithdrawEnd
      /\ lockup \in [LockupIds -> LockupRecords] /\ id \in LockupIds
      /\ lockup[id].ust_locked \in Nat
  <2>1. InitTimestamp \in Nat /\ DepositWindow \in Nat /\ WithdrawalWindow \in Nat \ {0}
    BY LockdropAssumption
  <2>2. WithdrawalWindow \div 2 \in Nat /\ WithdrawalWindow \div 2 < WithdrawalWindow
    BY <2>1, DivBound
  <2>3. lockup \in [LockupIds -> LockupRecords] /\ id \in LockupIds
        /\ lockup[id].ust_locked \in Nat /\ now \in Nat
    BY DEF TypeOK, LockupRecords, LockupIds
  <2> QED BY <2>1, <2>2, <2>3 DEF DepositEnd, HalfWindowEnd, WithdrawEnd
<1>2. AllowedWithdrawalPercent(now) = 0
  BY <1>1 DEF AllowedWithdrawalPercent
<1>6. amount = 0
  BY <1>1, <1>2, MulFloorZero DEF WithdrawUst
<1>7. lockup[id].ust_locked - amount = lockup[id].ust_locked /\ lockup[id].ust_locked # 0
  BY <1>1, <1>6 DEF WithdrawUst
<1>8. PICK flag : lockup' = [lockup EXCEPT ![id] =
        [lockup[id] EXCEPT !.ust_locked = lockup[id].ust_locked, !.withdrawal_flag = flag]]
  BY <1>7, Zenon DEF WithdrawUst
<1>9. lockup'[id].ust_locked = lockup[id].ust_locked
  BY <1>1, <1>8 DEF LockupRecords
<1> QED BY <1>6, <1>9

\* Delegations, claims, unlocks and nukes at any time leave it alone.
LeavingStep ==
  \/ \E u \in Users, accrued \in XmarsAccruals : ClaimRewards(u, accrued)
  \/ \E u \in Users, d \in Durations, accrued \in XmarsAccruals :
        ClaimRewardsAndUnlock(u, d, accrued)
  \/ UserDelegates
  \/ NukeLockdrop

LEMMA LeavingKeepsBasis == TypeOK /\ LeavingStep => BasisKept
<1> SUFFICES ASSUME TypeOK, LeavingStep PROVE BasisKept
  OBVIOUS
<1>1. /\ config \in ConfigRecords /\ state \in StateRecords
      /\ lockup \in [LockupIds -> LockupRecords]
  BY DEF TypeOK
<1>2. ASSUME NEW u \in Users, NEW accrued, ClaimRewards(u, accrued) PROVE BasisKept
  <2>1. /\ config' = config /\ lockup' = RewardedLockups(u)
        /\ state'.total_deposits_weight = state.total_deposits_weight
    BY <1>1, <1>2 DEF ClaimRewards, StateRecords
  <2> QED BY <2>1, ClaimKeepsPositions DEF BasisKept
<1>3. ASSUME NEW u \in Users, NEW d \in Durations, NEW accrued,
             ClaimRewardsAndUnlock(u, d, accrued)
      PROVE  BasisKept
  <2>1. /\ config' = config
        /\ lockup' = [RewardedLockups(u) EXCEPT ![<<u, d>>] = NoLockup]
    BY <1>3, Zenon DEF ClaimRewardsAndUnlock, CloseLockup
  <2>2. PICK refund : state' = [state EXCEPT
                        !.xmars_rewards_index = XmarsIndexAfter(accrued),
                        !.total_maust_locked = @ - refund]
    BY <1>3, Zenon DEF ClaimRewardsAndUnlock
  <2>3. state'.total_deposits_weight = state.total_deposits_weight
    BY <1>1, <2>2 DEF StateRecords
  <2>4. RewardedLockups(u) \in [LockupIds -> LockupRecords] /\ NoLockup.ust_locked = 0
    BY RewardedLockupsType DEF NoLockup
  <2>5. ASSUME NEW id \in LockupIds
        PROVE  lockup'[id].ust_locked \in {0, lockup[id].ust_locked}
    <3>1. CASE id = <<u, d>>
      BY <2>1, <2>4, <3>1
    <3>2. CASE id # <<u, d>>
      <4>1. lockup'[id] = RewardedLockups(u)[id]
        BY <2>1, <2>4, <3>2
      <4> QED BY <4>1, ClaimKeepsPositions
    <3> QED BY <3>1, <3>2
  <2> QED BY <2>1, <2>3, <2>5 DEF BasisKept
<1>4. CASE UserDelegates
  <2>1. PICK u \in Users, amount \in MarsAmounts : DepositMarsToAuction(u, amount)
    BY <1>4, Zenon DEF UserDelegates
  <2>2. /\ config' = config /\ lockup' = RewardedLockups(u)
        /\ state'.total_deposits_weight = state.total_deposits_weight
    BY <1>1, <2>1 DEF DepositMarsToAuction, StateRecords
  <2> QED BY <2>2, ClaimKeepsPositions DEF BasisKept
<1>5. CASE NukeLockdrop
  <2>1. lockup' = LockupsAfterNuke /\ config' = config
    BY <1>5, Zenon DEF NukeLockdrop
  <2>2. PICK refunds : state' = [state EXCEPT !.total_maust_locked = @ - refunds]
    BY <1>5, Zenon DEF NukeLockdrop
  <2>3. state'.total_deposits_weight = state.total_deposits_weight
    BY <1>1, <2>2 DEF StateRecords
  <2>4. \A id \in LockupIds : lockup'[id].ust_locked \in {0, lockup[id].ust_locked}
    BY <2>1 DEF LockupsAfterNuke, CloseLockup, NoLockup
  <2> QED BY <2>1, <2>3, <2>4 DEF BasisKept
<1> QED BY <1>2, <1>3, <1>4, <1>5 DEF LeavingStep

LEMMA BasisNext == TypeOK /\ [Next]_vars /\ now >= WithdrawEnd => BasisKept
<1> SUFFICES ASSUME TypeOK, [Next]_vars, now >= WithdrawEnd PROVE BasisKept
  OBVIOUS
<1>1. /\ config \in ConfigRecords /\ state \in StateRecords
      /\ now \in Nat /\ WithdrawEnd \in Nat /\ DepositEnd \in Nat /\ DepositEnd < WithdrawEnd
      /\ lockup \in [LockupIds -> LockupRecords]
  BY LockdropAssumption DEF TypeOK, WithdrawEnd, DepositEnd
<1>2. ASSUME lockup' = lockup,
             config'.lockdrop_incentives = config.lockdrop_incentives,
             state'.total_deposits_weight = state.total_deposits_weight
      PROVE  BasisKept
  BY <1>2 DEF BasisKept
<1>3. CASE \/ Tick \/ EnableClaims \/ UNCHANGED vars
           \/ \E amount \in MarsAmounts : IncreaseMarsIncentives(amount)
  BY <1>1, <1>2, <1>3 DEF Tick, EnableClaims, vars, IncreaseMarsIncentives, StateRecords
<1>4. CASE AdminStep
  <2>1. ASSUME NEW sender, NEW minted, DepositUstInRedBank(sender, minted)
        PROVE  BasisKept
    BY <1>1, <1>2, <2>1 DEF DepositUstInRedBank, StateAfterRedBank, StateRecords
  <2>2. ASSUME NEW sender, NEW addresses, NEW newOwner,
               UpdateConfig(sender, addresses, newOwner)
        PROVE  BasisKept
    BY <1>1, <1>2, <2>2 DEF UpdateConfig, ConfigRecords
  <2> QED BY <1>4, <2>1, <2>2 DEF AdminStep
<1>5. ASSUME NEW u \in Users, NEW d \in Durations, NEW amount \in 0 .. MaxUst,
             WithdrawUst(u, d, amount)
      PROVE  BasisKept
  <2>1. amount = 0 /\ lockup'[<<u, d>>].ust_locked = lockup[<<u, d>>].ust_locked
    BY <1>5, LockdropAssumption, NothingWithdrawnAtTheEnd
  <2>2. PICK new : lockup' = [lockup EXCEPT ![<<u, d>>] = new]
    BY <1>5, Zenon DEF WithdrawUst
  <2>3. \A id \in LockupIds : lockup'[id].ust_locked = lockup[id].ust_locked
    BY <1>1, <2>1, <2>2
  <2>4. CalculateWeight(0, d) = 0
    BY LockdropAssumption DEF CalculateWeight
  <2>5. /\ config' = config
        /\ state'.total_deposits_weight = state.total_deposits_weight - 0
    BY <1>1, <1>5, <2>1, <2>4 DEF WithdrawUst, StateRecords
  <2> QED BY <1>1, <2>3, <2>5 DEF BasisKept, StateRecords
<1>6. CASE LeavingStep
  BY <1>6, LeavingKeepsBasis
<1>7. CASE UserStep
  <2>1. ASSUME NEW u, NEW d, NEW amount, DepositUst(u, d, amount) PROVE FALSE
    BY <1>1, <2>1 DEF DepositUst, IsDepositOpen
  <2> QED BY <1>5, <1>6, <1>7, <2>1 DEF UserStep, LeavingStep
<1> QED BY <1>3, <1>4, <1>6, <1>7 DEF Next, LeavingStep

(* From the last second of the withdrawal window on nothing that MARS rewards are
   computed from changes, so that one user's reward is the same whenever it is
   computed and whatever the others have done. *)
THEOREM RewardBasisIsFrozen == Spec => RewardBasisFrozen
<1>1. TypeOK /\ [Next]_vars =>
        [now >= WithdrawEnd =>
           /\ config'.lockdrop_incentives = config.lockdrop_incentives
           /\ state'.total_deposits_weight = state.total_deposits_weight
           /\ \A id \in LockupIds :
                lockup'[id].ust_locked \in {0, lockup[id].ust_locked}]_vars
  BY BasisNext DEF BasisKept
<1> QED BY <1>1, TypeCorrect, PTL DEF Spec, RewardBasisFrozen

-------------------------------------------------------------------------------
(* The MARS that pays the rewards *)

\* The MARS reward of u: as first computed, or as computed now.
Reward(u) ==
  IF userInfo[u].total_mars_incentives = 0 THEN Total(PositionRewards(u))
  ELSE userInfo[u].total_mars_incentives

UserRewards == [u \in Users |-> Total(PositionRewards(u))]

DelegatedWithinReward ==
  \A u \in Users :
    userInfo[u].delegated_mars_incentives <= userInfo[u].total_mars_incentives

RewardTypes ==
  /\ UserRewards \in [Users -> Nat]
  /\ \A u \in Users :
       /\ PositionRewards(u) \in [userInfo[u].lockup_positions -> Nat]
       /\ userInfo[u].lockup_positions \subseteq LockupIds
       /\ Total(PositionRewards(u)) \in Nat
       /\ Reward(u) \in Nat

LEMMA RewardsTyped == TypeOK => RewardTypes
<1>1. TypeOK => \A u \in Users : userInfo[u] \in UserRecords
  BY DEF TypeOK
<1> QED BY <1>1, PositionRewardsType DEF RewardTypes, UserRewards, Reward, UserRecords

\* What the first delegation or claim of u works with.
LEMMA ProvisionedReward ==
  TypeOK => \A u \in Users :
    /\ Provisioned(u).total_mars_incentives = Reward(u)
    /\ Provisioned(u).delegated_mars_incentives = userInfo[u].delegated_mars_incentives
    /\ Provisioned(u).lockdrop_claimed = userInfo[u].lockdrop_claimed
    /\ MarsDue(Provisioned(u)) =
         IF userInfo[u].lockdrop_claimed THEN 0
         ELSE Reward(u) - userInfo[u].delegated_mars_incentives
<1> SUFFICES ASSUME TypeOK, NEW u \in Users
             PROVE  /\ Provisioned(u).total_mars_incentives = Reward(u)
                    /\ Provisioned(u).delegated_mars_incentives
                         = userInfo[u].delegated_mars_incentives
                    /\ Provisioned(u).lockdrop_claimed = userInfo[u].lockdrop_claimed
                    /\ MarsDue(Provisioned(u)) =
                         IF userInfo[u].lockdrop_claimed THEN 0
                         ELSE Reward(u) - userInfo[u].delegated_mars_incentives
  OBVIOUS
<1>1. userInfo[u] \in UserRecords
  BY DEF TypeOK
<1>2. /\ Provisioned(u).total_mars_incentives = Reward(u)
      /\ Provisioned(u).delegated_mars_incentives = userInfo[u].delegated_mars_incentives
      /\ Provisioned(u).lockdrop_claimed = userInfo[u].lockdrop_claimed
  BY <1>1 DEF Provisioned, Reward, UserRecords
<1> QED BY <1>2 DEF MarsDue

OwedValues ==
  /\ MarsOwed \in [Users -> Nat]
  /\ \A u \in Users :
       MarsOwed[u] =
         IF userInfo[u].total_ust_locked = 0 \/ userInfo[u].lockdrop_claimed THEN 0
         ELSE Reward(u) - userInfo[u].delegated_mars_incentives

LEMMA OwedIs == TypeOK /\ DelegatedWithinReward => OwedValues
<1> SUFFICES ASSUME TypeOK, DelegatedWithinReward PROVE OwedValues
  OBVIOUS
<1>1. ASSUME NEW u \in Users
      PROVE  /\ Reward(u) \in Nat
             /\ userInfo[u].delegated_mars_incentives \in Nat
             /\ userInfo[u].delegated_mars_incentives <= Reward(u)
  <2>1. /\ userInfo[u].delegated_mars_incentives \in Nat
        /\ userInfo[u].total_mars_incentives \in Nat
        /\ userInfo[u].delegated_mars_incentives <= userInfo[u].total_mars_incentives
    BY DEF TypeOK, UserRecords, DelegatedWithinReward
  <2>2. Reward(u) \in Nat /\ Total(PositionRewards(u)) \in Nat
    BY RewardsTyped DEF RewardTypes
  <2> QED BY <2>1, <2>2 DEF Reward
<1>2. ASSUME NEW u \in Users
      PROVE  MarsOwed[u] =
               IF userInfo[u].total_ust_locked = 0 \/ userInfo[u].lockdrop_claimed THEN 0
               ELSE Reward(u) - userInfo[u].delegated_mars_incentives
  BY ProvisionedReward DEF MarsOwed
<1>3. \A u \in Users : MarsOwed[u] \in Nat
  BY <1>1, <1>2
<1> QED BY <1>2, <1>3 DEF MarsOwed, OwedValues

\* Once the basis is frozen, positions that stay earn what they did, so that the
\* rewards of a user who gets no new position do not grow.
LEMMA RewardsShrink ==
  ASSUME TypeOK, TypeOK', BasisKept, OwnPositions', PositionsMatchLockups', NEW u \in Users,
         userInfo'[u].lockup_positions \subseteq userInfo[u].lockup_positions
  PROVE  Total(PositionRewards(u)') <= Total(PositionRewards(u))
<1> DEFINE P == userInfo[u].lockup_positions
           Q == userInfo'[u].lockup_positions
<1>1. /\ P \subseteq LockupIds /\ PositionRewards(u) \in [P -> Nat]
      /\ Q \subseteq LockupIds /\ PositionRewards(u)' \in [Q -> Nat]
  <2>1. RewardTypes /\ RewardTypes'
    BY RewardsTyped, PTL
  <2> QED BY <2>1 DEF RewardTypes
<1>2. ASSUME NEW id \in Q PROVE PositionRewards(u)'[id] = PositionRewards(u)[id]
  <2>1. id \in P /\ id \in LockupIds
    BY <1>1
  <2>2. lockup'[id].ust_locked = lockup[id].ust_locked
    <3>1. lockup'[id].ust_locked # 0
      <4>1. id[1] = u
        BY DEF OwnPositions
      <4>2. id \in LockupIds => (id \in Q <=> lockup'[id].ust_locked > 0)
        BY <4>1 DEF PositionsMatchLockups
      <4> QED BY <1>1, <4>2
    <3> QED BY <2>1, <3>1 DEF BasisKept
  <2>3. PositionRewards(u)[id] = MarsIncentivesForLockup(lockup[id].ust_locked, id[2])
    BY <2>1 DEF PositionRewards
  <2>4. PositionRewards(u)'[id] = MarsIncentivesForLockup(lockup[id].ust_locked, id[2])'
    BY DEF PositionRewards
  <2>5. MarsIncentivesForLockup(lockup[id].ust_locked, id[2])'
          = MarsIncentivesForLockup(lockup[id].ust_locked, id[2])
    BY <2>2 DEF BasisKept, MarsIncentivesForLockup, CalculateWeight
  <2> QED BY <2>3, <2>4, <2>5
<1>3. IsFiniteSet(P)
  BY <1>1, LockupIdsFinite, FS_Subset
<1>4. \A id \in Q : PositionRewards(u)'[id] <= PositionRewards(u)[id]
  BY <1>1, <1>2
<1> HIDE DEF P, Q
<1>5. Q \subseteq P
  BY DEF P, Q
<1> QED BY <1>1, <1>3, <1>4, <1>5, TotalSubset
\* No more weight is in the positions than the total they are measured against.
WeightsWithin == Total(Weights) <= state.total_deposits_weight

LEMMA WeightsTyped == TypeOK => Weights \in [LockupIds -> Nat]
<1> SUFFICES ASSUME TypeOK, NEW id \in LockupIds
             PROVE  CalculateWeight(lockup[id].ust_locked, id[2]) \in Nat
  BY DEF Weights
<1>1. lockup[id].ust_locked \in Nat /\ Boost[id[2]] \in Nat
  BY LockdropAssumption DEF TypeOK, LockupRecords, LockupIds
<1> QED BY <1>1, ProductNat DEF CalculateWeight

\* What every position earns.
LockupRewards ==
  [id \in LockupIds |-> MarsIncentivesForLockup(lockup[id].ust_locked, id[2])]

\* However the ratios and the products round, positions that weigh no more than
\* the total earn no more than the incentives.
LEMMA LockupRewardsWithin ==
  ASSUME TypeOK, WeightsWithin
  PROVE  /\ LockupRewards \in [LockupIds -> Nat]
         /\ Total(LockupRewards) <= config.lockdrop_incentives
<1> DEFINE W == state.total_deposits_weight
           M == config.lockdrop_incentives
<1>1. /\ W \in Nat /\ M \in Nat /\ IsFiniteSet(LockupIds)
      /\ Weights \in [LockupIds -> Nat]
  BY WeightsTyped, LockupIdsFinite DEF TypeOK, StateRecords, ConfigRecords
<1>2. CASE W = 0
  <2>1. \A id \in LockupIds : LockupRewards[id] = 0
    BY <1>2 DEF LockupRewards, MarsIncentivesForLockup
  <2>2. LockupRewards \in [LockupIds -> Nat]
    BY <2>1 DEF LockupRewards
  <2> QED BY <1>1, <2>1, <2>2, TotalZero
<1>3. CASE W # 0
  <2>1. ASSUME NEW id \in LockupIds
        PROVE  /\ LockupRewards[id] \in Nat
               /\ LockupRewards[id] * W <= Weights[id] * M
               /\ M = 0 => LockupRewards[id] = 0
    <3> DEFINE w == Weights[id]
    <3>1. LockupRewards[id] = MulFloor(M, FromRatio(w, W))
      BY <1>3 DEF LockupRewards, MarsIncentivesForLockup, Weights
    <3>2. w \in Nat /\ W \in Nat \ {0} /\ FromRatio(w, W) \in Nat
      BY <1>1, <1>3, FromRatioBound
    <3> HIDE DEF W, M, w
    <3>3. /\ MulFloor(M, FromRatio(w, W)) \in Nat
          /\ MulFloor(M, FromRatio(w, W)) * W <= w * M
          /\ M = 0 => MulFloor(M, FromRatio(w, W)) = 0
      BY <1>1, <3>2, ShareBound, MulFloorZero
    <3> QED BY <3>1, <3>3 DEF w
  <2>2. LockupRewards \in [LockupIds -> Nat]
    BY <2>1 DEF LockupRewards
  <2> HIDE DEF W, M
  <2>3. CASE M = 0
    <3>1. Total(LockupRewards) = 0
      BY <2>1, <2>2, <2>3, TotalZero
    <3> QED BY <1>1, <2>2, <3>1 DEF M
  <2>4. CASE M # 0
    <3>1. Total(LockupRewards) * W <= Total(Weights) * M
      BY <1>1, <2>1, <2>2, <2>4, TotalScale
    <3>2. Total(LockupRewards) \in Nat /\ Total(Weights) \in Nat
      BY <1>1, <2>2, TotalType
    <3>3. Total(Weights) <= W
      BY DEF WeightsWithin, W
    <3>4. Total(Weights) * M <= M * W
      BY <1>1, <3>2, <3>3, ProductMono
    <3>5. Total(LockupRewards) * W <= M * W
      BY <1>1, <3>1, <3>2, <3>4, ProductNat
    <3>6. Total(LockupRewards) <= M
      BY <1>1, <1>3, <3>2, <3>5, ProductCancel
    <3> QED BY <2>2, <3>6 DEF M
  <2> QED BY <2>3, <2>4
<1> QED BY <1>2, <1>3

\* Each position is a position of one user, so the users earn no more either.
LEMMA UserRewardsWithin ==
  ASSUME TypeOK, OwnPositions, WeightsWithin
  PROVE  Total(UserRewards) <= config.lockdrop_incentives
<1> DEFINE P   == [u \in Users |-> userInfo[u].lockup_positions]
           all == UNION {P[u] : u \in Users}
           f   == LockupRewards
           g   == [id \in all |-> f[id]]
<1>1. /\ IsFiniteSet(Users) /\ IsFiniteSet(LockupIds)
      /\ f \in [LockupIds -> Nat] /\ Total(f) <= config.lockdrop_incentives
      /\ config.lockdrop_incentives \in Nat
  BY LockupRewardsWithin, LockupIdsFinite, LockdropAssumption DEF TypeOK, ConfigRecords
<1>2. /\ \A u \in Users : P[u] \subseteq LockupIds
      /\ \A u, v \in Users : u # v => P[u] \cap P[v] = {}
  BY RewardsTyped DEF RewardTypes, OwnPositions
<1>3. ASSUME NEW u \in Users PROVE PositionRewards(u) = [id \in P[u] |-> f[id]]
  BY <1>2 DEF PositionRewards, LockupRewards
<1>4. UserRewards = [u \in Users |-> Total([id \in P[u] |-> f[id]])]
  BY <1>3 DEF UserRewards
<1> HIDE DEF P, f
<1>5. Total([u \in Users |-> Total([id \in P[u] |-> f[id]])]) = Total(g)
  BY <1>1, <1>2, TotalNested
<1>6. all \subseteq LockupIds
  BY <1>2
<1>7. g \in [all -> Nat] /\ \A id \in all : g[id] <= f[id]
  BY <1>1, <1>6
<1> HIDE DEF all, g
<1>8. Total(g) <= Total(f)
  BY <1>1, <1>6, <1>7, TotalSubset
<1>9. Total(f) \in Nat /\ Total(g) \in Nat
  <2>1. IsFiniteSet(all)
    BY <1>1, <1>6, FS_Subset
  <2> QED BY <1>1, <1>7, <2>1, TotalType
<1> QED BY <1>1, <1>4, <1>5, <1>8, <1>9

\* What a step does to the MARS and to the rewards.
KeepsReward(u) ==
  /\ userInfo'[u].total_mars_incentives = userInfo[u].total_mars_incentives
  /\ userInfo'[u].delegated_mars_incentives = userInfo[u].delegated_mars_incentives
  /\ userInfo'[u].lockdrop_claimed = userInfo[u].lockdrop_claimed

MarsStays ==
  /\ balance'.mars - config'.lockdrop_incentives
       = balance.mars - config.lockdrop_incentives
  /\ state'.total_mars_delegated = state.total_mars_delegated

QuietStep == MarsStays /\ \A u \in Users : KeepsReward(u)

\* A nuke forgets users.
ForgettingStep ==
  MarsStays /\ \A u \in Users : KeepsReward(u) \/ userInfo'[u] = NoUser

DelegationStep(u, amount) ==
  /\ now >= WithdrawEnd /\ ~state.are_claims_allowed
  /\ userInfo[u].lockup_positions # {}
  /\ amount <= Reward(u) - userInfo[u].delegated_mars_incentives
  /\ userInfo'[u].total_mars_incentives = Reward(u)
  /\ userInfo'[u].delegated_mars_incentives
       = userInfo[u].delegated_mars_incentives + amount
  /\ userInfo'[u].lockdrop_claimed = userInfo[u].lockdrop_claimed
  /\ \A v \in Users : v # u => KeepsReward(v)
  /\ balance'.mars = balance.mars - amount
  /\ state'.total_mars_delegated = state.total_mars_delegated + amount
  /\ config' = config

RewardDue(u) ==
  IF userInfo[u].lockdrop_claimed THEN 0
  ELSE Reward(u) - userInfo[u].delegated_mars_incentives

ClaimStep(u) ==
  /\ state.are_claims_allowed
  /\ userInfo[u].total_ust_locked # 0
  /\ userInfo[u].delegated_mars_incentives <= Reward(u)
  /\ userInfo'[u].total_mars_incentives = Reward(u)
  /\ userInfo'[u].delegated_mars_incentives = userInfo[u].delegated_mars_incentives
  /\ userInfo'[u].lockdrop_claimed = (userInfo[u].lockdrop_claimed \/ RewardDue(u) > 0)
  /\ \A v \in Users : v # u => KeepsReward(v)
  /\ balance'.mars = balance.mars - RewardDue(u)
  /\ state'.total_mars_delegated = state.total_mars_delegated
  /\ config' = config

RewardMoves ==
  \/ QuietStep
  \/ \E u \in Users, amount \in Nat : DelegationStep(u, amount)
  \/ \E u \in Users : ClaimStep(u)

MarsMoves ==
  \/ ForgettingStep
  \/ \E u \in Users, amount \in Nat : DelegationStep(u, amount)
  \/ \E u \in Users : ClaimStep(u)

\* Every step but a nuke.
KeepingStep ==
  \/ Tick \/ AdminStep \/ UserStep \/ UserDelegates \/ EnableClaims \/ UNCHANGED vars
  \/ \E amount \in MarsAmounts : IncreaseMarsIncentives(amount)

\* A claim, with or without a position to unlock.
LEMMA ClaimMoves ==
  ASSUME TypeOK, NEW u \in Users, NEW accrued, ClaimAllowed(u, accrued), NEW new,
         userInfo' = [userInfo EXCEPT ![u] = new],
         new.total_mars_incentives = Provisioned(u).total_mars_incentives,
         new.delegated_mars_incentives = Provisioned(u).delegated_mars_incentives,
         new.lockdrop_claimed
           = Settled(Provisioned(u), accrued).lockdrop_claimed,
         balance'.mars = balance.mars - MarsDue(Provisioned(u)),
         state'.total_mars_delegated = state.total_mars_delegated,
         config' = config
  PROVE  RewardMoves
<1>1. /\ Provisioned(u).total_mars_incentives = Reward(u)
      /\ Provisioned(u).delegated_mars_incentives = userInfo[u].delegated_mars_incentives
      /\ Provisioned(u).lockdrop_claimed = userInfo[u].lockdrop_claimed
      /\ MarsDue(Provisioned(u)) = RewardDue(u)
  BY ProvisionedReward DEF RewardDue
<1>2. /\ userInfo'[u] = new
      /\ \A v \in Users : v # u => userInfo'[v] = userInfo[v]
  BY DEF TypeOK
<1>3. Settled(Provisioned(u), accrued).lockdrop_claimed
        = (Provisioned(u).lockdrop_claimed \/ MarsDue(Provisioned(u)) > 0)
  <2> DEFINE info == Provisioned(u)
  <2>1. info \in UserRecords
    BY ProvisionedType
  <2> HIDE DEF info
  <2>2. Settled(info, accrued).lockdrop_claimed
          = (info.lockdrop_claimed \/ MarsDue(info) > 0)
    BY <2>1 DEF Settled, UserRecords
  <2> QED BY <2>2 DEF info
<1>4. /\ state.are_claims_allowed /\ userInfo[u].total_ust_locked # 0
      /\ Provisioned(u).delegated_mars_incentives <= Provisioned(u).total_mars_incentives
  BY Zenon DEF ClaimAllowed
<1>5. \A v \in Users : v # u => KeepsReward(v)
  BY <1>2 DEF KeepsReward
<1>6. ClaimStep(u)
  BY <1>1, <1>2, <1>3, <1>4, <1>5 DEF ClaimStep
<1> QED BY <1>6 DEF RewardMoves

LEMMA RewardMovesNext == TypeOK /\ KeepingStep => RewardMoves
<1> SUFFICES ASSUME TypeOK, KeepingStep PROVE RewardMoves
  OBVIOUS
<1>1. /\ config \in ConfigRecords /\ state \in StateRecords /\ balance \in BalanceRecords
      /\ userInfo \in [Users -> UserRecords]
      /\ \A u \in Users : userInfo[u] \in UserRecords
      /\ config.lockdrop_incentives \in Nat /\ balance.mars \in Nat
  BY DEF TypeOK, ConfigRecords, BalanceRecords
<1>2. ASSUME userInfo' = userInfo, MarsKept PROVE RewardMoves
  <2>1. \A u \in Users : KeepsReward(u)
    BY <1>2 DEF KeepsReward
  <2>2. QuietStep
    BY <1>2, <2>1 DEF MarsKept, MarsStays, QuietStep
  <2> QED BY <2>2 DEF RewardMoves
<1>3. CASE \/ Tick \/ EnableClaims \/ UNCHANGED vars
  BY <1>1, <1>2, <1>3 DEF Tick, EnableClaims, vars, MarsKept, StateRecords
<1>4. ASSUME NEW amount \in MarsAmounts, IncreaseMarsIncentives(amount) PROVE RewardMoves
  <2>1. /\ userInfo' = userInfo /\ state' = state /\ amount \in Nat
        /\ balance'.mars = balance.mars + amount
        /\ config'.lockdrop_incentives = config.lockdrop_incentives + amount
    BY <1>1, <1>4, LockdropAssumption DEF IncreaseMarsIncentives, ConfigRecords,
         BalanceRecords
  <2>2. balance'.mars - config'.lockdrop_incentives
          = balance.mars - config.lockdrop_incentives
    BY <1>1, <2>1
  <2>3. \A u \in Users : KeepsReward(u)
    BY <2>1 DEF KeepsReward
  <2>4. QuietStep
    BY <2>1, <2>2, <2>3 DEF MarsStays, QuietStep
  <2> QED BY <2>4 DEF RewardMoves
<1>5. CASE AdminStep
  <2>1. ASSUME NEW sender, NEW minted, DepositUstInRedBank(sender, minted)
        PROVE  RewardMoves
    BY <1>1, <1>2, <2>1 DEF DepositUstInRedBank, StateAfterRedBank, StateRecords,
         BalanceRecords, MarsKept
  <2>2. ASSUME NEW sender, NEW addresses, NEW newOwner,
               UpdateConfig(sender, addresses, newOwner)
        PROVE  RewardMoves
    BY <1>1, <1>2, <2>2 DEF UpdateConfig, ConfigRecords, MarsKept
  <2> QED BY <1>5, <2>1, <2>2 DEF AdminStep
<1>6. ASSUME NEW u \in Users, NEW new,
             userInfo' = [userInfo EXCEPT ![u] = new], MarsKept,
             new.total_mars_incentives = userInfo[u].total_mars_incentives,
             new.delegated_mars_incentives = userInfo[u].delegated_mars_incentives,
             new.lockdrop_claimed = userInfo[u].lockdrop_claimed
      PROVE  RewardMoves
  <2>1. \A v \in Users : userInfo'[v] = IF v = u THEN new ELSE userInfo[v]
    BY <1>1, <1>6
  <2>2. \A v \in Users : KeepsReward(v)
    BY <1>6, <2>1 DEF KeepsReward
  <2>3. QuietStep
    BY <1>6, <2>2 DEF MarsKept, MarsStays, QuietStep
  <2> QED BY <2>3 DEF RewardMoves
<1>7. ASSUME NEW u \in Users, NEW d, NEW amount, DepositUst(u, d, amount)
      PROVE  RewardMoves
  <2> DEFINE new == [userInfo[u] EXCEPT
        !.total_ust_locked = @ + amount,
        !.lockup_positions = IF lockup[<<u, d>>].duration = 0 THEN @ \union {<<u, d>>} ELSE @]
  <2>1. userInfo' = [userInfo EXCEPT ![u] = new]
    BY <1>7, Zenon DEF DepositUst
  <2>2. /\ new.lockdrop_claimed = userInfo[u].lockdrop_claimed
        /\ new.total_mars_incentives = userInfo[u].total_mars_incentives
        /\ new.delegated_mars_incentives = userInfo[u].delegated_mars_incentives
    BY <1>1 DEF UserRecords
  <2>3. MarsKept
    BY <1>1, <1>7 DEF DepositUst, StateRecords, BalanceRecords, MarsKept
  <2> HIDE DEF new
  <2> QED BY <1>6, <2>1, <2>2, <2>3
<1>8. ASSUME NEW u \in Users, NEW d, NEW amount, WithdrawUst(u, d, amount)
      PROVE  RewardMoves
  <2> DEFINE new == [userInfo[u] EXCEPT
        !.total_ust_locked = @ - amount,
        !.lockup_positions =
           IF lockup[<<u, d>>].ust_locked - amount = 0 THEN @ \ {<<u, d>>} ELSE @]
  <2>1. userInfo' = [userInfo EXCEPT ![u] = new]
    BY <1>8, Zenon DEF WithdrawUst
  <2>2. /\ new.lockdrop_claimed = userInfo[u].lockdrop_claimed
        /\ new.total_mars_incentives = userInfo[u].total_mars_incentives
        /\ new.delegated_mars_incentives = userInfo[u].delegated_mars_incentives
    BY <1>1 DEF UserRecords
  <2>3. MarsKept
    BY <1>1, <1>8 DEF WithdrawUst, StateRecords, BalanceRecords, MarsKept
  <2> HIDE DEF new
  <2> QED BY <1>6, <2>1, <2>2, <2>3
<1>9. ASSUME NEW u \in Users, NEW accrued, ClaimRewards(u, accrued)
      PROVE  RewardMoves
  <2> DEFINE new == Settled(Provisioned(u), accrued)
  <2>1. /\ userInfo' = [userInfo EXCEPT ![u] = new] /\ ClaimAllowed(u, accrued)
        /\ config' = config
    BY <1>9 DEF ClaimRewards
  <2>2. /\ state'.total_mars_delegated = state.total_mars_delegated
        /\ balance'.mars = balance.mars - MarsDue(Provisioned(u))
    BY <1>1, <1>9 DEF ClaimRewards, BalanceAfterClaim, StateRecords, BalanceRecords
  <2>3. /\ new.total_mars_incentives = Provisioned(u).total_mars_incentives
        /\ new.delegated_mars_incentives = Provisioned(u).delegated_mars_incentives
    BY <1>1, ProvisionedType DEF Settled, UserRecords
  <2>4. new.lockdrop_claimed = Settled(Provisioned(u), accrued).lockdrop_claimed
    OBVIOUS
  <2> HIDE DEF new
  <2> QED BY <2>1, <2>2, <2>3, <2>4, ClaimMoves
<1>10. ASSUME NEW u \in Users, NEW d, NEW accrued, ClaimRewardsAndUnlock(u, d, accrued)
       PROVE  RewardMoves
  <2> DEFINE info == Settled(Provisioned(u), accrued)
             new == [info EXCEPT
                       !.total_maust_share = @ - MaUstShare(lockup[<<u, d>>].ust_locked),
                       !.lockup_positions = @ \ {<<u, d>>}]
  <2>1. /\ userInfo' = [userInfo EXCEPT ![u] = new] /\ ClaimAllowed(u, accrued)
        /\ config' = config
    BY <1>10, Zenon DEF ClaimRewardsAndUnlock
  <2>2. PICK refund :
          /\ state' = [state EXCEPT !.xmars_rewards_index = XmarsIndexAfter(accrued),
                                    !.total_maust_locked = @ - refund]
          /\ balance' = [BalanceAfterClaim(u, accrued) EXCEPT !.maust = @ - refund]
    BY <1>10, Zenon DEF ClaimRewardsAndUnlock
  <2>3. /\ state'.total_mars_delegated = state.total_mars_delegated
        /\ balance'.mars = balance.mars - MarsDue(Provisioned(u))
    BY <1>1, <2>2 DEF BalanceAfterClaim, StateRecords, BalanceRecords
  <2>4. /\ new.total_mars_incentives = Provisioned(u).total_mars_incentives
        /\ new.delegated_mars_incentives = Provisioned(u).delegated_mars_incentives
        /\ new.lockdrop_claimed = info.lockdrop_claimed
    BY <1>1, ProvisionedType DEF Settled, UserRecords
  <2> HIDE DEF new
  <2> QED BY <2>1, <2>3, <2>4, ClaimMoves
<1>11. CASE UserStep
  BY <1>7, <1>8, <1>9, <1>10, <1>11 DEF UserStep
<1>12. CASE UserDelegates
  <2>1. PICK u \in Users, amount \in MarsAmounts : DepositMarsToAuction(u, amount)
    BY <1>12, Zenon DEF UserDelegates
  <2> DEFINE info == Provisioned(u)
             new == [info EXCEPT !.delegated_mars_incentives = @ + amount]
  <2>2. /\ userInfo' = [userInfo EXCEPT ![u] = new]
        /\ now >= WithdrawEnd /\ ~state.are_claims_allowed /\ config' = config
        /\ userInfo[u].lockup_positions # {}
        /\ amount <= info.total_mars_incentives - info.delegated_mars_incentives
    BY <2>1, Zenon DEF DepositMarsToAuction
  <2>3. /\ balance'.mars = balance.mars - amount
        /\ state'.total_mars_delegated = state.total_mars_delegated + amount
    BY <1>1, <2>1 DEF DepositMarsToAuction, StateRecords, BalanceRecords
  <2>4. /\ info \in UserRecords /\ info.total_mars_incentives = Reward(u)
        /\ info.delegated_mars_incentives = userInfo[u].delegated_mars_incentives
        /\ info.lockdrop_claimed = userInfo[u].lockdrop_claimed
    BY ProvisionedType, ProvisionedReward
  <2> HIDE DEF info
  <2>5. /\ new.total_mars_incentives = info.total_mars_incentives
        /\ new.delegated_mars_incentives = info.delegated_mars_incentives + amount
        /\ new.lockdrop_claimed = info.lockdrop_claimed
    BY <2>4 DEF UserRecords
  <2> HIDE DEF new
  <2>6. userInfo'[u] = new /\ \A v \in Users : v # u => userInfo'[v] = userInfo[v]
    BY <1>1, <2>2
  <2>7. \A v \in Users : v # u => KeepsReward(v)
    BY <2>6 DEF KeepsReward
  <2>8. DelegationStep(u, amount)
    BY <2>2, <2>3, <2>4, <2>5, <2>6, <2>7 DEF DelegationStep
  <2>9. amount \in Nat
    BY LockdropAssumption
  <2> QED BY <2>8, <2>9 DEF RewardMoves
<1> QED BY <1>3, <1>4, <1>5, <1>11, <1>12 DEF KeepingStep

LEMMA NukeForgets == TypeOK /\ NukeLockdrop => ForgettingStep
<1> SUFFICES ASSUME TypeOK, NukeLockdrop PROVE ForgettingStep
  OBVIOUS
<1>1. /\ config \in ConfigRecords /\ state \in StateRecords /\ balance \in BalanceRecords
      /\ \A u \in Users : userInfo[u] \in UserRecords
  BY DEF TypeOK
<1> DEFINE removed == {u \in NukeBatch : \/ u \notin Nuked
                                          \/ userInfo[u].total_ust_locked = NukedUst(u)}
           left(u) == [userInfo[u] EXCEPT !.total_ust_locked = @ - NukedUst(u),
                                          !.total_maust_share = @ - NukedMaUst(u),
                                          !.lockup_positions = {}]
<1>2. /\ userInfo' = [u \in Users |->
           IF u \in removed THEN NoUser ELSE IF u \in Nuked THEN left(u) ELSE userInfo[u]]
  BY Zenon DEF NukeLockdrop
<1>3. PICK refunds : /\ state' = [state EXCEPT !.total_maust_locked = @ - refunds]
                     /\ balance' = [balance EXCEPT !.maust = @ - refunds]
  BY Zenon DEF NukeLockdrop
<1>4. MarsKept
  <2>1. config' = config
    BY Zenon DEF NukeLockdrop
  <2> QED BY <1>1, <1>3, <2>1 DEF MarsKept, StateRecords, BalanceRecords
<1>5. ASSUME NEW u \in Users
      PROVE  /\ left(u).lockdrop_claimed = userInfo[u].lockdrop_claimed
             /\ left(u).total_mars_incentives = userInfo[u].total_mars_incentives
             /\ left(u).delegated_mars_incentives = userInfo[u].delegated_mars_incentives
  BY <1>1 DEF UserRecords
<1> HIDE DEF removed, left
<1>6. ASSUME NEW u \in Users PROVE KeepsReward(u) \/ userInfo'[u] = NoUser
  BY <1>2, <1>5 DEF KeepsReward
<1> QED BY <1>4, <1>6 DEF MarsKept, MarsStays, ForgettingStep

LEMMA MarsMovesNext == TypeOK /\ [Next]_vars => MarsMoves
<1>1. QuietStep => ForgettingStep
  BY DEF QuietStep, ForgettingStep
<1> QED BY <1>1, RewardMovesNext, NukeForgets DEF Next, KeepingStep, RewardMoves, MarsMoves

\* Before the windows close no reward has been computed, delegated or paid.
NothingPaidYet ==
  now < WithdrawEnd =>
    /\ balance.mars = config.lockdrop_incentives
    /\ \A u \in Users : /\ userInfo[u].total_mars_incentives = 0
                        /\ userInfo[u].delegated_mars_incentives = 0
                        /\ ~userInfo[u].lockdrop_claimed

LEMMA ClockNext == TypeOK /\ [Next]_vars => now' = now \/ Tick
<1>1. ASSUME NEW u, NEW d, NEW accrued, ClaimRewardsAndUnlock(u, d, accrued)
      PROVE  now' = now
  BY <1>1, Zenon DEF ClaimRewardsAndUnlock
<1>2. NukeLockdrop => now' = now
  BY Zenon DEF NukeLockdrop
<1>3. ASSUME NEW u, NEW d, NEW amount, DepositUst(u, d, amount) \/ WithdrawUst(u, d, amount)
      PROVE  now' = now
  BY <1>3, Zenon DEF DepositUst, WithdrawUst
<1>4. ASSUME NEW u, NEW amount, DepositMarsToAuction(u, amount) PROVE now' = now
  BY <1>4, Zenon DEF DepositMarsToAuction
<1>5. ASSUME NEW u, NEW accrued, ClaimRewards(u, accrued) PROVE now' = now
  BY <1>5, Zenon DEF ClaimRewards
<1>6. AdminStep \/ EnableClaims \/ (\E amount \in MarsAmounts : IncreaseMarsIncentives(amount))
        => now' = now
  BY Zenon DEF AdminStep, UpdateConfig, DepositUstInRedBank, EnableClaims,
     IncreaseMarsIncentives
<1>7. UserStep => now' = now
  BY <1>1, <1>3, <1>5 DEF UserStep
<1>8. UserDelegates => now' = now
  BY <1>4 DEF UserDelegates
<1> QED BY <1>2, <1>6, <1>7, <1>8 DEF Next, vars

LEMMA DelegatedNext ==
  ASSUME TypeOK, DelegatedWithinReward, MarsMoves
  PROVE  DelegatedWithinReward'
<1>1. ASSUME NEW u \in Users
      PROVE  /\ Reward(u) \in Nat
             /\ userInfo[u].total_mars_incentives \in Nat
             /\ userInfo[u].delegated_mars_incentives \in Nat
             /\ userInfo[u].delegated_mars_incentives
                  <= userInfo[u].total_mars_incentives
  BY RewardsTyped DEF RewardTypes, TypeOK, UserRecords, DelegatedWithinReward
<1>2. CASE ForgettingStep
  BY <1>1, <1>2 DEF ForgettingStep, KeepsReward, NoUser, DelegatedWithinReward
<1>3. ASSUME NEW u \in Users, NEW amount \in Nat, DelegationStep(u, amount)
      PROVE  DelegatedWithinReward'
  <2>1. userInfo'[u].delegated_mars_incentives <= userInfo'[u].total_mars_incentives
    BY <1>1, <1>3 DEF DelegationStep
  <2>2. \A v \in Users : v # u => KeepsReward(v)
    BY <1>3 DEF DelegationStep
  <2> QED BY <1>1, <2>1, <2>2 DEF KeepsReward, DelegatedWithinReward
<1>4. ASSUME NEW u \in Users, ClaimStep(u) PROVE DelegatedWithinReward'
  <2>1. userInfo'[u].delegated_mars_incentives <= userInfo'[u].total_mars_incentives
    BY <1>1, <1>4 DEF ClaimStep
  <2>2. \A v \in Users : v # u => KeepsReward(v)
    BY <1>4 DEF ClaimStep
  <2> QED BY <1>1, <2>1, <2>2 DEF KeepsReward, DelegatedWithinReward
<1> QED BY <1>2, <1>3, <1>4 DEF MarsMoves

LEMMA UnpaidNext ==
  ASSUME TypeOK, TypeOK', [Next]_vars, MarsMoves, ClaimsOnlyAfterWindows, NothingPaidYet
  PROVE  NothingPaidYet'
<1>1. /\ now \in Nat /\ now' \in Nat /\ WithdrawEnd \in Nat /\ now <= now'
      /\ balance.mars \in Nat /\ config.lockdrop_incentives \in Nat
      /\ balance'.mars \in Nat /\ config'.lockdrop_incentives \in Nat
  <2>1. now <= now'
    BY ClockNext DEF Tick, TypeOK
  <2> QED BY <2>1, LockdropAssumption
          DEF TypeOK, ConfigRecords, BalanceRecords, WithdrawEnd, DepositEnd
<1> SUFFICES ASSUME now' < WithdrawEnd
             PROVE  /\ balance'.mars = config'.lockdrop_incentives
                    /\ \A u \in Users : /\ userInfo'[u].total_mars_incentives = 0
                                        /\ userInfo'[u].delegated_mars_incentives = 0
                                        /\ ~userInfo'[u].lockdrop_claimed
  BY DEF NothingPaidYet, WithdrawEnd, DepositEnd
<1>2. now < WithdrawEnd /\ ~state.are_claims_allowed
  BY <1>1 DEF ClaimsOnlyAfterWindows
<1>3. ForgettingStep
  BY <1>1, <1>2 DEF MarsMoves, DelegationStep, ClaimStep
<1>4. balance'.mars = config'.lockdrop_incentives
  BY <1>1, <1>2, <1>3 DEF NothingPaidYet, MarsStays, ForgettingStep
<1>5. ASSUME NEW u \in Users
      PROVE  /\ userInfo'[u].total_mars_incentives = 0
             /\ userInfo'[u].delegated_mars_incentives = 0
             /\ ~userInfo'[u].lockdrop_claimed
  <2>1. KeepsReward(u) \/ userInfo'[u] = NoUser
    BY <1>3 DEF ForgettingStep
  <2> QED BY <1>2, <2>1 DEF KeepsReward, NoUser, NothingPaidYet
<1> QED BY <1>4, <1>5

\* After the windows nobody gets a new position or more UST.
PositionsOnlyLeave ==
  \A u \in Users :
    /\ userInfo'[u].lockup_positions \subseteq userInfo[u].lockup_positions
    /\ userInfo'[u].total_ust_locked <= userInfo[u].total_ust_locked

LEMMA PositionsShrink ==
  ASSUME TypeOK, [Next]_vars, now >= WithdrawEnd
  PROVE  PositionsOnlyLeave
<1>1. /\ userInfo \in [Users -> UserRecords]
      /\ \A v \in Users : /\ userInfo[v] \in UserRecords
                          /\ userInfo[v].total_ust_locked \in Nat
      /\ now \in Nat /\ WithdrawEnd \in Nat /\ DepositEnd \in Nat /\ DepositEnd < WithdrawEnd
  BY LockdropAssumption DEF TypeOK, UserRecords, WithdrawEnd, DepositEnd
<1>2. ASSUME userInfo' = userInfo PROVE PositionsOnlyLeave
  BY <1>1, <1>2 DEF PositionsOnlyLeave
<1>3. ASSUME NEW v \in Users, NEW new, userInfo' = [userInfo EXCEPT ![v] = new],
             new.lockup_positions \subseteq userInfo[v].lockup_positions,
             new.total_ust_locked <= userInfo[v].total_ust_locked
      PROVE  PositionsOnlyLeave
  <2>1. \A w \in Users : userInfo'[w] = IF w = v THEN new ELSE userInfo[w]
    BY <1>1, <1>3
  <2> QED BY <1>1, <1>3, <2>1 DEF PositionsOnlyLeave
<1>4. CASE \/ Tick \/ AdminStep \/ EnableClaims \/ UNCHANGED vars
           \/ \E amount \in MarsAmounts : IncreaseMarsIncentives(amount)
  <2>1. userInfo' = userInfo
    BY <1>4, Zenon DEF Tick, AdminStep, UpdateConfig, DepositUstInRedBank, EnableClaims,
         IncreaseMarsIncentives, vars
  <2> QED BY <1>2, <2>1
<1>5. ASSUME NEW v \in Users, NEW d \in Durations, NEW amount \in 0 .. MaxUst,
             WithdrawUst(v, d, amount)
      PROVE  PositionsOnlyLeave
  <2> DEFINE new == [userInfo[v] EXCEPT
        !.total_ust_locked = @ - amount,
        !.lockup_positions =
           IF lockup[<<v, d>>].ust_locked - amount = 0 THEN @ \ {<<v, d>>} ELSE @]
  <2>1. userInfo' = [userInfo EXCEPT ![v] = new]
    BY <1>5, Zenon DEF WithdrawUst
  <2>2. /\ new.lockup_positions \subseteq userInfo[v].lockup_positions
        /\ new.total_ust_locked = userInfo[v].total_ust_locked - amount
    BY <1>1 DEF UserRecords
  <2>3. new.total_ust_locked <= userInfo[v].total_ust_locked
    BY <1>1, <2>2, LockdropAssumption
  <2> HIDE DEF new
  <2> QED BY <1>3, <2>1, <2>2, <2>3
<1>6. ASSUME NEW v \in Users, NEW accrued, ClaimRewards(v, accrued) PROVE PositionsOnlyLeave
  <2> DEFINE new == Settled(Provisioned(v), accrued)
  <2>1. userInfo' = [userInfo EXCEPT ![v] = new]
    BY <1>6 DEF ClaimRewards
  <2>2. /\ new.lockup_positions = userInfo[v].lockup_positions
        /\ new.total_ust_locked = userInfo[v].total_ust_locked
    BY ClaimKeepsPositions
  <2>3. /\ new.lockup_positions \subseteq userInfo[v].lockup_positions
        /\ new.total_ust_locked <= userInfo[v].total_ust_locked
    BY <1>1, <2>2
  <2> HIDE DEF new
  <2> QED BY <1>3, <2>1, <2>3
<1>7. ASSUME NEW v \in Users, NEW d, NEW accrued, ClaimRewardsAndUnlock(v, d, accrued)
      PROVE  PositionsOnlyLeave
  <2> DEFINE info == Settled(Provisioned(v), accrued)
             new == [info EXCEPT
                       !.total_maust_share = @ - MaUstShare(lockup[<<v, d>>].ust_locked),
                       !.lockup_positions = @ \ {<<v, d>>}]
  <2>1. userInfo' = [userInfo EXCEPT ![v] = new]
    BY <1>7, Zenon DEF ClaimRewardsAndUnlock
  <2>2. /\ new.lockup_positions = info.lockup_positions \ {<<v, d>>}
        /\ new.total_ust_locked = info.total_ust_locked
    BY <1>1, ProvisionedType DEF Settled, UserRecords
  <2>3. /\ info.lockup_positions = userInfo[v].lockup_positions
        /\ info.total_ust_locked = userInfo[v].total_ust_locked
    BY ClaimKeepsPositions
  <2>4. /\ new.lockup_positions \subseteq userInfo[v].lockup_positions
        /\ new.total_ust_locked <= userInfo[v].total_ust_locked
    BY <1>1, <2>2, <2>3
  <2> HIDE DEF new, info
  <2> QED BY <1>3, <2>1, <2>4
<1>8. CASE UserStep
  <2>1. ASSUME NEW v, NEW d, NEW amount, DepositUst(v, d, amount) PROVE FALSE
    BY <1>1, <2>1 DEF DepositUst, IsDepositOpen
  <2> QED BY <1>5, <1>6, <1>7, <1>8, <2>1 DEF UserStep
<1>9. CASE UserDelegates
  <2>1. PICK v \in Users, amount \in MarsAmounts : DepositMarsToAuction(v, amount)
    BY <1>9, Zenon DEF UserDelegates
  <2> DEFINE new == [Provisioned(v) EXCEPT !.delegated_mars_incentives = @ + amount]
  <2>2. userInfo' = [userInfo EXCEPT ![v] = new]
    BY <2>1, Zenon DEF DepositMarsToAuction
  <2>3. /\ new.lockup_positions = Provisioned(v).lockup_positions
        /\ new.total_ust_locked = Provisioned(v).total_ust_locked
    BY ProvisionedType DEF UserRecords
  <2>4. /\ new.lockup_positions \subseteq userInfo[v].lockup_positions
        /\ new.total_ust_locked <= userInfo[v].total_ust_locked
    BY <1>1, <2>3, ClaimKeepsPositions
  <2> HIDE DEF new
  <2> QED BY <1>3, <2>2, <2>4
<1>10. CASE NukeLockdrop
  <2> DEFINE removed == {v \in NukeBatch : \/ v \notin Nuked
                                            \/ userInfo[v].total_ust_locked = NukedUst(v)}
             left(v) == [userInfo[v] EXCEPT !.total_ust_locked = @ - NukedUst(v),
                                            !.total_maust_share = @ - NukedMaUst(v),
                                            !.lockup_positions = {}]
  <2>1. userInfo' = [v \in Users |->
             IF v \in removed THEN NoUser ELSE IF v \in Nuked THEN left(v) ELSE userInfo[v]]
    BY <1>10, Zenon DEF NukeLockdrop
  <2>2. ASSUME NEW v \in Users
        PROVE  /\ left(v).lockup_positions = {}
               /\ left(v).total_ust_locked <= userInfo[v].total_ust_locked
    <3>1. left(v).lockup_positions = {}
          /\ left(v).total_ust_locked = userInfo[v].total_ust_locked - NukedUst(v)
      BY <1>1 DEF UserRecords
    <3>2. NukedUst(v) \in Nat
      BY NukedType
    <3> QED BY <1>1, <3>1, <3>2
  <2> HIDE DEF removed, left
  <2>3. NoUser.lockup_positions = {} /\ NoUser.total_ust_locked = 0
    BY DEF NoUser
  <2> QED BY <1>1, <2>1, <2>2, <2>3 DEF PositionsOnlyLeave
<1> QED BY <1>4, <1>8, <1>9, <1>10 DEF Next
\* The weights follow the deposits and the withdrawals to the last unit.
LEMMA WeightsFall ==
  ASSUME TypeOK, TypeOK', BasisKept, WeightsWithin
  PROVE  WeightsWithin'
<1>1. /\ Weights \in [LockupIds -> Nat] /\ Weights' \in [LockupIds -> Nat]
      /\ Total(Weights) \in Nat /\ Total(Weights') \in Nat
      /\ IsFiniteSet(LockupIds) /\ state.total_deposits_weight \in Nat
  <2>1. Weights \in [LockupIds -> Nat]
    BY WeightsTyped
  <2>2. (Weights \in [LockupIds -> Nat])'
    BY WeightsTyped, PTL
  <2> QED BY <2>1, <2>2, LockupIdsFinite, TotalType DEF TypeOK, StateRecords
<1>2. ASSUME NEW id \in LockupIds PROVE Weights'[id] <= Weights[id]
  <2>1. Weights[id] \in Nat /\ Boost[id[2]] \in Nat
    BY <1>1, LockdropAssumption DEF LockupIds
  <2>2. Weights'[id] = lockup'[id].ust_locked * Boost[id[2]]
        /\ Weights[id] = lockup[id].ust_locked * Boost[id[2]]
    BY DEF Weights, CalculateWeight
  <2>3. CASE lockup'[id].ust_locked = 0
    BY <2>1, <2>2, <2>3
  <2>4. CASE lockup'[id].ust_locked = lockup[id].ust_locked
    BY <2>1, <2>2, <2>4
  <2> QED BY <2>3, <2>4 DEF BasisKept
<1>3. Total(Weights') <= Total(Weights)
  BY <1>1, <1>2, TotalMono
<1> QED BY <1>1, <1>3 DEF WeightsWithin, BasisKept

LEMMA WeightMoves ==
  ASSUME TypeOK, TypeOK', WeightsWithin, NEW u \in Users, NEW d \in Durations,
         NEW delta \in Int,
         \A id \in LockupIds :
           lockup'[id].ust_locked =
             IF id = <<u, d>> THEN lockup[id].ust_locked + delta
             ELSE lockup[id].ust_locked,
         state'.total_deposits_weight = state.total_deposits_weight + delta * Boost[d]
  PROVE  WeightsWithin'
<1> DEFINE id == <<u, d>>
<1>1. /\ Weights \in [LockupIds -> Nat] /\ Weights' \in [LockupIds -> Nat]
      /\ IsFiniteSet(LockupIds) /\ id \in LockupIds /\ Boost[d] \in Nat
      /\ lockup[id].ust_locked \in Nat /\ state.total_deposits_weight \in Nat
      /\ id[2] = d
  <2>1. Weights \in [LockupIds -> Nat]
    BY WeightsTyped
  <2>2. (Weights \in [LockupIds -> Nat])'
    BY WeightsTyped, PTL
  <2> QED BY <2>1, <2>2, LockupIdsFinite, LockdropAssumption
          DEF TypeOK, StateRecords, LockupRecords, LockupIds
<1>2. \A i \in LockupIds : i # id => Weights'[i] = Weights[i]
  BY DEF Weights, CalculateWeight
<1> DEFINE diff == delta * Boost[d]
<1>3. Weights'[id] = Weights[id] + diff /\ diff \in Int
  <2>1. /\ Weights'[id] = lockup'[id].ust_locked * Boost[d]
        /\ Weights[id] = lockup[id].ust_locked * Boost[d]
    BY <1>1 DEF Weights, CalculateWeight
  <2>2. lockup'[id].ust_locked = lockup[id].ust_locked + delta
    BY <1>1
  <2>3. \A a \in Nat, b \in Int, c \in Nat : (a + b) * c = a * c + b * c /\ b * c \in Int
    OBVIOUS
  <2> QED BY <1>1, <2>1, <2>2, <2>3
<1> HIDE DEF diff
<1>4. Total(Weights') = Total(Weights) + diff
  <2> DEFINE f == Weights
             g == Weights'
  <2> HIDE DEF f, g, id
  <2>1. Total(g) = Total(f) + diff
    BY <1>1, <1>2, <1>3, TotalShift DEF f, g
  <2> QED BY <2>1 DEF f, g
<1>5. Total(Weights) \in Nat
  BY <1>1, TotalType
<1>6. state'.total_deposits_weight = state.total_deposits_weight + diff
  BY DEF diff
<1> QED BY <1>1, <1>3, <1>4, <1>5, <1>6 DEF WeightsWithin

LEMMA WeightsNext ==
  ASSUME TypeOK, TypeOK', [Next]_vars, WeightsWithin
  PROVE  WeightsWithin'
<1>1. /\ state \in StateRecords /\ lockup \in [LockupIds -> LockupRecords]
      /\ state.total_deposits_weight \in Nat
      /\ \A id \in LockupIds : /\ lockup[id] \in LockupRecords
                               /\ lockup[id].ust_locked \in Nat
      /\ \A u \in Users, d \in Durations : <<u, d>> \in LockupIds
      /\ \A d \in Durations : Boost[d] \in Nat
  BY LockdropAssumption DEF TypeOK, StateRecords, LockupRecords, LockupIds
<1>2. ASSUME lockup' = lockup, state'.total_deposits_weight = state.total_deposits_weight
      PROVE  WeightsWithin'
  BY <1>2 DEF WeightsWithin, Weights
<1>3. CASE \/ Tick \/ EnableClaims \/ UNCHANGED vars
           \/ \E amount \in MarsAmounts : IncreaseMarsIncentives(amount)
  BY <1>1, <1>2, <1>3 DEF Tick, EnableClaims, vars, IncreaseMarsIncentives, StateRecords
<1>4. CASE AdminStep
  <2>1. ASSUME NEW sender, NEW minted, DepositUstInRedBank(sender, minted)
        PROVE  WeightsWithin'
    BY <1>1, <1>2, <2>1 DEF DepositUstInRedBank, StateAfterRedBank, StateRecords
  <2>2. ASSUME NEW sender, NEW addresses, NEW newOwner,
               UpdateConfig(sender, addresses, newOwner)
        PROVE  WeightsWithin'
    BY <1>2, <2>2 DEF UpdateConfig
  <2> QED BY <1>4, <2>1, <2>2 DEF AdminStep
<1>5. ASSUME NEW u \in Users, NEW d \in Durations, NEW amount \in 1 .. MaxUst,
             DepositUst(u, d, amount)
      PROVE  WeightsWithin'
  <2> DEFINE id == <<u, d>>
             new == [lockup[id] EXCEPT !.duration = d, !.ust_locked = @ + amount]
  <2>1. lockup' = [lockup EXCEPT ![id] = new]
    BY <1>5, Zenon DEF DepositUst
  <2>2. new.ust_locked = lockup[id].ust_locked + amount
    BY <1>1 DEF LockupRecords
  <2> HIDE DEF new
  <2>3. \A i \in LockupIds :
          lockup'[i].ust_locked =
            IF i = <<u, d>> THEN lockup[i].ust_locked + amount ELSE lockup[i].ust_locked
    BY <1>1, <2>1, <2>2
  <2>4. state'.total_deposits_weight = state.total_deposits_weight + amount * Boost[d]
    BY <1>1, <1>5 DEF DepositUst, CalculateWeight, StateRecords
  <2>5. amount \in Int
    BY LockdropAssumption
  <2> QED BY <2>3, <2>4, <2>5, WeightMoves
<1>6. ASSUME NEW u \in Users, NEW d \in Durations, NEW amount \in 0 .. MaxUst,
             WithdrawUst(u, d, amount)
      PROVE  WeightsWithin'
  <2> DEFINE id == <<u, d>>
             left == lockup[id].ust_locked - amount
  <2>1. PICK flag :
          lockup' = [lockup EXCEPT ![id] =
            IF left = 0 THEN NoLockup
            ELSE [lockup[id] EXCEPT !.ust_locked = left, !.withdrawal_flag = flag]]
    BY <1>6, Zenon DEF WithdrawUst, CloseLockup
  <2> DEFINE new == IF left = 0 THEN NoLockup
                    ELSE [lockup[id] EXCEPT !.ust_locked = left, !.withdrawal_flag = flag]
             delta == 0 - amount
  <2>2. new.ust_locked = left
    BY <1>1 DEF LockupRecords, NoLockup
  <2>3. lockup' = [lockup EXCEPT ![id] = new]
    BY <2>1
  <2> HIDE DEF new
  <2>4. amount \in Int /\ delta \in Int
    BY LockdropAssumption
  <2>5. \A i \in LockupIds :
          lockup'[i].ust_locked =
            IF i = <<u, d>> THEN lockup[i].ust_locked + delta ELSE lockup[i].ust_locked
    BY <1>1, <2>2, <2>3, <2>4
  <2>6. state'.total_deposits_weight = state.total_deposits_weight + delta * Boost[d]
    <3>1. state'.total_deposits_weight = state.total_deposits_weight - amount * Boost[d]
      BY <1>1, <1>6 DEF WithdrawUst, CalculateWeight, StateRecords
    <3>2. \A a \in Int, b, c \in Nat : c - a * b = c + (0 - a) * b
      OBVIOUS
    <3> QED BY <1>1, <2>4, <3>1, <3>2
  <2> HIDE DEF delta
  <2> QED BY <2>4, <2>5, <2>6, WeightMoves
<1>7. CASE LeavingStep
  BY <1>7, LeavingKeepsBasis, WeightsFall
<1> QED BY <1>3, <1>4, <1>5, <1>6, <1>7 DEF Next, UserStep, LeavingStep

\* What the funding of the rewards rests on.
FundInv ==
  /\ WeightsWithin
  /\ DelegatedWithinReward
  /\ NothingPaidYet
  /\ RewardsFunded

\* At the end of the windows the rewards, not computed yet, are within the
\* incentives, none of which has been paid.
LEMMA FundedAtTheEnd ==
  ASSUME TypeOK, OwnPositions, WeightsWithin, DelegatedWithinReward, NothingPaidYet,
         now < WithdrawEnd
  PROVE  Total(MarsOwed) <= balance.mars
<1>1. /\ OwedValues /\ RewardTypes /\ IsFiniteSet(Users)
      /\ config.lockdrop_incentives \in Nat
  BY OwedIs, RewardsTyped, LockdropAssumption DEF TypeOK, ConfigRecords
<1>2. MarsOwed \in [Users -> Nat] /\ UserRewards \in [Users -> Nat]
  BY <1>1 DEF OwedValues, RewardTypes
<1>3. ASSUME NEW u \in Users PROVE MarsOwed[u] <= UserRewards[u]
  <2>1. /\ userInfo[u].total_mars_incentives = 0
        /\ userInfo[u].delegated_mars_incentives = 0
    BY DEF NothingPaidYet
  <2>2. Reward(u) = UserRewards[u] /\ Reward(u) \in Nat
    BY <1>1, <2>1 DEF Reward, UserRewards, RewardTypes
  <2> QED BY <1>1, <2>1, <2>2 DEF OwedValues
<1>4. Total(MarsOwed) <= Total(UserRewards)
  BY <1>1, <1>2, <1>3, TotalMono
<1>5. Total(MarsOwed) \in Nat /\ Total(UserRewards) \in Nat
  BY <1>1, <1>2, TotalType
<1>6. Total(UserRewards) <= config.lockdrop_incentives
  BY UserRewardsWithin
<1> QED BY <1>1, <1>4, <1>5, <1>6 DEF NothingPaidYet

\* A user whose next record holds the reward he had, or none yet.
LEMMA RewardFalls ==
  ASSUME TypeOK, TypeOK', BasisKept, OwnPositions', PositionsMatchLockups',
         PositionsOnlyLeave, NEW u \in Users,
         userInfo'[u].total_mars_incentives
           \in {userInfo[u].total_mars_incentives, Reward(u)}
  PROVE  Reward(u)' <= Reward(u)
<1> DEFINE old == Total(PositionRewards(u))
           new == Total(PositionRewards(u)')
<1>1. old \in Nat /\ new \in Nat /\ userInfo[u].total_mars_incentives \in Nat
  <2>1. RewardTypes /\ RewardTypes'
    BY RewardsTyped, PTL
  <2> QED BY <2>1 DEF RewardTypes, TypeOK, UserRecords
<1>2. new <= old
  BY RewardsShrink DEF PositionsOnlyLeave
<1>3. /\ Reward(u) = IF userInfo[u].total_mars_incentives = 0 THEN old
                     ELSE userInfo[u].total_mars_incentives
      /\ Reward(u)' = IF userInfo'[u].total_mars_incentives = 0 THEN new
                      ELSE userInfo'[u].total_mars_incentives
  BY DEF Reward
<1> HIDE DEF old, new
<1> QED BY <1>1, <1>2, <1>3

\* What leaves the contract for u is no longer owed to u.
LEMMA OwedFalls ==
  ASSUME TypeOK, TypeOK', BasisKept, OwnPositions', PositionsMatchLockups',
         PositionsOnlyLeave, DelegatedWithinReward, DelegatedWithinReward',
         NEW u \in Users, NEW p \in Nat, p <= MarsOwed[u],
         userInfo'[u].total_mars_incentives
           \in {userInfo[u].total_mars_incentives, Reward(u)},
         userInfo[u].lockdrop_claimed => userInfo'[u].lockdrop_claimed,
         \/ userInfo'[u].delegated_mars_incentives
              = userInfo[u].delegated_mars_incentives + p
         \/ p > 0 /\ userInfo'[u].lockdrop_claimed
  PROVE  MarsOwed'[u] + p <= MarsOwed[u]
<1>1. OwedValues /\ OwedValues' /\ RewardTypes /\ RewardTypes'
  BY OwedIs, RewardsTyped, PTL
<1>2. /\ MarsOwed[u] =
           IF userInfo[u].total_ust_locked = 0 \/ userInfo[u].lockdrop_claimed THEN 0
           ELSE Reward(u) - userInfo[u].delegated_mars_incentives
      /\ MarsOwed[u] \in Nat
  BY <1>1 DEF OwedValues
<1>3. /\ MarsOwed'[u] =
           IF userInfo'[u].total_ust_locked = 0 \/ userInfo'[u].lockdrop_claimed THEN 0
           ELSE Reward(u)' - userInfo'[u].delegated_mars_incentives
      /\ MarsOwed'[u] \in Nat
  BY <1>1 DEF OwedValues
<1>4. Reward(u) \in Nat /\ Reward(u)' \in Nat /\ Reward(u)' <= Reward(u)
  BY <1>1, RewardFalls DEF RewardTypes
<1>5. /\ userInfo[u].delegated_mars_incentives \in Nat
      /\ userInfo'[u].delegated_mars_incentives \in Nat
      /\ userInfo[u].total_ust_locked \in Nat /\ userInfo'[u].total_ust_locked \in Nat
      /\ userInfo'[u].total_ust_locked <= userInfo[u].total_ust_locked
  BY DEF TypeOK, UserRecords, PositionsOnlyLeave
<1>6. userInfo[u].total_ust_locked = 0 => userInfo'[u].total_ust_locked = 0
  BY <1>5
<1>7. CASE userInfo'[u].total_ust_locked = 0 \/ userInfo'[u].lockdrop_claimed
  BY <1>2, <1>3, <1>7
<1>8. CASE userInfo'[u].total_ust_locked # 0 /\ ~userInfo'[u].lockdrop_claimed
  <2>1. /\ MarsOwed[u] = Reward(u) - userInfo[u].delegated_mars_incentives
        /\ MarsOwed'[u] = Reward(u)' - userInfo'[u].delegated_mars_incentives
        /\ userInfo'[u].delegated_mars_incentives
             = userInfo[u].delegated_mars_incentives + p
    BY <1>2, <1>3, <1>6, <1>8
  <2> QED BY <1>4, <1>5, <2>1
<1> QED BY <1>7, <1>8

LEMMA FundedNext ==
  ASSUME SafetyInv, SafetyInv', SettledInOrder, FundInv, DelegatedWithinReward',
         MarsMoves, [Next]_vars
  PROVE  RewardsFunded'
<1>1. /\ TypeOK /\ TypeOK' /\ OwnPositions /\ OwnPositions' /\ PositionsMatchLockups'
      /\ WeightsWithin /\ DelegatedWithinReward /\ NothingPaidYet
      /\ now \in Nat /\ WithdrawEnd \in Nat /\ IsFiniteSet(Users)
  BY LockdropAssumption DEF SafetyInv, FundInv, TypeOK, WithdrawEnd, DepositEnd
<1>2. CASE now < WithdrawEnd
  <2>1. SUFFICES ASSUME now' >= WithdrawEnd PROVE Total(MarsOwed)' <= balance'.mars
    BY DEF RewardsFunded, WithdrawEnd, DepositEnd
  <2>2. Tick
    BY <1>1, <1>2, <2>1, ClockNext
  <2>3. UNCHANGED <<config, state, userInfo, stored, lockup, balance>>
    BY <2>2 DEF Tick
  <2>4. MarsOwed' = MarsOwed
    BY <2>3 DEF MarsOwed, Provisioned, PositionRewards, MarsIncentivesForLockup, MaUstShare
  <2> QED BY <1>1, <1>2, <2>3, <2>4, FundedAtTheEnd
<1>3. CASE now >= WithdrawEnd
  <2>1. BasisKept /\ PositionsOnlyLeave
    BY <1>1, <1>3, BasisNext, PositionsShrink
  <2>2. /\ OwedValues /\ RewardTypes
        /\ MarsOwed \in [Users -> Nat] /\ MarsOwed' \in [Users -> Nat]
        /\ Total(MarsOwed) \in Nat /\ Total(MarsOwed') \in Nat
    <3>1. OwedValues /\ OwedValues' /\ RewardTypes
      BY <1>1, OwedIs, RewardsTyped, PTL
    <3>2. MarsOwed \in [Users -> Nat] /\ MarsOwed' \in [Users -> Nat]
      BY <3>1 DEF OwedValues
    <3> QED BY <1>1, <3>1, <3>2, TotalType
  <2>3. /\ Total(MarsOwed) <= balance.mars
        /\ balance.mars \in Nat /\ config.lockdrop_incentives \in Nat
        /\ balance'.mars \in Nat
    BY <1>1, <1>3 DEF FundInv, RewardsFunded, TypeOK, BalanceRecords, ConfigRecords
  <2>4. ASSUME NEW v \in Users, KeepsReward(v) PROVE MarsOwed'[v] <= MarsOwed[v]
    <3>1. 0 <= MarsOwed[v] /\ MarsOwed'[v] \in Nat
          /\ userInfo[v].delegated_mars_incentives \in Nat
      BY <1>1, <2>2 DEF TypeOK, UserRecords
    <3>2. MarsOwed'[v] + 0 <= MarsOwed[v]
      BY <1>1, <2>1, <2>4, <3>1, OwedFalls DEF KeepsReward
    <3> QED BY <3>1, <3>2
  <2>5. SUFFICES Total(MarsOwed') <= balance'.mars
    BY DEF RewardsFunded
  <2>6. CASE ForgettingStep
    <3>1. balance'.mars = balance.mars
      BY <2>1, <2>3, <2>6 DEF MarsStays, ForgettingStep, BasisKept
    <3>2. ASSUME NEW v \in Users PROVE MarsOwed'[v] <= MarsOwed[v]
      <4>1. CASE userInfo'[v] = NoUser
        <5>1. MarsOwed'[v] = 0
          BY <4>1 DEF MarsOwed, NoUser
        <5> QED BY <2>2, <5>1
      <4> QED BY <2>4, <2>6, <4>1 DEF ForgettingStep
    <3>3. Total(MarsOwed') <= Total(MarsOwed)
      BY <1>1, <2>2, <3>2, TotalMono
    <3> QED BY <2>2, <2>3, <3>1, <3>3
  <2>7. ASSUME NEW u \in Users, NEW p \in Nat, MarsOwed'[u] + p <= MarsOwed[u],
               \A v \in Users : v # u => KeepsReward(v),
               balance'.mars = balance.mars - p
        PROVE  Total(MarsOwed') <= balance'.mars
    <3>1. \A v \in Users : v # u => MarsOwed'[v] <= MarsOwed[v]
      BY <2>4, <2>7
    <3>2. Total(MarsOwed') + p <= Total(MarsOwed)
      BY <1>1, <2>2, <2>7, <3>1, TotalDrop
    <3> QED BY <2>2, <2>3, <2>7, <3>2
  <2>8. ASSUME NEW u \in Users, NEW amount \in Nat, DelegationStep(u, amount)
        PROVE  Total(MarsOwed') <= balance'.mars
    <3>1. ~userInfo[u].lockdrop_claimed
      BY <2>8 DEF DelegationStep, SettledInOrder
    <3>2. userInfo[u].total_ust_locked # 0
      <4>1. PICK id \in userInfo[u].lockup_positions : TRUE
        BY <2>8 DEF DelegationStep
      <4>2. id \in LockupIds /\ id[1] = u
        BY <1>1, <2>2 DEF RewardTypes, OwnPositions
      <4>3. lockup[id].ust_locked > 0
        BY <4>2 DEF SafetyInv, PositionsMatchLockups
      <4>4. /\ UstOf(u) \in [LockupIds -> Nat] /\ IsFiniteSet(LockupIds)
            /\ Total(UstOf(u)) \in Nat /\ Total(UstOf(u)) <= userInfo[u].total_ust_locked
        BY <1>1, TotalsTyped DEF SafetyInv, UserTotalCovers
      <4>5. UstOf(u)[id] <= Total(UstOf(u)) /\ UstOf(u)[id] = lockup[id].ust_locked
        BY <4>2, <4>4, TotalUpdate DEF UstOf
      <4>6. lockup[id].ust_locked \in Nat /\ userInfo[u].total_ust_locked \in Nat
        BY <1>1, <4>2 DEF TypeOK, LockupRecords, UserRecords
      <4> QED BY <4>3, <4>4, <4>5, <4>6
    <3>3. MarsOwed[u] = Reward(u) - userInfo[u].delegated_mars_incentives
      BY <2>2, <3>1, <3>2 DEF OwedValues
    <3>4. MarsOwed'[u] + amount <= MarsOwed[u]
      BY <1>1, <2>1, <2>8, <3>3, OwedFalls DEF DelegationStep
    <3> QED BY <2>7, <2>8, <3>4 DEF DelegationStep
  <2>9. ASSUME NEW u \in Users, ClaimStep(u) PROVE Total(MarsOwed') <= balance'.mars
    <3> DEFINE p == RewardDue(u)
    <3>1. MarsOwed[u] = p /\ p \in Nat
      BY <2>2, <2>9 DEF OwedValues, ClaimStep, RewardDue
    <3>2. /\ userInfo'[u].total_mars_incentives = Reward(u)
          /\ userInfo'[u].delegated_mars_incentives = userInfo[u].delegated_mars_incentives
          /\ userInfo'[u].lockdrop_claimed = (userInfo[u].lockdrop_claimed \/ p > 0)
          /\ \A v \in Users : v # u => KeepsReward(v)
          /\ balance'.mars = balance.mars - p
          /\ userInfo[u].delegated_mars_incentives \in Nat
      BY <1>1, <2>9 DEF ClaimStep, TypeOK, UserRecords
    <3> HIDE DEF p
    <3>3. userInfo[u].lockdrop_claimed \/ p > 0 => userInfo'[u].lockdrop_claimed
      BY <3>2, Zenon
    <3>4. \/ userInfo'[u].delegated_mars_incentives
               = userInfo[u].delegated_mars_incentives + p
          \/ p > 0 /\ userInfo'[u].lockdrop_claimed
      <4>1. CASE p = 0
        BY <3>2, <4>1
      <4>2. CASE p > 0
        BY <3>3, <4>2
      <4> QED BY <3>1, <4>1, <4>2
    <3>5. p <= MarsOwed[u]
          /\ userInfo'[u].total_mars_incentives
               \in {userInfo[u].total_mars_incentives, Reward(u)}
      BY <3>1, <3>2
    <3>6. MarsOwed'[u] + p <= MarsOwed[u]
      BY <1>1, <2>1, <3>1, <3>3, <3>4, <3>5, OwedFalls
    <3> QED BY <2>7, <3>1, <3>2, <3>6
  <2> QED BY <2>6, <2>8, <2>9 DEF MarsMoves
<1> QED BY <1>1, <1>2, <1>3

\* The invariants that do not depend on when claims are enabled, and those that do.
LEMMA FundNext ==
  SafetyInv /\ SafetyInv' /\ RewardsInv /\ ClaimsOnlyAfterWindows /\ FundInv /\ [Next]_vars
    => FundInv'
<1> SUFFICES ASSUME SafetyInv, SafetyInv', RewardsInv, ClaimsOnlyAfterWindows, FundInv,
                    [Next]_vars
             PROVE  FundInv'
  OBVIOUS
<1>1. TypeOK /\ TypeOK' /\ MarsMoves
  BY MarsMovesNext DEF SafetyInv
<1>2. WeightsWithin'
  BY <1>1, WeightsNext DEF FundInv
<1>3. DelegatedWithinReward'
  BY <1>1, DelegatedNext DEF FundInv
<1>4. NothingPaidYet'
  BY <1>1, UnpaidNext DEF FundInv
<1>5. RewardsFunded'
  BY <1>1, <1>3, FundedNext DEF RewardsInv
<1> QED BY <1>2, <1>3, <1>4, <1>5 DEF FundInv

LEMMA FundInit == Init => FundInv
<1> SUFFICES ASSUME Init PROVE FundInv
  OBVIOUS
<1>1. TypeOK /\ Weights \in [LockupIds -> Nat]
  BY InitType, WeightsTyped
<1>2. \A id \in LockupIds : Weights[id] = 0
  <2>1. \A id \in LockupIds : Boost[id[2]] \in Nat
    BY LockdropAssumption DEF LockupIds
  <2> QED BY <2>1 DEF Init, NoLockup, Weights, CalculateWeight
<1>3. WeightsWithin
  BY <1>1, <1>2, TotalZero DEF Init, WeightsWithin
<1>4. DelegatedWithinReward /\ NothingPaidYet
  BY DEF Init, NoUser, DelegatedWithinReward, NothingPaidYet
<1>5. RewardsFunded
  <2>1. now < WithdrawEnd
    BY LockdropAssumption DEF Init, WithdrawEnd, DepositEnd
  <2>2. now \in Nat /\ WithdrawEnd \in Nat
    BY <1>1, LockdropAssumption DEF TypeOK, WithdrawEnd, DepositEnd
  <2> QED BY <2>1, <2>2 DEF RewardsFunded
<1> QED BY <1>3, <1>4, <1>5 DEF FundInv

(* Whenever claims are not enabled before the windows close, the MARS held covers
   what every user can still claim or delegate, each reward computed by its own
   ratio and rounded on its own, at whatever time: nobody is paid out of the
   reward of another. *)
THEOREM RewardsAreFunded == Spec /\ []ClaimsOnlyAfterWindows => []RewardsFunded
<1>1. FundInv => RewardsFunded
  BY DEF FundInv
<1>2. Init => SafetyInv /\ RewardsInv /\ FundInv
  <2>1. Init => RewardsInv
    BY InitType DEF Init, NoUser, RewardsInv, SettledInOrder
  <2> QED BY <2>1, InitSafe, FundInit
<1>3. SafetyInv /\ [Next]_vars => SafetyInv'
  BY NextSafe
<1>4. RewardsInv /\ [Next]_vars => RewardsInv'
  BY RewardsNext
<1> QED BY <1>1, <1>2, <1>3, <1>4, FundNext, PTL DEF Spec

-------------------------------------------------------------------------------
(* A launch as it is planned: claims after the windows, and no nuke *)

LEMMA OrderlySteps == [OrderlyNext]_vars => KeepingStep /\ [Next]_vars
BY DEF OrderlyNext, KeepingStep, Next

LEMMA OrderlyIsSpec == OrderlySpec => Spec
BY OrderlySteps, PTL DEF OrderlySpec, Spec

LEMMA ClaimsNext ==
  TypeOK /\ [OrderlyNext]_vars /\ ClaimsOnlyAfterWindows => ClaimsOnlyAfterWindows'
<1> SUFFICES ASSUME TypeOK, [OrderlyNext]_vars, ClaimsOnlyAfterWindows
             PROVE  ClaimsOnlyAfterWindows'
  OBVIOUS
<1>1. /\ state \in StateRecords /\ now \in Nat /\ WithdrawEnd \in Nat
      /\ now <= now'
  <2>1. now <= now'
    BY OrderlySteps, ClockNext DEF Tick, TypeOK
  <2> QED BY <2>1, LockdropAssumption DEF TypeOK, WithdrawEnd, DepositEnd
<1>2. now' \in Nat
  BY ClockNext, OrderlySteps DEF Tick, TypeOK
<1>3. ASSUME state'.are_claims_allowed = state.are_claims_allowed
      PROVE  ClaimsOnlyAfterWindows'
  <2> DEFINE W == WithdrawEnd
  <2>1. W' = W
    BY DEF WithdrawEnd, DepositEnd
  <2> HIDE DEF W
  <2> QED BY <1>1, <1>2, <1>3, <2>1 DEF ClaimsOnlyAfterWindows, W
<1>4. CASE now > WithdrawEnd /\ EnableClaims
  BY <1>1, <1>2, <1>4 DEF ClaimsOnlyAfterWindows, WithdrawEnd, DepositEnd
<1>5. CASE \/ Tick \/ UNCHANGED vars
           \/ \E amount \in MarsAmounts : IncreaseMarsIncentives(amount)
  <2>1. state' = state
    BY <1>5, Zenon DEF Tick, vars, IncreaseMarsIncentives
  <2> QED BY <1>3, <2>1
<1>6. CASE AdminStep
  <2>1. ASSUME NEW sender, NEW minted, DepositUstInRedBank(sender, minted)
        PROVE  state'.are_claims_allowed = state.are_claims_allowed
    BY <1>1, <2>1 DEF DepositUstInRedBank, StateAfterRedBank, StateRecords
  <2>2. ASSUME NEW sender, NEW addresses, NEW newOwner,
               UpdateConfig(sender, addresses, newOwner)
        PROVE  state'.are_claims_allowed = state.are_claims_allowed
    BY <2>2 DEF UpdateConfig
  <2> QED BY <1>3, <1>6, <2>1, <2>2 DEF AdminStep
<1>7. CASE UserStep
  <2>1. ASSUME NEW u, NEW d, NEW amount, DepositUst(u, d, amount) \/ WithdrawUst(u, d, amount)
        PROVE  state'.are_claims_allowed = state.are_claims_allowed
    BY <1>1, <2>1 DEF DepositUst, WithdrawUst, StateRecords
  <2>2. ASSUME NEW u, NEW accrued, ClaimRewards(u, accrued)
        PROVE  state'.are_claims_allowed = state.are_claims_allowed
    BY <1>1, <2>2 DEF ClaimRewards, StateRecords
  <2>3. ASSUME NEW u, NEW d, NEW accrued, ClaimRewardsAndUnlock(u, d, accrued)
        PROVE  state'.are_claims_allowed = state.are_claims_allowed
    <3>1. PICK refund : state' = [state EXCEPT
                          !.xmars_rewards_index = XmarsIndexAfter(accrued),
                          !.total_maust_locked = @ - refund]
      BY <2>3, Zenon DEF ClaimRewardsAndUnlock
    <3> QED BY <1>1, <3>1 DEF StateRecords
  <2>4. state'.are_claims_allowed = state.are_claims_allowed
    BY <1>7, <2>1, <2>2, <2>3 DEF UserStep
  <2> QED BY <1>3, <2>4
<1>8. CASE UserDelegates
  <2>1. state'.are_claims_allowed = state.are_claims_allowed
    BY <1>1, <1>8 DEF UserDelegates, DepositMarsToAuction, StateRecords
  <2> QED BY <1>3, <2>1
<1> QED BY <1>4, <1>5, <1>6, <1>7, <1>8 DEF OrderlyNext

LEMMA OrderlyClaims == OrderlySpec => []ClaimsOnlyAfterWindows
<1>1. Init => ClaimsOnlyAfterWindows
  BY DEF Init, ClaimsOnlyAfterWindows
<1>2. OrderlySpec => []TypeOK
  BY OrderlyIsSpec, TypeCorrect
<1> QED BY <1>1, <1>2, ClaimsNext, PTL DEF OrderlySpec

(* In a launch as planned the rewards of all users are always covered. *)
THEOREM OrderlyRewardsAreFunded == OrderlySpec => []RewardsFunded
BY OrderlyIsSpec, OrderlyClaims, RewardsAreFunded, PTL

\* Every MARS is accounted for.
AccountInv ==
  /\ DelegatedWithinReward
  /\ Total(UserDelegations) = state.total_mars_delegated
  /\ balance.mars + state.total_mars_delegated + Total(MarsPaid)
       = config.lockdrop_incentives

LEMMA PaidTyped ==
  TypeOK /\ DelegatedWithinReward =>
    MarsPaid \in [Users -> Nat] /\ UserDelegations \in [Users -> Nat]
<1> SUFFICES ASSUME TypeOK, DelegatedWithinReward, NEW u \in Users
             PROVE  MarsPaid[u] \in Nat /\ UserDelegations[u] \in Nat
  BY DEF MarsPaid, UserDelegations
<1>1. /\ userInfo[u].delegated_mars_incentives \in Nat
      /\ userInfo[u].total_mars_incentives \in Nat
      /\ userInfo[u].delegated_mars_incentives <= userInfo[u].total_mars_incentives
  BY DEF TypeOK, UserRecords, DelegatedWithinReward
<1> QED BY <1>1 DEF MarsPaid, UserDelegations

LEMMA AccountNext ==
  RewardsInv /\ TypeOK' /\ AccountInv /\ KeepingStep => AccountInv'
<1> SUFFICES ASSUME RewardsInv, TypeOK', AccountInv, KeepingStep PROVE AccountInv'
  OBVIOUS
<1>1. /\ TypeOK /\ RewardMoves /\ IsFiniteSet(Users)
      /\ balance.mars \in Nat /\ balance'.mars \in Nat
      /\ config.lockdrop_incentives \in Nat /\ config'.lockdrop_incentives \in Nat
      /\ state.total_mars_delegated \in Nat
  BY RewardMovesNext, LockdropAssumption
     DEF RewardsInv, TypeOK, BalanceRecords, ConfigRecords, StateRecords
<1>2. DelegatedWithinReward /\ DelegatedWithinReward'
  <2>1. QuietStep => ForgettingStep
    BY DEF QuietStep, ForgettingStep
  <2>2. MarsMoves
    BY <1>1, <2>1 DEF RewardMoves, MarsMoves
  <2> QED BY <1>1, <2>2, DelegatedNext DEF AccountInv
<1> DEFINE D == UserDelegations
           E == UserDelegations'
           P == MarsPaid
           Q == MarsPaid'
<1>3. /\ D \in [Users -> Nat] /\ E \in [Users -> Nat]
      /\ P \in [Users -> Nat] /\ Q \in [Users -> Nat]
      /\ Total(D) \in Nat /\ Total(P) \in Nat
  <2>1. P \in [Users -> Nat] /\ D \in [Users -> Nat]
    BY <1>1, <1>2, PaidTyped
  <2>2. (MarsPaid \in [Users -> Nat] /\ UserDelegations \in [Users -> Nat])'
    BY <1>2, PaidTyped, PTL
  <2> HIDE DEF D, E, P, Q
  <2>3. Q \in [Users -> Nat] /\ E \in [Users -> Nat]
    BY <2>2 DEF Q, E
  <2> QED BY <1>1, <2>1, <2>3, TotalType
<1>4. /\ Total(D) = state.total_mars_delegated
      /\ balance.mars + state.total_mars_delegated + Total(P) = config.lockdrop_incentives
  BY DEF AccountInv
<1>5. SUFFICES /\ Total(E) = state'.total_mars_delegated
               /\ balance'.mars + state'.total_mars_delegated + Total(Q)
                    = config'.lockdrop_incentives
  BY <1>2 DEF AccountInv
<1>6. ASSUME NEW v \in Users, KeepsReward(v) PROVE E[v] = D[v] /\ Q[v] = P[v]
  BY <1>6 DEF KeepsReward, UserDelegations, MarsPaid
<1>7. ASSUME NEW u \in Users
      PROVE  /\ D[u] = userInfo[u].delegated_mars_incentives
             /\ E[u] = userInfo'[u].delegated_mars_incentives
             /\ P[u] = IF userInfo[u].lockdrop_claimed
                       THEN userInfo[u].total_mars_incentives
                              - userInfo[u].delegated_mars_incentives
                       ELSE 0
             /\ Q[u] = IF userInfo'[u].lockdrop_claimed
                       THEN userInfo'[u].total_mars_incentives
                              - userInfo'[u].delegated_mars_incentives
                       ELSE 0
  BY DEF UserDelegations, MarsPaid
<1> HIDE DEF D, E, P, Q
<1>8. ASSUME NEW u \in Users, NEW delegated \in Nat, NEW paid \in Nat,
             E[u] = D[u] + delegated, Q[u] = P[u] + paid,
             \A v \in Users : v # u => KeepsReward(v),
             balance'.mars = balance.mars - (delegated + paid),
             state'.total_mars_delegated = state.total_mars_delegated + delegated,
             config' = config
      PROVE  /\ Total(E) = state'.total_mars_delegated
             /\ balance'.mars + state'.total_mars_delegated + Total(Q)
                  = config'.lockdrop_incentives
  <2>1. \A v \in Users : v # u => E[v] = D[v] /\ Q[v] = P[v]
    BY <1>6, <1>8
  <2>2. IsFiniteSet(Users) /\ delegated \in Int /\ paid \in Int
    BY <1>1
  <2>3. Total(E) = Total(D) + delegated
    <3>1. E[u] = D[u] + delegated
      BY <1>8
    <3> QED BY <1>3, <2>1, <2>2, <3>1, TotalShift
  <2>4. Total(Q) = Total(P) + paid
    <3>1. Q[u] = P[u] + paid
      BY <1>8
    <3> QED BY <1>3, <2>1, <2>2, <3>1, TotalShift
  <2> QED BY <1>1, <1>3, <1>4, <1>8, <2>3, <2>4
<1>9. CASE QuietStep
  <2>1. E = D /\ Q = P
    BY <1>3, <1>6, <1>9 DEF QuietStep
  <2>2. /\ state'.total_mars_delegated = state.total_mars_delegated
        /\ balance'.mars - config'.lockdrop_incentives
             = balance.mars - config.lockdrop_incentives
    BY <1>9 DEF QuietStep, MarsStays
  <2> QED BY <1>1, <1>3, <1>4, <2>1, <2>2
<1>10. ASSUME NEW u \in Users, NEW amount \in Nat, DelegationStep(u, amount)
       PROVE  /\ Total(E) = state'.total_mars_delegated
              /\ balance'.mars + state'.total_mars_delegated + Total(Q)
                   = config'.lockdrop_incentives
  <2>1. ~userInfo[u].lockdrop_claimed /\ ~userInfo'[u].lockdrop_claimed
    BY <1>10 DEF DelegationStep, RewardsInv, SettledInOrder
  <2>2. E[u] = D[u] + amount /\ Q[u] = P[u] + 0
    BY <1>7, <1>10, <2>1 DEF DelegationStep
  <2>3. balance'.mars = balance.mars - (amount + 0)
    BY <1>10 DEF DelegationStep
  <2> QED BY <1>8, <1>10, <2>2, <2>3 DEF DelegationStep
<1>11. ASSUME NEW u \in Users, ClaimStep(u)
       PROVE  /\ Total(E) = state'.total_mars_delegated
              /\ balance'.mars + state'.total_mars_delegated + Total(Q)
                   = config'.lockdrop_incentives
  <2> DEFINE p == RewardDue(u)
  <2>1. /\ userInfo[u].delegated_mars_incentives \in Nat
        /\ userInfo[u].total_mars_incentives \in Nat /\ Reward(u) \in Nat
        /\ userInfo[u].delegated_mars_incentives <= Reward(u)
        /\ userInfo'[u].total_mars_incentives = Reward(u)
        /\ userInfo'[u].delegated_mars_incentives = userInfo[u].delegated_mars_incentives
    BY <1>1, <1>11, RewardsTyped DEF ClaimStep, RewardTypes, TypeOK, UserRecords
  <2>2. p \in Nat
    BY <2>1 DEF RewardDue
  <2>3. Q[u] = P[u] + p
    <3>1. CASE userInfo[u].lockdrop_claimed
      <4>1. p = 0 /\ Reward(u) = userInfo[u].total_mars_incentives
        BY <3>1 DEF RewardDue, RewardsInv, SettledInOrder, Reward
      <4>2. userInfo'[u].lockdrop_claimed
        BY <1>11, <3>1, Zenon DEF ClaimStep
      <4> QED BY <1>7, <2>1, <3>1, <4>1, <4>2
    <3>2. CASE ~userInfo[u].lockdrop_claimed
      <4>1. P[u] = 0 /\ p = Reward(u) - userInfo[u].delegated_mars_incentives
        BY <1>7, <3>2 DEF RewardDue
      <4>2. CASE p > 0
        <5>1. userInfo'[u].lockdrop_claimed
          BY <1>11, <4>2, Zenon DEF ClaimStep
        <5> QED BY <1>7, <2>1, <4>1, <5>1
      <4>3. CASE p = 0
        <5>1. userInfo'[u].total_mars_incentives
                - userInfo'[u].delegated_mars_incentives = 0
          BY <2>1, <4>1, <4>3
        <5>2. Q[u] = 0
          BY <1>7, <5>1
        <5> QED BY <4>1, <4>3, <5>2
      <4> QED BY <2>2, <4>2, <4>3
    <3> QED BY <3>1, <3>2
  <2>4. E[u] = D[u] + 0
    BY <1>7, <2>1
  <2>5. /\ balance'.mars = balance.mars - (0 + p)
        /\ state'.total_mars_delegated = state.total_mars_delegated + 0
        /\ config' = config /\ \A v \in Users : v # u => KeepsReward(v)
    BY <1>1, <1>11, <2>2 DEF ClaimStep
  <2> HIDE DEF p
  <2> QED BY <1>8, <2>2, <2>3, <2>4, <2>5
<1> QED BY <1>1, <1>9, <1>10, <1>11 DEF RewardMoves

(* As long as nobody is forgotten by a nuke, every MARS the lockdrop received as
   incentive is held, was delegated, or was paid to a user who had not delegated it. *)
THEOREM MarsIsConserved == OrderlySpec => []MarsConserved
<1>1. Init => AccountInv /\ RewardsInv
  <2>1. Init => RewardsInv
    BY InitType DEF Init, NoUser, RewardsInv, SettledInOrder
  <2> SUFFICES ASSUME Init PROVE AccountInv
    BY <2>1
  <2>2. TypeOK /\ DelegatedWithinReward
    <3>1. DelegatedWithinReward
      BY DEF Init, NoUser, DelegatedWithinReward
    <3> QED BY <3>1, InitType
  <2>3. \A u \in Users : MarsPaid[u] = 0 /\ UserDelegations[u] = 0
    BY DEF Init, NoUser, MarsPaid, UserDelegations
  <2>4. Total(MarsPaid) = 0 /\ Total(UserDelegations) = 0
    BY <2>2, <2>3, PaidTyped, TotalZero
  <2> QED BY <2>2, <2>4 DEF Init, AccountInv
<1>2. AccountInv => MarsConserved
  BY DEF AccountInv, DelegatedWithinReward, MarsConserved
<1>3. RewardsInv /\ [OrderlyNext]_vars => RewardsInv'
  BY OrderlySteps, RewardsNext
<1>4. RewardsInv => TypeOK
  BY DEF RewardsInv
<1> QED BY <1>1, <1>2, <1>3, <1>4, OrderlySteps, AccountNext, PTL DEF OrderlySpec

(* UST is neither lost nor credited twice. *)
UstInv == Total(UserTotals) = Principal

UstStays ==
  /\ \A u \in Users : userInfo'[u].total_ust_locked = userInfo[u].total_ust_locked
  /\ Principal' = Principal

UstMoves(u, delta) ==
  /\ \A v \in Users : v # u =>
       userInfo'[v].total_ust_locked = userInfo[v].total_ust_locked
  /\ userInfo'[u].total_ust_locked = userInfo[u].total_ust_locked + delta
  /\ Principal' = Principal + delta

\* Whatever deposits and withdrawals move the users have it on record, and the
\* deposit in the Red Bank moves nothing.
LEMMA UstMovesNext ==
  SafetyInv /\ KeepingStep => UstStays \/ \E u \in Users, delta \in Int : UstMoves(u, delta)
<1> SUFFICES ASSUME SafetyInv, KeepingStep
             PROVE  UstStays \/ \E u \in Users, delta \in Int : UstMoves(u, delta)
  OBVIOUS
<1>1. /\ TypeOK /\ RedBankOnce /\ state \in StateRecords
      /\ \A u \in Users : userInfo[u] \in UserRecords
  BY DEF SafetyInv, TypeOK
<1>2. ASSUME now <= WithdrawEnd PROVE state.final_ust_locked = 0
  <2>1. now \in Nat /\ WithdrawEnd \in Nat
    BY <1>1, LockdropAssumption DEF TypeOK, WithdrawEnd, DepositEnd
  <2> QED BY <1>1, <1>2, <2>1 DEF RedBankOnce
<1>3. ASSUME userInfo' = userInfo, state'.final_ust_locked = state.final_ust_locked,
             state'.total_ust_locked = state.total_ust_locked
      PROVE  UstStays
  BY <1>3 DEF UstStays, Principal
<1>4. CASE \/ Tick \/ EnableClaims \/ UNCHANGED vars
           \/ \E amount \in MarsAmounts : IncreaseMarsIncentives(amount)
  BY <1>1, <1>3, <1>4 DEF Tick, EnableClaims, vars, IncreaseMarsIncentives, StateRecords
<1>5. CASE AdminStep
  <2>1. ASSUME NEW sender, NEW addresses, NEW newOwner,
               UpdateConfig(sender, addresses, newOwner)
        PROVE  UstStays
    BY <1>3, <2>1 DEF UpdateConfig
  <2>2. ASSUME NEW sender, NEW minted, DepositUstInRedBank(sender, minted)
        PROVE  UstStays
    <3>1. /\ state.total_ust_locked \in Nat \ {0}
          /\ state'.final_ust_locked = state.total_ust_locked
          /\ userInfo' = userInfo
      BY <1>1, <2>2, RedBankTakesUst
    <3>2. state.final_ust_locked = 0
      BY <1>1, <3>1 DEF RedBankOnce
    <3> QED BY <3>1, <3>2 DEF UstStays, Principal
  <2> QED BY <1>5, <2>1, <2>2 DEF AdminStep
<1>6. CASE UserDelegates
  <2>1. PICK u \in Users, amount \in MarsAmounts : DepositMarsToAuction(u, amount)
    BY <1>6 DEF UserDelegates
  <2> DEFINE info == Provisioned(u)
  <2>2. /\ userInfo' = [userInfo EXCEPT ![u] =
                          [info EXCEPT !.delegated_mars_incentives = @ + amount]]
        /\ state' = [state EXCEPT !.total_mars_delegated = @ + amount]
    BY <2>1, Zenon DEF DepositMarsToAuction
  <2>3. info \in UserRecords /\ info.total_ust_locked = userInfo[u].total_ust_locked
    BY <1>1, ProvisionedType, ClaimKeepsPositions
  <2> HIDE DEF info
  <2>4. \A v \in Users : userInfo'[v].total_ust_locked = userInfo[v].total_ust_locked
    BY <1>1, <2>2, <2>3 DEF TypeOK, UserRecords
  <2> QED BY <1>1, <2>2, <2>4 DEF UstStays, Principal, StateRecords
<1>7. CASE UserStep
  <2>1. ASSUME NEW u \in Users, NEW d \in Durations, NEW amount \in 1 .. MaxUst,
               DepositUst(u, d, amount)
        PROVE  UstMoves(u, amount) /\ amount \in Int
    <3>1. state.final_ust_locked = 0
      <4>1. now \in Nat /\ DepositEnd \in Nat /\ WithdrawEnd = DepositEnd + WithdrawalWindow
            /\ WithdrawalWindow \in Nat
        BY <1>1, LockdropAssumption DEF TypeOK, DepositEnd, WithdrawEnd
      <4> QED BY <1>2, <2>1, <4>1 DEF DepositUst, IsDepositOpen
    <3>2. /\ state'.final_ust_locked = 0
          /\ state'.total_ust_locked = state.total_ust_locked + amount
      BY <1>1, <2>1, <3>1 DEF DepositUst, StateRecords
    <3>3. /\ userInfo'[u].total_ust_locked = userInfo[u].total_ust_locked + amount
          /\ \A v \in Users : v # u => userInfo'[v] = userInfo[v]
      BY <1>1, <2>1 DEF DepositUst, TypeOK, UserRecords
    <3> QED BY <3>1, <3>2, <3>3, LockdropAssumption DEF UstMoves, Principal
  <2>2. ASSUME NEW u \in Users, NEW d \in Durations, NEW amount \in 0 .. MaxUst,
               WithdrawUst(u, d, amount)
        PROVE  UstMoves(u, 0 - amount) /\ 0 - amount \in Int
    <3>1. state.final_ust_locked = 0
      BY <1>2, <2>2 DEF WithdrawUst, IsWithdrawOpen
    <3>2. /\ state'.final_ust_locked = 0
          /\ state'.total_ust_locked = state.total_ust_locked - amount
          /\ amount \in Nat /\ state.total_ust_locked \in Nat
      BY <1>1, <2>2, <3>1, LockdropAssumption DEF WithdrawUst, StateRecords
    <3>3. /\ userInfo'[u].total_ust_locked = userInfo[u].total_ust_locked - amount
          /\ \A v \in Users : v # u => userInfo'[v] = userInfo[v]
          /\ userInfo[u].total_ust_locked \in Nat
      BY <1>1, <2>2 DEF WithdrawUst, TypeOK, UserRecords
    <3> QED BY <3>1, <3>2, <3>3 DEF UstMoves, Principal
  <2>3. ASSUME NEW u \in Users, NEW accrued, ClaimRewards(u, accrued)
        PROVE  UstStays
    <3>1. /\ userInfo' = [userInfo EXCEPT ![u] = Settled(Provisioned(u), accrued)]
          /\ state' = [state EXCEPT !.xmars_rewards_index = XmarsIndexAfter(accrued)]
      BY <2>3, Zenon DEF ClaimRewards
    <3>2. \A v \in Users : userInfo'[v].total_ust_locked = userInfo[v].total_ust_locked
      BY <1>1, <3>1, ClaimKeepsPositions DEF TypeOK
    <3> QED BY <1>1, <3>1, <3>2 DEF UstStays, Principal, StateRecords
  <2>4. ASSUME NEW u \in Users, NEW d \in Durations, NEW accrued \in XmarsAccruals,
               ClaimRewardsAndUnlock(u, d, accrued)
        PROVE  UstStays
    <3> DEFINE info == Settled(Provisioned(u), accrued)
    <3>1. PICK refund :
            /\ userInfo' = [userInfo EXCEPT ![u] =
                              [info EXCEPT !.total_maust_share = @ - refund,
                                           !.lockup_positions = @ \ {<<u, d>>}]]
            /\ state' = [state EXCEPT !.xmars_rewards_index = XmarsIndexAfter(accrued),
                                      !.total_maust_locked = @ - refund]
      BY <2>4, Zenon DEF ClaimRewardsAndUnlock
    <3>2. info \in UserRecords /\ info.total_ust_locked = userInfo[u].total_ust_locked
      <4>1. ClaimAllowed(u, accrued)
        BY <2>4, Zenon DEF ClaimRewardsAndUnlock
      <4> QED BY <1>1, <4>1, ClaimType, ClaimKeepsPositions
    <3> HIDE DEF info
    <3>3. \A v \in Users : userInfo'[v].total_ust_locked = userInfo[v].total_ust_locked
      BY <1>1, <3>1, <3>2 DEF TypeOK, UserRecords
    <3> QED BY <1>1, <3>1, <3>3 DEF UstStays, Principal, StateRecords
  <2> QED BY <1>7, <2>1, <2>2, <2>3, <2>4 DEF UserStep
<1> QED BY <1>4, <1>5, <1>6, <1>7 DEF KeepingStep

LEMMA UstNext == SafetyInv /\ SafetyInv' /\ KeepingStep /\ UstInv => UstInv'
<1> SUFFICES ASSUME SafetyInv, SafetyInv', KeepingStep, UstInv PROVE UstInv'
  OBVIOUS
<1> DEFINE f == UserTotals
           g == UserTotals'
<1>1. IsFiniteSet(Users) /\ f \in [Users -> Nat] /\ g \in [Users -> Nat]
  <2>1. \A u \in Users : userInfo'[u].total_ust_locked \in Nat
    BY DEF SafetyInv, TypeOK, UserRecords
  <2> QED BY <2>1, TotalsTyped DEF SafetyInv, UserTotals
<1>2. \A u \in Users : /\ f[u] = userInfo[u].total_ust_locked
                       /\ g[u] = userInfo'[u].total_ust_locked
  BY DEF UserTotals
<1>3. Total(f) = Principal
  BY DEF UstInv
<1>4. SUFFICES Total(g) = Principal'
  BY DEF UstInv
<1> HIDE DEF f, g
<1>5. CASE UstStays
  <2>1. f = g
    BY <1>1, <1>2, <1>5 DEF UstStays
  <2> QED BY <1>3, <1>5, <2>1 DEF UstStays
<1>6. ASSUME NEW u \in Users, NEW delta \in Int, UstMoves(u, delta)
      PROVE  Total(g) = Principal'
  <2>1. g[u] = f[u] + delta /\ \A v \in Users : v # u => g[v] = f[v]
    BY <1>2, <1>6 DEF UstMoves
  <2>2. Total(g) = Total(f) + delta
    BY <1>1, <2>1, TotalShift
  <2> QED BY <1>3, <1>6, <2>2 DEF UstMoves
<1> QED BY <1>5, <1>6, UstMovesNext

(* As long as nobody is forgotten by a nuke, the users have on record exactly the
   UST the lockdrop holds, or deposited in the Red Bank. *)
THEOREM UstIsConserved == OrderlySpec => []UstConserved
<1>1. Init => SafetyInv /\ UstInv
  <2> SUFFICES ASSUME Init PROVE UstInv
    BY InitSafe
  <2>1. \A u \in Users : UserTotals[u] = 0
    BY DEF Init, NoUser, UserTotals
  <2>2. UserTotals \in [Users -> Nat]
    BY InitType, TotalsTyped
  <2>3. Total(UserTotals) = 0
    BY <2>1, <2>2, TotalZero
  <2> QED BY <2>3 DEF Init, UstInv, Principal
<1>2. UstInv => UstConserved
  BY DEF UstInv, UstConserved
<1>3. SafetyInv /\ [OrderlyNext]_vars => SafetyInv'
  BY OrderlySteps, NextSafe
<1> QED BY <1>1, <1>2, <1>3, OrderlySteps, UstNext, PTL DEF OrderlySpec

-------------------------------------------------------------------------------
(* The maUST shares of users *)

(* The shares of parts, each rounded down, are together no more than the share of
   the whole. *)
LEMMA SharesWithin ==
  ASSUME NEW I, IsFiniteSet(I), NEW f \in [I -> Nat], NEW g \in [I -> Nat],
         NEW M \in Nat, NEW F \in Nat \ {0}, NEW a \in Nat, Total(f) <= a,
         \A i \in I : g[i] = MulFloor(M, FromRatio(f[i], F))
  PROVE  Total(g) <= MulFloor(M, FromRatio(a, F))
<1> DEFINE r == [i \in I |-> FromRatio(f[i], F)]
           R == FromRatio(a, F)
<1>1. /\ r \in [I -> Nat] /\ R \in Nat
      /\ \A i \in I : r[i] * F <= f[i] * Scale /\ g[i] * Scale <= r[i] * M
  <2>1. ASSUME NEW i \in I
        PROVE  /\ r[i] \in Nat /\ r[i] * F <= f[i] * Scale
               /\ g[i] * Scale <= r[i] * M
    <3>1. FromRatio(f[i], F) \in Nat /\ FromRatio(f[i], F) * F <= f[i] * Scale
      BY FromRatioBound
    <3>2. r[i] = FromRatio(f[i], F)
      OBVIOUS
    <3> HIDE DEF r
    <3>3. g[i] * Scale <= M * r[i] /\ r[i] \in Nat
      BY <3>1, <3>2, MulFloorBound
    <3> QED BY <3>1, <3>2, <3>3
  <2>2. R \in Nat
    BY FromRatioBound
  <2> QED BY <2>1, <2>2
<1>2. Total(f) \in Nat /\ Total(r) \in Nat /\ Total(g) \in Nat
  BY <1>1, TotalType
<1>3. R = (a * Scale) \div F /\ MulFloor(M, R) = (M * R) \div Scale
  BY DEF FromRatio, MulFloor
<1> HIDE DEF r, R
<1>4. Total(r) <= R
  <2>1. Total(r) * F <= Total(f) * Scale
    BY <1>1, ScaleAssumption, TotalScale
  <2>2. Total(f) * Scale <= a * Scale
    BY <1>2, ScaleAssumption, ProductMono
  <2>3. Total(r) * F <= a * Scale /\ a * Scale \in Nat
    BY <1>2, <2>1, <2>2, ScaleAssumption, ProductNat
  <2> QED BY <1>2, <1>3, <2>3, LargestQuotient
<1>5. CASE M = 0
  <2>1. \A i \in I : g[i] = 0
    BY <1>1, <1>5, MulFloorZero DEF r
  <2>2. Total(g) = 0
    BY <2>1, TotalZero
  <2> QED BY <1>1, <2>2, MulFloorBound DEF R
<1>6. CASE M # 0
  <2>1. Total(g) * Scale <= Total(r) * M
    BY <1>1, <1>6, ScaleAssumption, TotalScale
  <2>2. Total(r) * M <= M * R
    BY <1>1, <1>2, <1>4, ProductMono
  <2>3. Total(g) * Scale <= M * R /\ M * R \in Nat
    BY <1>1, <1>2, <2>1, <2>2, ScaleAssumption, ProductNat
  <2>4. Total(g) <= (M * R) \div Scale
    BY <1>2, <2>3, ScaleAssumption, LargestQuotient
  <2> QED BY <1>3, <2>4 DEF R
<1> QED BY <1>5, <1>6

\* What dissolving each position of u would refund.
RefundsOf(u) ==
  [id \in LockupIds |-> IF id[1] = u THEN MaUstShare(lockup[id].ust_locked) ELSE 0]

\* The share of u once it is computed.
ShareOf(u) ==
  IF userInfo[u].total_maust_share = 0 THEN MaUstShare(userInfo[u].total_ust_locked)
  ELSE userInfo[u].total_maust_share

ShareInv ==
  /\ state.final_ust_locked = 0 => \A u \in Users : userInfo[u].total_maust_share = 0
  /\ \A u \in Users :
       userInfo[u].total_maust_share # 0 =>
         Total(RefundsOf(u)) <= userInfo[u].total_maust_share

LEMMA RefundsOfType ==
  TypeOK => \A u \in Users :
    /\ RefundsOf(u) \in [LockupIds -> Nat] /\ Total(RefundsOf(u)) \in Nat
    /\ userInfo[u].total_maust_share \in Nat /\ ShareOf(u) \in Nat
<1> SUFFICES ASSUME TypeOK, NEW u \in Users
             PROVE  /\ RefundsOf(u) \in [LockupIds -> Nat] /\ Total(RefundsOf(u)) \in Nat
                    /\ userInfo[u].total_maust_share \in Nat /\ ShareOf(u) \in Nat
  OBVIOUS
<1>1. ASSUME NEW id \in LockupIds PROVE MaUstShare(lockup[id].ust_locked) \in Nat
  BY MaUstShareType DEF TypeOK, LockupRecords
<1>2. RefundsOf(u) \in [LockupIds -> Nat]
  BY <1>1 DEF RefundsOf
<1>3. userInfo[u].total_ust_locked \in Nat /\ userInfo[u].total_maust_share \in Nat
  BY DEF TypeOK, UserRecords
<1>4. ShareOf(u) \in Nat
  BY <1>3, MaUstShareType DEF ShareOf, TypeOK
<1> QED BY <1>2, <1>3, <1>4, LockupIdsFinite, TotalType

LEMMA NukedMaUstIsRefundsOf ==
  ASSUME TypeOK, OwnPositions, PositionsMatchLockups, NEW u \in Users
  PROVE  NukedMaUst(u) = Total(RefundsOf(u))
<1> DEFINE P == userInfo[u].lockup_positions
           f == [id \in P |-> MaUstShare(lockup[id].ust_locked)]
<1>1. P \subseteq LockupIds /\ f \in [P -> Nat]
  BY NukedType DEF TypeOK, UserRecords
<1>2. RefundsOf(u) \in [LockupIds -> Nat]
  BY RefundsOfType
<1>3. ASSUME NEW id \in LockupIds
      PROVE  RefundsOf(u)[id] = IF id \in P THEN f[id] ELSE 0
  <2>1. lockup[id].ust_locked \in Nat
    BY DEF TypeOK, LockupRecords
  <2>2. id \in P => id[1] = u
    BY DEF OwnPositions
  <2>3. id[1] = u => (id \in P <=> lockup[id].ust_locked > 0)
    BY DEF PositionsMatchLockups
  <2>4. MaUstShare(0) = 0
    BY NoShareOfNothing DEF TypeOK
  <2>5. CASE id \in P
    BY <2>2, <2>5 DEF RefundsOf
  <2>6. CASE id \notin P
    BY <2>1, <2>3, <2>4, <2>6 DEF RefundsOf
  <2> QED BY <2>5, <2>6
<1> HIDE DEF P, f
<1>4. Total(RefundsOf(u)) = Total(f)
  BY <1>1, <1>2, <1>3, TotalExtend
<1> QED BY <1>4 DEF f, P, NukedMaUst

\* A share covers the refunds of its user from the moment it is computed.
LEMMA ComputedShareCovers ==
  ASSUME SafetyInv, ShareInv, NEW u \in Users
  PROVE  Total(RefundsOf(u)) <= ShareOf(u)
<1>1. CASE userInfo[u].total_maust_share # 0
  BY <1>1 DEF ShareInv, ShareOf
<1>2. CASE userInfo[u].total_maust_share = 0
  <2> DEFINE F == state.final_ust_locked
             M == state.final_maust_locked
             a == userInfo[u].total_ust_locked
  <2>1. /\ TypeOK /\ F \in Nat /\ M \in Nat /\ a \in Nat
        /\ RefundsOf(u) \in [LockupIds -> Nat]
        /\ UstOf(u) \in [LockupIds -> Nat] /\ Total(UstOf(u)) <= a
        /\ IsFiniteSet(LockupIds)
    BY TotalsTyped, RefundsOfType
       DEF SafetyInv, UserTotalCovers, TypeOK, StateRecords, UserRecords
  <2>2. ShareOf(u) = MaUstShare(a)
    BY <1>2 DEF ShareOf
  <2>3. \A id \in LockupIds : RefundsOf(u)[id] = MaUstShare(UstOf(u)[id])
    <3>1. MaUstShare(0) = 0
      BY NoShareOfNothing DEF SafetyInv, TypeOK
    <3> QED BY <3>1 DEF RefundsOf, UstOf
  <2>4. CASE F = 0
    <3>1. MaUstShare(a) = 0 /\ \A id \in LockupIds : RefundsOf(u)[id] = 0
      BY <2>3, <2>4 DEF MaUstShare
    <3> QED BY <2>1, <2>2, <3>1, TotalZero
  <2>5. CASE F # 0
    <3>1. /\ MaUstShare(a) = MulFloor(M, FromRatio(a, F))
          /\ \A id \in LockupIds : RefundsOf(u)[id] = MulFloor(M, FromRatio(UstOf(u)[id], F))
      BY <2>3, <2>5 DEF MaUstShare
    <3> HIDE DEF F, M, a
    <3> QED BY <2>1, <2>2, <2>5, <3>1, SharesWithin
  <2> QED BY <2>4, <2>5
<1> QED BY <1>1, <1>2

\* What a step does to the share of u.
ShareStep(u) ==
  \/ userInfo'[u].total_maust_share \in {0, userInfo[u].total_maust_share, ShareOf(u)}
  \/ \E id \in LockupIds :
       /\ id[1] = u /\ 0 < MaUstShare(lockup[id].ust_locked)
       /\ userInfo'[u].total_maust_share = ShareOf(u) - MaUstShare(lockup[id].ust_locked)
       /\ lockup'[id].ust_locked = 0
  \/ /\ userInfo'[u].total_maust_share <= userInfo[u].total_maust_share
     /\ \A id \in LockupIds : id[1] = u => lockup'[id].ust_locked = 0

LEMMA ProvisionedShare ==
  ASSUME TypeOK, NEW u \in Users
  PROVE  /\ Provisioned(u).total_maust_share = ShareOf(u)
         /\ \A accrued :
              Settled(Provisioned(u), accrued).total_maust_share = ShareOf(u)
<1>1. Provisioned(u) \in UserRecords /\ userInfo[u] \in UserRecords
  BY ProvisionedType DEF TypeOK
<1>2. Provisioned(u).total_maust_share = ShareOf(u)
  BY <1>1 DEF Provisioned, ShareOf, UserRecords
<1> DEFINE info == Provisioned(u)
<1> HIDE DEF info
<1>3. \A accrued : Settled(info, accrued).total_maust_share = info.total_maust_share
  BY <1>1 DEF Settled, UserRecords, info
<1> QED BY <1>2, <1>3 DEF info

LEMMA NukeShares ==
  ASSUME SafetyInv, NukeLockdrop PROVE \A u \in Users : ShareStep(u)
<1> DEFINE removed == {v \in NukeBatch : \/ v \notin Nuked
                                          \/ userInfo[v].total_ust_locked = NukedUst(v)}
           left(v) == [userInfo[v] EXCEPT !.total_ust_locked = @ - NukedUst(v),
                                          !.total_maust_share = @ - NukedMaUst(v),
                                          !.lockup_positions = {}]
<1>1. /\ userInfo' = [v \in Users |->
           IF v \in removed THEN NoUser ELSE IF v \in Nuked THEN left(v) ELSE userInfo[v]]
      /\ lockup' = LockupsAfterNuke
  BY Zenon DEF NukeLockdrop
<1>2. ASSUME NEW v \in Users
      PROVE  /\ left(v).total_maust_share = userInfo[v].total_maust_share - NukedMaUst(v)
             /\ left(v).total_maust_share <= userInfo[v].total_maust_share
  <2>1. userInfo[v] \in UserRecords /\ NukedMaUst(v) \in Nat
    BY NukedType DEF SafetyInv, TypeOK
  <2> QED BY <2>1 DEF UserRecords
<1> HIDE DEF removed, left
<1> SUFFICES ASSUME NEW u \in Users PROVE ShareStep(u)
  OBVIOUS
<1>3. CASE u \in removed
  <2>1. userInfo'[u].total_maust_share = 0
    BY <1>1, <1>3 DEF NoUser
  <2> QED BY <2>1 DEF ShareStep
<1>4. CASE u \notin removed /\ u \notin Nuked
  <2>1. userInfo'[u].total_maust_share = userInfo[u].total_maust_share
    BY <1>1, <1>4
  <2> QED BY <2>1 DEF ShareStep
<1>5. CASE u \notin removed /\ u \in Nuked
  <2>1. userInfo'[u].total_maust_share <= userInfo[u].total_maust_share
    BY <1>1, <1>2, <1>5
  <2>2. ASSUME NEW id \in LockupIds, id[1] = u PROVE lockup'[id].ust_locked = 0
    <3>1. CASE id \in userInfo[u].lockup_positions
      BY <1>1, <1>5, <3>1 DEF LockupsAfterNuke, CloseLockup, NoLockup
    <3>2. CASE id \notin userInfo[u].lockup_positions
      <4>1. lockup[id].ust_locked = 0
        BY <2>2, <3>2 DEF SafetyInv, PositionsMatchLockups, TypeOK, LockupRecords
      <4> QED BY <1>1, <4>1 DEF LockupsAfterNuke, CloseLockup, NoLockup
    <3> QED BY <3>1, <3>2
  <2> QED BY <2>1, <2>2 DEF ShareStep
<1> QED BY <1>3, <1>4, <1>5

LEMMA ShareStepNext == SafetyInv /\ [Next]_vars => \A u \in Users : ShareStep(u)
<1> SUFFICES ASSUME SafetyInv, [Next]_vars PROVE \A u \in Users : ShareStep(u)
  OBVIOUS
<1>1. /\ TypeOK /\ userInfo \in [Users -> UserRecords]
      /\ \A u \in Users : userInfo[u] \in UserRecords
  BY DEF SafetyInv, TypeOK
<1>2. ASSUME userInfo' = userInfo PROVE \A u \in Users : ShareStep(u)
  BY <1>2 DEF ShareStep
<1>3. ASSUME NEW v \in Users, NEW new, userInfo' = [userInfo EXCEPT ![v] = new],
             new.total_maust_share \in {userInfo[v].total_maust_share, ShareOf(v)}
      PROVE  \A u \in Users : ShareStep(u)
  <2>1. \A u \in Users : userInfo'[u] = IF u = v THEN new ELSE userInfo[u]
    BY <1>1, <1>3
  <2> QED BY <1>3, <2>1 DEF ShareStep
<1>4. CASE \/ Tick \/ AdminStep \/ EnableClaims \/ UNCHANGED vars
           \/ \E amount \in MarsAmounts : IncreaseMarsIncentives(amount)
  <2>1. userInfo' = userInfo
    BY <1>4, Zenon DEF Tick, AdminStep, UpdateConfig, DepositUstInRedBank, EnableClaims,
         IncreaseMarsIncentives, vars
  <2> QED BY <1>2, <2>1
<1>5. CASE UserDelegates
  <2>1. PICK v \in Users, amount \in MarsAmounts : DepositMarsToAuction(v, amount)
    BY <1>5, Zenon DEF UserDelegates
  <2> DEFINE info == Provisioned(v)
             new == [info EXCEPT !.delegated_mars_incentives = @ + amount]
  <2>2. userInfo' = [userInfo EXCEPT ![v] = new]
    BY <2>1, Zenon DEF DepositMarsToAuction
  <2>3. info \in UserRecords /\ info.total_maust_share = ShareOf(v)
    BY <1>1, ProvisionedType, ProvisionedShare
  <2> HIDE DEF info
  <2>4. new.total_maust_share = ShareOf(v)
    BY <2>3 DEF UserRecords
  <2> HIDE DEF new
  <2> QED BY <1>3, <2>2, <2>4
<1>6. CASE UserStep
  <2>1. ASSUME NEW v \in Users, NEW d \in Durations, NEW amount, DepositUst(v, d, amount)
        PROVE  \A u \in Users : ShareStep(u)
    <3>1. PICK positions :
            userInfo' = [userInfo EXCEPT ![v] =
              [userInfo[v] EXCEPT !.total_ust_locked = @ + amount,
                                  !.lockup_positions = positions]]
      BY <2>1, Zenon DEF DepositUst
    <3> DEFINE new == [userInfo[v] EXCEPT !.total_ust_locked = @ + amount,
                                          !.lockup_positions = positions]
    <3>2. new.total_maust_share = userInfo[v].total_maust_share
      BY <1>1 DEF UserRecords
    <3>3. userInfo' = [userInfo EXCEPT ![v] = new]
      BY <3>1
    <3> HIDE DEF new
    <3> QED BY <1>3, <3>2, <3>3
  <2>2. ASSUME NEW v \in Users, NEW d \in Durations, NEW amount, WithdrawUst(v, d, amount)
        PROVE  \A u \in Users : ShareStep(u)
    <3>1. PICK positions :
            userInfo' = [userInfo EXCEPT ![v] =
              [userInfo[v] EXCEPT !.total_ust_locked = @ - amount,
                                  !.lockup_positions = positions]]
      BY <2>2, Zenon DEF WithdrawUst
    <3> DEFINE new == [userInfo[v] EXCEPT !.total_ust_locked = @ - amount,
                                          !.lockup_positions = positions]
    <3>2. new.total_maust_share = userInfo[v].total_maust_share
      BY <1>1 DEF UserRecords
    <3>3. userInfo' = [userInfo EXCEPT ![v] = new]
      BY <3>1
    <3> HIDE DEF new
    <3> QED BY <1>3, <3>2, <3>3
  <2>3. ASSUME NEW v \in Users, NEW accrued, ClaimRewards(v, accrued)
        PROVE  \A u \in Users : ShareStep(u)
    <3> DEFINE new == Settled(Provisioned(v), accrued)
    <3>1. userInfo' = [userInfo EXCEPT ![v] = new]
      BY <2>3, Zenon DEF ClaimRewards
    <3>2. new.total_maust_share = ShareOf(v)
      BY <1>1, ProvisionedShare
    <3> HIDE DEF new
    <3> QED BY <1>3, <3>1, <3>2
  <2>4. ASSUME NEW v \in Users, NEW d \in Durations, NEW accrued \in XmarsAccruals,
               ClaimRewardsAndUnlock(v, d, accrued)
        PROVE  \A u \in Users : ShareStep(u)
    <3> DEFINE id == <<v, d>>
               refund == MaUstShare(lockup[id].ust_locked)
               info == Settled(Provisioned(v), accrued)
               new == [info EXCEPT !.total_maust_share = @ - refund,
                                   !.lockup_positions = @ \ {id}]
    <3>1. /\ userInfo' = [userInfo EXCEPT ![v] = new]
          /\ lockup' = [RewardedLockups(v) EXCEPT ![id] = NoLockup]
          /\ 0 < refund
      BY <2>4, Zenon DEF ClaimRewardsAndUnlock, CloseLockup
    <3>2. info \in UserRecords /\ info.total_maust_share = ShareOf(v)
      <4>1. ClaimAllowed(v, accrued)
        BY <2>4, Zenon DEF ClaimRewardsAndUnlock
      <4> QED BY <1>1, <4>1, ClaimType, ProvisionedShare
    <3> HIDE DEF info
    <3>3. new.total_maust_share = ShareOf(v) - refund
      BY <3>2 DEF UserRecords
    <3>4. id \in LockupIds /\ id[1] = v
      BY DEF LockupIds
    <3>5. lockup'[id].ust_locked = 0
      <4>1. RewardedLockups(v) \in [LockupIds -> LockupRecords]
        BY <1>1, RewardedLockupsType
      <4> HIDE DEF id
      <4> QED BY <3>1, <3>4, <4>1 DEF NoLockup
    <3> HIDE DEF new, id
    <3>6. \A u \in Users : userInfo'[u] = IF u = v THEN new ELSE userInfo[u]
      BY <1>1, <3>1
    <3> SUFFICES ASSUME NEW u \in Users PROVE ShareStep(u)
      OBVIOUS
    <3>7. CASE u = v
      BY <3>1, <3>3, <3>4, <3>5, <3>6, <3>7 DEF ShareStep
    <3>8. CASE u # v
      BY <3>6, <3>8 DEF ShareStep
    <3> QED BY <3>7, <3>8
  <2> QED BY <1>6, <2>1, <2>2, <2>3, <2>4 DEF UserStep
<1>7. CASE NukeLockdrop
  BY <1>7, NukeShares
<1> QED BY <1>4, <1>5, <1>6, <1>7 DEF Next

\* What a unit of UST is worth in maUST is set once, before any share is computed.
FinalsFixed ==
  /\ state'.final_ust_locked = state.final_ust_locked
  /\ state'.final_maust_locked = state.final_maust_locked

LEMMA FinalsNext ==
  SafetyInv /\ [Next]_vars =>
    \/ FinalsFixed
    \/ /\ state.final_ust_locked = 0 /\ state'.final_ust_locked # 0
       /\ userInfo' = userInfo
<1> SUFFICES ASSUME SafetyInv, [Next]_vars
             PROVE  \/ FinalsFixed
                    \/ /\ state.final_ust_locked = 0 /\ state'.final_ust_locked # 0
                       /\ userInfo' = userInfo
  OBVIOUS
<1>1. state \in StateRecords
  BY DEF SafetyInv, TypeOK
<1>2. CASE \/ Tick \/ UNCHANGED vars \/ EnableClaims
           \/ \E amount \in MarsAmounts : IncreaseMarsIncentives(amount)
  BY <1>1, <1>2 DEF Tick, vars, EnableClaims, IncreaseMarsIncentives, FinalsFixed,
     StateRecords
<1>3. CASE AdminStep
  <2>1. ASSUME NEW sender, NEW addresses, NEW newOwner,
               UpdateConfig(sender, addresses, newOwner)
        PROVE  FinalsFixed
    BY <2>1 DEF UpdateConfig, FinalsFixed
  <2>2. ASSUME NEW sender, NEW minted, DepositUstInRedBank(sender, minted)
        PROVE  /\ state.final_ust_locked = 0 /\ state'.final_ust_locked # 0
               /\ userInfo' = userInfo
    <3>1. /\ state.total_ust_locked \in Nat \ {0}
          /\ state'.final_ust_locked = state.total_ust_locked
          /\ userInfo' = userInfo
      BY <1>1, <2>2, RedBankTakesUst
    <3> QED BY <1>1, <2>2, <3>1 DEF DepositUstInRedBank, StateRecords, SafetyInv, RedBankOnce
  <2> QED BY <1>3, <2>1, <2>2 DEF AdminStep
<1>4. CASE UserDelegates
  BY <1>1, <1>4 DEF UserDelegates, DepositMarsToAuction, StateRecords, FinalsFixed
<1>5. CASE UserStep
  <2>1. ASSUME NEW u, NEW d, NEW amount, DepositUst(u, d, amount) \/ WithdrawUst(u, d, amount)
        PROVE  FinalsFixed
    BY <1>1, <2>1 DEF DepositUst, WithdrawUst, StateRecords, FinalsFixed
  <2>2. ASSUME NEW u, NEW accrued, ClaimRewards(u, accrued) PROVE FinalsFixed
    BY <1>1, <2>2 DEF ClaimRewards, StateRecords, FinalsFixed
  <2>3. ASSUME NEW u, NEW d, NEW accrued, ClaimRewardsAndUnlock(u, d, accrued)
        PROVE  FinalsFixed
    <3>1. PICK refund : state' = [state EXCEPT
                          !.xmars_rewards_index = XmarsIndexAfter(accrued),
                          !.total_maust_locked = @ - refund]
      BY <2>3, Zenon DEF ClaimRewardsAndUnlock
    <3> QED BY <1>1, <3>1 DEF StateRecords, FinalsFixed
  <2> QED BY <1>5, <2>1, <2>2, <2>3 DEF UserStep
<1>6. CASE NukeLockdrop
  <2>1. PICK refunds : state' = [state EXCEPT !.total_maust_locked = @ - refunds]
    BY <1>6, Zenon DEF NukeLockdrop
  <2> QED BY <1>1, <2>1 DEF StateRecords, FinalsFixed
<1> QED BY <1>2, <1>3, <1>4, <1>5, <1>6 DEF Next

LEMMA SharesNext ==
  SafetyInv /\ SafetyInv' /\ ShareInv /\ [Next]_vars => ShareInv'
<1> SUFFICES ASSUME SafetyInv, SafetyInv', ShareInv, [Next]_vars PROVE ShareInv'
  OBVIOUS
<1>1. TypeOK /\ TypeOK' /\ \A u \in Users : ShareStep(u)
  BY ShareStepNext DEF SafetyInv
<1>2. \A u \in Users :
        /\ RefundsOf(u) \in [LockupIds -> Nat] /\ Total(RefundsOf(u)) \in Nat
        /\ userInfo[u].total_maust_share \in Nat /\ ShareOf(u) \in Nat
  BY <1>1, RefundsOfType
<1>3. \A u \in Users :
        /\ RefundsOf(u)' \in [LockupIds -> Nat] /\ Total(RefundsOf(u)') \in Nat
        /\ userInfo'[u].total_maust_share \in Nat
  <2>1. (\A u \in Users :
           /\ RefundsOf(u) \in [LockupIds -> Nat] /\ Total(RefundsOf(u)) \in Nat
           /\ userInfo[u].total_maust_share \in Nat /\ ShareOf(u) \in Nat)'
    BY <1>1, RefundsOfType, PTL
  <2> QED BY <2>1
<1>4. CASE /\ state.final_ust_locked = 0 /\ state'.final_ust_locked # 0
           /\ userInfo' = userInfo
  BY <1>4 DEF ShareInv
<1>5. CASE FinalsFixed /\ state.final_ust_locked = 0
  <2>1. ASSUME NEW u \in Users PROVE userInfo'[u].total_maust_share = 0
    <3>1. /\ userInfo[u].total_maust_share = 0 /\ ShareOf(u) = 0
          /\ \A id \in LockupIds : MaUstShare(lockup[id].ust_locked) = 0
      BY <1>5 DEF ShareInv, ShareOf, MaUstShare
    <3> QED BY <1>1, <1>3, <3>1 DEF ShareStep
  <2> QED BY <2>1 DEF ShareInv
<1>6. CASE FinalsFixed /\ state.final_ust_locked # 0
  <2>1. BasisKept
    <3>1. now >= WithdrawEnd
      BY <1>1, <1>6, LockdropAssumption
         DEF SafetyInv, RedBankOnce, TypeOK, WithdrawEnd, DepositEnd
    <3> QED BY <1>1, <3>1, BasisNext
  <2>2. \A ust : MaUstShare(ust)' = MaUstShare(ust)
    BY <1>6 DEF FinalsFixed, MaUstShare
  <2>3. MaUstShare(0) = 0
    BY <1>1, NoShareOfNothing DEF TypeOK
  <2>4. ASSUME NEW u \in Users, NEW id \in LockupIds
        PROVE  /\ RefundsOf(u)'[id] <= RefundsOf(u)[id]
               /\ lockup'[id].ust_locked = 0 => RefundsOf(u)'[id] = 0
    <3>1. /\ RefundsOf(u)'[id]
               = IF id[1] = u THEN MaUstShare(lockup'[id].ust_locked) ELSE 0
          /\ RefundsOf(u)[id] = IF id[1] = u THEN MaUstShare(lockup[id].ust_locked) ELSE 0
          /\ RefundsOf(u)[id] \in Nat
      BY <1>2, <2>2 DEF RefundsOf
    <3>2. lockup'[id].ust_locked \in {0, lockup[id].ust_locked}
      BY <2>1 DEF BasisKept
    <3> QED BY <2>3, <3>1, <3>2
  <2>5. ASSUME NEW u \in Users, userInfo'[u].total_maust_share # 0
        PROVE  Total(RefundsOf(u)') <= userInfo'[u].total_maust_share
    <3> DEFINE f == RefundsOf(u)
               g == RefundsOf(u)'
    <3>1. /\ f \in [LockupIds -> Nat] /\ g \in [LockupIds -> Nat] /\ IsFiniteSet(LockupIds)
          /\ \A id \in LockupIds : g[id] <= f[id]
      BY <1>2, <1>3, <2>4, LockupIdsFinite
    <3>2. Total(f) <= ShareOf(u) /\ ShareOf(u) \in Nat
      BY <1>2, ComputedShareCovers
    <3>3. userInfo[u].total_maust_share # 0 => ShareOf(u) = userInfo[u].total_maust_share
      BY DEF ShareOf
    <3>4. ASSUME NEW id \in LockupIds
          PROVE  /\ lockup'[id].ust_locked = 0 => g[id] = 0
                 /\ id[1] = u => f[id] = MaUstShare(lockup[id].ust_locked)
                 /\ id[1] # u => g[id] = 0
      BY <2>4 DEF RefundsOf
    <3> HIDE DEF f, g
    <3>5. Total(g) <= Total(f) /\ Total(f) \in Nat /\ Total(g) \in Nat
      BY <3>1, TotalMono, TotalType
    <3>6. CASE userInfo'[u].total_maust_share
                 \in {0, userInfo[u].total_maust_share, ShareOf(u)}
      BY <2>5, <3>2, <3>3, <3>5, <3>6 DEF g
    <3>7. ASSUME NEW id \in LockupIds, id[1] = u,
                 userInfo'[u].total_maust_share
                   = ShareOf(u) - MaUstShare(lockup[id].ust_locked),
                 lockup'[id].ust_locked = 0
          PROVE  Total(g) <= userInfo'[u].total_maust_share
      <4> DEFINE p == f[id]
      <4>1. p \in Nat /\ p = MaUstShare(lockup[id].ust_locked) /\ g[id] = 0
        BY <3>1, <3>4, <3>7
      <4>2. g[id] + p <= f[id] /\ \A j \in LockupIds : j # id => g[j] <= f[j]
        BY <3>1, <4>1
      <4> HIDE DEF p
      <4>3. Total(g) + p <= Total(f)
        BY <3>1, <4>1, <4>2, TotalDrop
      <4> QED BY <3>2, <3>5, <3>7, <4>1, <4>3
    <3>8. CASE \A id \in LockupIds : id[1] = u => lockup'[id].ust_locked = 0
      <4>1. Total(g) = 0
        <5>1. \A id \in LockupIds : g[id] = 0
          BY <3>4, <3>8
        <5> QED BY <3>1, <5>1, TotalZero
      <4> QED BY <1>3, <4>1 DEF g
    <3> QED BY <1>1, <3>6, <3>7, <3>8 DEF ShareStep, g
  <2> QED BY <1>6, <2>5 DEF ShareInv, FinalsFixed
<1> QED BY <1>4, <1>5, <1>6, FinalsNext

(* The maUST share of a user, computed when he first claims or delegates and rounded
   once, covers the refunds of the positions he still has, each of them rounded on its
   own: neither an unlock nor a nuke fails on the subtraction from a computed share. *)
THEOREM SharesCover == Spec => []ShareCoversPositions
<1>1. Init => SafetyInv /\ ShareInv
  BY InitSafe DEF Init, NoUser, ShareInv
<1>2. SafetyInv /\ ShareInv => ShareCoversPositions
  BY NukedMaUstIsRefundsOf DEF SafetyInv, ShareInv, ShareCoversPositions
<1>3. SafetyInv /\ [Next]_vars => SafetyInv'
  BY NextSafe
<1> QED BY <1>1, <1>2, <1>3, SharesNext, PTL DEF Spec

-------------------------------------------------------------------------------
(* The xMARS that pays what users are owed *)

\* What a share has earned between two readings of the index, in units of 1/Scale
\* xMARS, when only the earlier reading was rounded.
EarnedUnits(share, from, to) == share * to - Scale * MulFloor(share, from)

LEMMA EarnedCovers ==
  ASSUME NEW s \in Nat, NEW from \in Nat, NEW to \in Nat, from <= to
  PROVE  /\ EarnedUnits(s, from, to) \in Nat
         /\ MulFloor(s, to) - MulFloor(s, from) \in Nat
         /\ (MulFloor(s, to) - MulFloor(s, from)) * Scale <= EarnedUnits(s, from, to)
         /\ EarnedUnits(s, to, to) + Scale * (MulFloor(s, to) - MulFloor(s, from))
              = EarnedUnits(s, from, to)
<1> DEFINE a == MulFloor(s, from)
           b == MulFloor(s, to)
           x == s * from
           y == s * to
<1>1. /\ a \in Nat /\ b \in Nat /\ a * Scale <= x /\ b * Scale <= y /\ a <= b
      /\ x \in Nat /\ y \in Nat /\ x <= y
  BY MulFloorBound, MulFloorMono, ProductNat, ProductMono
<1>2. /\ EarnedUnits(s, from, to) = y - Scale * a
      /\ EarnedUnits(s, to, to) = y - Scale * b
  BY DEF EarnedUnits
<1> HIDE DEF a, b, x, y
<1>3. /\ Scale * a \in Nat /\ Scale * b \in Nat
      /\ Scale * a = a * Scale /\ Scale * b = b * Scale
      /\ (b - a) * Scale = b * Scale - a * Scale
      /\ Scale * (b - a) = Scale * b - Scale * a
  BY <1>1, ScaleAssumption
<1> QED BY <1>1, <1>2, <1>3 DEF a, b

LEMMA EarnedFromZero ==
  ASSUME NEW s \in Nat, NEW to \in Nat
  PROVE  EarnedUnits(s, 0, to) = s * to /\ EarnedUnits(0, to, to) = 0
<1>1. MulFloor(s, 0) = 0 /\ MulFloor(0, to) = 0
  BY MulFloorZero
<1>2. Scale * 0 = 0 /\ 0 * to = 0 /\ s * to \in Nat
  BY ScaleAssumption, ProductNat
<1> QED BY <1>1, <1>2 DEF EarnedUnits

LEMMA MaUstShareMono ==
  ASSUME state \in StateRecords, NEW a \in Nat, NEW b \in Nat, a <= b
  PROVE  MaUstShare(a) <= MaUstShare(b)
<1> DEFINE F == state.final_ust_locked
           M == state.final_maust_locked
<1>1. F \in Nat /\ M \in Nat
  BY DEF StateRecords
<1>2. CASE F = 0
  BY <1>2 DEF MaUstShare
<1>3. CASE F # 0
  <2>1. /\ MaUstShare(a) = MulFloor(M, FromRatio(a, F))
        /\ MaUstShare(b) = MulFloor(M, FromRatio(b, F))
    BY <1>3 DEF MaUstShare
  <2> HIDE DEF F, M
  <2> DEFINE r == FromRatio(a, F)
             q == FromRatio(b, F)
  <2>2. /\ r \in Nat /\ r * F <= a * Scale /\ q \in Nat /\ q = (b * Scale) \div F
    BY <1>1, <1>3, FromRatioBound DEF FromRatio
  <2> HIDE DEF r, q
  <2>3. a * Scale <= b * Scale /\ a * Scale \in Nat /\ b * Scale \in Nat /\ r * F \in Nat
    BY <1>1, <2>2, ScaleAssumption, ProductMono, ProductNat
  <2>4. r * F <= b * Scale
    BY <2>2, <2>3
  <2>5. r <= q
    BY <1>1, <1>3, <2>2, <2>3, <2>4, LargestQuotient
  <2>6. MulFloor(M, r) <= MulFloor(M, q)
    BY <1>1, <2>2, <2>5, MulFloorMono
  <2> QED BY <2>1, <2>6 DEF r, q
<1> QED BY <1>2, <1>3

\* The share of u that earns xMARS, and what it has earned.
XmarsShare(u) == IF userInfo[u].total_ust_locked = 0 THEN 0 ELSE ShareOf(u)

XmarsUnits(u) ==
  EarnedUnits(XmarsShare(u), userInfo[u].reward_index, state.xmars_rewards_index)

XmarsShares == [u \in Users |-> XmarsShare(u)]

XmarsEarned == [u \in Users |-> XmarsUnits(u)]

IndexInOrder == \A u \in Users : userInfo[u].reward_index <= state.xmars_rewards_index

NoneLeft == state.total_maust_locked = state.final_maust_locked

XmarsInv ==
  /\ IndexInOrder
  /\ state.final_ust_locked = 0 =>
       state.xmars_rewards_index = 0 /\ state.final_maust_locked = 0
  /\ state.total_maust_locked <= state.final_maust_locked
  /\ state.final_ust_locked # 0 /\ NoneLeft =>
       /\ Total(XmarsShares) <= state.final_maust_locked
       /\ Total(XmarsEarned) <= balance.xmars * Scale
       /\ \A u \in Users :
            userInfo[u].total_maust_share = 0 =>
              userInfo[u].reward_index = 0 \/ XmarsShare(u) = 0

XmarsTypes ==
  /\ XmarsShares \in [Users -> Nat] /\ Total(XmarsShares) \in Nat
  /\ XmarsEarned \in [Users -> Nat] /\ Total(XmarsEarned) \in Nat
  /\ \A u \in Users : /\ XmarsShare(u) \in Nat /\ XmarsUnits(u) \in Nat
                      /\ userInfo[u].reward_index \in Nat
  /\ state.xmars_rewards_index \in Nat

LEMMA XmarsTyped == TypeOK /\ IndexInOrder => XmarsTypes
<1> SUFFICES ASSUME TypeOK, IndexInOrder PROVE XmarsTypes
  OBVIOUS
<1>1. state.xmars_rewards_index \in Nat /\ IsFiniteSet(Users)
  BY LockdropAssumption DEF TypeOK, StateRecords
<1>2. ASSUME NEW u \in Users
      PROVE  /\ XmarsShare(u) \in Nat /\ XmarsUnits(u) \in Nat
             /\ userInfo[u].reward_index \in Nat
  <2>1. /\ XmarsShare(u) \in Nat /\ userInfo[u].reward_index \in Nat
        /\ userInfo[u].reward_index <= state.xmars_rewards_index
    BY RefundsOfType DEF XmarsShare, TypeOK, UserRecords, IndexInOrder
  <2> QED BY <1>1, <2>1, EarnedCovers DEF XmarsUnits
<1>3. XmarsShares \in [Users -> Nat] /\ XmarsEarned \in [Users -> Nat]
  BY <1>2 DEF XmarsShares, XmarsEarned
<1> QED BY <1>1, <1>2, <1>3, TotalType DEF XmarsTypes

\* Until a first position leaves, the xMARS held covers what all users are owed.
LEMMA XmarsCovered == TypeOK /\ XmarsInv => XmarsSolvent
<1> SUFFICES ASSUME TypeOK, XmarsInv PROVE XmarsSolvent
  OBVIOUS
<1>1. XmarsTypes /\ IndexInOrder /\ IsFiniteSet(Users) /\ balance.xmars \in Nat
  BY XmarsTyped, LockdropAssumption DEF XmarsInv, TypeOK, BalanceRecords
<1>2. SUFFICES ASSUME NoneLeft PROVE Total(XmarsOwed) <= balance.xmars
  BY <1>1 DEF XmarsSolvent, IndexInOrder, NoneLeft
<1>3. ASSUME NEW u \in Users
      PROVE  XmarsOwed[u]
               = IF state.final_ust_locked = 0 THEN 0
                 ELSE MulFloor(XmarsShare(u), state.xmars_rewards_index)
                        - MulFloor(XmarsShare(u), userInfo[u].reward_index)
  <2>1. XmarsIndexAfter(0) = state.xmars_rewards_index
    BY DEF XmarsIndexAfter
  <2>2. CASE userInfo[u].total_ust_locked = 0
    <3>1. XmarsShare(u) = 0 /\ XmarsOwed[u] = 0
      BY <2>2 DEF XmarsShare, XmarsOwed
    <3>2. /\ MulFloor(0, state.xmars_rewards_index) = 0
          /\ MulFloor(0, userInfo[u].reward_index) = 0
      BY <1>1, MulFloorZero DEF XmarsTypes
    <3> QED BY <3>1, <3>2
  <2>3. CASE userInfo[u].total_ust_locked # 0
    <3> DEFINE info == Provisioned(u)
    <3>1. /\ XmarsOwed[u] = XmarsDue(info, 0)
          /\ XmarsShare(u) = info.total_maust_share
          /\ info.reward_index = userInfo[u].reward_index
      <4>1. userInfo[u] \in UserRecords
        BY DEF TypeOK
      <4>2. info.reward_index = userInfo[u].reward_index
        BY <4>1 DEF Provisioned, UserRecords
      <4> QED BY <2>3, <4>2, ProvisionedShare DEF XmarsShare, XmarsOwed
    <3> HIDE DEF info
    <3> QED BY <2>1, <3>1 DEF XmarsDue, AccruedXmars
  <2> QED BY <2>2, <2>3
<1>4. CASE state.final_ust_locked = 0
  <2>1. \A u \in Users : XmarsOwed[u] = 0
    BY <1>3, <1>4
  <2>2. XmarsOwed \in [Users -> Nat]
    BY <2>1 DEF XmarsOwed
  <2> QED BY <1>1, <2>1, <2>2, TotalZero
<1>5. CASE state.final_ust_locked # 0
  <2>1. ASSUME NEW u \in Users
        PROVE  XmarsOwed[u] \in Nat /\ XmarsOwed[u] * Scale <= XmarsEarned[u] * 1
    <3>1. /\ XmarsShare(u) \in Nat /\ userInfo[u].reward_index \in Nat
          /\ state.xmars_rewards_index \in Nat /\ XmarsUnits(u) \in Nat
          /\ userInfo[u].reward_index <= state.xmars_rewards_index
      BY <1>1 DEF XmarsTypes, IndexInOrder
    <3>2. XmarsOwed[u] \in Nat /\ XmarsOwed[u] * Scale <= XmarsUnits(u)
      <4> DEFINE s    == XmarsShare(u)
                 from == userInfo[u].reward_index
                 to   == state.xmars_rewards_index
      <4>1. s \in Nat /\ from \in Nat /\ to \in Nat /\ from <= to
        BY <3>1
      <4>2. /\ XmarsOwed[u] = MulFloor(s, to) - MulFloor(s, from)
            /\ XmarsUnits(u) = EarnedUnits(s, from, to)
        BY <1>3, <1>5 DEF XmarsUnits
      <4> HIDE DEF s, from, to
      <4>3. /\ MulFloor(s, to) - MulFloor(s, from) \in Nat
            /\ (MulFloor(s, to) - MulFloor(s, from)) * Scale <= EarnedUnits(s, from, to)
        BY <4>1, EarnedCovers
      <4> QED BY <4>2, <4>3
    <3> QED BY <3>1, <3>2 DEF XmarsEarned
  <2>2. /\ XmarsOwed \in [Users -> Nat]
        /\ XmarsEarned \in [Users -> Nat] /\ Total(XmarsEarned) \in Nat
    BY <1>1, <2>1 DEF XmarsOwed, XmarsTypes
  <2>3. Total(XmarsOwed) * Scale <= Total(XmarsEarned) * 1
    BY <1>1, <2>1, <2>2, ScaleAssumption, TotalScale
  <2>4. Total(XmarsOwed) \in Nat /\ Total(XmarsEarned) <= balance.xmars * Scale
    BY <1>1, <1>2, <1>5, <2>2, TotalType DEF XmarsInv
  <2>5. Total(XmarsOwed) * Scale <= balance.xmars * Scale
    BY <1>1, <2>2, <2>3, <2>4, ScaleAssumption, ProductNat
  <2> QED BY <1>1, <2>4, <2>5, ScaleAssumption, ProductCancel
<1> QED BY <1>4, <1>5

\* What a step does to the xMARS, to the index and to the shares.
EarnsOn(u) ==
  \/ /\ userInfo'[u].reward_index = userInfo[u].reward_index
     /\ \/ /\ userInfo'[u].total_maust_share = userInfo[u].total_maust_share
           /\ userInfo'[u].total_ust_locked <= userInfo[u].total_ust_locked
        \/ /\ userInfo'[u].total_maust_share = ShareOf(u)
           /\ userInfo'[u].total_ust_locked = userInfo[u].total_ust_locked
  \/ userInfo'[u].reward_index = 0 /\ userInfo'[u].total_ust_locked = 0

XmarsStays ==
  /\ FinalsFixed
  /\ state'.xmars_rewards_index = state.xmars_rewards_index
  /\ balance'.xmars = balance.xmars
  /\ state'.total_maust_locked <= state.total_maust_locked
  /\ \A u \in Users : userInfo'[u].reward_index \in {0, userInfo[u].reward_index}
  /\ state.final_ust_locked # 0 /\ state'.total_maust_locked = state.total_maust_locked =>
       \A u \in Users : EarnsOn(u)

XmarsStarts ==
  /\ state.final_ust_locked = 0 /\ state'.final_ust_locked # 0
  /\ state'.xmars_rewards_index = state.xmars_rewards_index
  /\ state'.total_maust_locked = state'.final_maust_locked
  /\ userInfo' = userInfo

XmarsPaid(u, accrued) ==
  /\ FinalsFixed
  /\ userInfo[u].total_ust_locked # 0
  /\ accrued > 0 => state.final_maust_locked > 0
  /\ state'.xmars_rewards_index = XmarsIndexAfter(accrued)
  /\ state'.total_maust_locked <= state.total_maust_locked
  /\ \A v \in Users : v # u => userInfo'[v] = userInfo[v]
  /\ userInfo'[u].total_ust_locked = userInfo[u].total_ust_locked
  /\ userInfo'[u].reward_index
       = IF state.final_ust_locked = 0 THEN userInfo[u].reward_index
         ELSE XmarsIndexAfter(accrued)
  /\ state'.total_maust_locked = state.total_maust_locked =>
       userInfo'[u].total_maust_share = ShareOf(u)
  /\ balance'.xmars
       = balance.xmars + accrued
           - AccruedXmars(ShareOf(u), userInfo[u].reward_index, XmarsIndexAfter(accrued))

XmarsMoves ==
  XmarsStays \/ XmarsStarts \/ \E u \in Users, accrued \in Nat : XmarsPaid(u, accrued)

LEMMA ProvisionedIndex ==
  ASSUME TypeOK, NEW u \in Users
  PROVE  /\ Provisioned(u).reward_index = userInfo[u].reward_index
         /\ \A accrued :
              /\ XmarsDue(Provisioned(u), accrued)
                   = AccruedXmars(ShareOf(u), userInfo[u].reward_index,
                                  XmarsIndexAfter(accrued))
              /\ Settled(Provisioned(u), accrued).reward_index
                   = IF state.final_ust_locked = 0 THEN userInfo[u].reward_index
                     ELSE XmarsIndexAfter(accrued)
<1> DEFINE info == Provisioned(u)
<1>1. info \in UserRecords /\ userInfo[u] \in UserRecords
  BY ProvisionedType DEF TypeOK
<1>2. info.reward_index = userInfo[u].reward_index /\ info.total_maust_share = ShareOf(u)
  <2>1. info.reward_index = userInfo[u].reward_index
    BY <1>1 DEF Provisioned, UserRecords
  <2>2. Provisioned(u).total_maust_share = ShareOf(u)
    BY ProvisionedShare
  <2> HIDE DEF info
  <2> QED BY <2>1, <2>2 DEF info
<1> HIDE DEF info
<1>3. \A accrued : Settled(info, accrued).reward_index
                     = IF state.final_ust_locked = 0 THEN info.reward_index
                       ELSE XmarsIndexAfter(accrued)
  BY <1>1 DEF Settled, UserRecords
<1> QED BY <1>2, <1>3 DEF XmarsDue, info

\* A nuke that refunds nothing takes no share from anybody.
LEMMA NukeXmars == SafetyInv /\ NukeLockdrop => XmarsStays
<1> SUFFICES ASSUME SafetyInv, NukeLockdrop PROVE XmarsStays
  OBVIOUS
<1> DEFINE refunds == Total([v \in Nuked |-> NukedMaUst(v)])
           removed == {v \in NukeBatch : \/ v \notin Nuked
                                          \/ userInfo[v].total_ust_locked = NukedUst(v)}
           left(v) == [userInfo[v] EXCEPT !.total_ust_locked = @ - NukedUst(v),
                                          !.total_maust_share = @ - NukedMaUst(v),
                                          !.lockup_positions = {}]
<1>1. /\ userInfo' = [v \in Users |->
           IF v \in removed THEN NoUser ELSE IF v \in Nuked THEN left(v) ELSE userInfo[v]]
      /\ state' = [state EXCEPT !.total_maust_locked = @ - refunds]
      /\ balance' = [balance EXCEPT !.maust = @ - refunds]
  BY Zenon DEF NukeLockdrop
<1>2. /\ state \in StateRecords /\ balance \in BalanceRecords /\ refunds \in Nat
      /\ TypeOK /\ \A v \in Users : userInfo[v] \in UserRecords
  BY RefundsType DEF SafetyInv, TypeOK
<1>3. ASSUME NEW v \in Nuked, refunds = 0 PROVE NukedMaUst(v) = 0
  <2> DEFINE f == [w \in Nuked |-> NukedMaUst(w)]
  <2>1. Nuked \subseteq Users /\ IsFiniteSet(Nuked)
    <3>1. Nuked \subseteq Users
      BY <1>2 DEF Nuked, NukeBatch, TypeOK
    <3> QED BY <3>1, LockdropAssumption, FS_Subset
  <2>2. f \in [Nuked -> Nat] /\ f[v] = NukedMaUst(v) /\ NukedMaUst(v) \in Nat
    BY <1>2, <2>1, NukedType
  <2>3. Total(f) = 0
    BY <1>3
  <2> HIDE DEF f
  <2>4. f[v] <= Total(f)
    BY <2>1, <2>2, TotalUpdate
  <2> QED BY <2>2, <2>3, <2>4
<1>4. ASSUME NEW v \in Users
      PROVE  /\ left(v).reward_index = userInfo[v].reward_index
             /\ left(v).total_ust_locked <= userInfo[v].total_ust_locked
             /\ NukedMaUst(v) = 0 =>
                  left(v).total_maust_share = userInfo[v].total_maust_share
  <2>1. userInfo[v] \in UserRecords /\ NukedUst(v) \in Nat
    BY <1>2, NukedType
  <2> QED BY <2>1 DEF UserRecords
<1> HIDE DEF refunds, removed, left
<1>5. /\ FinalsFixed /\ state'.xmars_rewards_index = state.xmars_rewards_index
      /\ balance'.xmars = balance.xmars
      /\ state'.total_maust_locked = state.total_maust_locked - refunds
      /\ state.total_maust_locked \in Nat
  BY <1>1, <1>2 DEF FinalsFixed, StateRecords, BalanceRecords
<1>6. NoUser.reward_index = 0 /\ NoUser.total_ust_locked = 0
  BY DEF NoUser
<1>7. ASSUME NEW v \in Users
      PROVE  /\ userInfo'[v].reward_index \in {0, userInfo[v].reward_index}
             /\ refunds = 0 => EarnsOn(v)
  <2>1. CASE v \in removed
    BY <1>1, <1>6, <2>1 DEF EarnsOn
  <2>2. CASE v \notin removed /\ v \in Nuked
    <3>1. userInfo'[v] = left(v)
      BY <1>1, <2>2
    <3> QED BY <1>3, <1>4, <2>2, <3>1 DEF EarnsOn
  <2>3. CASE v \notin removed /\ v \notin Nuked
    <3>1. userInfo'[v] = userInfo[v] /\ userInfo[v].total_ust_locked \in Nat
      BY <1>1, <1>2, <2>3 DEF UserRecords
    <3> QED BY <3>1 DEF EarnsOn
  <2> QED BY <2>1, <2>2, <2>3
<1>8. state'.total_maust_locked = state.total_maust_locked => refunds = 0
  BY <1>2, <1>5
<1> QED BY <1>2, <1>5, <1>7, <1>8 DEF XmarsStays

LEMMA ClaimXmars ==
  ASSUME SafetyInv, NEW u \in Users, NEW accrued \in XmarsAccruals,
         ClaimAllowed(u, accrued), NEW refund \in Nat, NEW new,
         userInfo' = [userInfo EXCEPT ![u] = new],
         new.total_maust_share
           = Settled(Provisioned(u), accrued).total_maust_share - refund,
         new.total_ust_locked = Settled(Provisioned(u), accrued).total_ust_locked,
         new.reward_index = Settled(Provisioned(u), accrued).reward_index,
         FinalsFixed, state'.xmars_rewards_index = XmarsIndexAfter(accrued),
         state'.total_maust_locked = state.total_maust_locked - refund,
         balance'.xmars = BalanceAfterClaim(u, accrued).xmars
  PROVE  XmarsPaid(u, accrued) /\ accrued \in Nat
<1> DEFINE info == Settled(Provisioned(u), accrued)
<1>1. /\ TypeOK /\ state \in StateRecords /\ accrued \in Nat
      /\ balance \in BalanceRecords /\ state.total_maust_locked \in Nat
  BY LockdropAssumption DEF SafetyInv, TypeOK, StateRecords
<1>2. /\ userInfo'[u] = new
      /\ \A v \in Users : v # u => userInfo'[v] = userInfo[v]
  BY <1>1 DEF TypeOK
<1>3. /\ info.total_maust_share = ShareOf(u)
      /\ info.total_ust_locked = userInfo[u].total_ust_locked
      /\ info.reward_index = IF state.final_ust_locked = 0 THEN userInfo[u].reward_index
                             ELSE XmarsIndexAfter(accrued)
  BY <1>1, ProvisionedShare, ProvisionedIndex, ClaimKeepsPositions
<1>4. /\ new.total_maust_share = ShareOf(u) - refund
      /\ new.total_ust_locked = info.total_ust_locked
      /\ new.reward_index = info.reward_index
  BY <1>3, Zenon
<1> HIDE DEF info
<1>6. balance'.xmars
        = balance.xmars + accrued
            - AccruedXmars(ShareOf(u), userInfo[u].reward_index, XmarsIndexAfter(accrued))
  BY <1>1, ProvisionedIndex DEF BalanceAfterClaim, BalanceRecords
<1>7. userInfo[u].total_ust_locked # 0 /\ (accrued > 0 => state.final_maust_locked > 0)
  BY Zenon DEF ClaimAllowed
<1>8. /\ state'.total_maust_locked <= state.total_maust_locked
      /\ state'.total_maust_locked = state.total_maust_locked =>
           userInfo'[u].total_maust_share = ShareOf(u)
  <2>1. ShareOf(u) \in Nat
    BY <1>1, RefundsOfType
  <2>2. /\ state'.total_maust_locked <= state.total_maust_locked
        /\ state'.total_maust_locked = state.total_maust_locked => refund = 0
    BY <1>1
  <2>3. \A s \in Nat : s - 0 = s
    OBVIOUS
  <2>4. ASSUME refund = 0 PROVE userInfo'[u].total_maust_share = ShareOf(u)
    BY <1>2, <1>4, <2>1, <2>3, <2>4, Zenon
  <2> QED BY <2>2, <2>4
<1> QED BY <1>1, <1>2, <1>3, <1>4, <1>6, <1>7, <1>8 DEF XmarsPaid

LEMMA XmarsMovesNext == SafetyInv /\ [Next]_vars => XmarsMoves
<1> SUFFICES ASSUME SafetyInv, [Next]_vars PROVE XmarsMoves
  OBVIOUS
<1>1. /\ TypeOK /\ state \in StateRecords /\ balance \in BalanceRecords
      /\ userInfo \in [Users -> UserRecords]
      /\ \A u \in Users : /\ userInfo[u] \in UserRecords
                          /\ userInfo[u].total_ust_locked \in Nat
      /\ state.total_maust_locked \in Nat
  BY DEF SafetyInv, TypeOK, UserRecords, StateRecords
<1>2. ASSUME userInfo' = userInfo, FinalsFixed, balance'.xmars = balance.xmars,
             state'.xmars_rewards_index = state.xmars_rewards_index,
             state'.total_maust_locked = state.total_maust_locked
      PROVE  XmarsMoves
  BY <1>1, <1>2 DEF XmarsMoves, XmarsStays, EarnsOn
<1>3. CASE \/ Tick \/ UNCHANGED vars \/ EnableClaims
           \/ \E amount \in MarsAmounts : IncreaseMarsIncentives(amount)
  <2>1. /\ userInfo' = userInfo /\ balance'.xmars = balance.xmars
        /\ state'.xmars_rewards_index = state.xmars_rewards_index
        /\ state'.total_maust_locked = state.total_maust_locked /\ FinalsFixed
    BY <1>1, <1>3 DEF Tick, vars, EnableClaims, IncreaseMarsIncentives, FinalsFixed,
       StateRecords, BalanceRecords
  <2> QED BY <1>2, <2>1
<1>4. CASE AdminStep
  <2>1. ASSUME NEW sender, NEW addresses, NEW newOwner,
               UpdateConfig(sender, addresses, newOwner)
        PROVE  XmarsMoves
    BY <1>2, <2>1 DEF UpdateConfig, FinalsFixed
  <2>2. ASSUME NEW sender, NEW minted, DepositUstInRedBank(sender, minted)
        PROVE  XmarsStarts
    <3>1. /\ state.total_ust_locked \in Nat \ {0}
          /\ state'.final_ust_locked = state.total_ust_locked
          /\ userInfo' = userInfo
      BY <1>1, <2>2, RedBankTakesUst
    <3>2. state.final_ust_locked = 0
      BY <1>1, <2>2, <3>1 DEF DepositUstInRedBank, StateRecords, SafetyInv, RedBankOnce
    <3>3. /\ state'.xmars_rewards_index = state.xmars_rewards_index
          /\ state'.total_maust_locked = state'.final_maust_locked
      BY <1>1, <2>2 DEF DepositUstInRedBank, StateAfterRedBank, StateRecords
    <3> QED BY <3>1, <3>2, <3>3 DEF XmarsStarts
  <2> QED BY <1>4, <2>1, <2>2 DEF AdminStep, XmarsMoves
<1>5. CASE UserDelegates
  <2>1. PICK v \in Users, amount \in MarsAmounts : DepositMarsToAuction(v, amount)
    BY <1>5, Zenon DEF UserDelegates
  <2> DEFINE info == Provisioned(v)
             new == [info EXCEPT !.delegated_mars_incentives = @ + amount]
  <2>2. /\ userInfo' = [userInfo EXCEPT ![v] = new]
        /\ state' = [state EXCEPT !.total_mars_delegated = @ + amount]
        /\ balance' = [balance EXCEPT !.mars = @ - amount]
    BY <2>1, Zenon DEF DepositMarsToAuction
  <2>3. /\ info \in UserRecords /\ info.total_maust_share = ShareOf(v)
        /\ info.reward_index = userInfo[v].reward_index
        /\ info.total_ust_locked = userInfo[v].total_ust_locked
    BY <1>1, ProvisionedType, ProvisionedShare, ProvisionedIndex, ClaimKeepsPositions
  <2> HIDE DEF info
  <2>4. /\ new.total_maust_share = ShareOf(v)
        /\ new.reward_index = userInfo[v].reward_index
        /\ new.total_ust_locked = userInfo[v].total_ust_locked
    BY <2>3 DEF UserRecords
  <2> HIDE DEF new
  <2>5. \A u \in Users : userInfo'[u] = IF u = v THEN new ELSE userInfo[u]
    BY <1>1, <2>2
  <2>6. \A u \in Users : EarnsOn(u) /\ userInfo'[u].reward_index = userInfo[u].reward_index
    BY <1>1, <2>4, <2>5 DEF EarnsOn
  <2>7. /\ FinalsFixed /\ balance'.xmars = balance.xmars
        /\ state'.xmars_rewards_index = state.xmars_rewards_index
        /\ state'.total_maust_locked = state.total_maust_locked
    BY <1>1, <2>2 DEF FinalsFixed, StateRecords, BalanceRecords
  <2> QED BY <1>1, <2>6, <2>7 DEF XmarsMoves, XmarsStays
<1>6. CASE UserStep
  <2>1. ASSUME NEW v \in Users, NEW new, userInfo' = [userInfo EXCEPT ![v] = new],
               new.reward_index = userInfo[v].reward_index,
               now <= WithdrawEnd, FinalsFixed, balance'.xmars = balance.xmars,
               state'.xmars_rewards_index = state.xmars_rewards_index,
               state'.total_maust_locked = state.total_maust_locked
        PROVE  XmarsMoves
    <3>1. \A u \in Users : userInfo'[u] = IF u = v THEN new ELSE userInfo[u]
      BY <1>1, <2>1
    <3>2. \A u \in Users : userInfo'[u].reward_index \in {0, userInfo[u].reward_index}
      BY <2>1, <3>1
    <3>3. state.final_ust_locked = 0
      BY <1>1, <2>1, LockdropAssumption
         DEF SafetyInv, RedBankOnce, TypeOK, WithdrawEnd, DepositEnd
    <3> QED BY <1>1, <2>1, <3>2, <3>3 DEF XmarsMoves, XmarsStays
  <2>2. ASSUME NEW v \in Users, NEW d \in Durations, NEW amount, DepositUst(v, d, amount)
        PROVE  XmarsMoves
    <3>1. PICK positions :
            userInfo' = [userInfo EXCEPT ![v] =
              [userInfo[v] EXCEPT !.total_ust_locked = @ + amount,
                                  !.lockup_positions = positions]]
      BY <2>2, Zenon DEF DepositUst
    <3> DEFINE new == [userInfo[v] EXCEPT !.total_ust_locked = @ + amount,
                                          !.lockup_positions = positions]
    <3>2. userInfo' = [userInfo EXCEPT ![v] = new]
      BY <3>1
    <3>3. new.reward_index = userInfo[v].reward_index
      BY <1>1 DEF UserRecords
    <3> HIDE DEF new
    <3>4. /\ FinalsFixed /\ balance'.xmars = balance.xmars
          /\ state'.xmars_rewards_index = state.xmars_rewards_index
          /\ state'.total_maust_locked = state.total_maust_locked
      BY <1>1, <2>2 DEF DepositUst, FinalsFixed, StateRecords, BalanceRecords
    <3>5. now <= WithdrawEnd
      BY <1>1, <2>2, LockdropAssumption
         DEF DepositUst, IsDepositOpen, TypeOK, DepositEnd, WithdrawEnd
    <3> QED BY <2>1, <3>2, <3>3, <3>4, <3>5
  <2>3. ASSUME NEW v \in Users, NEW d \in Durations, NEW amount, WithdrawUst(v, d, amount)
        PROVE  XmarsMoves
    <3>1. PICK positions :
            userInfo' = [userInfo EXCEPT ![v] =
              [userInfo[v] EXCEPT !.total_ust_locked = @ - amount,
                                  !.lockup_positions = positions]]
      BY <2>3, Zenon DEF WithdrawUst
    <3> DEFINE new == [userInfo[v] EXCEPT !.total_ust_locked = @ - amount,
                                          !.lockup_positions = positions]
    <3>2. userInfo' = [userInfo EXCEPT ![v] = new]
      BY <3>1
    <3>3. new.reward_index = userInfo[v].reward_index
      BY <1>1 DEF UserRecords
    <3> HIDE DEF new
    <3>4. /\ FinalsFixed /\ balance'.xmars = balance.xmars
          /\ state'.xmars_rewards_index = state.xmars_rewards_index
          /\ state'.total_maust_locked = state.total_maust_locked
      BY <1>1, <2>3 DEF WithdrawUst, FinalsFixed, StateRecords, BalanceRecords
    <3>5. now <= WithdrawEnd
      BY <2>3 DEF WithdrawUst, IsWithdrawOpen
    <3> QED BY <2>1, <3>2, <3>3, <3>4, <3>5
  <2>4. ASSUME NEW v \in Users, NEW accrued \in XmarsAccruals, ClaimRewards(v, accrued)
        PROVE  XmarsMoves
    <3> DEFINE info == Settled(Provisioned(v), accrued)
    <3>1. /\ ClaimAllowed(v, accrued)
          /\ userInfo' = [userInfo EXCEPT ![v] = info]
          /\ state' = [state EXCEPT !.xmars_rewards_index = XmarsIndexAfter(accrued)]
          /\ balance' = BalanceAfterClaim(v, accrued)
      BY <2>4, Zenon DEF ClaimRewards
    <3>2. info \in UserRecords
      BY <1>1, <3>1, ClaimType
    <3> HIDE DEF info
    <3>3. /\ 0 \in Nat /\ info.total_maust_share = info.total_maust_share - 0
          /\ state'.total_maust_locked = state.total_maust_locked - 0
          /\ state'.xmars_rewards_index = XmarsIndexAfter(accrued) /\ FinalsFixed
          /\ balance'.xmars = BalanceAfterClaim(v, accrued).xmars
      BY <1>1, <3>1, <3>2 DEF UserRecords, StateRecords, FinalsFixed
    <3>4. XmarsPaid(v, accrued) /\ accrued \in Nat
      BY <3>1, <3>3, ClaimXmars, Zenon DEF info
    <3> QED BY <3>4 DEF XmarsMoves
  <2>5. ASSUME NEW v \in Users, NEW d \in Durations, NEW accrued \in XmarsAccruals,
               ClaimRewardsAndUnlock(v, d, accrued)
        PROVE  XmarsMoves
    <3> DEFINE refund == MaUstShare(lockup[<<v, d>>].ust_locked)
               info == Settled(Provisioned(v), accrued)
               positions == info.lockup_positions \ {<<v, d>>}
    <3>1. /\ ClaimAllowed(v, accrued)
          /\ userInfo' = [userInfo EXCEPT ![v] =
               [info EXCEPT !.total_maust_share = @ - refund,
                            !.lockup_positions = positions]]
          /\ state' = [state EXCEPT !.xmars_rewards_index = XmarsIndexAfter(accrued),
                                    !.total_maust_locked = @ - refund]
          /\ balance' = [BalanceAfterClaim(v, accrued) EXCEPT !.maust = @ - refund]
      BY <2>5, Zenon DEF ClaimRewardsAndUnlock
    <3>2. refund \in Nat
      <4>1. <<v, d>> \in LockupIds
        BY DEF LockupIds
      <4>2. lockup[<<v, d>>].ust_locked \in Nat
        BY <1>1, <4>1 DEF TypeOK, LockupRecords
      <4> QED BY <1>1, <4>2, MaUstShareType
    <3>3. balance'.xmars = BalanceAfterClaim(v, accrued).xmars
      <4>1. BalanceAfterClaim(v, accrued) \in BalanceRecords
        BY <1>1, <3>1, ClaimType
      <4> HIDE DEF refund
      <4> QED BY <3>1, <4>1 DEF BalanceRecords
    <3> DEFINE new == [info EXCEPT !.total_maust_share = @ - refund,
                                   !.lockup_positions = positions]
    <3> HIDE DEF refund, positions
    <3>4. info \in UserRecords
      BY <1>1, <3>1, ClaimType
    <3> HIDE DEF info
    <3>5. /\ new.total_maust_share = info.total_maust_share - refund
          /\ new.total_ust_locked = info.total_ust_locked
          /\ new.reward_index = info.reward_index
      BY <3>4 DEF UserRecords
    <3>6. userInfo' = [userInfo EXCEPT ![v] = new]
      BY <3>1
    <3> HIDE DEF new
    <3>7. /\ state'.total_maust_locked = state.total_maust_locked - refund
          /\ state'.xmars_rewards_index = XmarsIndexAfter(accrued) /\ FinalsFixed
      BY <1>1, <3>1 DEF StateRecords, FinalsFixed
    <3>8. XmarsPaid(v, accrued) /\ accrued \in Nat
      BY <3>1, <3>2, <3>3, <3>5, <3>6, <3>7, ClaimXmars, Zenon DEF info
    <3> QED BY <3>8 DEF XmarsMoves
  <2> QED BY <1>6, <2>2, <2>3, <2>4, <2>5 DEF UserStep
<1>7. CASE NukeLockdrop
  BY <1>7, NukeXmars DEF XmarsMoves
<1> QED BY <1>3, <1>4, <1>5, <1>6, <1>7 DEF Next

LEMMA SharesAreSame == FinalsFixed => \A ust : MaUstShare(ust)' = MaUstShare(ust)
BY DEF FinalsFixed, MaUstShare

LEMMA EarnedOfNothing ==
  ASSUME NEW from \in Nat, NEW to \in Nat PROVE EarnedUnits(0, from, to) = 0
<1>1. MulFloor(0, from) = 0
  BY MulFloorZero
<1> QED BY <1>1, ScaleAssumption DEF EarnedUnits

\* Nobody's share grows while he does not claim, and no share that has earned
\* something is computed anew.
LEMMA EarnsOnWithout ==
  ASSUME TypeOK, TypeOK', FinalsFixed, NEW u \in Users, EarnsOn(u),
         userInfo[u].total_maust_share = 0 =>
           userInfo[u].reward_index = 0 \/ XmarsShare(u) = 0
  PROVE  /\ \/ /\ XmarsShare(u)' = XmarsShare(u)
               /\ userInfo'[u].reward_index = userInfo[u].reward_index
            \/ XmarsShare(u)' = 0
            \/ /\ userInfo[u].reward_index = 0 /\ userInfo'[u].reward_index = 0
               /\ XmarsShare(u)' <= XmarsShare(u)
         /\ userInfo'[u].total_maust_share = 0 =>
              userInfo'[u].reward_index = 0 \/ XmarsShare(u)' = 0
<1> DEFINE sh == userInfo[u].total_maust_share   sn == userInfo'[u].total_maust_share
           t  == userInfo[u].total_ust_locked    tn == userInfo'[u].total_ust_locked
           i  == userInfo[u].reward_index        in == userInfo'[u].reward_index
           m  == MaUstShare(t)                   mn == MaUstShare(tn)
           S  == XmarsShare(u)                   Sn == XmarsShare(u)'
<1>1. /\ sh \in Nat /\ sn \in Nat /\ t \in Nat /\ tn \in Nat /\ i \in Nat /\ in \in Nat
      /\ state \in StateRecords
  BY DEF TypeOK, UserRecords
<1>2. m \in Nat /\ mn \in Nat
  BY <1>1, MaUstShareType
<1>3. tn <= t => mn <= m
  BY <1>1, MaUstShareMono
<1>4. S = IF t = 0 THEN 0 ELSE IF sh = 0 THEN m ELSE sh
  BY DEF XmarsShare, ShareOf
<1>5. Sn = IF tn = 0 THEN 0 ELSE IF sn = 0 THEN mn ELSE sn
  BY SharesAreSame DEF XmarsShare, ShareOf
<1>6. \/ in = i /\ sn = sh /\ tn <= t
      \/ in = i /\ sn = (IF sh = 0 THEN m ELSE sh) /\ tn = t
      \/ in = 0 /\ tn = 0
  BY DEF EarnsOn, ShareOf
<1>7. sh = 0 => i = 0 \/ S = 0
  OBVIOUS
<1>8. tn = t => mn = m
  OBVIOUS
<1> SUFFICES /\ \/ Sn = S /\ in = i
                \/ Sn = 0
                \/ i = 0 /\ in = 0 /\ Sn <= S
             /\ sn = 0 => in = 0 \/ Sn = 0
  OBVIOUS
<1> HIDE DEF sh, sn, t, tn, i, in, m, mn, S, Sn
<1>9. CASE in = i /\ sn = sh /\ tn <= t
  <2>1. CASE tn = 0
    BY <1>5, <1>9, <2>1
  <2>2. CASE tn # 0 /\ sh # 0
    <3>1. t # 0
      BY <1>1, <1>9, <2>2
    <3> QED BY <1>4, <1>5, <1>9, <2>2, <3>1
  <2>3. CASE tn # 0 /\ sh = 0
    <3>1. t # 0 /\ mn <= m
      BY <1>1, <1>3, <1>9, <2>3
    <3>2. S = m /\ Sn = mn
      BY <1>4, <1>5, <1>9, <2>3, <3>1
    <3>3. i = 0 \/ m = 0
      BY <1>7, <2>3, <3>2
    <3>4. m = 0 => mn = 0
      BY <1>2, <3>1
    <3> QED BY <1>9, <3>1, <3>2, <3>3, <3>4
  <2> QED BY <2>1, <2>2, <2>3
<1>10. CASE in = i /\ sn = (IF sh = 0 THEN m ELSE sh) /\ tn = t
  BY <1>1, <1>2, <1>4, <1>5, <1>7, <1>8, <1>10
<1>11. CASE in = 0 /\ tn = 0
  BY <1>5, <1>11
<1> QED BY <1>6, <1>9, <1>10, <1>11

LEMMA EarnedWithout ==
  ASSUME TypeOK, TypeOK', FinalsFixed, IndexInOrder, IndexInOrder',
         state'.xmars_rewards_index = state.xmars_rewards_index,
         NEW u \in Users, EarnsOn(u),
         userInfo[u].total_maust_share = 0 =>
           userInfo[u].reward_index = 0 \/ XmarsShare(u) = 0
  PROVE  XmarsShare(u)' <= XmarsShare(u) /\ XmarsUnits(u)' <= XmarsUnits(u)
<1> DEFINE i == userInfo[u].reward_index        in == userInfo'[u].reward_index
           S == XmarsShare(u)                   Sn == XmarsShare(u)'
           I == state.xmars_rewards_index
<1>1. /\ S \in Nat /\ i \in Nat /\ I \in Nat /\ i <= I /\ XmarsUnits(u) \in Nat
  BY XmarsTyped DEF XmarsTypes, IndexInOrder
<1>2. Sn \in Nat /\ in \in Nat
  <2>1. XmarsTypes'
    BY XmarsTyped, PTL
  <2> QED BY <2>1 DEF XmarsTypes
<1>3. XmarsUnits(u) = EarnedUnits(S, i, I) /\ XmarsUnits(u)' = EarnedUnits(Sn, in, I)
  BY DEF XmarsUnits, EarnedUnits
<1>4. \/ Sn = S /\ in = i
      \/ Sn = 0
      \/ i = 0 /\ in = 0 /\ Sn <= S
  BY EarnsOnWithout
<1> SUFFICES Sn <= S /\ EarnedUnits(Sn, in, I) <= XmarsUnits(u)
  BY <1>3
<1> HIDE DEF i, in, S, Sn, I
<1>5. CASE Sn = S /\ in = i
  BY <1>1, <1>3, <1>5
<1>6. CASE Sn = 0
  <2>1. EarnedUnits(Sn, in, I) = 0
    BY <1>1, <1>2, <1>6, EarnedOfNothing
  <2> QED BY <1>1, <1>6, <2>1
<1>7. CASE i = 0 /\ in = 0 /\ Sn <= S
  <2>1. EarnedUnits(Sn, in, I) = Sn * I /\ XmarsUnits(u) = S * I
    BY <1>1, <1>2, <1>3, <1>7, EarnedFromZero
  <2>2. Sn * I <= S * I
    BY <1>1, <1>2, <1>7, ProductMono
  <2> QED BY <1>7, <2>1, <2>2
<1> QED BY <1>4, <1>5, <1>6, <1>7

LEMMA XmarsStaysNext ==
  TypeOK /\ TypeOK' /\ XmarsInv /\ XmarsStays => XmarsInv'
<1> SUFFICES ASSUME TypeOK, TypeOK', XmarsInv, XmarsStays PROVE XmarsInv'
  OBVIOUS
<1>1. /\ FinalsFixed /\ state'.xmars_rewards_index = state.xmars_rewards_index
      /\ balance'.xmars = balance.xmars
      /\ state'.final_ust_locked = state.final_ust_locked
      /\ state'.final_maust_locked = state.final_maust_locked
      /\ state'.total_maust_locked <= state.total_maust_locked
      /\ state.total_maust_locked <= state.final_maust_locked
      /\ state.total_maust_locked \in Nat /\ state'.total_maust_locked \in Nat
      /\ state.final_maust_locked \in Nat /\ IndexInOrder
  BY DEF XmarsStays, FinalsFixed, XmarsInv, TypeOK, StateRecords
<1>2. IndexInOrder'
  BY <1>1 DEF XmarsStays, IndexInOrder, TypeOK, UserRecords, StateRecords
<1>3. state'.total_maust_locked <= state'.final_maust_locked
  BY <1>1
<1>4. ASSUME state'.final_ust_locked # 0, NoneLeft'
      PROVE  /\ Total(XmarsShares') <= state'.final_maust_locked
             /\ Total(XmarsEarned') <= balance'.xmars * Scale
             /\ \A u \in Users :
                  userInfo'[u].total_maust_share = 0 =>
                    userInfo'[u].reward_index = 0 \/ XmarsShare(u)' = 0
  <2>1. state'.total_maust_locked = state.total_maust_locked /\ NoneLeft
    BY <1>1, <1>4 DEF NoneLeft
  <2>2. /\ Total(XmarsShares) <= state.final_maust_locked
        /\ Total(XmarsEarned) <= balance.xmars * Scale
        /\ \A u \in Users :
             /\ EarnsOn(u)
             /\ userInfo[u].total_maust_share = 0 =>
                  userInfo[u].reward_index = 0 \/ XmarsShare(u) = 0
    BY <1>1, <1>4, <2>1 DEF XmarsInv, XmarsStays
  <2>3. \A u \in Users :
          /\ XmarsShare(u)' <= XmarsShare(u) /\ XmarsUnits(u)' <= XmarsUnits(u)
          /\ userInfo'[u].total_maust_share = 0 =>
               userInfo'[u].reward_index = 0 \/ XmarsShare(u)' = 0
    BY <1>1, <1>2, <2>2, EarnsOnWithout, EarnedWithout
  <2>4. XmarsTypes /\ XmarsTypes' /\ IsFiniteSet(Users)
    <3>1. XmarsTypes'
      BY <1>2, XmarsTyped, PTL
    <3> QED BY <1>1, <3>1, XmarsTyped, LockdropAssumption
  <2>5. /\ \A u \in Users : XmarsShares'[u] <= XmarsShares[u]
        /\ \A u \in Users : XmarsEarned'[u] <= XmarsEarned[u]
    BY <2>3 DEF XmarsShares, XmarsEarned
  <2>6. /\ XmarsShares \in [Users -> Nat] /\ XmarsShares' \in [Users -> Nat]
        /\ XmarsEarned \in [Users -> Nat] /\ XmarsEarned' \in [Users -> Nat]
        /\ Total(XmarsShares) \in Nat /\ Total(XmarsShares') \in Nat
        /\ Total(XmarsEarned) \in Nat /\ Total(XmarsEarned') \in Nat
    BY <2>4 DEF XmarsTypes
  <2>7. /\ Total(XmarsShares') <= Total(XmarsShares)
        /\ Total(XmarsEarned') <= Total(XmarsEarned)
    BY <2>4, <2>5, <2>6, TotalMono
  <2>8. balance.xmars * Scale \in Nat
    BY ScaleAssumption, ProductNat DEF TypeOK, BalanceRecords
  <2> QED BY <1>1, <2>2, <2>3, <2>6, <2>7, <2>8
<1>5. state'.final_ust_locked = 0 =>
        state'.xmars_rewards_index = 0 /\ state'.final_maust_locked = 0
  BY <1>1 DEF XmarsInv
<1> QED BY <1>2, <1>3, <1>4, <1>5 DEF XmarsInv

\* What the index gains from a claim is covered by the xMARS the claim brings.
LEMMA IndexGain ==
  ASSUME state \in StateRecords, NEW accrued \in Nat
  PROVE  \E gain \in Nat :
           /\ XmarsIndexAfter(accrued) = state.xmars_rewards_index + gain
           /\ gain * state.total_maust_locked <= accrued * Scale
<1> DEFINE T == state.total_maust_locked
           I == state.xmars_rewards_index
<1>1. T \in Nat /\ I \in Nat /\ accrued * Scale \in Nat
  BY ScaleAssumption, ProductNat DEF StateRecords
<1>2. CASE accrued = 0 \/ T = 0
  <2>1. XmarsIndexAfter(accrued) = I
    BY <1>2 DEF XmarsIndexAfter
  <2> HIDE DEF T, I
  <2>2. 0 \in Nat /\ I = I + 0 /\ 0 * T = 0
    BY <1>1
  <2>3. XmarsIndexAfter(accrued) = I + 0 /\ 0 * T <= accrued * Scale
    BY <1>1, <2>1, <2>2
  <2> QED BY <2>2, <2>3 DEF I, T
<1>3. CASE accrued # 0 /\ T # 0
  <2>1. XmarsIndexAfter(accrued) = I + FromRatio(accrued, T)
    BY <1>3 DEF XmarsIndexAfter
  <2>2. FromRatio(accrued, T) \in Nat /\ FromRatio(accrued, T) * T <= accrued * Scale
    BY <1>1, <1>3, FromRatioBound
  <2> QED BY <2>1, <2>2
<1> QED BY <1>2, <1>3

LEMMA XmarsPaidNext ==
  ASSUME TypeOK, TypeOK', XmarsInv, NEW u \in Users, NEW accrued \in Nat,
         XmarsPaid(u, accrued)
  PROVE  XmarsInv'
<1> DEFINE I  == state.xmars_rewards_index
           In == state'.xmars_rewards_index
           i  == userInfo[u].reward_index
           S  == XmarsShare(u)
           due == MulFloor(S, In) - MulFloor(S, i)
<1>1. /\ FinalsFixed /\ IndexInOrder /\ XmarsTypes /\ IsFiniteSet(Users)
      /\ state \in StateRecords /\ state' \in StateRecords
      /\ balance.xmars \in Nat /\ balance'.xmars \in Nat
      /\ state'.final_ust_locked = state.final_ust_locked
      /\ state'.final_maust_locked = state.final_maust_locked
      /\ state'.total_maust_locked <= state.total_maust_locked
      /\ state.total_maust_locked <= state.final_maust_locked
      /\ state.total_maust_locked \in Nat /\ state'.total_maust_locked \in Nat
      /\ state.final_maust_locked \in Nat
      /\ In = XmarsIndexAfter(accrued)
      /\ userInfo[u].total_ust_locked # 0
  BY XmarsTyped, LockdropAssumption
     DEF XmarsPaid, FinalsFixed, XmarsInv, TypeOK, StateRecords, BalanceRecords
<1>2. PICK gain \in Nat : In = I + gain /\ gain * state.total_maust_locked <= accrued * Scale
  BY <1>1, IndexGain
<1>3. state.final_ust_locked = 0 => I = 0 /\ In = 0 /\ state.final_maust_locked = 0
  <2>1. state.final_ust_locked = 0 => accrued = 0
    BY DEF XmarsInv, XmarsPaid
  <2>2. XmarsIndexAfter(0) = I
    BY DEF XmarsIndexAfter
  <2> QED BY <1>1, <2>1, <2>2 DEF XmarsInv
<1>4. I \in Nat /\ In \in Nat /\ I <= In /\ i \in Nat /\ i <= I /\ S \in Nat
  BY <1>1, <1>2 DEF XmarsTypes, IndexInOrder
<1>5. /\ \A v \in Users : v # u => userInfo'[v] = userInfo[v]
      /\ userInfo'[u].reward_index = IF state.final_ust_locked = 0 THEN i ELSE In
  BY <1>1 DEF XmarsPaid
<1>6. IndexInOrder'
  <2> SUFFICES ASSUME NEW v \in Users PROVE userInfo'[v].reward_index <= In
    BY DEF IndexInOrder
  <2>1. userInfo[v].reward_index \in Nat /\ userInfo[v].reward_index <= I
    BY <1>1 DEF XmarsTypes, IndexInOrder
  <2> HIDE DEF I, In, i
  <2> QED BY <1>4, <1>5, <2>1
<1>7. SUFFICES ASSUME state'.final_ust_locked # 0, NoneLeft'
               PROVE  /\ Total(XmarsShares') <= state'.final_maust_locked
                      /\ Total(XmarsEarned') <= balance'.xmars * Scale
                      /\ \A v \in Users :
                           userInfo'[v].total_maust_share = 0 =>
                             userInfo'[v].reward_index = 0 \/ XmarsShare(v)' = 0
  BY <1>1, <1>3, <1>6 DEF XmarsInv
<1>8. /\ state'.total_maust_locked = state.total_maust_locked /\ NoneLeft
      /\ state.total_maust_locked = state.final_maust_locked
      /\ state.final_ust_locked # 0
  BY <1>1, <1>7 DEF NoneLeft
<1>9. /\ Total(XmarsShares) <= state.final_maust_locked
      /\ Total(XmarsEarned) <= balance.xmars * Scale
      /\ \A v \in Users :
           userInfo[v].total_maust_share = 0 =>
             userInfo[v].reward_index = 0 \/ XmarsShare(v) = 0
  BY <1>8 DEF XmarsInv
<1>10. /\ userInfo'[u].total_maust_share = ShareOf(u)
       /\ userInfo'[u].total_ust_locked = userInfo[u].total_ust_locked
       /\ S = ShareOf(u)
       /\ balance'.xmars = balance.xmars + accrued - due
       /\ due \in Nat
  <2>1. /\ userInfo'[u].total_maust_share = ShareOf(u)
        /\ userInfo'[u].total_ust_locked = userInfo[u].total_ust_locked
        /\ balance'.xmars = balance.xmars + accrued - AccruedXmars(ShareOf(u), i, In)
    BY <1>1, <1>8 DEF XmarsPaid
  <2>2. S = ShareOf(u)
    BY <1>1 DEF XmarsShare
  <2>3. AccruedXmars(S, i, In) = due
    BY <1>8 DEF AccruedXmars
  <2>4. due \in Nat
    <3> HIDE DEF S, i, In, I
    <3>1. i <= In
      BY <1>4
    <3> QED BY <1>4, <3>1, EarnedCovers
  <2> QED BY <2>1, <2>2, <2>3, <2>4
<1>11. \A v \in Users : XmarsShare(v)' = XmarsShare(v)
  <2>1. \A ust : MaUstShare(ust)' = MaUstShare(ust)
    BY <1>1, SharesAreSame
  <2>2. \A v \in Users : v # u => XmarsShare(v)' = XmarsShare(v)
    BY <1>5, <2>1 DEF XmarsShare, ShareOf
  <2>3. XmarsShare(u)' = XmarsShare(u)
    BY <1>1, <1>10, <2>1 DEF XmarsShare, ShareOf
  <2> QED BY <2>2, <2>3
<1>12. ASSUME NEW v \in Users, userInfo'[v].total_maust_share = 0
       PROVE  userInfo'[v].reward_index = 0 \/ XmarsShare(v)' = 0
  <2>1. CASE v = u
    BY <1>10, <1>11, <1>12, <2>1
  <2>2. CASE v # u
    BY <1>5, <1>9, <1>11, <1>12, <2>2
  <2> QED BY <2>1, <2>2
<1>13. Total(XmarsShares') <= state'.final_maust_locked
  <2>1. XmarsShares' = XmarsShares
    BY <1>11 DEF XmarsShares
  <2> QED BY <1>1, <1>9, <2>1
<1>14. Total(XmarsEarned') <= balance'.xmars * Scale
  <2> DEFINE f == XmarsShares
             g == XmarsEarned
             n == XmarsEarned'
             D == [v \in Users |-> f[v] * gain]
             H == [v \in Users |-> g[v] + D[v]]
  <2>1. /\ f \in [Users -> Nat] /\ g \in [Users -> Nat] /\ n \in [Users -> Nat]
        /\ Total(f) \in Nat /\ Total(g) \in Nat /\ Total(n) \in Nat
    <3>1. XmarsTypes'
      BY <1>6, XmarsTyped, PTL
    <3> QED BY <1>1, <3>1 DEF XmarsTypes
  <2>2. ASSUME NEW v \in Users
        PROVE  /\ g[v] + f[v] * gain
                    = EarnedUnits(f[v], userInfo[v].reward_index, In)
               /\ n[v] = EarnedUnits(f[v], userInfo'[v].reward_index, In)
               /\ userInfo[v].reward_index \in Nat /\ userInfo[v].reward_index <= I
    <3> DEFINE s    == XmarsShare(v)
               from == userInfo[v].reward_index
    <3>1. s \in Nat /\ from \in Nat /\ from <= I
      BY <1>1 DEF XmarsTypes, IndexInOrder
    <3>2. f[v] = s /\ g[v] = EarnedUnits(s, from, I)
      BY DEF XmarsShares, XmarsEarned, XmarsUnits
    <3>3. n[v] = EarnedUnits(s, userInfo'[v].reward_index, In)
      BY <1>11 DEF XmarsEarned, XmarsUnits, EarnedUnits
    <3> HIDE DEF s, from, I, In, f, g, n
    <3>4. I \in Nat /\ gain \in Nat /\ In \in Nat /\ In = I + gain
      BY <1>2, <1>4
    <3>5. EarnedUnits(s, from, In) = EarnedUnits(s, from, I) + s * gain
      <4> DEFINE read == Scale * MulFloor(s, from)
      <4>1. read \in Nat
        BY <3>1, MulFloorBound, ProductNat, ScaleAssumption
      <4>2. EarnedUnits(s, from, In) = s * In - read
            /\ EarnedUnits(s, from, I) = s * I - read
        BY Zenon DEF EarnedUnits
      <4> HIDE DEF read
      <4>3. /\ s * In = s * I + s * gain
            /\ s * In \in Nat /\ s * I \in Nat /\ s * gain \in Nat
        BY <3>1, <3>4, ProductNat
      <4> QED BY <4>1, <4>2, <4>3
    <3> QED BY <1>2, <3>1, <3>2, <3>3, <3>5 DEF from
  <2>3. f[u] = S
    BY DEF XmarsShares
  <2> HIDE DEF f, g, n, S, I, In, i
  <2>4. /\ D \in [Users -> Nat] /\ H \in [Users -> Nat]
        /\ \A v \in Users : D[v] = f[v] * gain /\ H[v] = g[v] + f[v] * gain
    BY <2>1, ProductNat
  <2>5. Total(H) = Total(g) + Total(D)
    BY <1>1, <2>1, <2>4, TotalSum
  <2> HIDE DEF D, H
  <2>6. Total(D) \in Nat /\ Total(H) \in Nat
    BY <1>1, <2>4, TotalType
  <2>7. Total(D) <= Total(f) * gain
    <3>1. CASE gain = 0
      <4>1. \A v \in Users : D[v] = 0
        BY <2>1, <2>4, <3>1
      <4>2. Total(D) = 0 /\ Total(f) * gain \in Nat
        BY <2>1, <2>4, <4>1, TotalZero, ProductNat
      <4> QED BY <4>2
    <3>2. CASE gain # 0
      <4>1. \A v \in Users : D[v] * 1 <= f[v] * gain
        BY <2>4
      <4>2. Total(D) * 1 <= Total(f) * gain
        BY <1>1, <1>2, <2>1, <2>4, <3>2, <4>1, TotalScale
      <4> QED BY <2>6, <4>2
    <3> QED BY <3>1, <3>2
  <2>8. Total(D) <= accrued * Scale
    <3>1. Total(f) * gain <= gain * state.total_maust_locked
      <4>1. Total(f) <= state.total_maust_locked
        BY <1>8, <1>9 DEF f
      <4> QED BY <1>1, <1>2, <2>1, <4>1, ProductMono
    <3>2. /\ Total(f) * gain \in Nat /\ gain * state.total_maust_locked \in Nat
          /\ accrued * Scale \in Nat
      BY <1>1, <1>2, <2>1, ScaleAssumption, ProductNat
    <3> QED BY <1>2, <2>6, <2>7, <3>1, <3>2
  <2>9. due \in Nat /\ Scale * due \in Nat
    BY <1>10, ScaleAssumption, ProductNat DEF S, In, i
  <2>10. n[u] + Scale * due = H[u]
    <3>1. H[u] = EarnedUnits(S, i, In)
      BY <2>2, <2>3, <2>4 DEF i
    <3>2. n[u] = EarnedUnits(S, In, In)
      BY <1>5, <1>8, <2>2, <2>3
    <3>3. i <= In
      BY <1>4
    <3>4. EarnedUnits(S, In, In) + Scale * due = EarnedUnits(S, i, In)
      BY <1>4, <3>3, EarnedCovers
    <3> QED BY <3>1, <3>2, <3>4
  <2>11. \A v \in Users : v # u => n[v] = H[v]
    BY <1>5, <2>2, <2>4
  <2>12. Total(n) + Scale * due <= Total(H)
    <3>1. n[u] + Scale * due <= H[u] /\ \A v \in Users : v # u => n[v] <= H[v]
      BY <2>1, <2>4, <2>10, <2>11
    <3> QED BY <1>1, <2>1, <2>4, <2>9, <3>1, TotalDrop
  <2>13. balance'.xmars * Scale = balance.xmars * Scale + accrued * Scale - Scale * due
    <3>1. balance'.xmars = balance.xmars + accrued - due
      BY <1>10 DEF S, In, i
    <3> HIDE DEF due
    <3> QED BY <1>1, <2>9, <3>1, ScaleAssumption
  <2>14. Total(g) <= balance.xmars * Scale
    BY <1>9 DEF g
  <2>15. balance.xmars * Scale \in Nat /\ accrued * Scale \in Nat
    BY <1>1, ScaleAssumption, ProductNat
  <2> HIDE DEF due
  <2>16. Total(n) <= balance'.xmars * Scale
    BY <2>1, <2>5, <2>6, <2>8, <2>9, <2>12, <2>13, <2>14, <2>15
  <2> QED BY <2>16 DEF n
<1> QED BY <1>12, <1>13, <1>14

LEMMA XmarsStartsNext ==
  SafetyInv /\ SafetyInv' /\ ShareInv /\ XmarsInv /\ XmarsStarts => XmarsInv'
<1> SUFFICES ASSUME SafetyInv, SafetyInv', ShareInv, XmarsInv, XmarsStarts
             PROVE  XmarsInv'
  OBVIOUS
<1> DEFINE F == state'.final_ust_locked
           M == state'.final_maust_locked
<1>1. /\ TypeOK' /\ F \in Nat \ {0} /\ M \in Nat /\ balance'.xmars \in Nat
      /\ state' \in StateRecords /\ IsFiniteSet(Users)
  BY LockdropAssumption
     DEF SafetyInv, TypeOK, StateRecords, BalanceRecords, XmarsStarts
<1>2. /\ state'.xmars_rewards_index = 0 /\ userInfo' = userInfo
      /\ state'.total_maust_locked = M
      /\ \A u \in Users : /\ userInfo'[u].total_maust_share = 0
                          /\ userInfo'[u].reward_index = 0
  BY DEF XmarsStarts, XmarsInv, IndexInOrder, ShareInv, SafetyInv, TypeOK, UserRecords
<1>3. IndexInOrder'
  BY <1>2 DEF IndexInOrder
<1>4. XmarsTypes'
  BY <1>1, <1>3, XmarsTyped, PTL
<1>5. Total(XmarsShares') <= M
  <2> DEFINE f == UserTotals'
             g == XmarsShares'
  <2>1. f \in [Users -> Nat] /\ g \in [Users -> Nat]
    <3>1. \A u \in Users : userInfo'[u].total_ust_locked \in Nat
      BY <1>1 DEF TypeOK, UserRecords
    <3> QED BY <1>4, <3>1 DEF UserTotals, XmarsTypes
  <2>2. Total(f) <= F
    BY <1>1 DEF SafetyInv, UstWithinPrincipal, Principal
  <2>3. ASSUME NEW u \in Users PROVE g[u] = MulFloor(M, FromRatio(f[u], F))
    <3>1. MaUstShare(0)' = 0
      <4>1. (state \in StateRecords => MaUstShare(0) = 0)'
        BY NoShareOfNothing, PTL
      <4> QED BY <1>1, <4>1
    <3>2. f[u] = userInfo'[u].total_ust_locked
      BY DEF UserTotals
    <3>3. MulFloor(M, FromRatio(0, F)) = 0
      BY <1>1, <3>1 DEF MaUstShare
    <3>4. g[u] = IF f[u] = 0 THEN 0 ELSE MulFloor(M, FromRatio(f[u], F))
      BY <1>1, <1>2, <3>2 DEF XmarsShares, XmarsShare, ShareOf, MaUstShare
    <3> QED BY <3>3, <3>4
  <2> HIDE DEF f, g, F, M
  <2>4. Total(g) <= MulFloor(M, FromRatio(F, F))
    BY <1>1, <2>1, <2>2, <2>3, SharesWithin
  <2>5. MulFloor(M, FromRatio(F, F)) \in Nat /\ MulFloor(M, FromRatio(F, F)) * F <= F * M
    BY <1>1, ShareBound
  <2>6. MulFloor(M, FromRatio(F, F)) <= M
    <3> DEFINE q == MulFloor(M, FromRatio(F, F))
    <3>1. q * F <= M * F
      BY <1>1, <2>5
    <3> HIDE DEF q
    <3> QED BY <1>1, <2>5, <3>1, ProductCancel DEF q
  <2>7. Total(g) \in Nat
    BY <1>1, <2>1, TotalType
  <2> QED BY <1>1, <2>4, <2>5, <2>6, <2>7 DEF g
<1>6. Total(XmarsEarned') <= balance'.xmars * Scale
  <2>1. ASSUME NEW u \in Users PROVE XmarsEarned'[u] = 0
    <3>1. XmarsShare(u)' \in Nat
      BY <1>4 DEF XmarsTypes
    <3>2. XmarsEarned'[u] = EarnedUnits(XmarsShare(u)', 0, 0)
      BY <1>2 DEF XmarsEarned, XmarsUnits, EarnedUnits
    <3>3. XmarsEarned'[u] = XmarsShare(u)' * 0
      BY <3>1, <3>2, EarnedFromZero
    <3> QED BY <3>1, <3>3
  <2>2. Total(XmarsEarned') = 0
    BY <1>4, <2>1, TotalZero DEF XmarsTypes
  <2> QED BY <1>1, <2>2, ScaleAssumption, ProductNat
<1> QED BY <1>1, <1>2, <1>3, <1>5, <1>6 DEF XmarsInv

LEMMA XmarsNext ==
  SafetyInv /\ SafetyInv' /\ ShareInv /\ XmarsInv /\ [Next]_vars => XmarsInv'
<1>1. SafetyInv => TypeOK
  BY DEF SafetyInv
<1>2. SafetyInv' => TypeOK'
  BY DEF SafetyInv
<1> QED BY <1>1, <1>2, XmarsMovesNext, XmarsStaysNext, XmarsStartsNext, XmarsPaidNext
        DEF XmarsMoves

(* The index of no user runs ahead of the contract's; and until a first position
   leaves, the xMARS held covers what all users are owed, whoever claims when and
   although every user rounds his own two readings of the index. *)
THEOREM XmarsIsSolvent == Spec => []XmarsSolvent
<1>1. Init => SafetyInv /\ ShareInv /\ XmarsInv
  <2>1. Init => ShareInv /\ XmarsInv
    BY DEF Init, NoUser, ShareInv, XmarsInv, IndexInOrder
  <2> QED BY <2>1, InitSafe
<1>2. SafetyInv /\ XmarsInv => XmarsSolvent
  BY XmarsCovered DEF SafetyInv
<1>3. SafetyInv /\ [Next]_vars => SafetyInv'
  BY NextSafe
<1> QED BY <1>1, <1>2, <1>3, SharesNext, XmarsNext, PTL DEF Spec
===============================================================================
