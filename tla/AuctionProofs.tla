----------------------------- MODULE AuctionProofs -----------------------------
(* Theorems about the auction contract, for any users, windows, rates and amounts. *)
EXTENDS AuctionProperties, TotalsTheorems, FixedPointTheorems

(* Arithmetic *)

(* The product grows with the amount. *)
LEMMA MulFloorAmountMono ==
  ASSUME NEW a \in Nat, NEW b \in Nat, NEW r \in Nat, a <= b
  PROVE  MulFloor(a, r) <= MulFloor(b, r)
<1>1. MulFloor(r, a) <= MulFloor(r, b)
  BY MulFloorMono
<1>2. a * r = r * a /\ b * r = r * b
  OBVIOUS
<1>3. QED
  BY <1>1, <1>2 DEF MulFloor

(* A ratio grows with its numerator. *)
LEMMA FromRatioMono ==
  ASSUME NEW a \in Nat, NEW b \in Nat, NEW d \in Nat \ {0}, a <= b
  PROVE  FromRatio(a, d) <= FromRatio(b, d)
<1> DEFINE x == a * Scale  y == b * Scale  p == FromRatio(a, d)  q == FromRatio(b, d)
<1>1. x \in Nat /\ y \in Nat /\ x <= y
  BY ScaleAssumption, ProductNat, ProductMono
<1>2. /\ p \in Nat /\ p * d <= x
      /\ q \in Nat /\ y < q * d + d
  BY <1>1, DivBound DEF FromRatio
<1> HIDE DEF x, y, p, q
<1>3. CASE p <= q
  BY <1>3 DEF p, q
<1>4. CASE ~(p <= q)
  <2>1. q + 1 <= p
    BY <1>2, <1>4
  <2>2. (q + 1) * d <= p * d
    BY <2>1, <1>2, ProductMono
  <2>3. (q + 1) * d = q * d + d
    BY <1>2
  <2>4. p * d \in Nat /\ q * d \in Nat
    BY <1>2, ProductNat
  <2>5. FALSE
    BY <1>1, <1>2, <2>2, <2>3, <2>4
  <2>6. QED
    BY <2>5
<1>5. QED
  BY <1>3, <1>4

(* The Astroport deduction leaves room for the tax. *)
LEMMA AstroportTaxWithin ==
  ASSUME NEW amount \in Nat
  PROVE  /\ DeductAstroportTax(amount) \in Nat
         /\ ChainTax(DeductAstroportTax(amount)) \in Nat
         /\ DeductAstroportTax(amount) + ChainTax(DeductAstroportTax(amount)) <= amount
<1> DEFINE left == (amount * One) \div (One + TaxRate)
<1>1. TaxRate \in Nat /\ TaxCap \in Nat /\ Scale \in Nat \ {0} /\ Scale + TaxRate \in Nat \ {0}
  BY TaxAssumption, ScaleAssumption
<1>2. amount * Scale \in Nat
  BY <1>1, ProductNat
<1>3. left \in Nat /\ left * (Scale + TaxRate) <= amount * Scale
  BY <1>1, <1>2, DivBound DEF One
<1> HIDE DEF left
<1>4. QED
  BY <1>1, <1>3, TaxWithin DEF DeductAstroportTax, ChainTax, Capped, left

(* So does the package's, with its rounded reciprocal. *)
LEMMA PackageTaxWithin ==
  ASSUME NEW amount \in Nat
  PROVE  /\ DeductTax(amount) \in Nat /\ ChainTax(DeductTax(amount)) \in Nat
         /\ DeductTax(amount) + ChainTax(DeductTax(amount)) <= amount
<1> DEFINE left == MulFloor(amount, (Scale * Scale) \div (Scale + TaxRate))
<1>1. TaxRate \in Nat /\ TaxCap \in Nat /\ Scale + TaxRate # 0
  BY TaxAssumption, ScaleAssumption
<1>2. DeductTax(amount) = amount - Capped(amount - left)
  BY <1>1 DEF DeductTax, ComputeTax, ReverseDecimal, One
<1>3. left \in Nat /\ left * (Scale + TaxRate) <= amount * Scale
  BY <1>1, ReciprocalBound
<1> HIDE DEF left
<1>4. QED
  BY <1>1, <1>2, <1>3, TaxWithin DEF ChainTax, Capped

-------------------------------------------------------------------------------
(* Shares *)

(* The ratios of parts to their total are at most one together. *)
LEMMA RatiosWithin ==
  ASSUME NEW I, IsFiniteSet(I), NEW f \in [I -> Nat]
  PROVE  /\ [i \in I |-> Part(f[i], Total(f))] \in [I -> Nat]
         /\ Total([i \in I |-> Part(f[i], Total(f))]) <= Scale
<1> DEFINE whole == Total(f)
           r     == [i \in I |-> Part(f[i], whole)]
<1>1. whole \in Nat /\ Scale \in Nat \ {0}
  BY TotalType, ScaleAssumption
<1>2. ASSUME NEW i \in I PROVE f[i] \in Nat /\ f[i] <= whole
  <2>1. 0 \in Nat /\ f[i] \in Nat
    OBVIOUS
  <2>2. QED
    BY <2>1, TotalUpdate
<1> HIDE DEF whole
<1>3. ASSUME NEW i \in I PROVE r[i] \in Nat /\ r[i] * whole <= f[i] * Scale
  <2>1. CASE f[i] = 0
    <3>1. r[i] = 0 /\ 0 * whole = 0 /\ 0 * Scale = 0
      BY <2>1, <1>1 DEF Part
    <3>2. QED
      BY <3>1, <2>1
  <2>2. CASE f[i] # 0
    <3>1. f[i] \in Nat /\ whole \in Nat \ {0}
      BY <2>2, <1>1, <1>2
    <3>2. r[i] = FromRatio(f[i], whole)
      BY <2>2 DEF Part
    <3>3. QED
      BY <3>1, <3>2, FromRatioBound
  <2>3. QED
    BY <2>1, <2>2
<1>4. r \in [I -> Nat]
  BY <1>3
<1>5. Total(r) \in Nat
  BY <1>4, TotalType
<1>6. CASE whole = 0
  <2>1. \A i \in I : r[i] = 0
    BY <1>2, <1>6 DEF Part
  <2>2. Total(r) = 0
    BY <1>4, <2>1, TotalZero
  <2>3. QED
    BY <1>1, <1>4, <2>2 DEF whole
<1>7. CASE whole # 0
  <2> HIDE DEF r
  <2>1. Total(r) * whole <= Total(f) * Scale
    BY <1>1, <1>3, <1>4, TotalScale
  <2>2. Total(f) * Scale = Scale * whole
    BY <1>1 DEF whole
  <2>3. Total(r) <= Scale
    BY <1>1, <1>5, <1>7, <2>1, <2>2, ProductCancel
  <2>4. QED
    BY <1>4, <2>3 DEF r, whole
<1>8. QED
  BY <1>6, <1>7

(* Half of a user's share of the MARS and of the UST, as a decimal; spread over
   an amount it gives all users together no more than the amount. *)
LEMMA SharesWithin ==
  ASSUME NEW I, IsFiniteSet(I), NEW f \in [I -> Nat], NEW g \in [I -> Nat],
         NEW amount \in Nat,
         NEW share,
         share = [i \in I |->
                    MulFloor(amount, (Part(f[i], Total(f)) + Part(g[i], Total(g))) \div 2)]
  PROVE  share \in [I -> Nat] /\ Total(share) <= amount
<1> DEFINE p    == [i \in I |-> Part(f[i], Total(f))]
           q    == [i \in I |-> Part(g[i], Total(g))]
           sum  == [i \in I |-> p[i] + q[i]]
           half == [i \in I |-> (p[i] + q[i]) \div 2]
<1>1. p \in [I -> Nat] /\ q \in [I -> Nat] /\ Total(p) <= Scale /\ Total(q) <= Scale
  BY RatiosWithin
<1>2. \A i \in I : share[i] = MulFloor(amount, half[i])
  OBVIOUS
<1> HIDE DEF p, q
<1>3. ASSUME NEW i \in I
      PROVE  /\ half[i] \in Nat /\ sum[i] \in Nat /\ half[i] * 2 <= sum[i] * 1
  <2>1. p[i] \in Nat /\ q[i] \in Nat
    BY <1>1
  <2>2. QED
    BY <2>1
<1>4. half \in [I -> Nat] /\ sum \in [I -> Nat] /\ Total(sum) = Total(p) + Total(q)
  BY <1>1, <1>3, TotalSum
<1> HIDE DEF half, sum
<1>5. /\ Total(half) \in Nat /\ Total(sum) \in Nat /\ Scale \in Nat \ {0}
      /\ Total(p) \in Nat /\ Total(q) \in Nat
  BY <1>1, <1>4, TotalType, ScaleAssumption
<1>6. Total(half) * 2 <= Total(sum) * 1
  <2>1. 2 \in Nat /\ 1 \in Nat \ {0}
    OBVIOUS
  <2>2. QED
    BY <2>1, <1>3, <1>4, TotalScale
<1>7. Total(half) <= Scale
  BY <1>1, <1>4, <1>5, <1>6
<1>8. ASSUME NEW i \in I
      PROVE  share[i] \in Nat /\ share[i] * Scale <= half[i] * amount
  <2>1. half[i] \in Nat
    BY <1>3
  <2>2. share[i] \in Nat /\ share[i] * Scale <= amount * half[i]
    BY <1>2, <2>1, MulFloorBound
  <2>3. amount * half[i] = half[i] * amount
    BY <2>1
  <2>4. QED
    BY <2>2, <2>3
<1>9. share \in [I -> Nat]
  BY <1>8
<1>10. Total(share) \in Nat
  BY <1>9, TotalType
<1>11. CASE amount = 0
  <2>1. ASSUME NEW i \in I PROVE share[i] = 0
    <3>1. half[i] \in Nat
      BY <1>3
    <3>2. QED
      BY <1>2, <1>11, <3>1, MulFloorZero
  <2>2. QED
    BY <2>1, <1>9, <1>11, TotalZero
<1>12. CASE amount # 0
  <2>1. Total(share) * Scale <= Total(half) * amount
    BY <1>4, <1>5, <1>8, <1>9, <1>12, TotalScale
  <2>2. Total(half) * amount <= Scale * amount
    BY <1>5, <1>7, ProductMono
  <2>3. /\ Scale * amount = amount * Scale /\ Total(share) * Scale \in Nat
        /\ Total(half) * amount \in Nat /\ amount * Scale \in Nat
    BY <1>5, <1>10, ProductNat
  <2>4. QED
    BY <1>5, <1>9, <1>10, <2>1, <2>2, <2>3, ProductCancel
<1>13. QED
  BY <1>11, <1>12

-------------------------------------------------------------------------------
(* Rewards of staked LP tokens *)

\* What user i is owed in units of 1/Scale when the index is G: his tokens times
\* the index, without the whole units that idx[i] has already given him.
Exact(I, W, idx, G) == [i \in I |-> W[i] * G - Scale * MulFloor(W[i], idx[i])]

LEMMA ExactType ==
  ASSUME NEW I, NEW W \in [I -> Nat], NEW idx \in [I -> Nat], NEW G \in Nat,
         \A i \in I : idx[i] <= G
  PROVE  Exact(I, W, idx, G) \in [I -> Nat]
<1>1. ASSUME NEW i \in I PROVE W[i] * G - Scale * MulFloor(W[i], idx[i]) \in Nat
  <2> DEFINE w == W[i]  x == idx[i]  m == MulFloor(w, x)
  <2>1. w \in Nat /\ x \in Nat /\ x <= G /\ Scale \in Nat
    BY ScaleAssumption
  <2> HIDE DEF w, x
  <2>2. m \in Nat /\ m * Scale <= w * x
    BY <2>1, MulFloorBound
  <2> HIDE DEF m
  <2>3. w * x <= w * G /\ w * x \in Nat /\ w * G \in Nat /\ m * Scale \in Nat
    BY <2>1, <2>2, ProductMono, ProductNat
  <2>4. Scale * m = m * Scale
    BY <2>1, <2>2
  <2>5. w * G - Scale * m \in Nat
    BY <2>2, <2>3, <2>4
  <2>6. QED
    BY <2>5 DEF m, w, x
<1>2. QED
  BY <1>1 DEF Exact

(* Spreading rewards over staked tokens adds no more than what has arrived. *)
LEMMA ExactSpread ==
  ASSUME NEW I, IsFiniteSet(I), NEW W \in [I -> Nat], NEW idx \in [I -> Nat],
         NEW G \in Nat, \A i \in I : idx[i] <= G,
         NEW d \in Nat, NEW staked \in Nat, NEW accrued \in Nat,
         Total(W) <= staked, d * staked <= accrued * Scale
  PROVE  Total(Exact(I, W, idx, G + d)) <= Total(Exact(I, W, idx, G)) + accrued * Scale
<1> DEFINE old   == Exact(I, W, idx, G)
           new   == Exact(I, W, idx, G + d)
           added == [i \in I |-> W[i] * d]
<1>1. G + d \in Nat /\ \A i \in I : idx[i] <= G + d
  <2>1. ASSUME NEW i \in I PROVE idx[i] <= G + d
    <3>1. idx[i] \in Nat /\ idx[i] <= G
      OBVIOUS
    <3>2. QED
      BY <3>1
  <2>2. QED
    BY <2>1
<1>2. old \in [I -> Nat] /\ new \in [I -> Nat]
  BY <1>1, ExactType
<1>3. added \in [I -> Nat]
  <2>1. ASSUME NEW i \in I PROVE W[i] * d \in Nat
    BY ProductNat
  <2>2. QED
    BY <2>1
<1>4. /\ \A i \in I : new[i] = old[i] + added[i]
      /\ new = [i \in I |-> old[i] + added[i]]
  <2>1. ASSUME NEW i \in I PROVE new[i] = old[i] + added[i]
    <3> DEFINE m == Scale * MulFloor(W[i], idx[i])
    <3>1. W[i] \in Nat /\ m \in Int
      <4>1. W[i] \in Nat /\ idx[i] \in Nat
        OBVIOUS
      <4>2. MulFloor(W[i], idx[i]) \in Nat /\ Scale \in Nat
        BY <4>1, MulFloorBound, ScaleAssumption
      <4>3. Scale * MulFloor(W[i], idx[i]) \in Nat
        BY <4>2, ProductNat
      <4>4. QED
        BY <4>1, <4>3
    <3>2. /\ new[i] = W[i] * (G + d) - m /\ old[i] = W[i] * G - m
          /\ added[i] = W[i] * d
      BY DEF Exact, old, new, added
    <3> HIDE DEF m
    <3>3. W[i] * (G + d) = W[i] * G + W[i] * d /\ W[i] * G \in Int /\ W[i] * d \in Int
      BY <3>1
    <3>4. QED
      BY <3>1, <3>2, <3>3
  <2>2. QED
    BY <2>1, <1>2
<1>5. Total(new) = Total(old) + Total(added)
  <2> HIDE DEF old, new, added
  <2>1. Total([i \in I |-> old[i] + added[i]]) = Total(old) + Total(added)
    BY <1>2, <1>3, TotalSum
  <2>2. QED
    BY <2>1, <1>4
<1>6. Total(added) <= Total(W) * d
  <2>1. /\ Total(added) \in Nat /\ Total(W) \in Nat
    BY <1>3, TotalType
  <2>2. CASE d = 0
    <3>1. \A i \in I : added[i] = 0
      BY <2>2
    <3>2. Total(added) = 0 /\ Total(W) * d = 0
      BY <1>3, <2>1, <2>2, <3>1, TotalZero
    <3>3. QED
      BY <3>2
  <2>3. CASE d # 0
    <3>1. \A i \in I : added[i] * 1 <= W[i] * d
      BY <1>3
    <3>2. 1 \in Nat /\ d \in Nat \ {0}
      BY <2>3
    <3> HIDE DEF added
    <3>3. Total(added) * 1 <= Total(W) * d
      BY <1>3, <3>1, <3>2, TotalScale
    <3>4. QED
      BY <2>1, <3>3
  <2>4. QED
    BY <2>2, <2>3
<1>7. /\ Total(W) \in Nat /\ Total(old) \in Nat /\ Total(added) \in Nat
      /\ Scale \in Nat /\ Total(W) * d \in Nat /\ d * staked \in Nat
      /\ accrued * Scale \in Nat
  BY <1>2, <1>3, TotalType, ProductNat, ScaleAssumption
<1>8. Total(W) * d <= staked * d /\ staked * d = d * staked
  BY <1>7, ProductMono
<1> HIDE DEF old, new, added
<1>9. Total(new) <= Total(old) + accrued * Scale
  BY <1>5, <1>6, <1>7, <1>8
<1>10. QED
  BY <1>9 DEF old, new

(* A user who is paid what the index gives him, and who may withdraw all his
   tokens with it, takes no more from the total than he is paid. *)
LEMMA ExactPaid ==
  ASSUME NEW I, IsFiniteSet(I), NEW W \in [I -> Nat], NEW idx \in [I -> Nat],
         NEW G \in Nat, \A i \in I : idx[i] <= G,
         NEW u \in I, NEW W2 \in [I -> Nat], NEW idx2 \in [I -> Nat],
         W2[u] = 0 \/ W2[u] = W[u], idx2[u] = G,
         \A i \in I : i # u => W2[i] = W[i] /\ idx2[i] = idx[i]
  PROVE  LET paid == MulFloor(W[u], G) - MulFloor(W[u], idx[u]) IN
         /\ paid \in Nat
         /\ Total(Exact(I, W2, idx2, G)) + Scale * paid <= Total(Exact(I, W, idx, G))
<1> DEFINE old  == Exact(I, W, idx, G)
           new  == Exact(I, W2, idx2, G)
           w    == W[u]
           high == MulFloor(w, G)
           low  == MulFloor(w, idx[u])
           paid == high - low
<1>1. \A i \in I : idx2[i] <= G
  <2>1. ASSUME NEW i \in I PROVE idx2[i] <= G
    <3>1. CASE i = u
      BY <3>1
    <3>2. CASE i # u
      BY <3>2
    <3>3. QED
      BY <3>1, <3>2
  <2>2. QED
    BY <2>1
<1>2. old \in [I -> Nat] /\ new \in [I -> Nat]
  BY <1>1, ExactType
<1>3. \A i \in I \ {u} : new[i] = old[i]
  BY DEF Exact
<1>4. old[u] <= Total(old) /\ Total(new) = Total(old) - old[u] + new[u]
  BY <1>2, <1>3, TotalPoint
<1>5. /\ old[u] = w * G - Scale * low
      /\ new[u] = W2[u] * G - Scale * MulFloor(W2[u], G)
  BY DEF Exact
<1>6. w \in Nat /\ idx[u] \in Nat /\ idx[u] <= G /\ Scale \in Nat \ {0}
  BY ScaleAssumption
<1> HIDE DEF w
<1>7. /\ high \in Nat /\ low \in Nat /\ low <= high /\ high * Scale <= w * G
  BY <1>6, MulFloorBound, MulFloorMono
<1> HIDE DEF high, low
<1>8. /\ w * G \in Nat /\ Scale * low \in Nat /\ Scale * high \in Nat
      /\ Scale * high = high * Scale
      /\ Scale * (high - low) = Scale * high - Scale * low
  BY <1>6, <1>7, ProductNat
<1>9. new[u] <= old[u] - Scale * paid
  <2>1. CASE W2[u] = w
    <3>1. new[u] = w * G - Scale * high
      BY <1>5, <2>1 DEF high
    <3>2. QED
      BY <3>1, <1>5, <1>7, <1>8
  <2>2. CASE W2[u] = 0
    <3>1. MulFloor(0, G) = 0 /\ 0 * G = 0 /\ Scale * 0 = 0
      BY <1>6, MulFloorZero
    <3>2. new[u] = 0
      BY <1>5, <2>2, <3>1
    <3>3. QED
      BY <3>2, <1>5, <1>7, <1>8
  <2>3. QED
    BY <2>1, <2>2 DEF w
<1>10. Total(old) \in Nat /\ Total(new) \in Nat /\ old[u] \in Nat /\ new[u] \in Nat
  BY <1>2, TotalType
<1>11. paid \in Nat /\ Scale * paid \in Int
  BY <1>6, <1>7
<1> HIDE DEF old, new, paid
<1>12. Total(new) + Scale * paid <= Total(old)
  BY <1>4, <1>9, <1>10, <1>11
<1>13. QED
  BY <1>11, <1>12 DEF old, new, paid, high, low, w

-------------------------------------------------------------------------------
(* The inductive invariant *)

WindowsEnd == UstDepositsEnd + WithdrawalWindow

\* The pool comes after the windows; nothing is staked, spread or given out as LP
\* tokens before it, and no share or incentive is computed while the windows last.
WindowsKept ==
  /\ state.total_mars_deposited + state.total_ust_deposited > 0 => InitTimestamp <= now
  /\ PoolCreated => /\ now > WindowsEnd
                    /\ state.total_mars_deposited > 0 /\ state.total_ust_deposited > 0
                    /\ 0 < state.pool_init_timestamp /\ state.pool_init_timestamp <= now
  /\ ~PoolCreated => /\ state.pool_init_timestamp = 0 /\ ~Staked
                     /\ state.global_mars_reward_index = 0
                     /\ state.global_astro_reward_index = 0
                     /\ \A u \in Users : users[u].lp_shares = 0
  /\ \A u \in Users : users[u].total_auction_incentives # 0 => now > WindowsEnd

\* What is computed once for a user stays right, and nobody is ahead of an index.
RecordsBounded ==
  \A u \in Users :
    /\ users[u].lp_shares # 0 => users[u].lp_shares = UserLpShare(users[u])
    /\ users[u].withdrawn_lp_shares <= users[u].lp_shares
    /\ users[u].total_auction_incentives <= AuctionReward(users[u])
    /\ users[u].withdrawn_auction_incentives <= users[u].total_auction_incentives
    /\ users[u].mars_reward_index <= state.global_mars_reward_index
    /\ users[u].astro_reward_index <= state.global_astro_reward_index

Shares == [u \in Users |-> Provisioned(users[u]).lp_shares]

Incentives == [u \in Users |-> Provisioned(users[u]).total_auction_incentives]

\* LP tokens users have not withdrawn.
Left == [u \in Users |-> WithdrawableLpShares(Provisioned(users[u]))]

MarsForPool == IF PoolCreated THEN 0 ELSE state.total_mars_deposited

MarsExact ==
  Exact(Users, Left, Field("mars_reward_index"), state.global_mars_reward_index)

AstroExact ==
  Exact(Users, Left, Field("astro_reward_index"), state.global_astro_reward_index)

\* Without rounding: the MARS received for the pool, as incentives and as rewards
\* still owed is held, or was paid as incentives.
MarsBacked ==
  Scale * (MarsForPool + config.mars_rewards) + Total(MarsExact)
    <= Scale * (balance.mars + Total(Field("withdrawn_auction_incentives")))

AstroBacked == Total(AstroExact) <= Scale * balance.astro

AuctionInv ==
  /\ TypeOK
  /\ DepositsCovered
  /\ WindowsKept
  /\ RecordsBounded
  /\ LpTracked
  /\ MarsBacked
  /\ AstroBacked

-------------------------------------------------------------------------------
(* What the invariant gives *)

LEMMA FieldTypes ==
  ASSUME TypeOK
  PROVE  /\ IsFiniteSet(Users) /\ IsFiniteSet(Contracts)
         /\ Field("mars_deposited") \in [Users -> Nat]
         /\ Field("ust_deposited") \in [Users -> Nat]
         /\ Field("withdrawn_lp_shares") \in [Users -> Nat]
         /\ Field("withdrawn_auction_incentives") \in [Users -> Nat]
         /\ Field("mars_reward_index") \in [Users -> Nat]
         /\ Field("astro_reward_index") \in [Users -> Nat]
         /\ lp.staked \in [Contracts -> Nat]
<1>1. ASSUME NEW u \in Users
      PROVE  /\ users[u].mars_deposited \in Nat /\ users[u].ust_deposited \in Nat
             /\ users[u].withdrawn_lp_shares \in Nat
             /\ users[u].withdrawn_auction_incentives \in Nat
             /\ users[u].mars_reward_index \in Nat
             /\ users[u].astro_reward_index \in Nat
  BY DEF TypeOK, UserRecords
<1>2. QED
  BY <1>1, AuctionAssumption DEF Field, TypeOK

LEMMA UserTypes ==
  ASSUME TypeOK, NEW u \in Users
  PROVE  /\ users[u].mars_deposited \in Nat /\ users[u].ust_deposited \in Nat
         /\ users[u].ust_withdrawn_flag \in BOOLEAN
         /\ users[u].lp_shares \in Nat /\ users[u].withdrawn_lp_shares \in Nat
         /\ users[u].total_auction_incentives \in Nat
         /\ users[u].withdrawn_auction_incentives \in Nat
         /\ users[u].withdrawn_mars_incentives \in Nat
         /\ users[u].withdrawn_astro_incentives \in Nat
         /\ users[u].mars_reward_index \in Nat /\ users[u].astro_reward_index \in Nat
BY DEF TypeOK, UserRecords

LEMMA StateTypes ==
  ASSUME TypeOK
  PROVE  /\ now \in Nat
         /\ config.mars_rewards \in Nat /\ config.generator_contract \in Generators
         /\ config.mars_lp_staking_contract \in Stakings \union {NoStaking}
         /\ state.total_mars_deposited \in Nat /\ state.total_ust_deposited \in Nat
         /\ state.lp_shares_minted \in Nat /\ state.lp_shares_withdrawn \in Nat
         /\ state.pool_init_timestamp \in Nat
         /\ state.global_mars_reward_index \in Nat
         /\ state.global_astro_reward_index \in Nat
         /\ balance.uusd \in Nat /\ balance.mars \in Nat /\ balance.astro \in Nat
         /\ lp.held \in Nat /\ lp.staked \in [Contracts -> Nat]
BY DEF TypeOK, ConfigRecords, StateRecords

(* A user's ratios and what is computed from them. *)
LEMMA ShareTypes ==
  ASSUME TypeOK, DepositsCovered, NEW u \in Users
  PROVE  /\ UserLpShare(users[u]) \in Nat /\ AuctionReward(users[u]) \in Nat
         /\ (Part(users[u].mars_deposited, state.total_mars_deposited)
               + Part(users[u].ust_deposited, state.total_ust_deposited)) \div 2 \in Nat
         /\ AuctionReward(users[u])
              = MulFloor(config.mars_rewards,
                  (Part(users[u].mars_deposited, state.total_mars_deposited)
                     + Part(users[u].ust_deposited, state.total_ust_deposited)) \div 2)
         /\ (state.total_mars_deposited # 0 /\ state.total_ust_deposited # 0) =>
              UserLpShare(users[u])
                = MulFloor(state.lp_shares_minted,
                    (Part(users[u].mars_deposited, state.total_mars_deposited)
                       + Part(users[u].ust_deposited, state.total_ust_deposited)) \div 2)
<1> DEFINE m == users[u].mars_deposited  t == users[u].ust_deposited
           M == state.total_mars_deposited  T == state.total_ust_deposited
           half == (Part(m, M) + Part(t, T)) \div 2
<1>1. m \in Nat /\ t \in Nat /\ M \in Nat /\ T \in Nat
  BY UserTypes, StateTypes
<1>2. m <= M /\ t <= T
  <2>1. /\ Field("mars_deposited") \in [Users -> Nat]
        /\ Field("ust_deposited") \in [Users -> Nat] /\ IsFiniteSet(Users)
    BY FieldTypes
  <2>2. 0 \in Nat
    OBVIOUS
  <2>3. /\ Field("mars_deposited")[u] <= Total(Field("mars_deposited"))
        /\ Field("ust_deposited")[u] <= Total(Field("ust_deposited"))
    BY <2>1, <2>2, TotalUpdate
  <2>4. QED
    BY <2>3 DEF Field, DepositsCovered
<1>3. Part(m, M) \in Nat /\ Part(t, T) \in Nat
  <2>1. m # 0 => M \in Nat \ {0}
    BY <1>1, <1>2
  <2>2. t # 0 => T \in Nat \ {0}
    BY <1>1, <1>2
  <2>3. QED
    BY <1>1, <2>1, <2>2, FromRatioBound DEF Part
<1>4. half \in Nat
  BY <1>3
<1>5. AuctionReward(users[u]) = MulFloor(config.mars_rewards, half)
  BY DEF AuctionReward
<1>6. M # 0 /\ T # 0 => UserLpShare(users[u]) = MulFloor(state.lp_shares_minted, half)
  <2>1. ASSUME M # 0, T # 0
        PROVE  UserLpShare(users[u]) = MulFloor(state.lp_shares_minted, half)
    <3>1. M \in Nat \ {0} /\ T \in Nat \ {0}
      BY <1>1, <2>1
    <3>2. FromRatio(0, M) = 0 /\ FromRatio(0, T) = 0
      <4>1. 0 * Scale = 0 /\ 0 \div M = 0 /\ 0 \div T = 0
        BY <3>1, ScaleAssumption
      <4>2. QED
        BY <4>1 DEF FromRatio
    <3>3. Part(m, M) = FromRatio(m, M) /\ Part(t, T) = FromRatio(t, T)
      BY <3>2 DEF Part
    <3>4. QED
      BY <2>1, <3>3 DEF UserLpShare
  <2>2. QED
    BY <2>1
<1>7. state.lp_shares_minted \in Nat /\ config.mars_rewards \in Nat
  BY StateTypes
<1> HIDE DEF half
<1>8. AuctionReward(users[u]) \in Nat
  BY <1>4, <1>5, <1>7, MulFloorBound
<1>9. UserLpShare(users[u]) \in Nat
  <2>1. CASE M # 0 /\ T # 0
    BY <2>1, <1>4, <1>6, <1>7, MulFloorBound
  <2>2. CASE ~(M # 0 /\ T # 0)
    <3>1. UserLpShare(users[u]) = users[u].lp_shares
      BY <2>2 DEF UserLpShare
    <3>2. QED
      BY <3>1, UserTypes
  <2>3. QED
    BY <2>1, <2>2
<1>10. QED
  BY <1>4, <1>5, <1>6, <1>8, <1>9 DEF half

(* The record with its shares and incentives computed. *)
LEMMA ProvisionedFields ==
  ASSUME TypeOK, NEW u \in Users
  PROVE  LET info == users[u]  p == Provisioned(info) IN
         /\ p.lp_shares = IF info.lp_shares = 0 THEN UserLpShare(info)
                          ELSE info.lp_shares
         /\ p.total_auction_incentives =
              IF info.total_auction_incentives = 0 THEN AuctionReward(info)
              ELSE info.total_auction_incentives
         /\ p.mars_deposited = info.mars_deposited /\ p.ust_deposited = info.ust_deposited
         /\ p.ust_withdrawn_flag = info.ust_withdrawn_flag
         /\ p.withdrawn_lp_shares = info.withdrawn_lp_shares
         /\ p.withdrawn_auction_incentives = info.withdrawn_auction_incentives
         /\ p.withdrawn_mars_incentives = info.withdrawn_mars_incentives
         /\ p.withdrawn_astro_incentives = info.withdrawn_astro_incentives
         /\ p.mars_reward_index = info.mars_reward_index
         /\ p.astro_reward_index = info.astro_reward_index
<1>1. users[u] \in UserRecords
  BY DEF TypeOK
<1>2. QED
  BY <1>1 DEF UserRecords, Provisioned

LEMMA StakedSharesType ==
  ASSUME TypeOK, LpTracked
  PROVE  /\ StakedShares \in Nat /\ Total(lp.staked) \in Nat
         /\ StakedShares = lp.held + Total(lp.staked)
<1>1. Total(lp.staked) \in Nat
  BY FieldTypes, TotalType
<1>2. QED
  BY <1>1, StateTypes DEF LpTracked

(* All users' shares are within the LP tokens minted, all their incentives within
   the MARS sent as incentives, and what is left to withdraw within what is left. *)
LEMMA SharesAddUp ==
  ASSUME TypeOK, DepositsCovered, WindowsKept, RecordsBounded, LpTracked
  PROVE  /\ Shares \in [Users -> Nat] /\ Total(Shares) <= state.lp_shares_minted
         /\ Incentives \in [Users -> Nat] /\ Total(Incentives) <= config.mars_rewards
         /\ Left \in [Users -> Nat] /\ Total(Left) <= StakedShares
         /\ \A u \in Users :
              /\ Shares[u] = UserLpShare(users[u])
              /\ Left[u] = Shares[u] - users[u].withdrawn_lp_shares
              /\ users[u].withdrawn_lp_shares <= Shares[u]
              /\ Incentives[u] <= AuctionReward(users[u])
              /\ users[u].withdrawn_auction_incentives <= Incentives[u]
              /\ ~PoolCreated => Left[u] = 0
<1> DEFINE mars == Field("mars_deposited")  ust == Field("ust_deposited")
           M == state.total_mars_deposited  T == state.total_ust_deposited
           half(u) == (Part(users[u].mars_deposited, M)
                         + Part(users[u].ust_deposited, T)) \div 2
           share(a) == [u \in Users |-> MulFloor(a, half(u))]
<1>1. /\ IsFiniteSet(Users) /\ mars \in [Users -> Nat] /\ ust \in [Users -> Nat]
      /\ Total(mars) = M /\ Total(ust) = T
      /\ \A u \in Users : mars[u] = users[u].mars_deposited
      /\ \A u \in Users : ust[u] = users[u].ust_deposited
  BY FieldTypes DEF DepositsCovered, Field
<1>2. ASSUME NEW a \in Nat PROVE share(a) \in [Users -> Nat] /\ Total(share(a)) <= a
  <2> HIDE DEF mars, ust
  <2>1. share(a) = [u \in Users |->
           MulFloor(a, (Part(mars[u], Total(mars)) + Part(ust[u], Total(ust))) \div 2)]
    BY <1>1
  <2> HIDE DEF share
  <2>2. QED
    BY <1>1, <2>1, SharesWithin
<1>3. /\ state.lp_shares_minted \in Nat /\ config.mars_rewards \in Nat
      /\ M \in Nat /\ T \in Nat
  BY StateTypes
<1>4. ASSUME NEW u \in Users
      PROVE  /\ Shares[u] = UserLpShare(users[u]) /\ Shares[u] \in Nat
             /\ Left[u] = Shares[u] - users[u].withdrawn_lp_shares
             /\ users[u].withdrawn_lp_shares <= Shares[u]
  <2>1. Shares[u] = UserLpShare(users[u])
    BY ProvisionedFields DEF Shares, RecordsBounded
  <2>2. UserLpShare(users[u]) \in Nat
    BY ShareTypes
  <2>3. Left[u] = Shares[u] - users[u].withdrawn_lp_shares
    BY ProvisionedFields DEF Left, Shares, WithdrawableLpShares
  <2>4. users[u].withdrawn_lp_shares <= Shares[u]
    <3>1. CASE users[u].lp_shares = 0
      BY <3>1, <2>1, <2>2, UserTypes DEF RecordsBounded
    <3>2. CASE users[u].lp_shares # 0
      BY <3>2, <2>1 DEF RecordsBounded
    <3>3. QED
      BY <3>1, <3>2
  <2>5. QED
    BY <2>1, <2>2, <2>3, <2>4
<1>5. ASSUME NEW u \in Users
      PROVE  /\ Incentives[u] \in Nat /\ Incentives[u] <= AuctionReward(users[u])
             /\ users[u].withdrawn_auction_incentives <= Incentives[u]
  <2>1. /\ AuctionReward(users[u]) \in Nat
        /\ users[u].total_auction_incentives \in Nat
        /\ users[u].withdrawn_auction_incentives \in Nat
    BY ShareTypes, UserTypes
  <2>2. Incentives[u] = IF users[u].total_auction_incentives = 0
                        THEN AuctionReward(users[u])
                        ELSE users[u].total_auction_incentives
    BY ProvisionedFields DEF Incentives
  <2>3. /\ users[u].total_auction_incentives <= AuctionReward(users[u])
        /\ users[u].withdrawn_auction_incentives <= users[u].total_auction_incentives
    BY DEF RecordsBounded
  <2>4. QED
    BY <2>1, <2>2, <2>3
<1>6. Shares \in [Users -> Nat] /\ Incentives \in [Users -> Nat]
  <2>1. Shares = [u \in Users |-> Shares[u]] /\ Incentives = [u \in Users |-> Incentives[u]]
    BY DEF Shares, Incentives
  <2>2. QED
    BY <1>4, <1>5, <2>1, Zenon
<1>7. Left \in [Users -> Nat]
  <2>1. ASSUME NEW u \in Users PROVE Left[u] \in Nat
    BY <1>4, UserTypes
  <2>2. Left = [u \in Users |-> Left[u]]
    BY DEF Left
  <2>3. QED
    BY <2>1, <2>2, Zenon
<1>8. Total(Incentives) <= config.mars_rewards
  <2> DEFINE all == share(config.mars_rewards)
  <2>1. all \in [Users -> Nat] /\ Total(all) <= config.mars_rewards
    BY <1>2, <1>3
  <2>2. \A u \in Users : Incentives[u] <= all[u]
    BY <1>5, ShareTypes
  <2> HIDE DEF all
  <2>3. Total(Incentives) <= Total(all)
    BY <1>1, <1>6, <2>1, <2>2, TotalMono
  <2>4. Total(Incentives) \in Nat /\ Total(all) \in Nat
    BY <1>1, <1>6, <2>1, TotalType
  <2>5. QED
    BY <1>3, <2>1, <2>3, <2>4
<1>9. Total(Shares) <= state.lp_shares_minted
  <2>1. CASE PoolCreated
    <3> DEFINE all == share(state.lp_shares_minted)
    <3>1. all \in [Users -> Nat] /\ Total(all) <= state.lp_shares_minted
      BY <1>2, <1>3
    <3>2. M # 0 /\ T # 0
      BY <2>1 DEF WindowsKept
    <3>3. \A u \in Users : Shares[u] = all[u]
      BY <1>4, <3>2, ShareTypes
    <3> HIDE DEF all
    <3>4. Shares = all
      BY <1>6, <3>1, <3>3
    <3>5. QED
      BY <3>1, <3>4
  <2>2. CASE ~PoolCreated
    <3>1. ASSUME NEW u \in Users PROVE Shares[u] = 0
      <4>1. users[u].lp_shares = 0 /\ state.lp_shares_minted = 0
        BY <2>2, <1>3 DEF WindowsKept, PoolCreated
      <4>2. CASE M # 0 /\ T # 0
        BY <1>4, <4>1, <4>2, ShareTypes, MulFloorZero
      <4>3. CASE ~(M # 0 /\ T # 0)
        BY <1>4, <4>1, <4>3 DEF UserLpShare
      <4>4. QED
        BY <4>2, <4>3
    <3>2. Total(Shares) = 0
      BY <1>6, <3>1, TotalZero
    <3>3. QED
      BY <3>2, <1>3
  <2>3. QED
    BY <2>1, <2>2
<1>10. Total(Left) <= StakedShares
  <2> DEFINE gone == Field("withdrawn_lp_shares")
  <2>1. gone \in [Users -> Nat] /\ Total(gone) = state.lp_shares_withdrawn
    BY FieldTypes DEF LpTracked
  <2>2. ASSUME NEW u \in Users PROVE Shares[u] = Left[u] + gone[u]
    <3>1. gone[u] = users[u].withdrawn_lp_shares /\ users[u].withdrawn_lp_shares \in Nat
      BY UserTypes DEF Field
    <3>2. QED
      BY <3>1, <1>4
  <2> HIDE DEF gone
  <2>3. Shares = [u \in Users |-> Left[u] + gone[u]]
    BY <1>6, <2>2
  <2>4. Total(Shares) = Total(Left) + Total(gone)
    BY <1>1, <1>7, <2>1, <2>3, TotalSum
  <2>5. Total(Shares) \in Nat /\ Total(Left) \in Nat /\ state.lp_shares_withdrawn \in Nat
    BY <1>1, <1>6, <1>7, TotalType, StateTypes
  <2>6. QED
    BY <1>3, <1>9, <2>1, <2>4, <2>5 DEF StakedShares
<1>11. ASSUME NEW u \in Users, ~PoolCreated PROVE Left[u] = 0
  <2>1. StakedShares <= 0
    <3>1. state.lp_shares_minted = 0 /\ state.lp_shares_withdrawn \in Nat
      BY <1>3, <1>11, StateTypes DEF PoolCreated
    <3>2. QED
      BY <3>1 DEF StakedShares
  <2>2. StakedShares \in Nat /\ Total(Left) \in Nat
    BY StakedSharesType, <1>1, <1>7, TotalType
  <2>3. 0 \in Nat
    OBVIOUS
  <2>4. Left[u] <= Total(Left)
    BY <1>1, <1>7, <2>3, TotalUpdate
  <2>5. Left[u] \in Nat
    BY <1>7
  <2>6. QED
    BY <1>10, <2>1, <2>2, <2>4, <2>5
<1>12. QED
  BY <1>4, <1>5, <1>6, <1>7, <1>8, <1>9, <1>10, <1>11

LEMMA ExactTypes ==
  ASSUME TypeOK, DepositsCovered, WindowsKept, RecordsBounded, LpTracked
  PROVE  /\ MarsExact \in [Users -> Nat] /\ AstroExact \in [Users -> Nat]
         /\ Total(MarsExact) \in Nat /\ Total(AstroExact) \in Nat
<1>1. /\ Field("mars_reward_index") \in [Users -> Nat]
      /\ Field("astro_reward_index") \in [Users -> Nat] /\ IsFiniteSet(Users)
      /\ state.global_mars_reward_index \in Nat /\ state.global_astro_reward_index \in Nat
  BY FieldTypes, StateTypes
<1>2. Left \in [Users -> Nat]
  BY SharesAddUp
<1>3. \A u \in Users :
        /\ Field("mars_reward_index")[u] <= state.global_mars_reward_index
        /\ Field("astro_reward_index")[u] <= state.global_astro_reward_index
  BY DEF RecordsBounded, Field
<1>4. MarsExact \in [Users -> Nat] /\ AstroExact \in [Users -> Nat]
  BY <1>1, <1>2, <1>3, ExactType DEF MarsExact, AstroExact
<1>5. QED
  BY <1>1, <1>4, TotalType

\* What user i is owed in whole units.
Whole(I, W, idx, G) == [i \in I |-> MulFloor(W[i], G) - MulFloor(W[i], idx[i])]

(* What users are owed in whole units is within what they are owed exactly. *)
LEMMA OwedWithinExact ==
  ASSUME NEW I, IsFiniteSet(I), NEW W \in [I -> Nat], NEW idx \in [I -> Nat],
         NEW G \in Nat, \A i \in I : idx[i] <= G
  PROVE  /\ Whole(I, W, idx, G) \in [I -> Nat]
         /\ Total(Whole(I, W, idx, G)) * Scale <= Total(Exact(I, W, idx, G))
<1> DEFINE exact == Exact(I, W, idx, G)
           owed  == Whole(I, W, idx, G)
<1>1. exact \in [I -> Nat]
  BY ExactType
<1>2. ASSUME NEW i \in I PROVE owed[i] \in Nat /\ owed[i] * Scale <= exact[i] * 1
  <2> DEFINE w == W[i]  high == MulFloor(w, G)  low == MulFloor(w, idx[i])
  <2>1. w \in Nat /\ idx[i] \in Nat /\ idx[i] <= G /\ Scale \in Nat
    BY ScaleAssumption
  <2>2. exact[i] = w * G - Scale * low /\ owed[i] = high - low
    BY DEF Exact, Whole
  <2> HIDE DEF w, exact, owed
  <2>3. high \in Nat /\ low \in Nat /\ low <= high /\ high * Scale <= w * G
    BY <2>1, MulFloorBound, MulFloorMono
  <2> HIDE DEF high, low
  <2>4. (high - low) * Scale = high * Scale - low * Scale /\ low * Scale = Scale * low
    BY <2>1, <2>3
  <2>5. w * G \in Nat /\ high * Scale \in Nat /\ low * Scale \in Nat
    BY <2>1, <2>3, ProductNat
  <2>6. QED
    BY <2>2, <2>3, <2>4, <2>5
<1>3. owed \in [I -> Nat]
  BY <1>2 DEF Whole
<1> HIDE DEF exact, owed
<1>4. 1 \in Nat \ {0} /\ Scale \in Nat
  BY ScaleAssumption
<1>5. Total(owed) * Scale <= Total(exact) * 1
  BY <1>1, <1>2, <1>3, <1>4, TotalScale
<1>6. Total(exact) \in Nat
  BY <1>1, TotalType
<1>7. QED
  BY <1>3, <1>5, <1>6 DEF exact, owed

LEMMA OwedSolvent ==
  ASSUME AuctionInv
  PROVE  /\ RewardsSolvent
         /\ Total(IncentivesOwed) \in Nat /\ Total(MarsOwed) \in Nat
<1>inv. /\ TypeOK /\ DepositsCovered /\ WindowsKept /\ RecordsBounded /\ LpTracked
        /\ MarsBacked /\ AstroBacked
  BY DEF AuctionInv
<1> DEFINE paid == Field("withdrawn_auction_incentives")
<1>1. /\ IsFiniteSet(Users) /\ paid \in [Users -> Nat]
      /\ Field("mars_reward_index") \in [Users -> Nat]
      /\ Field("astro_reward_index") \in [Users -> Nat]
      /\ \A u \in Users : paid[u] = users[u].withdrawn_auction_incentives
  BY <1>inv, FieldTypes DEF Field
<1>2. /\ Left \in [Users -> Nat] /\ Incentives \in [Users -> Nat]
      /\ Total(Incentives) <= config.mars_rewards
      /\ \A u \in Users : users[u].withdrawn_auction_incentives <= Incentives[u]
  BY <1>inv, SharesAddUp
<1>3. /\ \A u \in Users : Field("mars_reward_index")[u] <= state.global_mars_reward_index
      /\ \A u \in Users : Field("astro_reward_index")[u] <= state.global_astro_reward_index
  BY <1>inv DEF RecordsBounded, Field
<1>4. /\ state.global_mars_reward_index \in Nat /\ state.global_astro_reward_index \in Nat
      /\ balance.mars \in Nat /\ balance.astro \in Nat /\ config.mars_rewards \in Nat
      /\ state.total_mars_deposited \in Nat /\ Scale \in Nat \ {0}
  BY <1>inv, StateTypes, ScaleAssumption
<1>5. MarsOwed = [u \in Users |->
         MulFloor(Left[u], state.global_mars_reward_index)
           - MulFloor(Left[u], Field("mars_reward_index")[u])]
  <2>1. ASSUME NEW u \in Users
        PROVE  MarsStakingReward(Provisioned(users[u]), state)
                 = MulFloor(Left[u], state.global_mars_reward_index)
                     - MulFloor(Left[u], Field("mars_reward_index")[u])
    BY <1>inv, ProvisionedFields DEF MarsStakingReward, AccruedReward, Left, Field
  <2>2. QED
    BY <2>1 DEF MarsOwed
<1>6. AstroOwed = [u \in Users |->
         MulFloor(Left[u], state.global_astro_reward_index)
           - MulFloor(Left[u], Field("astro_reward_index")[u])]
  <2>1. ASSUME NEW u \in Users
        PROVE  AstroStakingReward(Provisioned(users[u]), state)
                 = MulFloor(Left[u], state.global_astro_reward_index)
                     - MulFloor(Left[u], Field("astro_reward_index")[u])
    BY <1>inv, ProvisionedFields DEF AstroStakingReward, AccruedReward, Left, Field
  <2>2. QED
    BY <2>1 DEF AstroOwed
<1>7. MarsOwed \in [Users -> Nat] /\ Total(MarsOwed) * Scale <= Total(MarsExact)
  <2> DEFINE idx == Field("mars_reward_index")  G == state.global_mars_reward_index
  <2>1. /\ idx \in [Users -> Nat] /\ G \in Nat /\ \A u \in Users : idx[u] <= G
        /\ MarsOwed = Whole(Users, Left, idx, G)
    BY <1>1, <1>3, <1>4, <1>5 DEF Whole
  <2> HIDE DEF idx, G
  <2>2. /\ MarsOwed \in [Users -> Nat]
        /\ Total(MarsOwed) * Scale <= Total(Exact(Users, Left, idx, G))
    BY <1>1, <1>2, <2>1, OwedWithinExact
  <2>3. QED
    BY <2>2 DEF MarsExact, idx, G
<1>8. AstroOwed \in [Users -> Nat] /\ Total(AstroOwed) * Scale <= Total(AstroExact)
  <2> DEFINE idx == Field("astro_reward_index")  G == state.global_astro_reward_index
  <2>1. /\ idx \in [Users -> Nat] /\ G \in Nat /\ \A u \in Users : idx[u] <= G
        /\ AstroOwed = Whole(Users, Left, idx, G)
    BY <1>1, <1>3, <1>4, <1>6 DEF Whole
  <2> HIDE DEF idx, G
  <2>2. /\ AstroOwed \in [Users -> Nat]
        /\ Total(AstroOwed) * Scale <= Total(Exact(Users, Left, idx, G))
    BY <1>1, <1>2, <2>1, OwedWithinExact
  <2>3. QED
    BY <2>2 DEF AstroExact, idx, G
<1>9. /\ Total(MarsOwed) \in Nat /\ Total(AstroOwed) \in Nat
      /\ Total(MarsExact) \in Nat /\ Total(AstroExact) \in Nat
      /\ Total(Incentives) \in Nat /\ Total(paid) \in Nat
  BY <1>inv, <1>1, <1>2, <1>7, <1>8, ExactTypes, TotalType
<1>10. IncentivesOwed \in [Users -> Nat] /\ Total(Incentives) = Total(IncentivesOwed) + Total(paid)
  <2>1. ASSUME NEW u \in Users
        PROVE  /\ IncentivesOwed[u] = Incentives[u] - paid[u]
               /\ IncentivesOwed[u] \in Nat
               /\ Incentives[u] = IncentivesOwed[u] + paid[u]
    <3>1. IncentivesOwed[u] = Incentives[u] - paid[u]
      BY <1>1 DEF IncentivesOwed, Incentives
    <3>2. Incentives[u] \in Nat /\ paid[u] \in Nat /\ paid[u] <= Incentives[u]
      BY <1>1, <1>2
    <3>3. QED
      BY <3>1, <3>2
  <2>2. IncentivesOwed = [u \in Users |-> IncentivesOwed[u]]
    BY DEF IncentivesOwed
  <2>3. IncentivesOwed \in [Users -> Nat]
    BY <2>1, <2>2, Zenon
  <2> HIDE DEF paid
  <2>4. Incentives = [u \in Users |-> IncentivesOwed[u] + paid[u]]
    BY <1>2, <2>1
  <2>5. QED
    BY <1>1, <2>3, <2>4, TotalSum
<1>11. Total(IncentivesOwed) \in Nat
  BY <1>1, <1>10, TotalType
<1>12. MarsForPool \in Nat
  BY <1>4 DEF MarsForPool
<1>13. Scale * (MarsForPool + config.mars_rewards) + Total(MarsExact)
         <= Scale * (balance.mars + Total(paid))
  BY <1>inv DEF MarsBacked
<1> HIDE DEF paid
<1>14. MarsForPool + Total(IncentivesOwed) + Total(MarsOwed) <= balance.mars
  <2> DEFINE due == MarsForPool + Total(IncentivesOwed) + Total(MarsOwed) + Total(paid)
             in  == MarsForPool + config.mars_rewards
             has == balance.mars + Total(paid)
  <2>1. due \in Nat /\ in \in Nat /\ has \in Nat /\ due <= in + Total(MarsOwed)
    BY <1>2, <1>4, <1>9, <1>10, <1>11, <1>12
  <2>2. due * Scale <= (in + Total(MarsOwed)) * Scale
    BY <2>1, <1>4, <1>9, ProductMono
  <2> HIDE DEF due, in, has
  <2>3. /\ (in + Total(MarsOwed)) * Scale = Scale * in + Total(MarsOwed) * Scale
        /\ has * Scale = Scale * has
    BY <2>1, <1>4, <1>9
  <2>4. /\ Scale * in \in Nat /\ Total(MarsOwed) * Scale \in Nat /\ Scale * has \in Nat
        /\ due * Scale \in Nat /\ has * Scale \in Nat
    BY <2>1, <1>4, <1>9, ProductNat
  <2>5. Scale * in + Total(MarsExact) <= Scale * has
    BY <1>13 DEF in, has
  <2>6. due * Scale <= has * Scale
    BY <2>2, <2>3, <2>4, <2>5, <1>7, <1>9
  <2>7. due <= has
    BY <2>1, <2>6, <1>4, ProductCancel
  <2>8. QED
    BY <2>7, <1>4, <1>9, <1>11, <1>12 DEF due, has
<1>15. Total(AstroOwed) <= balance.astro
  <2>1. Total(AstroOwed) * Scale <= Scale * balance.astro
    <3>1. Total(AstroOwed) * Scale \in Nat /\ Scale * balance.astro \in Nat
      BY <1>4, <1>9, ProductNat
    <3>2. QED
      BY <3>1, <1>inv, <1>8, <1>9 DEF AstroBacked
  <2>2. Scale * balance.astro = balance.astro * Scale
    BY <1>4
  <2>3. QED
    BY <2>1, <2>2, <1>4, <1>9, ProductCancel
<1>16. QED
  BY <1>9, <1>11, <1>14, <1>15 DEF RewardsSolvent, MarsForPool

LEMMA InvSolvent == AuctionInv => RewardsSolvent
BY OwedSolvent

LEMMA InvShares == AuctionInv => SharesOfMinted
<1> SUFFICES ASSUME AuctionInv PROVE SharesOfMinted
  OBVIOUS
<1>1. /\ TypeOK /\ DepositsCovered /\ WindowsKept /\ RecordsBounded /\ LpTracked
  BY DEF AuctionInv
<1>2. Total(Shares) <= state.lp_shares_minted
  BY <1>1, SharesAddUp
<1>3. QED
  BY <1>1, <1>2 DEF SharesOfMinted, RecordsBounded, Shares

-------------------------------------------------------------------------------
(* The same in the next state *)

RewardsTyped ==
  \A u \in Users : UserLpShare(users[u]) \in Nat /\ AuctionReward(users[u]) \in Nat

LEMMA RewardsTypedHolds == TypeOK /\ DepositsCovered => RewardsTyped
BY ShareTypes DEF RewardsTyped

LEMMA RewardsTypedNext == TypeOK' /\ DepositsCovered' => RewardsTyped'
BY RewardsTypedHolds, PTL

\* The invariant without what backs the rewards.
BaseInv == TypeOK /\ DepositsCovered /\ WindowsKept /\ RecordsBounded /\ LpTracked

LeftFacts ==
  /\ Left \in [Users -> Nat] /\ Total(Left) <= StakedShares
  /\ \A u \in Users :
       /\ Left[u] = UserLpShare(users[u]) - users[u].withdrawn_lp_shares
       /\ ~PoolCreated => Left[u] = 0

LEMMA LeftFactsHold == BaseInv => LeftFacts
BY SharesAddUp DEF BaseInv, LeftFacts

LEMMA LeftFactsNext == BaseInv' => LeftFacts'
BY LeftFactsHold, PTL

ExactFacts ==
  /\ MarsExact \in [Users -> Nat] /\ AstroExact \in [Users -> Nat]
  /\ Total(MarsExact) \in Nat /\ Total(AstroExact) \in Nat
  /\ ~PoolCreated => Total(MarsExact) = 0 /\ Total(AstroExact) = 0

(* Nothing has been earned before the pool is created. *)
LEMMA ExactFactsHold == BaseInv => ExactFacts
<1> SUFFICES ASSUME BaseInv PROVE ExactFacts
  OBVIOUS
<1>1. /\ MarsExact \in [Users -> Nat] /\ AstroExact \in [Users -> Nat]
      /\ Total(MarsExact) \in Nat /\ Total(AstroExact) \in Nat
  BY ExactTypes DEF BaseInv
<1>2. ASSUME ~PoolCreated PROVE Total(MarsExact) = 0 /\ Total(AstroExact) = 0
  <2>1. ASSUME NEW u \in Users PROVE MarsExact[u] = 0 /\ AstroExact[u] = 0
    <3>1. Left[u] = 0
      BY <1>2, LeftFactsHold DEF LeftFacts
    <3>2. /\ Field("mars_reward_index")[u] \in Nat /\ Field("astro_reward_index")[u] \in Nat
          /\ state.global_mars_reward_index \in Nat
          /\ state.global_astro_reward_index \in Nat /\ Scale \in Nat
      BY FieldTypes, StateTypes, ScaleAssumption DEF BaseInv
    <3>3. /\ MulFloor(0, Field("mars_reward_index")[u]) = 0
          /\ MulFloor(0, Field("astro_reward_index")[u]) = 0
      BY <3>2, MulFloorZero
    <3>4. /\ MarsExact[u] = 0 * state.global_mars_reward_index - Scale * 0
          /\ AstroExact[u] = 0 * state.global_astro_reward_index - Scale * 0
      BY <3>1, <3>3 DEF MarsExact, AstroExact, Exact
    <3>5. QED
      BY <3>2, <3>4
  <2>2. QED
    BY <1>1, <2>1, TotalZero
<1>3. QED
  BY <1>1, <1>2 DEF ExactFacts

LEMMA ExactFactsNext == BaseInv' => ExactFacts'
BY ExactFactsHold, PTL

(* Steps that leave users and state alone change nothing that is owed. *)
LEMMA SameUsersState ==
  ASSUME BaseInv, BaseInv', users' = users, state' = state
  PROVE  /\ MarsExact' = MarsExact /\ AstroExact' = AstroExact
         /\ MarsForPool' = MarsForPool
         /\ Field("withdrawn_auction_incentives")' = Field("withdrawn_auction_incentives")
<1>1. /\ Left \in [Users -> Nat] /\ Left' \in [Users -> Nat]
      /\ \A u \in Users :
           /\ Left[u] = UserLpShare(users[u]) - users[u].withdrawn_lp_shares
           /\ Left'[u] = UserLpShare(users[u])' - users'[u].withdrawn_lp_shares
  BY LeftFactsHold, LeftFactsNext DEF LeftFacts
<1>2. \A u \in Users : UserLpShare(users[u])' = UserLpShare(users[u])
  BY DEF UserLpShare
<1>3. Left' = Left
  BY <1>1, <1>2
<1>4. QED
  BY <1>3 DEF MarsExact, AstroExact, MarsForPool, PoolCreated, Field

-------------------------------------------------------------------------------
(* Every step keeps the invariant *)

LEMMA AuctionInit == Init => AuctionInv
<1> SUFFICES ASSUME Init PROVE AuctionInv
  OBVIOUS
<1>1. PICK owner \in Owners, generator \in Generators :
        config = [owner |-> owner, astroport_lp_pool |-> NoPool,
                  mars_lp_staking_contract |-> NoStaking,
                  generator_contract |-> generator, mars_rewards |-> 0]
  BY DEF Init
<1>2. TypeOK
  <2>1. /\ now \in Nat /\ state \in StateRecords /\ config \in ConfigRecords
    BY <1>1, AuctionAssumption DEF Init, NoState, StateRecords, ConfigRecords
  <2>2. NoUser \in UserRecords
    BY DEF NoUser, UserRecords
  <2>3. QED
    BY <2>1, <2>2 DEF Init, TypeOK
<1>3. IsFiniteSet(Users) /\ IsFiniteSet(Contracts)
  BY AuctionAssumption
<1>4. /\ state.total_mars_deposited = 0 /\ state.total_ust_deposited = 0
      /\ state.lp_shares_minted = 0 /\ state.lp_shares_withdrawn = 0 /\ ~Staked
      /\ state.are_staked_for_single_incentives = FALSE
      /\ state.are_staked_for_dual_incentives = FALSE
      /\ state.pool_init_timestamp = 0 /\ state.global_mars_reward_index = 0
      /\ state.global_astro_reward_index = 0 /\ ~PoolCreated
      /\ config.mars_rewards = 0
  BY <1>1 DEF Init, NoState, Staked, PoolCreated
<1>5. \A u \in Users :
        /\ users[u].mars_deposited = 0 /\ users[u].ust_deposited = 0
        /\ users[u].lp_shares = 0 /\ users[u].withdrawn_lp_shares = 0
        /\ users[u].total_auction_incentives = 0
        /\ users[u].withdrawn_auction_incentives = 0
        /\ users[u].mars_reward_index = 0 /\ users[u].astro_reward_index = 0
  BY DEF Init, NoUser
<1>6. /\ Total(Field("mars_deposited")) = 0 /\ Total(Field("ust_deposited")) = 0
      /\ Total(Field("withdrawn_lp_shares")) = 0
      /\ Total(Field("withdrawn_auction_incentives")) = 0
  <2>1. \A u \in Users :
          /\ Field("mars_deposited")[u] = 0 /\ Field("ust_deposited")[u] = 0
          /\ Field("withdrawn_lp_shares")[u] = 0
          /\ Field("withdrawn_auction_incentives")[u] = 0
    BY <1>5 DEF Field
  <2>2. QED
    BY <1>2, <2>1, FieldTypes, TotalZero
<1>7. lp.held = 0 /\ Total(lp.staked) = 0
  <2>1. lp.held = 0 /\ \A c \in Contracts : lp.staked[c] = 0
    BY DEF Init
  <2>2. QED
    BY <1>2, <2>1, FieldTypes, TotalZero
<1>8. balance.uusd = 0 /\ balance.mars = 0 /\ balance.astro = 0
  BY DEF Init
<1>9. DepositsCovered
  BY <1>4, <1>6, <1>8 DEF DepositsCovered
<1>10. WindowsKept
  BY <1>4, <1>5 DEF WindowsKept
<1>11. RecordsBounded
  <2>1. \A u \in Users : AuctionReward(users[u]) \in Nat
    BY <1>2, <1>9, ShareTypes
  <2>2. QED
    BY <1>4, <1>5, <2>1 DEF RecordsBounded
<1>12. LpTracked
  BY <1>4, <1>6, <1>7 DEF LpTracked, StakedShares
<1>13. Total(MarsExact) = 0 /\ Total(AstroExact) = 0
  BY <1>2, <1>4, <1>9, <1>10, <1>11, <1>12, ExactFactsHold DEF BaseInv, ExactFacts
<1>14. MarsBacked /\ AstroBacked
  <2>1. MarsForPool = 0
    BY <1>4 DEF MarsForPool
  <2>2. Scale * (0 + 0) + 0 <= Scale * (0 + 0) /\ 0 <= Scale * 0
    BY ScaleAssumption
  <2>3. QED
    BY <2>1, <2>2, <1>4, <1>6, <1>8, <1>13 DEF MarsBacked, AstroBacked
<1>15. QED
  BY <1>2, <1>9, <1>10, <1>11, <1>12, <1>14 DEF AuctionInv

LEMMA BaseParts ==
  ASSUME AuctionInv
  PROVE  /\ BaseInv /\ TypeOK /\ DepositsCovered /\ WindowsKept /\ RecordsBounded
         /\ LpTracked /\ MarsBacked /\ AstroBacked
BY DEF AuctionInv, BaseInv

(* Time passing, and configuration, leave the books alone. *)
LEMMA FrameSafe ==
  ASSUME AuctionInv, TypeOK', now <= now',
         config'.mars_rewards = config.mars_rewards,
         UNCHANGED <<state, users, balance, lp>>
  PROVE  AuctionInv'
<1>1. /\ state' = state /\ users' = users /\ balance' = balance /\ lp' = lp
  OBVIOUS
<1>2. DepositsCovered'
  BY <1>1, BaseParts DEF DepositsCovered, Field, PoolCreated
<1>3. WindowsKept'
  <2>1. now \in Nat /\ now' \in Nat /\ state.pool_init_timestamp \in Nat
    BY BaseParts, StateTypes DEF TypeOK
  <2>2. WindowsEnd \in Nat /\ InitTimestamp \in Nat
    BY AuctionAssumption DEF WindowsEnd, UstDepositsEnd
  <2>3. WindowsKept
    BY BaseParts
  <2> DEFINE started == state.total_mars_deposited + state.total_ust_deposited > 0
  <2>4. (started => InitTimestamp <= now) => (started => InitTimestamp <= now')
    BY <2>1, <2>2
  <2>5. now > WindowsEnd => now' > WindowsEnd
    BY <2>1, <2>2
  <2>6. state.pool_init_timestamp <= now => state.pool_init_timestamp <= now'
    BY <2>1
  <2>7. WindowsEnd' = WindowsEnd
    BY DEF WindowsEnd, UstDepositsEnd
  <2> HIDE DEF WindowsEnd
  <2>8. QED
    BY <1>1, <2>3, <2>4, <2>5, <2>6, <2>7 DEF WindowsKept, PoolCreated, Staked
<1>4. RecordsBounded'
  BY <1>1, BaseParts DEF RecordsBounded, UserLpShare, AuctionReward
<1>5. LpTracked'
  BY <1>1, BaseParts DEF LpTracked, Field, Staked, StakedShares
<1>6. BaseInv'
  BY <1>2, <1>3, <1>4, <1>5 DEF BaseInv
<1>7. MarsBacked' /\ AstroBacked'
  BY <1>1, <1>6, BaseParts, SameUsersState DEF MarsBacked, AstroBacked
<1>8. QED
  BY <1>6, <1>7 DEF BaseInv, AuctionInv

LEMMA TickSafe == AuctionInv /\ Tick => AuctionInv'
<1> SUFFICES ASSUME AuctionInv, Tick PROVE AuctionInv'
  OBVIOUS
<1>1. /\ UNCHANGED <<config, state, users, balance, lp>> /\ now' = now + 1
      /\ config'.mars_rewards = config.mars_rewards
  BY DEF Tick
<1>2. now \in Nat
  BY BaseParts, StateTypes
<1>3. TypeOK'
  BY <1>1, <1>2, BaseParts DEF TypeOK, ConfigRecords, StateRecords, UserRecords
<1>4. QED
  BY <1>1, <1>2, <1>3, FrameSafe

LEMMA UpdateConfigSafe ==
  ASSUME AuctionInv, NEW sender \in Owners, NEW owner \in Owners,
         NEW pool \in Pools \union {config.astroport_lp_pool},
         NEW staking \in Stakings \union {config.mars_lp_staking_contract},
         NEW generator \in Generators,
         UpdateConfig(sender, owner, pool, staking, generator)
  PROVE  AuctionInv'
<1>1. /\ UNCHANGED <<now, state, users, balance, lp>>
      /\ config' = [config EXCEPT !.owner = owner, !.astroport_lp_pool = pool,
                                  !.mars_lp_staking_contract = staking,
                                  !.generator_contract = generator]
  BY DEF UpdateConfig
<1>2. config \in ConfigRecords /\ now \in Nat
  BY BaseParts DEF TypeOK
<1>3. config' \in ConfigRecords /\ config'.mars_rewards = config.mars_rewards
  <2>1. pool \in Pools \union {NoPool} /\ staking \in Stakings \union {NoStaking}
    BY <1>2 DEF ConfigRecords
  <2>2. QED
    BY <1>1, <1>2, <2>1 DEF ConfigRecords
<1>4. TypeOK'
  BY <1>1, <1>3, BaseParts DEF TypeOK, StateRecords, UserRecords
<1>5. QED
  BY <1>1, <1>2, <1>3, <1>4, FrameSafe

LEMMA IncreaseSafe ==
  ASSUME AuctionInv, NEW amount \in IncentiveAmounts, IncreaseMarsIncentives(amount)
  PROVE  AuctionInv'
<1>1. /\ now' = now /\ state' = state /\ users' = users /\ lp' = lp
      /\ config' = [config EXCEPT !.mars_rewards = @ + amount]
      /\ balance' = [balance EXCEPT !.mars = @ + amount]
  BY DEF IncreaseMarsIncentives
<1>2. config \in ConfigRecords /\ balance \in [uusd : Nat, mars : Nat, astro : Nat]
  BY BaseParts DEF TypeOK
<1>3. /\ amount \in Nat /\ config.mars_rewards \in Nat /\ balance.mars \in Nat
      /\ state.total_mars_deposited \in Nat /\ Scale \in Nat
  BY BaseParts, StateTypes, AuctionAssumption, ScaleAssumption
<1>4. /\ config' \in ConfigRecords /\ config'.mars_rewards = config.mars_rewards + amount
      /\ balance' \in [uusd : Nat, mars : Nat, astro : Nat]
      /\ balance'.mars = balance.mars + amount /\ balance'.uusd = balance.uusd
      /\ balance'.astro = balance.astro
  BY <1>1, <1>2, <1>3 DEF ConfigRecords
<1>5. TypeOK'
  BY <1>1, <1>4, BaseParts DEF TypeOK, StateRecords, UserRecords
<1>6. DepositsCovered'
  BY <1>1, <1>4, BaseParts DEF DepositsCovered, Field, PoolCreated
<1>7. WindowsKept'
  BY <1>1, BaseParts DEF WindowsKept, PoolCreated, Staked, WindowsEnd, UstDepositsEnd
<1>8. RecordsBounded'
  <2>1. ASSUME NEW u \in Users
        PROVE  users[u].total_auction_incentives <= AuctionReward(users[u])'
    <3> DEFINE half == (Part(users[u].mars_deposited, state.total_mars_deposited)
                 + Part(users[u].ust_deposited, state.total_ust_deposited)) \div 2
    <3>1. /\ half \in Nat /\ AuctionReward(users[u]) = MulFloor(config.mars_rewards, half)
          /\ AuctionReward(users[u]) \in Nat
      BY BaseParts, ShareTypes
    <3>2. AuctionReward(users[u])' = MulFloor(config.mars_rewards + amount, half)
      BY <1>1, <1>4 DEF AuctionReward
    <3> HIDE DEF half
    <3>3. AuctionReward(users[u]) <= AuctionReward(users[u])'
      BY <1>3, <3>1, <3>2, MulFloorAmountMono
    <3>4. AuctionReward(users[u])' \in Nat
      <4>1. config.mars_rewards + amount \in Nat
        BY <1>3
      <4>2. QED
        BY <3>1, <3>2, <4>1, MulFloorBound
    <3>5. /\ users[u].total_auction_incentives \in Nat
          /\ users[u].total_auction_incentives <= AuctionReward(users[u])
      BY BaseParts, UserTypes DEF RecordsBounded
    <3>6. QED
      BY <3>1, <3>3, <3>4, <3>5
  <2>2. \A u \in Users : UserLpShare(users[u])' = UserLpShare(users[u])
    BY <1>1 DEF UserLpShare
  <2>3. QED
    BY <1>1, <2>1, <2>2, BaseParts DEF RecordsBounded
<1>9. LpTracked'
  BY <1>1, BaseParts DEF LpTracked, Field, Staked, StakedShares
<1>10. BaseInv'
  BY <1>5, <1>6, <1>7, <1>8, <1>9 DEF BaseInv
<1>11. MarsBacked' /\ AstroBacked'
  <2> DEFINE paid == Total(Field("withdrawn_auction_incentives"))
             exact == Total(MarsExact)
  <2>1. paid \in Nat /\ exact \in Nat /\ MarsForPool \in Nat
    BY <1>3, BaseParts, FieldTypes, TotalType, ExactFactsHold DEF ExactFacts, MarsForPool
  <2>2. /\ MarsExact' = MarsExact /\ AstroExact' = AstroExact
        /\ MarsForPool' = MarsForPool
        /\ Field("withdrawn_auction_incentives")' = Field("withdrawn_auction_incentives")
    BY <1>1, <1>10, BaseParts, SameUsersState
  <2>3. Scale * (MarsForPool + config.mars_rewards) + exact <= Scale * (balance.mars + paid)
    BY BaseParts DEF MarsBacked
  <2> HIDE DEF paid, exact
  <2>4. /\ Scale * (MarsForPool + (config.mars_rewards + amount))
             = Scale * (MarsForPool + config.mars_rewards) + Scale * amount
        /\ Scale * ((balance.mars + amount) + paid)
             = Scale * (balance.mars + paid) + Scale * amount
    BY <1>3, <2>1
  <2>5. /\ Scale * (MarsForPool + config.mars_rewards) \in Int
        /\ Scale * (balance.mars + paid) \in Int /\ Scale * amount \in Int
    BY <1>3, <2>1
  <2>6. Scale * (MarsForPool + (config.mars_rewards + amount)) + exact
          <= Scale * ((balance.mars + amount) + paid)
    BY <2>1, <2>3, <2>4, <2>5
  <2>7. MarsBacked'
    BY <1>4, <2>2, <2>6 DEF MarsBacked, paid, exact
  <2>8. QED
    BY <1>4, <2>2, <2>7, BaseParts DEF AstroBacked
<1>12. QED
  BY <1>10, <1>11 DEF BaseInv, AuctionInv

\* What a delegation, a deposit or a withdrawal leaves alone.
OthersKept ==
  /\ now' = now /\ config' = config /\ lp' = lp /\ balance'.astro = balance.astro
  /\ state'.lp_shares_minted = state.lp_shares_minted
  /\ state'.lp_shares_withdrawn = state.lp_shares_withdrawn
  /\ state'.are_staked_for_single_incentives = state.are_staked_for_single_incentives
  /\ state'.are_staked_for_dual_incentives = state.are_staked_for_dual_incentives
  /\ state'.pool_init_timestamp = state.pool_init_timestamp
  /\ state'.global_mars_reward_index = state.global_mars_reward_index
  /\ state'.global_astro_reward_index = state.global_astro_reward_index
  /\ \A v \in Users :
       /\ users'[v].lp_shares = users[v].lp_shares
       /\ users'[v].withdrawn_lp_shares = users[v].withdrawn_lp_shares
       /\ users'[v].total_auction_incentives = users[v].total_auction_incentives
       /\ users'[v].withdrawn_auction_incentives = users[v].withdrawn_auction_incentives
       /\ users'[v].mars_reward_index = users[v].mars_reward_index
       /\ users'[v].astro_reward_index = users[v].astro_reward_index

(* Delegations, deposits and withdrawals happen before the pool is created, while
   nobody has shares or incentives: it is enough that the deposits still add up. *)
LEMMA EarlySafe ==
  ASSUME AuctionInv, TypeOK', DepositsCovered',
         ~PoolCreated, now <= WindowsEnd, InitTimestamp <= now,
         OthersKept,
         balance'.mars - balance.mars
           = state'.total_mars_deposited - state.total_mars_deposited
  PROVE  AuctionInv'
<1>1. /\ state'.lp_shares_minted = state.lp_shares_minted
      /\ state'.lp_shares_withdrawn = state.lp_shares_withdrawn
      /\ state'.are_staked_for_single_incentives = state.are_staked_for_single_incentives
      /\ state'.are_staked_for_dual_incentives = state.are_staked_for_dual_incentives
      /\ state'.pool_init_timestamp = state.pool_init_timestamp
      /\ state'.global_mars_reward_index = state.global_mars_reward_index
      /\ state'.global_astro_reward_index = state.global_astro_reward_index
      /\ now' = now /\ config' = config /\ lp' = lp /\ balance'.astro = balance.astro
  BY DEF OthersKept
<1>2. \A v \in Users :
        /\ users'[v].lp_shares = users[v].lp_shares
        /\ users'[v].withdrawn_lp_shares = users[v].withdrawn_lp_shares
        /\ users'[v].total_auction_incentives = users[v].total_auction_incentives
        /\ users'[v].withdrawn_auction_incentives = users[v].withdrawn_auction_incentives
        /\ users'[v].mars_reward_index = users[v].mars_reward_index
        /\ users'[v].astro_reward_index = users[v].astro_reward_index
  BY DEF OthersKept
<1>3. ~PoolCreated' /\ Staked' = Staked
  BY <1>1 DEF PoolCreated, Staked
<1>4. /\ now \in Nat /\ WindowsEnd \in Nat /\ WindowsEnd' = WindowsEnd
  BY BaseParts, StateTypes, AuctionAssumption DEF WindowsEnd, UstDepositsEnd
<1>5. \A v \in Users :
        /\ users[v].lp_shares = 0 /\ users[v].total_auction_incentives = 0
        /\ users[v].withdrawn_lp_shares = 0 /\ users[v].withdrawn_auction_incentives = 0
  <2>1. ASSUME NEW v \in Users
        PROVE  /\ users[v].lp_shares = 0 /\ users[v].total_auction_incentives = 0
               /\ users[v].withdrawn_lp_shares = 0
               /\ users[v].withdrawn_auction_incentives = 0
    <3>1. users[v].lp_shares = 0
      BY BaseParts DEF WindowsKept
    <3>2. users[v].total_auction_incentives # 0 => now > WindowsEnd
      BY BaseParts DEF WindowsKept
    <3>3. users[v].total_auction_incentives = 0
      BY <3>2, <1>4
    <3>4. /\ users[v].withdrawn_lp_shares <= users[v].lp_shares
          /\ users[v].withdrawn_auction_incentives <= users[v].total_auction_incentives
      BY BaseParts DEF RecordsBounded
    <3>5. /\ users[v].withdrawn_lp_shares \in Nat
          /\ users[v].withdrawn_auction_incentives \in Nat
      BY BaseParts, UserTypes
    <3>6. QED
      BY <3>1, <3>3, <3>4, <3>5
  <2>2. QED
    BY <2>1
<1>6. WindowsKept'
  BY <1>1, <1>2, <1>3, <1>5, BaseParts DEF WindowsKept
<1>7. RecordsBounded'
  <2>1. \A v \in Users : AuctionReward(users[v])' \in Nat
    BY RewardsTypedNext DEF RewardsTyped
  <2>2. QED
    BY <1>1, <1>2, <1>5, <2>1, BaseParts DEF RecordsBounded
<1>8. LpTracked'
  <2>1. Field("withdrawn_lp_shares")' = Field("withdrawn_lp_shares")
    BY <1>2 DEF Field
  <2>2. StakedShares' = StakedShares
    BY <1>1 DEF StakedShares
  <2>3. QED
    BY <1>1, <1>3, <2>1, <2>2, BaseParts DEF LpTracked
<1>9. BaseInv'
  BY <1>6, <1>7, <1>8 DEF BaseInv
<1>10. /\ Total(MarsExact) = 0 /\ Total(AstroExact) = 0
       /\ Total(MarsExact)' = 0 /\ Total(AstroExact)' = 0
  BY <1>3, <1>9, BaseParts, ExactFactsHold, ExactFactsNext DEF ExactFacts
<1>11. MarsBacked'
  <2> DEFINE paid == Total(Field("withdrawn_auction_incentives"))
             more == state'.total_mars_deposited - state.total_mars_deposited
  <2>1. /\ paid \in Nat /\ config.mars_rewards \in Nat /\ balance.mars \in Nat
        /\ state.total_mars_deposited \in Nat /\ Scale \in Nat
    BY BaseParts, FieldTypes, TotalType, StateTypes, ScaleAssumption
  <2>2. state'.total_mars_deposited \in Nat /\ balance'.mars \in Nat
    BY DEF TypeOK, StateRecords
  <2>3. Field("withdrawn_auction_incentives")' = Field("withdrawn_auction_incentives")
    BY <1>2 DEF Field
  <2>4. /\ MarsForPool = state.total_mars_deposited
        /\ MarsForPool' = state.total_mars_deposited + more
        /\ balance'.mars = balance.mars + more /\ more \in Int
    BY <1>3, <2>1, <2>2 DEF MarsForPool
  <2>5. Scale * (state.total_mars_deposited + config.mars_rewards)
          <= Scale * (balance.mars + paid)
    <3>1. Scale * (state.total_mars_deposited + config.mars_rewards) \in Int
      BY <2>1
    <3>2. QED
      BY <3>1, <1>10, <2>4, BaseParts DEF MarsBacked
  <2> HIDE DEF paid, more
  <2>6. /\ Scale * ((state.total_mars_deposited + more) + config.mars_rewards)
             = Scale * (state.total_mars_deposited + config.mars_rewards) + Scale * more
        /\ Scale * ((balance.mars + more) + paid)
             = Scale * (balance.mars + paid) + Scale * more
    BY <2>1, <2>4
  <2>7. /\ Scale * (state.total_mars_deposited + config.mars_rewards) \in Int
        /\ Scale * (balance.mars + paid) \in Int /\ Scale * more \in Int
    BY <2>1, <2>4
  <2>8. Scale * ((state.total_mars_deposited + more) + config.mars_rewards) + 0
          <= Scale * ((balance.mars + more) + paid)
    BY <2>5, <2>6, <2>7
  <2>9. QED
    BY <1>1, <1>10, <2>3, <2>4, <2>8 DEF MarsBacked, paid
<1>12. AstroBacked'
  BY <1>1, <1>10, BaseParts DEF AstroBacked
<1>13. QED
  BY <1>9, <1>11, <1>12 DEF BaseInv, AuctionInv

\* The deposits of u become mars and ust.
SetsDeposits(u, mars, ust, flag) ==
  users' = [users EXCEPT ![u] =
              [users[u] EXCEPT !.mars_deposited = mars, !.ust_deposited = ust,
                               !.ust_withdrawn_flag = flag]]

(* Changing a user's deposits moves the totals of deposits by the same amounts. *)
LEMMA DepositsMove ==
  ASSUME TypeOK, NEW u \in Users, NEW mars \in Nat, NEW ust \in Nat, NEW flag \in BOOLEAN,
         SetsDeposits(u, mars, ust, flag)
  PROVE  /\ users' \in [Users -> UserRecords]
         /\ Total(Field("mars_deposited"))'
              = Total(Field("mars_deposited")) + (mars - users[u].mars_deposited)
         /\ Total(Field("ust_deposited"))'
              = Total(Field("ust_deposited")) + (ust - users[u].ust_deposited)
         /\ \A v \in Users :
              /\ users'[v].lp_shares = users[v].lp_shares
              /\ users'[v].withdrawn_lp_shares = users[v].withdrawn_lp_shares
              /\ users'[v].total_auction_incentives = users[v].total_auction_incentives
              /\ users'[v].withdrawn_auction_incentives
                   = users[v].withdrawn_auction_incentives
              /\ users'[v].mars_reward_index = users[v].mars_reward_index
              /\ users'[v].astro_reward_index = users[v].astro_reward_index
<1> DEFINE info == [users[u] EXCEPT !.mars_deposited = mars, !.ust_deposited = ust,
                                    !.ust_withdrawn_flag = flag]
<1>1. /\ info \in UserRecords
      /\ info.mars_deposited = mars /\ info.ust_deposited = ust
      /\ info.lp_shares = users[u].lp_shares
      /\ info.withdrawn_lp_shares = users[u].withdrawn_lp_shares
      /\ info.total_auction_incentives = users[u].total_auction_incentives
      /\ info.withdrawn_auction_incentives = users[u].withdrawn_auction_incentives
      /\ info.mars_reward_index = users[u].mars_reward_index
      /\ info.astro_reward_index = users[u].astro_reward_index
  <2>1. users[u] \in UserRecords
    BY DEF TypeOK
  <2>2. QED
    BY <2>1 DEF UserRecords
<1>2. users' = [users EXCEPT ![u] = info] /\ users \in [Users -> UserRecords]
  BY DEF TypeOK, SetsDeposits
<1> HIDE DEF info
<1>3. users'[u] = info /\ \A v \in Users : v # u => users'[v] = users[v]
  BY <1>2
<1>4. users' \in [Users -> UserRecords]
  BY <1>1, <1>2
<1> DEFINE m == Field("mars_deposited")  t == Field("ust_deposited")
           m2 == [v \in Users |-> users'[v].mars_deposited]
           t2 == [v \in Users |-> users'[v].ust_deposited]
<1>5. m' = m2 /\ t' = t2
  BY DEF Field
<1>6. /\ IsFiniteSet(Users) /\ m \in [Users -> Nat] /\ t \in [Users -> Nat]
      /\ m[u] = users[u].mars_deposited /\ t[u] = users[u].ust_deposited
      /\ \A v \in Users : m[v] = users[v].mars_deposited /\ t[v] = users[v].ust_deposited
  BY FieldTypes DEF Field
<1>7. /\ m2 \in [Users -> Nat] /\ t2 \in [Users -> Nat]
      /\ m2[u] = mars /\ t2[u] = ust
      /\ \A v \in Users \ {u} : m2[v] = m[v] /\ t2[v] = t[v]
  <2>1. \A v \in Users : users'[v].mars_deposited \in Nat /\ users'[v].ust_deposited \in Nat
    BY <1>4 DEF UserRecords
  <2>2. QED
    BY <2>1, <1>1, <1>3, <1>6
<1> HIDE DEF m, t, m2, t2
<1>8. Total(m2) = Total(m) - m[u] + m2[u] /\ Total(t2) = Total(t) - t[u] + t2[u]
  BY <1>6, <1>7, TotalPoint
<1>9. /\ Total(m) \in Nat /\ Total(t) \in Nat /\ m[u] \in Nat /\ t[u] \in Nat
  BY <1>6, TotalType
<1>10. /\ Total(m)' = Total(m) + (mars - users[u].mars_deposited)
       /\ Total(t)' = Total(t) + (ust - users[u].ust_deposited)
  BY <1>5, <1>6, <1>7, <1>8, <1>9
<1>11. QED
  BY <1>1, <1>3, <1>4, <1>10 DEF m, t

LEMMA DepositMarsSafe ==
  ASSUME AuctionInv, NEW u \in Users, NEW amount \in Nat, DepositMarsTokens(u, amount)
  PROVE  AuctionInv'
<1> DEFINE mars == users[u].mars_deposited + amount
           ust  == users[u].ust_deposited
           flag == users[u].ust_withdrawn_flag
<1>1. /\ now' = now /\ config' = config /\ lp' = lp
      /\ state' = [state EXCEPT !.total_mars_deposited = @ + amount]
      /\ balance' = [balance EXCEPT !.mars = @ + amount]
      /\ users' = [users EXCEPT ![u].mars_deposited = @ + amount]
      /\ InitTimestamp <= now /\ now <= MarsDelegationsEnd /\ amount > 0
  BY DEF DepositMarsTokens
<1>2. /\ now \in Nat /\ state.total_mars_deposited \in Nat /\ balance.mars \in Nat
      /\ state.total_ust_deposited \in Nat /\ balance.uusd \in Nat
  BY BaseParts, StateTypes
<1>3. mars \in Nat /\ ust \in Nat /\ flag \in BOOLEAN /\ users[u].mars_deposited \in Nat
  BY BaseParts, UserTypes
<1>4. state \in StateRecords /\ balance \in [uusd : Nat, mars : Nat, astro : Nat]
  BY BaseParts DEF TypeOK
<1>5. /\ state' \in StateRecords
      /\ state'.total_mars_deposited = state.total_mars_deposited + amount
      /\ state'.total_ust_deposited = state.total_ust_deposited
  BY <1>1, <1>2, <1>4 DEF StateRecords
<1>6. /\ balance' \in [uusd : Nat, mars : Nat, astro : Nat]
      /\ balance'.mars = balance.mars + amount /\ balance'.uusd = balance.uusd
      /\ balance'.astro = balance.astro
  BY <1>1, <1>2, <1>4
<1>7. SetsDeposits(u, mars, ust, flag)
  <2>1. users \in [Users -> UserRecords] /\ users[u] \in UserRecords
    BY BaseParts DEF TypeOK
  <2>2. [users[u] EXCEPT !.mars_deposited = mars]
          = [users[u] EXCEPT !.mars_deposited = mars, !.ust_deposited = ust,
                             !.ust_withdrawn_flag = flag]
    BY <2>1 DEF UserRecords
  <2>3. QED
    BY <1>1, <2>1, <2>2 DEF SetsDeposits
<1> HIDE DEF mars, ust, flag
<1>8. /\ users' \in [Users -> UserRecords]
      /\ Total(Field("mars_deposited"))'
           = Total(Field("mars_deposited")) + (mars - users[u].mars_deposited)
      /\ Total(Field("ust_deposited"))'
           = Total(Field("ust_deposited")) + (ust - users[u].ust_deposited)
      /\ \A v \in Users :
           /\ users'[v].lp_shares = users[v].lp_shares
           /\ users'[v].withdrawn_lp_shares = users[v].withdrawn_lp_shares
           /\ users'[v].total_auction_incentives = users[v].total_auction_incentives
           /\ users'[v].withdrawn_auction_incentives = users[v].withdrawn_auction_incentives
           /\ users'[v].mars_reward_index = users[v].mars_reward_index
           /\ users'[v].astro_reward_index = users[v].astro_reward_index
  BY <1>3, <1>7, BaseParts, DepositsMove
<1>9. TypeOK'
  BY <1>1, <1>5, <1>6, <1>8, BaseParts DEF TypeOK, ConfigRecords
<1>10. ~PoolCreated /\ now <= WindowsEnd
  <2>1. now <= WindowsEnd /\ WindowsEnd \in Nat
    BY <1>1, <1>2, AuctionAssumption DEF MarsDelegationsEnd, WindowsEnd, UstDepositsEnd
  <2>2. PoolCreated => now > WindowsEnd
    BY BaseParts DEF WindowsKept
  <2>3. QED
    BY <1>2, <2>1, <2>2
<1>11. DepositsCovered'
  <2>1. /\ mars - users[u].mars_deposited = amount /\ ust - users[u].ust_deposited = 0
    BY <1>3, BaseParts, UserTypes DEF mars, ust
  <2>2. /\ Total(Field("mars_deposited")) = state.total_mars_deposited
        /\ Total(Field("ust_deposited")) = state.total_ust_deposited
        /\ state.total_ust_deposited <= balance.uusd
    BY <1>10, BaseParts DEF DepositsCovered
  <2>3. QED
    BY <1>2, <1>5, <1>6, <1>8, <2>1, <2>2 DEF DepositsCovered
<1>12. OthersKept
  <2>1. /\ state'.lp_shares_minted = state.lp_shares_minted
        /\ state'.lp_shares_withdrawn = state.lp_shares_withdrawn
        /\ state'.are_staked_for_single_incentives = state.are_staked_for_single_incentives
        /\ state'.are_staked_for_dual_incentives = state.are_staked_for_dual_incentives
        /\ state'.pool_init_timestamp = state.pool_init_timestamp
        /\ state'.global_mars_reward_index = state.global_mars_reward_index
        /\ state'.global_astro_reward_index = state.global_astro_reward_index
    BY <1>1, <1>4 DEF StateRecords
  <2>2. QED
    BY <1>1, <1>6, <1>8, <2>1 DEF OthersKept
<1>13. balance'.mars - balance.mars
         = state'.total_mars_deposited - state.total_mars_deposited
  BY <1>2, <1>5, <1>6
<1>14. QED
  BY <1>1, <1>9, <1>10, <1>11, <1>12, <1>13, EarlySafe

(* What deposits and withdrawals of UST have in common: before the pool is created
   the total moves with the user's deposit, and enough UST stays to cover it. *)
LEMMA UstMoveSafe ==
  ASSUME AuctionInv, NEW u \in Users, NEW delta \in Int, NEW moved \in Int,
         NEW flag \in BOOLEAN,
         now' = now, config' = config, lp' = lp,
         InitTimestamp <= now, now <= WindowsEnd,
         state' = [state EXCEPT !.total_ust_deposited = @ + delta],
         balance' = [balance EXCEPT !.uusd = @ + moved],
         users' = [users EXCEPT ![u] =
           [users[u] EXCEPT !.ust_deposited = @ + delta, !.ust_withdrawn_flag = flag]],
         users[u].ust_deposited + delta \in Nat,
         state.total_ust_deposited + delta \in Nat,
         balance.uusd + moved \in Nat, delta <= moved
  PROVE  AuctionInv'
<1> DEFINE mars == users[u].mars_deposited
           ust  == users[u].ust_deposited + delta
<1>1. /\ now \in Nat /\ state.total_mars_deposited \in Nat /\ balance.mars \in Nat
      /\ state.total_ust_deposited \in Nat /\ balance.uusd \in Nat
  BY BaseParts, StateTypes
<1>2. mars \in Nat /\ ust \in Nat /\ users[u].ust_deposited \in Nat
  BY BaseParts, UserTypes
<1>3. state \in StateRecords /\ balance \in [uusd : Nat, mars : Nat, astro : Nat]
  BY BaseParts DEF TypeOK
<1>4. /\ state' \in StateRecords
      /\ state'.total_mars_deposited = state.total_mars_deposited
      /\ state'.total_ust_deposited = state.total_ust_deposited + delta
  BY <1>3 DEF StateRecords
<1>5. /\ balance' \in [uusd : Nat, mars : Nat, astro : Nat]
      /\ balance'.mars = balance.mars /\ balance'.uusd = balance.uusd + moved
      /\ balance'.astro = balance.astro
  BY <1>3
<1>6. SetsDeposits(u, mars, ust, flag)
  <2>1. users[u] \in UserRecords
    BY BaseParts DEF TypeOK
  <2>2. [users[u] EXCEPT !.ust_deposited = ust, !.ust_withdrawn_flag = flag]
          = [users[u] EXCEPT !.mars_deposited = mars, !.ust_deposited = ust,
                             !.ust_withdrawn_flag = flag]
    BY <2>1 DEF UserRecords
  <2>3. QED
    BY <2>2 DEF SetsDeposits
<1> HIDE DEF mars, ust
<1>7. /\ users' \in [Users -> UserRecords]
      /\ Total(Field("mars_deposited"))'
           = Total(Field("mars_deposited")) + (mars - users[u].mars_deposited)
      /\ Total(Field("ust_deposited"))'
           = Total(Field("ust_deposited")) + (ust - users[u].ust_deposited)
      /\ \A v \in Users :
           /\ users'[v].lp_shares = users[v].lp_shares
           /\ users'[v].withdrawn_lp_shares = users[v].withdrawn_lp_shares
           /\ users'[v].total_auction_incentives = users[v].total_auction_incentives
           /\ users'[v].withdrawn_auction_incentives = users[v].withdrawn_auction_incentives
           /\ users'[v].mars_reward_index = users[v].mars_reward_index
           /\ users'[v].astro_reward_index = users[v].astro_reward_index
  BY <1>2, <1>6, BaseParts, DepositsMove
<1>8. TypeOK'
  BY <1>4, <1>5, <1>7, BaseParts DEF TypeOK, ConfigRecords
<1>9. ~PoolCreated
  <2>1. PoolCreated => now > WindowsEnd
    BY BaseParts DEF WindowsKept
  <2>2. WindowsEnd \in Nat
    BY AuctionAssumption DEF WindowsEnd, UstDepositsEnd
  <2>3. QED
    BY <1>1, <2>1, <2>2
<1>10. DepositsCovered'
  <2>1. /\ mars - users[u].mars_deposited = 0 /\ ust - users[u].ust_deposited = delta
    BY <1>2, BaseParts, UserTypes DEF mars, ust
  <2>2. /\ Total(Field("mars_deposited")) = state.total_mars_deposited
        /\ Total(Field("ust_deposited")) = state.total_ust_deposited
        /\ state.total_ust_deposited <= balance.uusd
    BY <1>9, BaseParts DEF DepositsCovered
  <2>3. state.total_ust_deposited + delta <= balance.uusd + moved
    BY <1>1, <2>2
  <2>4. QED
    BY <1>1, <1>4, <1>5, <1>7, <2>1, <2>2, <2>3 DEF DepositsCovered
<1>11. OthersKept
  <2>1. /\ state'.lp_shares_minted = state.lp_shares_minted
        /\ state'.lp_shares_withdrawn = state.lp_shares_withdrawn
        /\ state'.are_staked_for_single_incentives = state.are_staked_for_single_incentives
        /\ state'.are_staked_for_dual_incentives = state.are_staked_for_dual_incentives
        /\ state'.pool_init_timestamp = state.pool_init_timestamp
        /\ state'.global_mars_reward_index = state.global_mars_reward_index
        /\ state'.global_astro_reward_index = state.global_astro_reward_index
    BY <1>3 DEF StateRecords
  <2>2. QED
    BY <1>5, <1>7, <2>1 DEF OthersKept
<1>12. balance'.mars - balance.mars
         = state'.total_mars_deposited - state.total_mars_deposited
  BY <1>1, <1>4, <1>5
<1>13. QED
  BY <1>8, <1>9, <1>10, <1>11, <1>12, EarlySafe

LEMMA DepositUstSafe ==
  ASSUME AuctionInv, NEW u \in Users, NEW amount \in Nat, DepositUst(u, amount)
  PROVE  AuctionInv'
<1>1. /\ now' = now /\ config' = config /\ lp' = lp
      /\ state' = [state EXCEPT !.total_ust_deposited = @ + amount]
      /\ balance' = [balance EXCEPT !.uusd = @ + amount]
      /\ users' = [users EXCEPT ![u].ust_deposited = @ + amount]
      /\ InitTimestamp <= now /\ now <= UstDepositsEnd
  BY DEF DepositUst
<1>2. /\ now \in Nat /\ state.total_ust_deposited \in Nat /\ balance.uusd \in Nat
      /\ users[u].ust_deposited \in Nat /\ users[u].ust_withdrawn_flag \in BOOLEAN
  BY BaseParts, StateTypes, UserTypes
<1>3. now <= WindowsEnd
  BY <1>1, <1>2, AuctionAssumption DEF WindowsEnd, UstDepositsEnd
<1>4. users' = [users EXCEPT ![u] =
         [users[u] EXCEPT !.ust_deposited = @ + amount,
                          !.ust_withdrawn_flag = users[u].ust_withdrawn_flag]]
  <2>1. users[u] \in UserRecords
    BY BaseParts DEF TypeOK
  <2>2. [users[u] EXCEPT !.ust_deposited = @ + amount]
          = [users[u] EXCEPT !.ust_deposited = @ + amount,
                             !.ust_withdrawn_flag = users[u].ust_withdrawn_flag]
    BY <2>1 DEF UserRecords
  <2>3. QED
    BY <1>1, <2>2
<1>5. /\ amount \in Int /\ amount <= amount
      /\ users[u].ust_deposited + amount \in Nat
      /\ state.total_ust_deposited + amount \in Nat
      /\ balance.uusd + amount \in Nat
  BY <1>2
<1>6. QED
  BY <1>1, <1>2, <1>3, <1>4, <1>5, UstMoveSafe

(* After the windows nothing may be withdrawn, and before they start nothing has
   been deposited. *)
LEMMA WithdrawUstSafe ==
  ASSUME AuctionInv, NEW u \in Users, NEW amount \in Nat \ {0}, WithdrawUst(u, amount)
  PROVE  AuctionInv'
<1> DEFINE sent  == DeductAstroportTax(amount)
           gone  == sent + ChainTax(sent)
           allowed == AllowedWithdrawalPercent(now)
           flag  == users[u].ust_withdrawn_flag \/ now > UstDepositsEnd
<1>1. /\ now' = now /\ config' = config /\ lp' = lp
      /\ state' = [state EXCEPT !.total_ust_deposited = @ - amount]
      /\ balance' = [balance EXCEPT !.uusd = @ - sent - ChainTax(sent)]
      /\ users' = [users EXCEPT ![u] =
           [users[u] EXCEPT !.ust_deposited = @ - amount,
                            !.ust_withdrawn_flag = @ \/ now > UstDepositsEnd]]
      /\ amount <= MulFloor(users[u].ust_deposited, allowed)
      /\ amount <= state.total_ust_deposited /\ gone <= balance.uusd
  BY DEF WithdrawUst
<1>2. /\ now \in Nat /\ state.total_ust_deposited \in Nat /\ balance.uusd \in Nat
      /\ state.total_mars_deposited \in Nat
      /\ users[u].ust_deposited \in Nat /\ users[u].ust_withdrawn_flag \in BOOLEAN
  BY BaseParts, StateTypes, UserTypes
<1>3. /\ UstDepositsEnd \in Nat /\ WindowsEnd \in Nat /\ InitTimestamp \in Nat
      /\ HalfWindowEnd \in Nat /\ FinalCutoff \in Nat
      /\ UstDepositsEnd <= HalfWindowEnd /\ HalfWindowEnd <= FinalCutoff
      /\ FinalCutoff <= WindowsEnd
  <2> DEFINE half == WithdrawalWindow \div 2
  <2>1. half \in Nat /\ half + half <= WithdrawalWindow
    BY AuctionAssumption
  <2> HIDE DEF half
  <2>2. UstDepositsEnd \in Nat /\ WithdrawalWindow \in Nat /\ InitTimestamp \in Nat
    BY AuctionAssumption DEF UstDepositsEnd
  <2>3. /\ HalfWindowEnd = UstDepositsEnd + half /\ FinalCutoff = HalfWindowEnd + half
        /\ WindowsEnd = UstDepositsEnd + WithdrawalWindow
    BY DEF HalfWindowEnd, FinalCutoff, WindowsEnd, half
  <2>4. QED
    BY <2>1, <2>2, <2>3
<1>4. now <= WindowsEnd
  <2>1. SUFFICES ASSUME now > WindowsEnd PROVE FALSE
    BY <1>2, <1>3
  <2>2. ~(now <= UstDepositsEnd) /\ ~(now <= HalfWindowEnd) /\ ~(now < FinalCutoff)
    BY <1>2, <1>3, <2>1
  <2>3. allowed = 0
    BY <2>2 DEF AllowedWithdrawalPercent
  <2>4. MulFloor(users[u].ust_deposited, allowed) = 0
    BY <1>2, <2>3, MulFloorZero
  <2>5. QED
    BY <1>1, <2>4
<1>5. InitTimestamp <= now
  <2>1. state.total_mars_deposited + state.total_ust_deposited > 0
    BY <1>1, <1>2
  <2>2. QED
    BY <2>1, BaseParts DEF WindowsKept
<1>6. amount <= users[u].ust_deposited
  <2>1. SUFFICES allowed \in Nat /\ allowed <= Scale
    <3>1. MulFloor(users[u].ust_deposited, allowed) \in Nat
      BY <2>1, <1>2, MulFloorBound
    <3>2. MulFloor(users[u].ust_deposited, allowed) <= users[u].ust_deposited
      BY <2>1, <1>2, WholeBound
    <3>3. QED
      BY <1>1, <1>2, <3>1, <3>2
  <2>2. Scale \in Nat \ {0}
    BY ScaleAssumption
  <2>3. CASE now <= UstDepositsEnd
    BY <2>2, <2>3 DEF AllowedWithdrawalPercent, One
  <2>4. CASE ~(now <= UstDepositsEnd) /\ now <= HalfWindowEnd
    <3>1. 50 \in Nat /\ 100 \in Nat \ {0} /\ 50 <= 100
      OBVIOUS
    <3>2. FromRatio(50, 100) \in Nat /\ FromRatio(50, 100) * 100 <= 50 * Scale
      BY <3>1, FromRatioBound
    <3>3. FromRatio(50, 100) <= Scale
      BY <2>2, <3>2
    <3>4. QED
      BY <2>4, <3>2, <3>3 DEF AllowedWithdrawalPercent
  <2>5. CASE ~(now <= UstDepositsEnd) /\ ~(now <= HalfWindowEnd) /\ now < FinalCutoff
    <3> DEFINE n == 50 * (FinalCutoff - now)  d == 100 * (FinalCutoff - HalfWindowEnd)
               r == FromRatio(n, d)
    <3>1. n \in Nat /\ d \in Nat \ {0} /\ n <= d
      BY <1>2, <1>3, <2>5
    <3>2. allowed = r
      BY <2>5 DEF AllowedWithdrawalPercent
    <3> HIDE DEF n, d, r
    <3>3. r \in Nat /\ r * d <= n * Scale
      BY <3>1, FromRatioBound DEF r
    <3>4. n * Scale <= d * Scale /\ d * Scale = Scale * d
      BY <3>1, <2>2, ProductMono
    <3>5. r * d \in Nat /\ n * Scale \in Nat /\ Scale * d \in Nat
      BY <3>1, <3>3, <2>2, ProductNat
    <3>6. r <= Scale
      <4>1. r * d <= Scale * d
        BY <3>3, <3>4, <3>5
      <4>2. QED
        BY <4>1, <3>1, <3>3, <2>2, ProductCancel
    <3>7. QED
      BY <3>2, <3>3, <3>6
  <2>6. CASE ~(now <= UstDepositsEnd) /\ ~(now <= HalfWindowEnd) /\ ~(now < FinalCutoff)
    BY <2>2, <2>6 DEF AllowedWithdrawalPercent
  <2>7. QED
    BY <2>3, <2>4, <2>5, <2>6
<1>7. sent \in Nat /\ ChainTax(sent) \in Nat /\ gone <= amount
  BY AstroportTaxWithin
<1> HIDE DEF sent, allowed
<1>8. /\ -amount \in Int /\ -gone \in Int /\ -amount <= -gone
      /\ users[u].ust_deposited + -amount \in Nat
      /\ state.total_ust_deposited + -amount \in Nat
      /\ balance.uusd + -gone \in Nat
      /\ users[u].ust_deposited - amount = users[u].ust_deposited + -amount
      /\ state.total_ust_deposited - amount = state.total_ust_deposited + -amount
      /\ balance.uusd - sent - ChainTax(sent) = balance.uusd + -gone
  BY <1>1, <1>2, <1>6, <1>7
<1>9. flag \in BOOLEAN
  BY <1>2
<1>10. /\ state' = [state EXCEPT !.total_ust_deposited = @ + -amount]
       /\ balance' = [balance EXCEPT !.uusd = @ + -gone]
       /\ users' = [users EXCEPT ![u] =
            [users[u] EXCEPT !.ust_deposited = @ + -amount, !.ust_withdrawn_flag = flag]]
  BY <1>1, <1>8
<1> HIDE DEF gone, flag
<1>11. QED
  BY <1>1, <1>4, <1>5, <1>8, <1>9, <1>10, UstMoveSafe

LEMMA ExactAtZero ==
  ASSUME NEW I, NEW W \in [I -> Nat], NEW idx \in [I -> Nat], \A i \in I : idx[i] <= 0
  PROVE  Total(Exact(I, W, idx, 0)) = 0
<1>1. ASSUME NEW i \in I PROVE Exact(I, W, idx, 0)[i] = 0
  <2>1. W[i] \in Nat /\ idx[i] = 0 /\ Scale \in Nat
    <3>1. W[i] \in Nat /\ idx[i] \in Nat /\ idx[i] <= 0
      OBVIOUS
    <3>2. QED
      BY <3>1, ScaleAssumption
  <2>2. MulFloor(W[i], 0) = 0
    BY <2>1, MulFloorZero
  <2>3. Exact(I, W, idx, 0)[i] = W[i] * 0 - Scale * 0
    BY <2>1, <2>2 DEF Exact
  <2>4. ASSUME NEW w \in Nat PROVE w * 0 = 0
    OBVIOUS
  <2>5. W[i] * 0 = 0 /\ Scale * 0 = 0
    BY <2>1, <2>4
  <2>6. QED
    BY <2>3, <2>5
<1>2. Exact(I, W, idx, 0) \in [I -> Nat]
  <2>1. Exact(I, W, idx, 0) = [i \in I |-> Exact(I, W, idx, 0)[i]]
    BY DEF Exact
  <2>2. \A i \in I : Exact(I, W, idx, 0)[i] \in Nat
    BY <1>1
  <2>3. QED
    BY <2>1, <2>2, Zenon
<1>3. QED
  BY <1>1, <1>2, TotalZero

(* What goes into the pool is what was deposited for it; the taxes are in it. *)
LEMMA InitPoolSafe ==
  ASSUME AuctionInv, NEW sender \in Owners, NEW minted \in MintChoices,
         InitPool(sender, minted)
  PROVE  AuctionInv'
<1> DEFINE gone == UstForPool + ChainTax(UstForPool)
           M == state.total_mars_deposited
<1>1. /\ now' = now /\ config' = config /\ users' = users
      /\ state' = [state EXCEPT !.lp_shares_minted = minted, !.pool_init_timestamp = now]
      /\ balance' = [balance EXCEPT !.mars = @ - M,
                                    !.uusd = @ - UstForPool - ChainTax(UstForPool)]
      /\ lp' = [lp EXCEPT !.pool = config.astroport_lp_pool, !.held = @ + minted]
      /\ AreWindowsClosed(now) /\ state.lp_shares_minted = 0
      /\ M > 0 /\ UstForPool > 0 /\ M <= balance.mars /\ gone <= balance.uusd
      /\ minted > 0
  BY DEF InitPool, CanInitPool
<1>2. /\ now \in Nat /\ M \in Nat /\ state.total_ust_deposited \in Nat
      /\ balance.mars \in Nat /\ balance.uusd \in Nat /\ lp.held \in Nat
      /\ state.lp_shares_withdrawn \in Nat /\ minted \in Nat /\ Scale \in Nat
      /\ config.mars_rewards \in Nat
  BY BaseParts, StateTypes, AuctionAssumption, ScaleAssumption
<1>3. /\ state \in StateRecords /\ balance \in [uusd : Nat, mars : Nat, astro : Nat]
      /\ lp \in [pool : Pools \union {NoPool}, held : Nat, staked : [Contracts -> Nat]]
      /\ config.astroport_lp_pool \in Pools \union {NoPool}
  BY BaseParts DEF TypeOK, ConfigRecords
<1>4. /\ UstForPool \in Nat /\ ChainTax(UstForPool) \in Nat
      /\ gone <= state.total_ust_deposited
  BY <1>2, AstroportTaxWithin DEF UstForPool
<1>5. /\ state' \in StateRecords
      /\ state'.lp_shares_minted = minted /\ state'.pool_init_timestamp = now
      /\ state'.total_mars_deposited = M
      /\ state'.total_ust_deposited = state.total_ust_deposited
      /\ state'.lp_shares_withdrawn = state.lp_shares_withdrawn
      /\ state'.are_staked_for_single_incentives = state.are_staked_for_single_incentives
      /\ state'.are_staked_for_dual_incentives = state.are_staked_for_dual_incentives
      /\ state'.global_mars_reward_index = state.global_mars_reward_index
      /\ state'.global_astro_reward_index = state.global_astro_reward_index
  BY <1>1, <1>2, <1>3 DEF StateRecords
<1>6. /\ balance' \in [uusd : Nat, mars : Nat, astro : Nat]
      /\ balance'.mars = balance.mars - M /\ balance'.astro = balance.astro
  <2>1. balance.mars - M \in Nat /\ balance.uusd - UstForPool - ChainTax(UstForPool) \in Nat
    BY <1>1, <1>2, <1>4
  <2>2. QED
    BY <1>1, <1>3, <2>1
<1>7. /\ lp' \in [pool : Pools \union {NoPool}, held : Nat, staked : [Contracts -> Nat]]
      /\ lp'.held = lp.held + minted /\ lp'.staked = lp.staked
  <2>1. lp.held + minted \in Nat
    BY <1>2
  <2>2. lp' = [pool |-> config.astroport_lp_pool, held |-> lp.held + minted,
               staked |-> lp.staked]
    BY <1>1, <1>3
  <2>3. lp.staked \in [Contracts -> Nat]
    BY <1>3
  <2>4. QED
    BY <2>1, <2>2, <2>3, <1>3
<1>8. TypeOK'
  BY <1>1, <1>5, <1>6, <1>7, BaseParts DEF TypeOK, ConfigRecords, UserRecords
<1>9. ~PoolCreated /\ PoolCreated' /\ Staked' = Staked /\ ~Staked
  BY <1>1, <1>5, BaseParts DEF PoolCreated, Staked, WindowsKept
<1>10. DepositsCovered'
  <2>1. Field("mars_deposited")' = Field("mars_deposited")
    BY <1>1 DEF Field
  <2>2. Field("ust_deposited")' = Field("ust_deposited")
    BY <1>1 DEF Field
  <2>3. QED
    BY <1>5, <1>9, <2>1, <2>2, BaseParts DEF DepositsCovered
<1>11. now > WindowsEnd /\ WindowsEnd \in Nat
  <2>1. InitTimestamp <= now
    BY <1>1, <1>2, BaseParts DEF WindowsKept
  <2>2. WindowsEnd \in Nat /\ InitTimestamp \in Nat
    BY AuctionAssumption DEF WindowsEnd, UstDepositsEnd
  <2>3. QED
    BY <1>1, <1>2, <2>1, <2>2 DEF AreWindowsClosed, WindowsEnd
<1>12. WindowsKept'
  <2>1. WindowsEnd' = WindowsEnd
    BY DEF WindowsEnd, UstDepositsEnd
  <2>2. state.total_ust_deposited > 0 /\ now > 0 /\ InitTimestamp <= now
    <3>1. M + state.total_ust_deposited > 0
      BY <1>1, <1>2
    <3>2. QED
      BY <1>1, <1>2, <1>4, <1>11, <3>1, BaseParts DEF WindowsKept
  <2>3. QED
    BY <1>1, <1>2, <1>5, <1>9, <1>11, <2>1, <2>2 DEF WindowsKept
<1>13. RecordsBounded'
  <2>1. \A u \in Users : users[u].lp_shares = 0
    BY <1>9, BaseParts DEF WindowsKept
  <2>2. \A u \in Users : AuctionReward(users[u])' = AuctionReward(users[u])
    BY <1>1, <1>5 DEF AuctionReward
  <2>3. QED
    BY <1>1, <1>5, <2>1, <2>2, BaseParts DEF RecordsBounded
<1>14. LpTracked'
  <2>1. Field("withdrawn_lp_shares")' = Field("withdrawn_lp_shares")
    BY <1>1 DEF Field
  <2>2. StakedShares' = StakedShares + minted
    BY <1>1, <1>2, <1>5 DEF StakedShares
  <2>3. /\ StakedShares \in Nat /\ Total(lp.staked) \in Nat
        /\ StakedShares = lp.held + Total(lp.staked)
    BY BaseParts, StakedSharesType
  <2>4. /\ ~state.are_staked_for_single_incentives /\ ~state.are_staked_for_dual_incentives
        /\ lp.held = StakedShares
    BY <1>9, BaseParts DEF Staked, LpTracked
  <2>5. /\ lp.held + minted = StakedShares + minted
        /\ (lp.held + minted) + Total(lp.staked) = StakedShares + minted
    BY <1>2, <2>3, <2>4
  <2>6. Total(Field("withdrawn_lp_shares")) = state.lp_shares_withdrawn
    BY BaseParts DEF LpTracked
  <2>7. QED
    BY <1>5, <1>7, <2>1, <2>2, <2>4, <2>5, <2>6 DEF LpTracked
<1>15. BaseInv'
  BY <1>8, <1>10, <1>12, <1>13, <1>14 DEF BaseInv
<1>16. Total(MarsExact)' = 0 /\ Total(AstroExact)' = 0
  <2> DEFINE W == [u \in Users |-> Left'[u]]
             m == [u \in Users |-> users[u].mars_reward_index]
             a == [u \in Users |-> users[u].astro_reward_index]
  <2>1. /\ state.global_mars_reward_index = 0 /\ state.global_astro_reward_index = 0
    BY <1>9, BaseParts DEF WindowsKept
  <2>2. Left' = W /\ W \in [Users -> Nat]
    BY <1>15, LeftFactsNext DEF LeftFacts
  <2>3. Field("mars_reward_index")' = m /\ Field("astro_reward_index")' = a
    BY <1>1 DEF Field
  <2>4. m \in [Users -> Nat] /\ a \in [Users -> Nat]
    BY BaseParts, UserTypes
  <2>5. \A u \in Users : m[u] <= 0 /\ a[u] <= 0
    BY <2>1, BaseParts DEF RecordsBounded
  <2> HIDE DEF W, m, a
  <2>6. Total(Exact(Users, W, m, 0)) = 0 /\ Total(Exact(Users, W, a, 0)) = 0
    BY <2>2, <2>4, <2>5, ExactAtZero
  <2>7. MarsExact' = Exact(Users, W, m, 0) /\ AstroExact' = Exact(Users, W, a, 0)
    BY <1>5, <2>1, <2>2, <2>3 DEF MarsExact, AstroExact
  <2>8. QED
    BY <2>6, <2>7
<1>17. MarsBacked' /\ AstroBacked'
  <2> DEFINE paid == Total(Field("withdrawn_auction_incentives"))
  <2>1. paid \in Nat
    BY BaseParts, FieldTypes, TotalType
  <2>2. Field("withdrawn_auction_incentives")' = Field("withdrawn_auction_incentives")
    BY <1>1 DEF Field
  <2>3. /\ MarsForPool = M /\ MarsForPool' = 0
        /\ Total(MarsExact) = 0 /\ Total(AstroExact) = 0
    BY <1>9, BaseParts, ExactFactsHold DEF MarsForPool, ExactFacts
  <2>4. Scale * (M + config.mars_rewards) + 0 <= Scale * (balance.mars + paid)
    BY <2>3, BaseParts DEF MarsBacked
  <2> HIDE DEF paid
  <2>5. /\ Scale * (M + config.mars_rewards) = Scale * (0 + config.mars_rewards) + Scale * M
        /\ Scale * (balance.mars + paid) = Scale * ((balance.mars - M) + paid) + Scale * M
        /\ Scale * (0 + config.mars_rewards) \in Int /\ Scale * M \in Int
        /\ Scale * ((balance.mars - M) + paid) \in Int
    BY <1>2, <2>1
  <2>6. Scale * (0 + config.mars_rewards) + 0 <= Scale * ((balance.mars - M) + paid)
    BY <2>4, <2>5
  <2>7. MarsBacked'
    BY <1>1, <1>6, <1>16, <2>2, <2>3, <2>6 DEF MarsBacked, paid
  <2>8. AstroBacked'
    BY <1>6, <1>16, <2>3, BaseParts DEF AstroBacked
  <2>9. QED
    BY <2>7, <2>8
<1>18. QED
  BY <1>15, <1>17 DEF BaseInv, AuctionInv

(* Spreading what has accrued moves an index by no more than accrued allows. *)
LEMMA IndexGrows ==
  ASSUME StakedShares \in Nat, NEW index \in Nat, NEW accrued \in Nat
  PROVE  \E d \in Nat : /\ RewardIndex(index, accrued) = index + d
                        /\ d * StakedShares <= accrued * Scale
<1>1. accrued * Scale \in Nat /\ index + 0 = index
  BY ProductNat, ScaleAssumption
<1>2. CASE StakedShares = 0
  <2>1. 0 \in Nat /\ RewardIndex(index, accrued) = index + 0
    BY <1>1, <1>2 DEF RewardIndex
  <2>2. 0 * StakedShares <= accrued * Scale
    BY <1>1, <1>2
  <2>3. QED
    BY <2>1, <2>2
<1>3. CASE StakedShares # 0
  <2>1. FromRatio(accrued, StakedShares) \in Nat
        /\ FromRatio(accrued, StakedShares) * StakedShares <= accrued * Scale
    BY <1>3, FromRatioBound
  <2>2. RewardIndex(index, accrued) = index + FromRatio(accrued, StakedShares)
    BY <1>3 DEF RewardIndex
  <2>3. QED
    BY <2>1, <2>2
<1>4. QED
  BY <1>2, <1>3

\* State keeps what shares are computed from, and the indexes grow by dm and da.
Spreads(dm, da) ==
  /\ state'.total_mars_deposited = state.total_mars_deposited
  /\ state'.total_ust_deposited = state.total_ust_deposited
  /\ state'.lp_shares_minted = state.lp_shares_minted
  /\ state'.pool_init_timestamp = state.pool_init_timestamp
  /\ state'.global_mars_reward_index = state.global_mars_reward_index + dm
  /\ state'.global_astro_reward_index = state.global_astro_reward_index + da

(* When only rewards arrive and are spread, what users are owed exactly stays
   within what is held. *)
LEMMA SpreadSafe ==
  ASSUME AuctionInv, BaseInv', users' = users, config' = config,
         NEW dm \in Nat, NEW da \in Nat, Spreads(dm, da),
         NEW mars \in Nat, NEW astro \in Nat,
         dm * StakedShares <= mars * Scale, da * StakedShares <= astro * Scale,
         balance'.mars = balance.mars + mars, balance'.astro = balance.astro + astro
  PROVE  MarsBacked' /\ AstroBacked'
<1> DEFINE m == Field("mars_reward_index")  a == Field("astro_reward_index")
           gm == state.global_mars_reward_index  ga == state.global_astro_reward_index
           paid == Field("withdrawn_auction_incentives")
<1>1. /\ Left \in [Users -> Nat] /\ Left' \in [Users -> Nat] /\ Total(Left) <= StakedShares
      /\ \A u \in Users :
           /\ Left[u] = UserLpShare(users[u]) - users[u].withdrawn_lp_shares
           /\ Left'[u] = UserLpShare(users[u])' - users'[u].withdrawn_lp_shares
  BY BaseParts, LeftFactsHold, LeftFactsNext DEF LeftFacts
<1>2. Left' = Left
  <2>1. \A u \in Users : UserLpShare(users[u])' = UserLpShare(users[u])
    BY DEF UserLpShare, Spreads
  <2>2. QED
    BY <1>1, <2>1
<1>3. /\ IsFiniteSet(Users) /\ m \in [Users -> Nat] /\ a \in [Users -> Nat]
      /\ paid \in [Users -> Nat] /\ gm \in Nat /\ ga \in Nat /\ StakedShares \in Nat
      /\ balance.mars \in Nat /\ balance.astro \in Nat /\ config.mars_rewards \in Nat
      /\ state.total_mars_deposited \in Nat /\ Scale \in Nat
  BY BaseParts, FieldTypes, StateTypes, StakedSharesType, ScaleAssumption
<1>4. \A u \in Users : m[u] <= gm /\ a[u] <= ga
  BY BaseParts DEF RecordsBounded, Field
<1>5. m' = m /\ a' = a /\ paid' = paid
  BY DEF Field
<1>6. /\ MarsExact = Exact(Users, Left, m, gm) /\ AstroExact = Exact(Users, Left, a, ga)
      /\ MarsExact' = Exact(Users, Left, m, gm + dm)
      /\ AstroExact' = Exact(Users, Left, a, ga + da)
  BY <1>2, <1>5 DEF MarsExact, AstroExact, Spreads
<1> HIDE DEF m, a, gm, ga
<1>7. /\ Total(Exact(Users, Left, m, gm + dm))
           <= Total(Exact(Users, Left, m, gm)) + mars * Scale
      /\ Total(Exact(Users, Left, a, ga + da))
           <= Total(Exact(Users, Left, a, ga)) + astro * Scale
  BY <1>1, <1>3, <1>4, ExactSpread
<1>8. /\ Total(MarsExact)' <= Total(MarsExact) + mars * Scale
      /\ Total(AstroExact)' <= Total(AstroExact) + astro * Scale
  BY <1>6, <1>7
<1>9. /\ Total(MarsExact) \in Nat /\ Total(AstroExact) \in Nat
      /\ Total(MarsExact)' \in Nat /\ Total(AstroExact)' \in Nat /\ Total(paid) \in Nat
  BY <1>3, BaseParts, ExactFactsHold, ExactFactsNext, TotalType DEF ExactFacts
<1>10. MarsForPool' = MarsForPool /\ MarsForPool \in Nat
  BY <1>3 DEF MarsForPool, PoolCreated, Spreads
<1>11. MarsBacked'
  <2> DEFINE need == MarsForPool + config.mars_rewards
             has  == balance.mars + Total(paid)
  <2>1. Scale * need + Total(MarsExact) <= Scale * has
    BY BaseParts DEF MarsBacked
  <2>2. need \in Nat /\ has \in Nat
    BY <1>3, <1>9, <1>10
  <2>3. (balance.mars + mars) + Total(paid) = has + mars
    BY <1>3, <1>9
  <2> HIDE DEF need, has
  <2>4. /\ Scale * (has + mars) = Scale * has + mars * Scale
        /\ Scale * has \in Nat /\ mars * Scale \in Nat /\ Scale * need \in Nat
    BY <1>3, <2>2, ProductNat
  <2>5. Scale * need + Total(MarsExact)' <= Scale * (has + mars)
    BY <1>8, <1>9, <2>1, <2>4
  <2>6. QED
    BY <1>5, <1>10, <2>3, <2>5 DEF MarsBacked, need, paid
<1>12. AstroBacked'
  <2>1. Total(AstroExact) <= Scale * balance.astro
    BY BaseParts DEF AstroBacked
  <2>2. /\ Scale * (balance.astro + astro) = Scale * balance.astro + astro * Scale
        /\ Scale * balance.astro \in Nat /\ astro * Scale \in Nat
    BY <1>3, ProductNat
  <2>3. Total(AstroExact)' <= Scale * (balance.astro + astro)
    BY <1>8, <1>9, <2>1, <2>2
  <2>4. QED
    BY <2>3 DEF AstroBacked
<1>13. QED
  BY <1>11, <1>12

(* The LP tokens that may be unstaked all are with the contract named. *)
LEMMA OnePlace ==
  ASSUME TypeOK, LpTracked, NEW c \in Contracts, StakedShares <= lp.staked[c]
  PROVE  /\ lp.staked[c] = StakedShares /\ Total(lp.staked) = StakedShares
         /\ lp.held = 0 /\ \A other \in Contracts \ {c} : lp.staked[other] = 0
<1>1. /\ StakedShares \in Nat /\ Total(lp.staked) \in Nat
      /\ StakedShares = lp.held + Total(lp.staked) /\ lp.held \in Nat
      /\ lp.staked \in [Contracts -> Nat] /\ IsFiniteSet(Contracts)
  BY StakedSharesType, StateTypes, FieldTypes
<1>2. lp.staked[c] <= Total(lp.staked) /\ lp.staked[c] \in Nat
  <2>1. 0 \in Nat
    OBVIOUS
  <2>2. QED
    BY <1>1, <2>1, TotalUpdate
<1>3. Total(lp.staked) <= lp.staked[c]
  BY <1>1, <1>2
<1>4. \A other \in Contracts \ {c} : lp.staked[other] = 0
  <2>1. ASSUME NEW other \in Contracts, other # c PROVE lp.staked[other] = 0
    BY <1>1, <1>3, <2>1, TotalInOnePlace
  <2>2. QED
    BY <2>1
<1>5. QED
  BY <1>1, <1>2, <1>3, <1>4

\* LP tokens put at j, and moved there from i.
Placed(f, j, v) == [f EXCEPT ![j] = @ + v]

Moved(f, i, j, v) == [f EXCEPT ![i] = @ - v, ![j] = @ + v]

(* Putting v where there was nothing, and moving all of it elsewhere. *)
LEMMA PlaceAll ==
  ASSUME NEW I, IsFiniteSet(I), NEW f \in [I -> Nat], Total(f) = 0, NEW j \in I, NEW v \in Nat
  PROVE  /\ Placed(f, j, v) \in [I -> Nat] /\ Placed(f, j, v)[j] = v
         /\ Total(Placed(f, j, v)) = v
<1> DEFINE n == f[j] + v
<1>1. f[j] \in Nat /\ n \in Nat
  OBVIOUS
<1>2. Placed(f, j, v) = [f EXCEPT ![j] = n]
  BY DEF Placed
<1> HIDE DEF n
<1>3. f[j] <= Total(f) /\ Total([f EXCEPT ![j] = n]) = Total(f) - f[j] + n
  BY <1>1, TotalUpdate
<1>4. f[j] = 0 /\ n = v
  BY <1>1, <1>3 DEF n
<1>5. QED
  BY <1>1, <1>2, <1>3, <1>4

LEMMA MoveAll ==
  ASSUME NEW I, IsFiniteSet(I), NEW f \in [I -> Nat], NEW i \in I, NEW j \in I,
         i # j, NEW v \in Nat, f[i] = v, Total(f) = v
  PROVE  /\ Moved(f, i, j, v) \in [I -> Nat] /\ Moved(f, i, j, v)[j] = v
         /\ Total(Moved(f, i, j, v)) = v
<1> DEFINE g == [f EXCEPT ![i] = 0]
<1>1. 0 \in Nat
  OBVIOUS
<1>2. Total([f EXCEPT ![i] = 0]) = Total(f) - f[i] + 0
  BY <1>1, TotalUpdate
<1>3. g \in [I -> Nat] /\ Total(g) = 0
  BY <1>2
<1>4. Moved(f, i, j, v) = Placed(g, j, v)
  <2>1. v - v = 0
    OBVIOUS
  <2>2. Moved(f, i, j, v) = [f EXCEPT ![i] = 0, ![j] = f[j] + v]
    BY <2>1 DEF Moved
  <2>3. Placed(g, j, v) = [g EXCEPT ![j] = f[j] + v]
    BY DEF Placed
  <2>4. QED
    BY <2>2, <2>3
<1> HIDE DEF g
<1>5. /\ Placed(g, j, v) \in [I -> Nat] /\ Placed(g, j, v)[j] = v
      /\ Total(Placed(g, j, v)) = v
  BY <1>3, PlaceAll
<1>6. QED
  BY <1>4, <1>5

(* Staking moves all LP tokens at once, from where the flags say they are. *)
LEMMA StakeSafe ==
  ASSUME AuctionInv, NEW sender \in Owners, NEW single \in BOOLEAN,
         NEW accrued \in Accruals, StakeLpTokens(sender, single, accrued)
  PROVE  AuctionInv'
<1> DEFINE to == IF single THEN config.mars_lp_staking_contract
                 ELSE config.generator_contract
           S  == StakedShares
           f  == lp.staked
           flagged == StateAfterStaking(single)
<1>1. /\ now' = now /\ config' = config /\ users' = users
      /\ balance' = [balance EXCEPT !.mars = @ + accrued.mars, !.astro = @ + accrued.astro]
      /\ single => ~state.are_staked_for_single_incentives
      /\ ~single => ~state.are_staked_for_dual_incentives
      /\ to \in Contracts /\ S > 0
  BY DEF StakeLpTokens
<1>2. accrued.mars \in Nat /\ accrued.astro \in Nat
  BY AuctionAssumption DEF Accruals
<1>3. /\ S \in Nat /\ Total(f) \in Nat /\ S = lp.held + Total(f) /\ lp.held \in Nat
      /\ f \in [Contracts -> Nat] /\ IsFiniteSet(Contracts)
      /\ state.global_mars_reward_index \in Nat /\ state.global_astro_reward_index \in Nat
      /\ balance.mars \in Nat /\ balance.astro \in Nat /\ Scale \in Nat
      /\ state.lp_shares_minted \in Nat /\ state.lp_shares_withdrawn \in Nat
  BY BaseParts, StakedSharesType, StateTypes, FieldTypes, ScaleAssumption
<1>4. /\ state \in StateRecords /\ balance \in [uusd : Nat, mars : Nat, astro : Nat]
      /\ lp \in [pool : Pools \union {NoPool}, held : Nat, staked : [Contracts -> Nat]]
  BY BaseParts DEF TypeOK
<1>5. PoolCreated
  BY <1>1, <1>3 DEF StakedShares, PoolCreated
<1>6. /\ single => to \in Stakings
      /\ ~single => to \in Generators
  BY <1>1, BaseParts, StateTypes, AuctionAssumption DEF Contracts
<1>7. /\ flagged \in StateRecords
      /\ flagged.are_staked_for_single_incentives = single
      /\ flagged.are_staked_for_dual_incentives = ~single
      /\ flagged.total_mars_deposited = state.total_mars_deposited
      /\ flagged.total_ust_deposited = state.total_ust_deposited
      /\ flagged.lp_shares_minted = state.lp_shares_minted
      /\ flagged.lp_shares_withdrawn = state.lp_shares_withdrawn
      /\ flagged.pool_init_timestamp = state.pool_init_timestamp
      /\ flagged.global_mars_reward_index = state.global_mars_reward_index
      /\ flagged.global_astro_reward_index = state.global_astro_reward_index
  BY <1>4 DEF StateAfterStaking, StateRecords
<1> HIDE DEF to, S, f, flagged
<1> DEFINE Spread(dm, da, mars, astro) ==
             /\ state' \in StateRecords /\ Spreads(dm, da)
             /\ state'.are_staked_for_single_incentives = single
             /\ state'.are_staked_for_dual_incentives = ~single
             /\ state'.lp_shares_withdrawn = state.lp_shares_withdrawn
             /\ dm * S <= mars * Scale /\ da * S <= astro * Scale
           AllMoved ==
             /\ lp' \in [pool : Pools \union {NoPool}, held : Nat, staked : [Contracts -> Nat]]
             /\ lp'.held = 0 /\ lp'.staked[to] = S /\ Total(lp'.staked) = S
<1>8. /\ \E dm, da \in Nat : Spread(dm, da, accrued.mars, accrued.astro)
      /\ AllMoved
  <2>1. CASE ~Staked
    <3>1. /\ accrued.mars + accrued.astro = 0 /\ state' = flagged
          /\ lp' = [lp EXCEPT !.held = @ - S, !.staked[to] = @ + S] /\ S <= lp.held
      BY <2>1 DEF StakeLpTokens, S, to, flagged
    <3>2. /\ 0 \in Nat /\ 0 * S <= accrued.mars * Scale /\ 0 * S <= accrued.astro * Scale
          /\ state.global_mars_reward_index + 0 = state.global_mars_reward_index
          /\ state.global_astro_reward_index + 0 = state.global_astro_reward_index
      BY <1>2, <1>3, ProductNat
    <3>3. Spread(0, 0, accrued.mars, accrued.astro)
      BY <3>1, <3>2, <1>7 DEF Spreads
    <3>4. lp.held = S /\ Total(f) = 0 /\ lp.held - S = 0
      BY <1>3, <3>1
    <3> DEFINE h == Placed(f, to, S)
    <3>5. h \in [Contracts -> Nat] /\ h[to] = S /\ Total(h) = S
      <4>1. to \in Contracts /\ S \in Nat /\ f \in [Contracts -> Nat] /\ IsFiniteSet(Contracts)
        BY <1>1, <1>3
      <4>2. QED
        BY <3>4, <4>1, PlaceAll
    <3>6. lp' = [lp EXCEPT !.held = 0, !.staked = h]
      BY <3>1, <3>4, <1>4 DEF f, Placed
    <3> HIDE DEF h
    <3>7. lp' = [pool |-> lp.pool, held |-> 0, staked |-> h]
      BY <3>6, <1>4
    <3>8. AllMoved
      BY <3>5, <3>7, <1>4
    <3>9. QED
      BY <3>2, <3>3, <3>8
  <2>2. CASE Staked
    <3> DEFINE from == StakedWith
    <3>1. /\ from \in Contracts /\ S <= f[from]
          /\ state' = WithRewards(flagged, accrued)
          /\ lp' = [lp EXCEPT !.staked = [f EXCEPT ![from] = @ - S, ![to] = @ + S]]
      BY <2>2 DEF StakeLpTokens, S, f, to, flagged
    <3>2. PICK dm \in Nat :
            /\ RewardIndex(state.global_mars_reward_index, accrued.mars)
                 = state.global_mars_reward_index + dm
            /\ dm * S <= accrued.mars * Scale
      BY <1>2, <1>3, IndexGrows DEF S
    <3>3. PICK da \in Nat :
            /\ RewardIndex(state.global_astro_reward_index, accrued.astro)
                 = state.global_astro_reward_index + da
            /\ da * S <= accrued.astro * Scale
      BY <1>2, <1>3, IndexGrows DEF S
    <3>4. /\ state.global_mars_reward_index + dm \in Nat
          /\ state.global_astro_reward_index + da \in Nat
      BY <1>3
    <3>5. state' = [flagged EXCEPT
                      !.global_mars_reward_index = state.global_mars_reward_index + dm,
                      !.global_astro_reward_index = state.global_astro_reward_index + da]
      BY <3>1, <3>2, <3>3, <1>7 DEF WithRewards
    <3>6. Spread(dm, da, accrued.mars, accrued.astro)
      <4>1. /\ state' \in StateRecords
            /\ state'.are_staked_for_single_incentives
                 = flagged.are_staked_for_single_incentives
            /\ state'.are_staked_for_dual_incentives
                 = flagged.are_staked_for_dual_incentives
            /\ state'.total_mars_deposited = flagged.total_mars_deposited
            /\ state'.total_ust_deposited = flagged.total_ust_deposited
            /\ state'.lp_shares_minted = flagged.lp_shares_minted
            /\ state'.lp_shares_withdrawn = flagged.lp_shares_withdrawn
            /\ state'.pool_init_timestamp = flagged.pool_init_timestamp
            /\ state'.global_mars_reward_index = state.global_mars_reward_index + dm
            /\ state'.global_astro_reward_index = state.global_astro_reward_index + da
        BY <3>4, <3>5, <1>7 DEF StateRecords
      <4>2. QED
        BY <4>1, <3>2, <3>3, <1>7 DEF Spreads
    <3>7. /\ f[from] = S /\ Total(f) = S /\ lp.held = 0
          /\ \A other \in Contracts \ {from} : f[other] = 0
      BY <3>1, BaseParts, OnePlace DEF S, f
    <3>8. to # from
      <4>1. /\ StakedWith = IF state.are_staked_for_single_incentives
                            THEN config.mars_lp_staking_contract
                            ELSE config.generator_contract
            /\ config.generator_contract \in Generators
        BY BaseParts, StateTypes DEF StakedWith
      <4>2. CASE single
        BY <4>1, <4>2, <1>1, <1>6, AuctionAssumption
      <4>3. CASE ~single
        <5>1. state.are_staked_for_single_incentives
          BY <4>3, <2>2, <1>1 DEF Staked
        <5>2. from \in Stakings
          BY <3>1, <4>1, <5>1, BaseParts, StateTypes, AuctionAssumption DEF Contracts
        <5>3. QED
          BY <4>3, <5>2, <1>6, AuctionAssumption
      <4>4. QED
        BY <4>2, <4>3
    <3> HIDE DEF from
    <3> DEFINE h == Moved(f, from, to, S)
    <3>9. h \in [Contracts -> Nat] /\ h[to] = S /\ Total(h) = S
      <4>1. to \in Contracts /\ S \in Nat /\ f \in [Contracts -> Nat] /\ IsFiniteSet(Contracts)
            /\ from \in Contracts /\ from # to /\ f[from] = S /\ Total(f) = S
        BY <1>1, <1>3, <3>1, <3>7, <3>8
      <4>2. QED
        BY <4>1, MoveAll
    <3>10. lp' = [lp EXCEPT !.staked = h]
      BY <3>1 DEF f, Moved
    <3> HIDE DEF h
    <3>11. lp' = [pool |-> lp.pool, held |-> lp.held, staked |-> h]
      BY <3>10, <1>4
    <3>12. AllMoved
      BY <3>7, <3>9, <3>11, <1>4
    <3>13. QED
      BY <3>6, <3>12
  <2>3. QED
    BY <2>1, <2>2
<1>9. PICK dm \in Nat, da \in Nat : Spread(dm, da, accrued.mars, accrued.astro)
  BY <1>8
<1>10. /\ balance' \in [uusd : Nat, mars : Nat, astro : Nat]
       /\ balance'.mars = balance.mars + accrued.mars
       /\ balance'.astro = balance.astro + accrued.astro
  <2>1. /\ balance.mars + accrued.mars \in Nat /\ balance.astro + accrued.astro \in Nat
        /\ balance.uusd \in Nat
    BY <1>2, <1>3, <1>4
  <2>2. balance' = [uusd |-> balance.uusd, mars |-> balance.mars + accrued.mars,
                    astro |-> balance.astro + accrued.astro]
    BY <1>1, <1>4
  <2>3. QED
    BY <2>1, <2>2
<1>11. TypeOK'
  BY <1>1, <1>8, <1>9, <1>10, BaseParts DEF TypeOK, ConfigRecords, UserRecords
<1>12. PoolCreated'
  BY <1>5, <1>9 DEF PoolCreated, Spreads
<1>13. DepositsCovered'
  <2>1. Field("mars_deposited")' = Field("mars_deposited")
    BY <1>1 DEF Field
  <2>2. Field("ust_deposited")' = Field("ust_deposited")
    BY <1>1 DEF Field
  <2>3. QED
    BY <1>9, <1>12, <2>1, <2>2, BaseParts DEF DepositsCovered, Spreads
<1>14. WindowsKept'
  BY <1>1, <1>5, <1>9, <1>12, BaseParts
     DEF WindowsKept, Spreads, WindowsEnd, UstDepositsEnd
<1>15. RecordsBounded'
  <2>1. \A u \in Users : /\ AuctionReward(users[u])' = AuctionReward(users[u])
                         /\ UserLpShare(users[u])' = UserLpShare(users[u])
    BY <1>1, <1>9 DEF AuctionReward, UserLpShare, Spreads
  <2>2. ASSUME NEW u \in Users
        PROVE  /\ users[u].mars_reward_index <= state'.global_mars_reward_index
               /\ users[u].astro_reward_index <= state'.global_astro_reward_index
    <3>1. /\ users[u].mars_reward_index <= state.global_mars_reward_index
          /\ users[u].astro_reward_index <= state.global_astro_reward_index
          /\ users[u].mars_reward_index \in Nat /\ users[u].astro_reward_index \in Nat
      BY BaseParts, UserTypes DEF RecordsBounded
    <3>2. QED
      BY <1>3, <1>9, <3>1 DEF Spreads
  <2>3. QED
    BY <1>1, <2>1, <2>2, BaseParts DEF RecordsBounded
<1>16. LpTracked'
  <2>1. StakedShares' = S
    BY <1>9 DEF StakedShares, Spreads, S
  <2>2. Field("withdrawn_lp_shares")' = Field("withdrawn_lp_shares")
    BY <1>1 DEF Field
  <2>3. /\ Total(Field("withdrawn_lp_shares")) = state.lp_shares_withdrawn
    BY BaseParts DEF LpTracked
  <2>4. Staked'
    BY <1>9 DEF Staked
  <2>5. single => \E c \in Stakings : lp'.staked[c] = S
    BY <1>6, <1>8
  <2>6. ~single => \E c \in Generators : lp'.staked[c] = S
    BY <1>6, <1>8
  <2>7. lp'.held + Total(lp'.staked) = S
    BY <1>3, <1>8
  <2>8. QED
    BY <1>9, <2>1, <2>2, <2>3, <2>4, <2>5, <2>6, <2>7 DEF LpTracked
<1>17. BaseInv'
  BY <1>11, <1>13, <1>14, <1>15, <1>16 DEF BaseInv
<1>18. MarsBacked' /\ AstroBacked'
  <2>1. Spreads(dm, da) /\ dm * S <= accrued.mars * Scale /\ da * S <= accrued.astro * Scale
    BY <1>9
  <2>2. QED
    BY <1>1, <1>2, <1>10, <1>17, <2>1, SpreadSafe DEF S
<1>19. QED
  BY <1>17, <1>18 DEF BaseInv, AuctionInv

-------------------------------------------------------------------------------
(* A claim *)

(* Rewards are spread and then one user is paid his. *)
LEMMA SpreadThenPaid ==
  ASSUME NEW I, IsFiniteSet(I), NEW W \in [I -> Nat], NEW idx \in [I -> Nat],
         NEW G \in Nat, \A i \in I : idx[i] <= G,
         NEW d \in Nat, NEW staked \in Nat, NEW accrued \in Nat,
         Total(W) <= staked, d * staked <= accrued * Scale,
         NEW u \in I, NEW W2 \in [I -> Nat], NEW idx2 \in [I -> Nat],
         W2[u] = 0 \/ W2[u] = W[u], idx2[u] = G + d,
         \A i \in I : i # u => W2[i] = W[i] /\ idx2[i] = idx[i],
         NEW paid, paid = MulFloor(W[u], G + d) - MulFloor(W[u], idx[u])
  PROVE  /\ paid \in Nat
         /\ Total(Exact(I, W2, idx2, G + d)) + Scale * paid
              <= Total(Exact(I, W, idx, G)) + accrued * Scale
<1>1. Total(Exact(I, W, idx, G + d)) <= Total(Exact(I, W, idx, G)) + accrued * Scale
  BY ExactSpread
<1>2. G + d \in Nat /\ \A i \in I : idx[i] <= G + d
  <2>1. ASSUME NEW i \in I PROVE idx[i] <= G + d
    <3>1. idx[i] \in Nat /\ idx[i] <= G
      OBVIOUS
    <3>2. QED
      BY <3>1
  <2>2. QED
    BY <2>1
<1>3. \A i \in I : idx2[i] <= G + d
  <2>1. ASSUME NEW i \in I PROVE idx2[i] <= G + d
    <3>1. CASE i = u
      BY <3>1, <1>2
    <3>2. CASE i # u
      BY <3>2, <1>2
    <3>3. QED
      BY <3>1, <3>2
  <2>2. QED
    BY <2>1
<1>4. /\ Exact(I, W2, idx2, G + d) \in [I -> Nat] /\ Exact(I, W, idx, G + d) \in [I -> Nat]
      /\ Exact(I, W, idx, G) \in [I -> Nat]
  BY <1>2, <1>3, ExactType
<1>5. /\ Total(Exact(I, W2, idx2, G + d)) \in Nat /\ Total(Exact(I, W, idx, G + d)) \in Nat
      /\ Total(Exact(I, W, idx, G)) \in Nat /\ accrued * Scale \in Nat /\ Scale \in Nat
  BY <1>4, TotalType, ProductNat, ScaleAssumption
<1> DEFINE g == G + d
<1>6. g \in Nat /\ \A i \in I : idx[i] <= g
  BY <1>2
<1>7. idx2[u] = g /\ paid = MulFloor(W[u], g) - MulFloor(W[u], idx[u])
  OBVIOUS
<1>8. /\ paid \in Nat
      /\ Total(Exact(I, W2, idx2, g)) + Scale * paid <= Total(Exact(I, W, idx, g))
  <2> HIDE DEF g
  <2>1. W2[u] = 0 \/ W2[u] = W[u]
    OBVIOUS
  <2>2. \A i \in I : i # u => W2[i] = W[i] /\ idx2[i] = idx[i]
    OBVIOUS
  <2> DEFINE due == MulFloor(W[u], g) - MulFloor(W[u], idx[u])
  <2>3. /\ due \in Nat
        /\ Total(Exact(I, W2, idx2, g)) + Scale * due <= Total(Exact(I, W, idx, g))
    BY ONLY <1>6, <1>7, <2>1, <2>2, ExactPaid, IsFiniteSet(I), u \in I,
       W \in [I -> Nat], idx \in [I -> Nat], W2 \in [I -> Nat], idx2 \in [I -> Nat]
  <2>4. paid = due
    BY <1>7
  <2>5. QED
    BY <2>3, <2>4
<1>9. Scale * paid \in Nat
  BY <1>5, <1>8, ProductNat
<1>10. QED
  BY <1>1, <1>5, <1>8, <1>9

\* What u is paid of the incentives when he claims now.
Vested(u) == WithdrawableIncentives(Provisioned(users[u]))

(* A claim brings what was paid of the incentives to no more than their total. *)
LEMMA IncentivesWithin ==
  ASSUME AuctionInv, NEW u \in Users
  PROVE  /\ Vested(u) \in Int
         /\ users[u].withdrawn_auction_incentives + Vested(u) \in Nat
         /\ users[u].withdrawn_auction_incentives + Vested(u) <= Incentives[u]
         /\ ~PoolCreated => Vested(u) = 0
<1> DEFINE p == Provisioned(users[u])
           total == Incentives[u]
           old == users[u].withdrawn_auction_incentives
<1>1. /\ p.total_auction_incentives = total /\ p.withdrawn_auction_incentives = old
  BY BaseParts, ProvisionedFields DEF Incentives
<1>2. old \in Nat /\ total \in Nat /\ old <= total
  BY BaseParts, SharesAddUp, UserTypes
<1>3. /\ now \in Nat /\ state.pool_init_timestamp \in Nat
      /\ MarsVestingDuration \in Nat \ {0} /\ Scale \in Nat \ {0}
  BY BaseParts, StateTypes, AuctionAssumption, ScaleAssumption
<1>4. /\ PoolCreated => state.pool_init_timestamp <= now /\ 0 < state.pool_init_timestamp
      /\ ~PoolCreated => state.pool_init_timestamp = 0
  BY BaseParts DEF WindowsKept
<1>5. Vested(u) = WithdrawableIncentives(p)
  BY DEF Vested
<1> HIDE DEF p, total, old
<1>6. CASE old = total \/ state.pool_init_timestamp = 0
  <2>1. Vested(u) = 0
    BY <1>1, <1>5, <1>6 DEF WithdrawableIncentives
  <2>2. QED
    BY <1>2, <2>1 DEF old, total
<1>7. CASE old # total /\ state.pool_init_timestamp # 0 /\ Elapsed >= MarsVestingDuration
  <2>1. Vested(u) = total - old
    BY <1>1, <1>5, <1>7 DEF WithdrawableIncentives
  <2>2. QED
    BY <1>2, <1>4, <1>7, <2>1 DEF old, total
<1>8. CASE old # total /\ state.pool_init_timestamp # 0 /\ ~(Elapsed >= MarsVestingDuration)
  <2> DEFINE r == FromRatio(Elapsed, MarsVestingDuration)
  <2>1. Vested(u) = MulFloor(total, r) - old
    BY <1>1, <1>5, <1>8 DEF WithdrawableIncentives
  <2>2. Elapsed \in Nat /\ Elapsed <= MarsVestingDuration
    BY <1>3, <1>4, <1>8 DEF Elapsed
  <2>3. r \in Nat /\ r * MarsVestingDuration <= Elapsed * Scale
    BY <1>3, <2>2, FromRatioBound
  <2> HIDE DEF r
  <2>4. /\ Elapsed * Scale <= MarsVestingDuration * Scale
        /\ MarsVestingDuration * Scale = Scale * MarsVestingDuration
        /\ r * MarsVestingDuration \in Nat /\ Elapsed * Scale \in Nat
        /\ Scale * MarsVestingDuration \in Nat
    BY <1>3, <2>2, <2>3, ProductMono, ProductNat
  <2>5. r * MarsVestingDuration <= Scale * MarsVestingDuration
    BY <2>3, <2>4
  <2>6. r <= Scale
    BY <1>3, <2>3, <2>5, ProductCancel
  <2>7. MulFloor(total, r) \in Nat /\ MulFloor(total, r) <= total
    BY <1>2, <2>3, <2>6, MulFloorBound, WholeBound
  <2>8. QED
    BY <1>2, <1>4, <1>8, <2>1, <2>7 DEF old, total
<1>9. QED
  BY <1>6, <1>7, <1>8

\* Where the LP tokens are once n of them are withdrawn.
LpAfter(n) ==
  /\ lp' \in [pool : Pools \union {NoPool}, held : Nat, staked : [Contracts -> Nat]]
  /\ lp'.held + Total(lp'.staked) = StakedShares - n
  /\ ~Staked => lp'.held = StakedShares - n
  /\ state.are_staked_for_single_incentives =>
       \E c \in Stakings : lp'.staked[c] = StakedShares - n
  /\ state.are_staked_for_dual_incentives =>
       \E c \in Generators : lp'.staked[c] = StakedShares - n

\* A claim's step of the LP tokens.
Unstaked(withdraw, n, accrued) ==
  CanUnstake(withdraw, n, accrued) /\ lp' = LpAfterUnstaking(n)

(* What is withdrawn comes from the one place that has the LP tokens. *)
LEMMA UnstakedSafe ==
  ASSUME AuctionInv, NEW n \in Nat, n <= StakedShares, NEW withdraw \in BOOLEAN,
         NEW accrued \in Accruals, n > 0 => withdraw, Unstaked(withdraw, n, accrued)
  PROVE  LpAfter(n)
<1>1. /\ StakedShares \in Nat /\ Total(lp.staked) \in Nat /\ lp.held \in Nat
      /\ StakedShares = lp.held + Total(lp.staked) /\ IsFiniteSet(Contracts)
      /\ lp.staked \in [Contracts -> Nat]
      /\ lp \in [pool : Pools \union {NoPool}, held : Nat, staked : [Contracts -> Nat]]
  BY BaseParts, StakedSharesType, FieldTypes, StateTypes DEF TypeOK
<1>2. /\ ~Staked => lp.held = StakedShares
      /\ state.are_staked_for_single_incentives =>
           /\ ~state.are_staked_for_dual_incentives
           /\ \E c \in Stakings : lp.staked[c] = StakedShares
      /\ state.are_staked_for_dual_incentives =>
           \E c \in Generators : lp.staked[c] = StakedShares
  BY BaseParts DEF LpTracked
<1>3. CASE Staked /\ n = 0
  <2>1. lp' = lp
    BY <1>3 DEF Unstaked, LpAfterUnstaking
  <2>2. StakedShares - n = StakedShares
    BY <1>1, <1>3
  <2>3. QED
    BY <1>1, <1>2, <2>1, <2>2 DEF LpAfter
<1>4. CASE Staked /\ n # 0
  <2>1. /\ StakedWith \in Contracts /\ n <= lp.staked[StakedWith]
        /\ lp' = [lp EXCEPT !.staked[StakedWith] = @ - n]
    BY <1>1, <1>4 DEF Unstaked, CanUnstake, LpAfterUnstaking
  <2>2. PICK c \in Contracts :
          /\ lp.staked[c] = StakedShares
          /\ state.are_staked_for_single_incentives => c \in Stakings
          /\ state.are_staked_for_dual_incentives => c \in Generators
    <3>1. CASE state.are_staked_for_single_incentives
      <4>1. PICK c \in Stakings : lp.staked[c] = StakedShares
        BY <1>2, <3>1
      <4>2. c \in Contracts
        BY DEF Contracts
      <4>3. QED
        BY <1>2, <3>1, <4>1, <4>2
    <3>2. CASE ~state.are_staked_for_single_incentives
      <4>1. state.are_staked_for_dual_incentives
        BY <1>4, <3>2 DEF Staked
      <4>2. PICK c \in Generators : lp.staked[c] = StakedShares
        BY <1>2, <4>1
      <4>3. c \in Contracts
        BY DEF Contracts
      <4>4. QED
        BY <3>2, <4>2, <4>3
    <3>3. QED
      BY <3>1, <3>2
  <2>3. /\ lp.staked[c] = StakedShares /\ Total(lp.staked) = StakedShares /\ lp.held = 0
        /\ \A other \in Contracts \ {c} : lp.staked[other] = 0
    BY <1>1, <2>2, BaseParts, OnePlace
  <2>4. StakedWith = c
    BY <1>4, <2>1, <2>3
  <2> DEFINE left == StakedShares - n
             h == [lp.staked EXCEPT ![c] = left]
  <2>5. left \in Nat
    BY <1>1
  <2>6. lp' = [lp EXCEPT !.staked = h]
    BY <2>1, <2>3, <2>4
  <2> HIDE DEF left
  <2>7. Total(h) = Total(lp.staked) - lp.staked[c] + left
    BY <1>1, <2>5, TotalUpdate
  <2>8. h \in [Contracts -> Nat] /\ h[c] = left /\ Total(h) = left
    BY <1>1, <2>3, <2>5, <2>7
  <2> HIDE DEF h
  <2>9. lp' = [pool |-> lp.pool, held |-> lp.held, staked |-> h]
    BY <1>1, <2>6
  <2>10. /\ lp' \in [pool : Pools \union {NoPool}, held : Nat, staked : [Contracts -> Nat]]
         /\ lp'.held + Total(lp'.staked) = left /\ lp'.staked[c] = left
    BY <1>1, <2>3, <2>5, <2>8, <2>9
  <2>11. QED
    BY <1>4, <2>2, <2>10 DEF LpAfter, left
<1>5. CASE ~Staked
  <2> DEFINE left == StakedShares - n
  <2>1. lp' = [lp EXCEPT !.held = @ - n]
    <3>1. [lp EXCEPT !.held = @ - 0] = lp
      BY <1>1
    <3>2. QED
      BY <1>5, <3>1 DEF Unstaked, LpAfterUnstaking
  <2>2. lp.held = StakedShares /\ Total(lp.staked) = 0 /\ left \in Nat
    BY <1>1, <1>2, <1>5
  <2>3. lp' = [pool |-> lp.pool, held |-> left, staked |-> lp.staked]
    BY <1>1, <2>1, <2>2
  <2> HIDE DEF left
  <2>4. /\ lp' \in [pool : Pools \union {NoPool}, held : Nat, staked : [Contracts -> Nat]]
        /\ lp'.held = left /\ Total(lp'.staked) = 0
    BY <1>1, <2>2, <2>3
  <2>5. lp'.held + Total(lp'.staked) = left
    BY <2>2, <2>4
  <2>6. /\ ~state.are_staked_for_single_incentives
        /\ ~state.are_staked_for_dual_incentives
    BY <1>5 DEF Staked
  <2>7. QED
    BY <2>4, <2>5, <2>6 DEF LpAfter, left
<1>6. QED
  BY <1>3, <1>4, <1>5

\* u's record after a claim that paid inc, m and a and gave out n LP tokens.
ClaimsRecord(u, inc, n) ==
  /\ users' \in [Users -> UserRecords]
  /\ \A v \in Users : v # u => users'[v] = users[v]
  /\ users'[u].mars_deposited = users[u].mars_deposited
  /\ users'[u].ust_deposited = users[u].ust_deposited
  /\ users'[u].lp_shares = Shares[u]
  /\ users'[u].total_auction_incentives = Incentives[u]
  /\ users'[u].withdrawn_lp_shares = users[u].withdrawn_lp_shares + n
  /\ users'[u].withdrawn_auction_incentives = users[u].withdrawn_auction_incentives + inc
  /\ users'[u].mars_reward_index = state'.global_mars_reward_index
  /\ users'[u].astro_reward_index = state'.global_astro_reward_index

\* The contract's books after it, mars and astro being what has arrived.
ClaimsBooks(inc, m, a, n, mars, astro) ==
  /\ state' \in StateRecords /\ balance' \in [uusd : Nat, mars : Nat, astro : Nat]
  /\ state'.are_staked_for_single_incentives = state.are_staked_for_single_incentives
  /\ state'.are_staked_for_dual_incentives = state.are_staked_for_dual_incentives
  /\ state'.lp_shares_withdrawn = state.lp_shares_withdrawn + n
  /\ balance'.mars = balance.mars + mars - (inc + m)
  /\ balance'.astro = balance.astro + astro - a
  /\ n = 0 => balance'.uusd = balance.uusd

(* What a user is paid when the indexes have grown to g and h. *)
LEMMA ClaimPays ==
  ASSUME AuctionInv, NEW u \in Users, NEW g \in Nat, NEW from \in Nat, from <= g
  PROVE  /\ MulFloor(Left[u], g) - MulFloor(Left[u], from) \in Nat
         /\ AccruedReward(Provisioned(users[u]), from, g)
              = MulFloor(Left[u], g) - MulFloor(Left[u], from)
<1>1. Left[u] \in Nat
  BY BaseParts, SharesAddUp
<1>2. MulFloor(Left[u], g) \in Nat /\ MulFloor(Left[u], from) \in Nat
      /\ MulFloor(Left[u], from) <= MulFloor(Left[u], g)
  BY <1>1, MulFloorBound, MulFloorMono
<1>3. Left[u] = WithdrawableLpShares(Provisioned(users[u]))
  BY DEF Left
<1>4. QED
  BY <1>2, <1>3 DEF AccruedReward

(* A claim in terms of what the invariant speaks of. *)
LEMMA ClaimEffect ==
  ASSUME AuctionInv, NEW u \in Users, NEW withdraw \in BOOLEAN, NEW accrued \in Accruals,
         NEW liquidity \in LiquidityChoices, ClaimRewards(u, withdraw, accrued, liquidity)
  PROVE  \E dm \in Nat, da \in Nat, n \in {0, Left[u]}, m \in Nat, a \in Nat :
           /\ Spreads(dm, da)
           /\ dm * StakedShares <= accrued.mars * Scale
           /\ da * StakedShares <= accrued.astro * Scale
           /\ m = MulFloor(Left[u], state.global_mars_reward_index + dm)
                    - MulFloor(Left[u], users[u].mars_reward_index)
           /\ a = MulFloor(Left[u], state.global_astro_reward_index + da)
                    - MulFloor(Left[u], users[u].astro_reward_index)
           /\ ClaimsRecord(u, Vested(u), n)
           /\ users'[u].withdrawn_mars_incentives = users[u].withdrawn_mars_incentives + m
           /\ ClaimsBooks(Vested(u), m, a, n, accrued.mars, accrued.astro)
           /\ LpAfter(n)
<1> DEFINE p      == Provisioned(users[u])
           spread == WithRewards(state, accrued)
           n      == SharesToWithdraw(p, withdraw)
           inc    == WithdrawableIncentives(p)
           m      == MarsStakingReward(p, spread)
           a      == AstroStakingReward(p, spread)
           back   == IF n = 0 THEN [mars |-> 0, uusd |-> 0] ELSE liquidity
           fwd    == MarsForwarded(balance.mars, accrued.mars, inc + m, back.mars)
           sent   == DeductTax(back.uusd)
<1>1. /\ Unstaked(withdraw, n, accrued)
      /\ inc + m <= balance.mars + accrued.mars
      /\ a <= balance.astro + accrued.astro
      /\ sent + ChainTax(sent) <= balance.uusd + back.uusd
      /\ users' = [users EXCEPT ![u] = Settled(p, spread, n)]
      /\ state' = [spread EXCEPT !.lp_shares_withdrawn = @ + n]
      /\ balance' =
           [uusd  |-> balance.uusd + back.uusd - sent - ChainTax(sent),
            mars  |-> balance.mars + accrued.mars - (inc + m) + back.mars - fwd,
            astro |-> balance.astro + accrued.astro - a]
  BY DEF ClaimRewards, CanClaimRewards, Unstaked, MarsDue, Returned
<1>2. /\ accrued.mars \in Nat /\ accrued.astro \in Nat
      /\ liquidity.mars \in Nat /\ liquidity.uusd \in Nat
  BY AuctionAssumption DEF Accruals
<1>3. /\ state \in StateRecords /\ StakedShares \in Nat /\ Scale \in Nat
      /\ users[u] \in UserRecords /\ users \in [Users -> UserRecords]
      /\ balance.mars \in Nat /\ balance.astro \in Nat /\ balance.uusd \in Nat
      /\ state.global_mars_reward_index \in Nat /\ state.global_astro_reward_index \in Nat
      /\ state.lp_shares_withdrawn \in Nat
  BY BaseParts, StakedSharesType, StateTypes, ScaleAssumption DEF TypeOK
<1>4. PICK dm \in Nat :
        /\ RewardIndex(state.global_mars_reward_index, accrued.mars)
             = state.global_mars_reward_index + dm
        /\ dm * StakedShares <= accrued.mars * Scale
  BY <1>2, <1>3, IndexGrows
<1>5. PICK da \in Nat :
        /\ RewardIndex(state.global_astro_reward_index, accrued.astro)
             = state.global_astro_reward_index + da
        /\ da * StakedShares <= accrued.astro * Scale
  BY <1>2, <1>3, IndexGrows
<1> DEFINE gm == state.global_mars_reward_index + dm
           ga == state.global_astro_reward_index + da
<1>6. gm \in Nat /\ ga \in Nat
  BY <1>3
<1>7. /\ spread = [state EXCEPT !.global_mars_reward_index = gm,
                                !.global_astro_reward_index = ga]
      /\ spread.global_mars_reward_index = gm /\ spread.global_astro_reward_index = ga
  BY <1>3, <1>4, <1>5 DEF WithRewards, StateRecords
<1>8. /\ p.mars_reward_index = users[u].mars_reward_index
      /\ p.astro_reward_index = users[u].astro_reward_index
      /\ p.lp_shares = Shares[u] /\ p.total_auction_incentives = Incentives[u]
      /\ p.mars_deposited = users[u].mars_deposited
      /\ p.ust_deposited = users[u].ust_deposited
      /\ p.ust_withdrawn_flag = users[u].ust_withdrawn_flag
      /\ p.withdrawn_lp_shares = users[u].withdrawn_lp_shares
      /\ p.withdrawn_auction_incentives = users[u].withdrawn_auction_incentives
      /\ p.withdrawn_mars_incentives = users[u].withdrawn_mars_incentives
      /\ p.withdrawn_astro_incentives = users[u].withdrawn_astro_incentives
  BY BaseParts, ProvisionedFields DEF Shares, Incentives
<1>9. /\ WithdrawableLpShares(p) = Left[u] /\ n \in {0, Left[u]} /\ (n > 0 => withdraw)
      /\ Left[u] \in Nat /\ n \in Nat /\ n <= StakedShares /\ inc = Vested(u)
  <2>1. WithdrawableLpShares(p) = Left[u] /\ inc = Vested(u)
    BY DEF Left, Vested
  <2>2. /\ Left \in [Users -> Nat] /\ Total(Left) <= StakedShares /\ IsFiniteSet(Users)
    BY BaseParts, SharesAddUp, FieldTypes
  <2>3. 0 \in Nat
    OBVIOUS
  <2>4. Left[u] <= Total(Left) /\ Total(Left) \in Nat
    BY <2>2, <2>3, TotalUpdate, TotalType
  <2>5. Left[u] \in Nat /\ Left[u] <= StakedShares
    BY <1>3, <2>2, <2>4
  <2>6. CASE withdraw
    <3>1. n = Left[u]
      BY <2>1, <2>6 DEF SharesToWithdraw
    <3>2. QED
      BY <2>1, <2>5, <2>6, <3>1
  <2>7. CASE ~withdraw
    <3>1. n = 0
      BY <2>7 DEF SharesToWithdraw
    <3>2. QED
      BY <1>3, <2>1, <2>5, <3>1
  <2>8. QED
    BY <2>6, <2>7
<1>10. /\ users[u].mars_reward_index \in Nat /\ users[u].mars_reward_index <= gm
       /\ users[u].astro_reward_index \in Nat /\ users[u].astro_reward_index <= ga
       /\ users[u].withdrawn_lp_shares \in Nat
       /\ users[u].withdrawn_mars_incentives \in Nat
       /\ users[u].withdrawn_astro_incentives \in Nat
       /\ users[u].mars_deposited \in Nat /\ users[u].ust_deposited \in Nat
       /\ users[u].ust_withdrawn_flag \in BOOLEAN
  <2>1. /\ users[u].mars_reward_index <= state.global_mars_reward_index
        /\ users[u].astro_reward_index <= state.global_astro_reward_index
        /\ users[u].mars_reward_index \in Nat /\ users[u].astro_reward_index \in Nat
    BY BaseParts, UserTypes DEF RecordsBounded
  <2>2. QED
    BY <1>3, <2>1, BaseParts, UserTypes
<1> HIDE DEF p, n, gm, ga, inc, spread
<1>11. /\ m = MulFloor(Left[u], gm) - MulFloor(Left[u], users[u].mars_reward_index)
       /\ m \in Nat
  <2>1. m = AccruedReward(p, users[u].mars_reward_index, gm)
    BY <1>7, <1>8 DEF MarsStakingReward
  <2>2. QED
    BY <1>6, <1>10, <2>1, ClaimPays DEF p
<1>12. /\ a = MulFloor(Left[u], ga) - MulFloor(Left[u], users[u].astro_reward_index)
       /\ a \in Nat
  <2>1. a = AccruedReward(p, users[u].astro_reward_index, ga)
    BY <1>7, <1>8 DEF AstroStakingReward
  <2>2. QED
    BY <1>6, <1>10, <2>1, ClaimPays DEF p
<1>13. /\ Vested(u) \in Int
       /\ users[u].withdrawn_auction_incentives + Vested(u) \in Nat
  BY IncentivesWithin
<1> HIDE DEF m, a
<1>14. LpAfter(n)
  BY <1>1, <1>9, UnstakedSafe
<1>15. /\ state' = [state EXCEPT !.global_mars_reward_index = gm,
                                 !.global_astro_reward_index = ga,
                                 !.lp_shares_withdrawn = state.lp_shares_withdrawn + n]
       /\ state.lp_shares_withdrawn + n \in Nat
  BY <1>1, <1>3, <1>7, <1>9 DEF StateRecords
<1>16. /\ state' \in StateRecords
       /\ state'.are_staked_for_single_incentives = state.are_staked_for_single_incentives
       /\ state'.are_staked_for_dual_incentives = state.are_staked_for_dual_incentives
       /\ state'.total_mars_deposited = state.total_mars_deposited
       /\ state'.total_ust_deposited = state.total_ust_deposited
       /\ state'.lp_shares_minted = state.lp_shares_minted
       /\ state'.lp_shares_withdrawn = state.lp_shares_withdrawn + n
       /\ state'.pool_init_timestamp = state.pool_init_timestamp
       /\ state'.global_mars_reward_index = gm /\ state'.global_astro_reward_index = ga
  BY <1>3, <1>6, <1>15 DEF StateRecords
<1>17. /\ balance' \in [uusd : Nat, mars : Nat, astro : Nat]
       /\ balance'.mars = balance.mars + accrued.mars - (inc + m)
       /\ balance'.astro = balance.astro + accrued.astro - a
       /\ n = 0 => balance'.uusd = balance.uusd
  <2>1. back.mars \in Nat /\ back.uusd \in Nat /\ (n = 0 => back.uusd = 0)
    BY <1>2
  <2> HIDE DEF back
  <2>2. fwd = back.mars
    BY <1>2, <1>3, <1>9, <1>11, <1>13, <2>1 DEF MarsForwarded
  <2>3. /\ sent \in Nat /\ ChainTax(sent) \in Nat /\ sent + ChainTax(sent) <= back.uusd
    BY <2>1, PackageTaxWithin
  <2> HIDE DEF sent, fwd
  <2>4. balance' =
          [uusd  |-> balance.uusd + back.uusd - sent - ChainTax(sent),
           mars  |-> balance.mars + accrued.mars - (inc + m),
           astro |-> balance.astro + accrued.astro - a]
    <3>1. balance.mars + accrued.mars - (inc + m) + back.mars - fwd
            = balance.mars + accrued.mars - (inc + m)
      BY <1>2, <1>3, <1>9, <1>11, <1>13, <2>1, <2>2
    <3>2. QED
      BY <1>1, <3>1
  <2>5. /\ balance.uusd + back.uusd - sent - ChainTax(sent) \in Nat
        /\ balance.mars + accrued.mars - (inc + m) \in Nat
        /\ balance.astro + accrued.astro - a \in Nat
    BY <1>1, <1>2, <1>3, <1>9, <1>11, <1>12, <1>13, <2>1, <2>3
  <2>6. n = 0 => balance.uusd + back.uusd - sent - ChainTax(sent) = balance.uusd
    BY <1>3, <2>1, <2>3
  <2>7. QED
    BY <2>4, <2>5, <2>6
<1>18. /\ ClaimsRecord(u, Vested(u), n)
       /\ users'[u].withdrawn_mars_incentives = users[u].withdrawn_mars_incentives + m
  <2> DEFINE new == Settled(p, spread, n)
  <2>1. p \in UserRecords
    <3>1. Shares[u] \in Nat /\ Incentives[u] \in Nat
      BY BaseParts, SharesAddUp
    <3>2. p = [users[u] EXCEPT !.lp_shares = Shares[u],
                               !.total_auction_incentives = Incentives[u]]
      BY <1>3, <1>8 DEF p, Provisioned, UserRecords
    <3>3. QED
      BY <1>3, <3>1, <3>2 DEF UserRecords
  <2>2. new = [p EXCEPT
                 !.withdrawn_auction_incentives =
                    users[u].withdrawn_auction_incentives + Vested(u),
                 !.withdrawn_mars_incentives = users[u].withdrawn_mars_incentives + m,
                 !.mars_reward_index = gm,
                 !.withdrawn_astro_incentives = users[u].withdrawn_astro_incentives + a,
                 !.astro_reward_index = ga,
                 !.withdrawn_lp_shares = users[u].withdrawn_lp_shares + n]
    BY <1>7, <1>8, <1>9 DEF Settled, inc, m, a
  <2>3. /\ users[u].withdrawn_mars_incentives + m \in Nat
        /\ users[u].withdrawn_astro_incentives + a \in Nat
        /\ users[u].withdrawn_lp_shares + n \in Nat
    BY <1>9, <1>10, <1>11, <1>12
  <2> HIDE DEF new
  <2>4. new \in UserRecords
    BY <1>6, <1>13, <2>1, <2>2, <2>3 DEF UserRecords
  <2>5. /\ new.mars_deposited = p.mars_deposited /\ new.ust_deposited = p.ust_deposited
        /\ new.lp_shares = p.lp_shares
        /\ new.total_auction_incentives = p.total_auction_incentives
        /\ new.withdrawn_lp_shares = users[u].withdrawn_lp_shares + n
        /\ new.withdrawn_auction_incentives
             = users[u].withdrawn_auction_incentives + Vested(u)
        /\ new.withdrawn_mars_incentives = users[u].withdrawn_mars_incentives + m
        /\ new.mars_reward_index = gm /\ new.astro_reward_index = ga
    BY <2>1, <2>2 DEF UserRecords
  <2>6. users' = [users EXCEPT ![u] = new]
    BY <1>1 DEF new
  <2>7. /\ users' \in [Users -> UserRecords] /\ users'[u] = new
        /\ \A v \in Users : v # u => users'[v] = users[v]
    BY <1>3, <2>4, <2>6
  <2>8. QED
    BY <1>8, <1>16, <2>5, <2>7 DEF ClaimsRecord
<1>19. ClaimsBooks(Vested(u), m, a, n, accrued.mars, accrued.astro)
  BY <1>9, <1>16, <1>17 DEF ClaimsBooks
<1>20. Spreads(dm, da)
  BY <1>16 DEF Spreads, gm, ga
<1>21. n \in {0, Left[u]} /\ m \in Nat /\ a \in Nat
  BY <1>9, <1>11, <1>12
<1>22. /\ m = MulFloor(Left[u], state.global_mars_reward_index + dm)
                - MulFloor(Left[u], users[u].mars_reward_index)
       /\ a = MulFloor(Left[u], state.global_astro_reward_index + da)
                - MulFloor(Left[u], users[u].astro_reward_index)
  BY <1>11, <1>12 DEF gm, ga
<1>23. QED
  BY <1>4, <1>5, <1>14, <1>18, <1>19, <1>20, <1>21, <1>22

(* A claim pays out no more than is backed, and keeps the books. *)
LEMMA ClaimSafe ==
  ASSUME AuctionInv, NEW u \in Users, NEW withdraw \in BOOLEAN, NEW accrued \in Accruals,
         NEW liquidity \in LiquidityChoices, ClaimRewards(u, withdraw, accrued, liquidity)
  PROVE  AuctionInv'
<1>1. PICK dm \in Nat, da \in Nat, n \in {0, Left[u]}, m \in Nat, a \in Nat :
        /\ Spreads(dm, da)
        /\ dm * StakedShares <= accrued.mars * Scale
        /\ da * StakedShares <= accrued.astro * Scale
        /\ m = MulFloor(Left[u], state.global_mars_reward_index + dm)
                 - MulFloor(Left[u], users[u].mars_reward_index)
        /\ a = MulFloor(Left[u], state.global_astro_reward_index + da)
                 - MulFloor(Left[u], users[u].astro_reward_index)
        /\ ClaimsRecord(u, Vested(u), n)
        /\ ClaimsBooks(Vested(u), m, a, n, accrued.mars, accrued.astro)
        /\ LpAfter(n)
  BY ClaimEffect
<1> DEFINE inc == Vested(u)
<1>2. /\ now' = now /\ config' = config /\ AreWindowsClosed(now)
      /\ users[u].mars_deposited # 0 \/ users[u].ust_deposited # 0
  BY DEF ClaimRewards, CanClaimRewards
<1>3. accrued.mars \in Nat /\ accrued.astro \in Nat
  BY AuctionAssumption DEF Accruals
<1>4. ~PoolCreated => accrued.mars = 0 /\ accrued.astro = 0
  <2>1. ASSUME ~PoolCreated PROVE accrued.mars = 0 /\ accrued.astro = 0
    <3>1. ~Staked
      BY <2>1, BaseParts DEF WindowsKept
    <3>2. accrued.mars + accrued.astro = 0
      BY <3>1 DEF ClaimRewards, CanClaimRewards, CanUnstake, MayAccrue
    <3>3. QED
      BY <1>3, <3>2
  <2>2. QED
    BY <2>1
<1>5. /\ inc \in Int /\ users[u].withdrawn_auction_incentives + inc \in Nat
      /\ users[u].withdrawn_auction_incentives + inc <= Incentives[u]
      /\ ~PoolCreated => inc = 0
  BY IncentivesWithin
<1>6. /\ Left \in [Users -> Nat] /\ Shares \in [Users -> Nat] /\ Incentives \in [Users -> Nat]
      /\ Total(Left) <= StakedShares /\ Shares[u] = UserLpShare(users[u])
      /\ Left[u] = Shares[u] - users[u].withdrawn_lp_shares
      /\ Incentives[u] <= AuctionReward(users[u])
      /\ users[u].withdrawn_lp_shares <= Shares[u]
      /\ ~PoolCreated => Left[u] = 0
  BY BaseParts, SharesAddUp
<1>7. /\ n \in Nat /\ n <= Left[u] /\ Left[u] \in Nat
      /\ users[u].withdrawn_lp_shares \in Nat
  BY <1>1, <1>6, BaseParts, UserTypes
<1>8. /\ users' \in [Users -> UserRecords]
      /\ \A v \in Users : v # u => users'[v] = users[v]
      /\ users'[u].mars_deposited = users[u].mars_deposited
      /\ users'[u].ust_deposited = users[u].ust_deposited
      /\ users'[u].lp_shares = Shares[u]
      /\ users'[u].total_auction_incentives = Incentives[u]
      /\ users'[u].withdrawn_lp_shares = users[u].withdrawn_lp_shares + n
      /\ users'[u].withdrawn_auction_incentives
           = users[u].withdrawn_auction_incentives + inc
      /\ users'[u].mars_reward_index = state'.global_mars_reward_index
      /\ users'[u].astro_reward_index = state'.global_astro_reward_index
  BY <1>1 DEF ClaimsRecord
<1>9. /\ state' \in StateRecords /\ balance' \in [uusd : Nat, mars : Nat, astro : Nat]
      /\ state'.are_staked_for_single_incentives = state.are_staked_for_single_incentives
      /\ state'.are_staked_for_dual_incentives = state.are_staked_for_dual_incentives
      /\ state'.lp_shares_withdrawn = state.lp_shares_withdrawn + n
      /\ balance'.mars = balance.mars + accrued.mars - (inc + m)
      /\ balance'.astro = balance.astro + accrued.astro - a
      /\ n = 0 => balance'.uusd = balance.uusd
  BY <1>1 DEF ClaimsBooks
<1>10. /\ state'.total_mars_deposited = state.total_mars_deposited
       /\ state'.total_ust_deposited = state.total_ust_deposited
       /\ state'.lp_shares_minted = state.lp_shares_minted
       /\ state'.pool_init_timestamp = state.pool_init_timestamp
       /\ state'.global_mars_reward_index = state.global_mars_reward_index + dm
       /\ state'.global_astro_reward_index = state.global_astro_reward_index + da
  BY <1>1 DEF Spreads
<1>11. /\ lp' \in [pool : Pools \union {NoPool}, held : Nat, staked : [Contracts -> Nat]]
       /\ lp'.held + Total(lp'.staked) = StakedShares - n
       /\ ~Staked => lp'.held = StakedShares - n
       /\ state.are_staked_for_single_incentives =>
            \E c \in Stakings : lp'.staked[c] = StakedShares - n
       /\ state.are_staked_for_dual_incentives =>
            \E c \in Generators : lp'.staked[c] = StakedShares - n
  BY <1>1 DEF LpAfter
<1> HIDE DEF inc
<1>12. TypeOK'
  BY <1>2, <1>8, <1>9, <1>11, BaseParts DEF TypeOK, ConfigRecords
<1>13. PoolCreated' = PoolCreated /\ Staked' = Staked
  BY <1>9, <1>10 DEF PoolCreated, Staked
<1>14. /\ StakedShares \in Nat /\ state.lp_shares_minted \in Nat
       /\ state.lp_shares_withdrawn \in Nat /\ Scale \in Nat
       /\ state.global_mars_reward_index \in Nat /\ state.global_astro_reward_index \in Nat
       /\ balance.mars \in Nat /\ balance.astro \in Nat
       /\ state.total_mars_deposited \in Nat /\ state.total_ust_deposited \in Nat
       /\ now \in Nat /\ config.mars_rewards \in Nat
  BY BaseParts, StakedSharesType, StateTypes, ScaleAssumption
<1>15. DepositsCovered'
  <2>1. /\ Field("mars_deposited")' = Field("mars_deposited")
        /\ Field("ust_deposited")' = Field("ust_deposited")
    <3>1. ASSUME NEW v \in Users
          PROVE  /\ users'[v].mars_deposited = users[v].mars_deposited
                 /\ users'[v].ust_deposited = users[v].ust_deposited
      BY <1>8
    <3>2. QED
      BY <3>1 DEF Field
  <2>2. ~PoolCreated => balance'.uusd = balance.uusd
    <3>1. ~PoolCreated => n = 0
      BY <1>6, <1>7
    <3>2. QED
      BY <1>9, <3>1
  <2>3. QED
    BY <1>10, <1>13, <2>1, <2>2, BaseParts DEF DepositsCovered
<1>17. \A v \in Users : /\ AuctionReward(users[v])' = AuctionReward(users[v])
                        /\ UserLpShare(users[v])' = UserLpShare(users[v])
  <2>1. ASSUME NEW v \in Users
        PROVE  /\ users'[v].mars_deposited = users[v].mars_deposited
               /\ users'[v].ust_deposited = users[v].ust_deposited
               /\ users'[v].lp_shares # users[v].lp_shares =>
                    v = u /\ users'[v].lp_shares = UserLpShare(users[v])
    BY <1>6, <1>8
  <2>2. ASSUME NEW v \in Users PROVE AuctionReward(users[v])' = AuctionReward(users[v])
    BY <1>2, <1>10, <2>1 DEF AuctionReward
  <2>3. ASSUME NEW v \in Users PROVE UserLpShare(users[v])' = UserLpShare(users[v])
    <3>1. CASE state.total_mars_deposited = 0 \/ state.total_ust_deposited = 0
      BY <1>10, <2>1, <3>1 DEF UserLpShare
    <3>2. CASE ~(state.total_mars_deposited = 0 \/ state.total_ust_deposited = 0)
      BY <1>10, <2>1, <3>2 DEF UserLpShare
    <3>3. QED
      BY <3>1, <3>2
  <2>4. QED
    BY <2>2, <2>3
<1>18. now > WindowsEnd
  <2>1. InitTimestamp <= now
    <3>1. /\ Field("mars_deposited") \in [Users -> Nat]
          /\ Field("ust_deposited") \in [Users -> Nat] /\ IsFiniteSet(Users)
          /\ users[u].mars_deposited \in Nat /\ users[u].ust_deposited \in Nat
      BY BaseParts, FieldTypes, UserTypes
    <3>2. 0 \in Nat
      OBVIOUS
    <3>3. /\ Field("mars_deposited")[u] <= Total(Field("mars_deposited"))
          /\ Field("ust_deposited")[u] <= Total(Field("ust_deposited"))
      BY <3>1, <3>2, TotalUpdate
    <3>4. /\ users[u].mars_deposited <= state.total_mars_deposited
          /\ users[u].ust_deposited <= state.total_ust_deposited
      BY <3>3, BaseParts DEF Field, DepositsCovered
    <3>5. state.total_mars_deposited + state.total_ust_deposited > 0
      BY <1>2, <1>14, <3>1, <3>4
    <3>6. QED
      BY <3>5, BaseParts DEF WindowsKept
  <2>2. InitTimestamp \in Nat /\ WindowsEnd \in Nat
    BY AuctionAssumption DEF WindowsEnd, UstDepositsEnd
  <2>3. QED
    BY <1>2, <1>14, <2>1, <2>2 DEF AreWindowsClosed, WindowsEnd
<1>19. WindowsKept'
  <2>1. ASSUME ~PoolCreated
        PROVE  /\ state'.global_mars_reward_index = 0
               /\ state'.global_astro_reward_index = 0
               /\ \A v \in Users : users'[v].lp_shares = 0
    <3>1. /\ state.global_mars_reward_index = 0 /\ state.global_astro_reward_index = 0
          /\ \A v \in Users : users[v].lp_shares = 0
      BY <2>1, BaseParts DEF WindowsKept
    <3>2. Shares[u] = 0
      <4>1. users[u].withdrawn_lp_shares <= users[u].lp_shares
        BY BaseParts DEF RecordsBounded
      <4>2. users[u].withdrawn_lp_shares = 0
        BY <1>7, <3>1, <4>1
      <4>3. Shares[u] \in Nat
        BY <1>6
      <4>4. QED
        BY <1>6, <2>1, <4>2, <4>3
    <3>3. \A v \in Users : users'[v].lp_shares = 0
      BY <1>8, <3>1, <3>2
    <3>5. /\ state'.global_mars_reward_index = state.global_mars_reward_index
          /\ state'.global_astro_reward_index = state.global_astro_reward_index
      <4>1. StakedShares = 0
        BY <1>14, <2>1 DEF StakedShares, PoolCreated
      <4>2. WithRewards(state, accrued) = state
        <5>1. /\ RewardIndex(state.global_mars_reward_index, accrued.mars)
                   = state.global_mars_reward_index
              /\ RewardIndex(state.global_astro_reward_index, accrued.astro)
                   = state.global_astro_reward_index
          BY <4>1 DEF RewardIndex
        <5>2. state \in StateRecords
          BY BaseParts DEF TypeOK
        <5>3. QED
          BY <5>1, <5>2 DEF WithRewards, StateRecords
      <4>3. \E k : state' = [WithRewards(state, accrued) EXCEPT !.lp_shares_withdrawn = @ + k]
        BY DEF ClaimRewards
      <4>4. PICK k : state' = [state EXCEPT !.lp_shares_withdrawn = @ + k]
        BY <4>2, <4>3
      <4>5. state \in StateRecords
        BY BaseParts DEF TypeOK
      <4>6. QED
        BY <4>4, <4>5 DEF StateRecords
    <3>6. QED
      BY <3>1, <3>3, <3>5
  <2>2. /\ WindowsEnd' = WindowsEnd /\ now' > WindowsEnd
    BY <1>2, <1>18 DEF WindowsEnd, UstDepositsEnd
  <2> HIDE DEF WindowsEnd
  <2>3. QED
    BY <1>2, <1>10, <1>13, <2>1, <2>2, BaseParts DEF WindowsKept
<1>20. RecordsBounded'
  <2>1. ASSUME NEW v \in Users, v # u
        PROVE  /\ users[v].mars_reward_index <= state'.global_mars_reward_index
               /\ users[v].astro_reward_index <= state'.global_astro_reward_index
    <3>1. /\ users[v].mars_reward_index <= state.global_mars_reward_index
          /\ users[v].astro_reward_index <= state.global_astro_reward_index
          /\ users[v].mars_reward_index \in Nat /\ users[v].astro_reward_index \in Nat
      BY BaseParts, UserTypes DEF RecordsBounded
    <3>2. QED
      BY <1>1, <1>10, <1>14, <3>1
  <2>2. ASSUME NEW v \in Users, v # u
        PROVE  /\ users'[v].lp_shares # 0 => users'[v].lp_shares = UserLpShare(users[v])'
               /\ users'[v].withdrawn_lp_shares <= users'[v].lp_shares
               /\ users'[v].total_auction_incentives <= AuctionReward(users[v])'
               /\ users'[v].withdrawn_auction_incentives
                    <= users'[v].total_auction_incentives
               /\ users'[v].mars_reward_index <= state'.global_mars_reward_index
               /\ users'[v].astro_reward_index <= state'.global_astro_reward_index
    <3>1. users'[v] = users[v]
      BY <1>8, <2>2
    <3>2. QED
      BY <1>17, <2>1, <2>2, <3>1, BaseParts DEF RecordsBounded
  <2>3. /\ users'[u].lp_shares = UserLpShare(users[u])'
        /\ users'[u].withdrawn_lp_shares <= users'[u].lp_shares
        /\ users'[u].total_auction_incentives <= AuctionReward(users[u])'
        /\ users'[u].withdrawn_auction_incentives <= users'[u].total_auction_incentives
        /\ users'[u].mars_reward_index <= state'.global_mars_reward_index
        /\ users'[u].astro_reward_index <= state'.global_astro_reward_index
    <3>1. users[u].withdrawn_lp_shares + n <= Shares[u] /\ Shares[u] \in Nat
      BY <1>6, <1>7
    <3>2. /\ state'.global_mars_reward_index \in Nat
          /\ state'.global_astro_reward_index \in Nat
      BY <1>10, <1>14
    <3>3. QED
      BY <1>5, <1>6, <1>8, <1>17, <3>1, <3>2
  <2>4. QED
    BY <2>2, <2>3 DEF RecordsBounded
<1>21. LpTracked'
  <2>1. StakedShares' = StakedShares - n
    BY <1>7, <1>9, <1>10, <1>14 DEF StakedShares
  <2>2. Total(Field("withdrawn_lp_shares"))' = state'.lp_shares_withdrawn
    <3> DEFINE f == Field("withdrawn_lp_shares")
    <3>1. f \in [Users -> Nat] /\ IsFiniteSet(Users) /\ Total(f) = state.lp_shares_withdrawn
      BY BaseParts, FieldTypes DEF LpTracked
    <3>2. f' \in [Users -> Nat]
      <4>1. \A v \in Users : users'[v].withdrawn_lp_shares \in Nat
        BY <1>8 DEF UserRecords
      <4>2. QED
        BY <4>1 DEF Field
    <3>3. f'[u] = f[u] + n /\ \A v \in Users : v # u => f'[v] = f[v]
      BY <1>8 DEF Field
    <3>4. n \in Int
      BY <1>7
    <3> HIDE DEF f
    <3>5. Total(f') = Total(f) + n
      BY <3>1, <3>2, <3>3, <3>4, TotalShift
    <3>6. QED
      BY <1>9, <3>1, <3>5 DEF f
  <2>3. QED
    BY <1>9, <1>11, <1>13, <2>1, <2>2, BaseParts DEF LpTracked
<1>22. BaseInv'
  BY <1>12, <1>15, <1>19, <1>20, <1>21 DEF BaseInv
<1>23. /\ Left' \in [Users -> Nat]
       /\ \A v \in Users : v # u => Left'[v] = Left[v]
       /\ Left'[u] = 0 \/ Left'[u] = Left[u]
  <2>1. /\ Left' \in [Users -> Nat]
        /\ \A v \in Users :
             Left'[v] = UserLpShare(users[v])' - users'[v].withdrawn_lp_shares
    BY <1>22, LeftFactsNext DEF LeftFacts
  <2>2. \A v \in Users : Left[v] = UserLpShare(users[v]) - users[v].withdrawn_lp_shares
    BY BaseParts, LeftFactsHold DEF LeftFacts
  <2>3. \A v \in Users : v # u => Left'[v] = Left[v]
    BY <1>8, <1>17, <2>1, <2>2
  <2>4. Left'[u] = Left[u] - n
    BY <1>6, <1>7, <1>8, <1>17, <2>1, <2>2
  <2>5. QED
    BY <1>1, <1>7, <2>1, <2>3, <2>4
<1>25. /\ Total(MarsExact)' + Scale * m <= Total(MarsExact) + accrued.mars * Scale
       /\ Total(AstroExact)' + Scale * a <= Total(AstroExact) + accrued.astro * Scale
  <2> DEFINE fm == Field("mars_reward_index")  fa == Field("astro_reward_index")
             gm == state.global_mars_reward_index  ga == state.global_astro_reward_index
  <2>1. /\ fm \in [Users -> Nat] /\ fa \in [Users -> Nat] /\ IsFiniteSet(Users)
        /\ \A v \in Users : fm[v] <= gm
        /\ \A v \in Users : fa[v] <= ga
        /\ gm \in Nat /\ ga \in Nat
    BY <1>14, BaseParts, FieldTypes DEF RecordsBounded, Field
  <2>2. fm' \in [Users -> Nat] /\ fa' \in [Users -> Nat]
    <3>1. \A v \in Users : /\ users'[v].mars_reward_index \in Nat
                           /\ users'[v].astro_reward_index \in Nat
      BY <1>8 DEF UserRecords
    <3>2. QED
      BY <3>1 DEF Field
  <2>3. /\ fm'[u] = gm + dm /\ \A v \in Users : v # u => fm'[v] = fm[v]
        /\ fa'[u] = ga + da /\ \A v \in Users : v # u => fa'[v] = fa[v]
    BY <1>8, <1>10 DEF Field
  <2>4. /\ m = MulFloor(Left[u], gm + dm) - MulFloor(Left[u], fm[u])
        /\ a = MulFloor(Left[u], ga + da) - MulFloor(Left[u], fa[u])
    BY <1>1 DEF Field
  <2>5. /\ MarsExact' = Exact(Users, Left', fm', gm + dm)
        /\ MarsExact = Exact(Users, Left, fm, gm)
        /\ AstroExact' = Exact(Users, Left', fa', ga + da)
        /\ AstroExact = Exact(Users, Left, fa, ga)
    BY <1>10 DEF MarsExact, AstroExact
  <2>6. \A v \in Users : v # u => Left'[v] = Left[v] /\ fm'[v] = fm[v]
    BY <1>23, <2>3
  <2>7. \A v \in Users : v # u => Left'[v] = Left[v] /\ fa'[v] = fa[v]
    BY <1>23, <2>3
  <2> HIDE DEF fm, fa, gm, ga
  <2>8. Total(Exact(Users, Left', fm', gm + dm)) + Scale * m
          <= Total(Exact(Users, Left, fm, gm)) + accrued.mars * Scale
    BY <1>1, <1>3, <1>6, <1>14, <1>23, <2>1, <2>2, <2>3, <2>4, <2>6, SpreadThenPaid
  <2>9. Total(Exact(Users, Left', fa', ga + da)) + Scale * a
          <= Total(Exact(Users, Left, fa, ga)) + accrued.astro * Scale
    BY <1>1, <1>3, <1>6, <1>14, <1>23, <2>1, <2>2, <2>3, <2>4, <2>7, SpreadThenPaid
  <2>10. QED
    BY <2>5, <2>8, <2>9
<1>26. /\ Total(MarsExact) \in Nat /\ Total(AstroExact) \in Nat
       /\ Total(MarsExact)' \in Nat /\ Total(AstroExact)' \in Nat
  BY <1>22, BaseParts, ExactFactsHold, ExactFactsNext DEF ExactFacts
<1>27. MarsBacked'
  <2> DEFINE f == Field("withdrawn_auction_incentives")
             need == MarsForPool + config.mars_rewards
             has == balance.mars
             got == accrued.mars
  <2>1. f \in [Users -> Nat] /\ IsFiniteSet(Users) /\ Total(f) \in Nat
    BY BaseParts, FieldTypes, TotalType
  <2>2. f' \in [Users -> Nat]
    <3>1. \A v \in Users : users'[v].withdrawn_auction_incentives \in Nat
      BY <1>8 DEF UserRecords
    <3>2. QED
      BY <3>1 DEF Field
  <2>3. f'[u] = f[u] + inc /\ \A v \in Users : v # u => f'[v] = f[v]
    BY <1>8 DEF Field
  <2> HIDE DEF f
  <2>4. Total(f') = Total(f) + inc
    BY <1>5, <2>1, <2>2, <2>3, TotalShift
  <2>5. need \in Nat /\ has \in Nat /\ got \in Nat
    BY <1>3, <1>14 DEF MarsForPool
  <2>6. MarsForPool' + config'.mars_rewards = need
    BY <1>2, <1>10, <1>13 DEF MarsForPool
  <2>7. Scale * need + Total(MarsExact) <= Scale * (has + Total(f))
    BY BaseParts DEF MarsBacked, f
  <2> HIDE DEF need, has, got
  <2> DEFINE was == Total(f)  ex == Total(MarsExact)  ex2 == Total(MarsExact)'
  <2>8. was \in Nat /\ ex \in Nat /\ ex2 \in Nat
    BY <1>26, <2>1
  <2>9. ex2 + Scale * m <= ex + got * Scale
    BY <1>25 DEF got
  <2>10. Scale * need + ex <= Scale * (has + was)
    BY <2>7
  <2> HIDE DEF was, ex, ex2
  <2>11. /\ Scale * ((has + got - (inc + m)) + (was + inc))
              = Scale * (has + was) + Scale * got - Scale * m
         /\ got * Scale = Scale * got
    BY <1>1, <1>5, <1>14, <2>5, <2>8
  <2>12. /\ Scale * (has + was) \in Nat /\ Scale * got \in Nat /\ Scale * m \in Nat
         /\ Scale * need \in Nat
    <3>1. has + was \in Nat
      BY <2>5, <2>8
    <3>2. QED
      BY <1>1, <1>14, <2>5, <3>1, ProductNat
  <2>13. Scale * need + ex2 <= Scale * ((has + got - (inc + m)) + (was + inc))
    BY <2>8, <2>9, <2>10, <2>11, <2>12
  <2>14. /\ balance'.mars = has + got - (inc + m) /\ Total(f') = was + inc
    BY <1>9, <2>4 DEF has, got, was
  <2>15. Scale * (MarsForPool' + config'.mars_rewards) + ex2
           <= Scale * (balance'.mars + Total(f'))
    BY <2>6, <2>13, <2>14
  <2>16. QED
    BY <2>15 DEF MarsBacked, f, ex2
<1>28. AstroBacked'
  <2> DEFINE has == balance.astro  got == accrued.astro
             ex == Total(AstroExact)  ex2 == Total(AstroExact)'
  <2>1. has \in Nat /\ got \in Nat /\ ex \in Nat /\ ex2 \in Nat
    BY <1>3, <1>14, <1>26
  <2>2. ex2 + Scale * a <= ex + got * Scale
    BY <1>25
  <2>3. ex <= Scale * has
    BY BaseParts DEF AstroBacked
  <2>4. balance'.astro = has + got - a
    BY <1>9
  <2> HIDE DEF has, got, ex, ex2
  <2>5. /\ Scale * (has + got - a) = Scale * has + Scale * got - Scale * a
        /\ got * Scale = Scale * got
    BY <1>1, <1>14, <2>1
  <2>6. Scale * has \in Nat /\ Scale * got \in Nat /\ Scale * a \in Nat
    BY <1>1, <1>14, <2>1, ProductNat
  <2>7. ex2 <= Scale * (has + got - a)
    BY <2>1, <2>2, <2>3, <2>5, <2>6
  <2>8. QED
    BY <2>4, <2>7 DEF AstroBacked, ex2
<1>29. QED
  BY <1>22, <1>27, <1>28 DEF BaseInv, AuctionInv

-------------------------------------------------------------------------------
(* Theorems *)

LEMMA AuctionNext == AuctionInv /\ [Next]_vars => AuctionInv'
<1> SUFFICES ASSUME AuctionInv, [Next]_vars PROVE AuctionInv'
  OBVIOUS
<1>1. CASE Tick
  BY <1>1, TickSafe
<1>2. CASE \E amount \in IncentiveAmounts : IncreaseMarsIncentives(amount)
  <2>1. PICK amount \in IncentiveAmounts : IncreaseMarsIncentives(amount)
    BY <1>2
  <2>2. QED
    BY <2>1, IncreaseSafe
<1>3. CASE OwnerConfigures
  <2>1. PICK sender \in Owners, owner \in Owners,
             pool \in Pools \union {config.astroport_lp_pool},
             staking \in Stakings \union {config.mars_lp_staking_contract},
             generator \in Generators :
          UpdateConfig(sender, owner, pool, staking, generator)
    BY <1>3 DEF OwnerConfigures
  <2>2. QED
    BY <2>1, UpdateConfigSafe
<1>4. CASE OwnerCreatesPool
  <2>1. PICK sender \in Owners, minted \in MintChoices : InitPool(sender, minted)
    BY <1>4 DEF OwnerCreatesPool
  <2>2. QED
    BY <2>1, InitPoolSafe
<1>5. CASE OwnerStakes
  <2>1. PICK sender \in Owners, single \in BOOLEAN, accrued \in Accruals :
          StakeLpTokens(sender, single, accrued)
    BY <1>5 DEF OwnerStakes
  <2>2. QED
    BY <2>1, StakeSafe
<1>6. CASE UserDelegates
  <2>1. PICK u \in Users, amount \in 1 .. MaxMars : DepositMarsTokens(u, amount)
    BY <1>6 DEF UserDelegates
  <2>2. amount \in Nat \ {0}
    BY AuctionAssumption
  <2>3. QED
    BY <2>1, <2>2, DepositMarsSafe
<1>7. CASE UserDeposits
  <2>1. PICK u \in Users, amount \in 1 .. MaxUst :
          DepositUst(u, amount) \/ WithdrawUst(u, amount)
    BY <1>7 DEF UserDeposits
  <2>2. amount \in Nat \ {0}
    BY AuctionAssumption
  <2>3. QED
    BY <2>1, <2>2, DepositUstSafe, WithdrawUstSafe
<1>8. CASE UserClaims
  <2>1. PICK u \in Users, withdraw \in BOOLEAN, accrued \in Accruals,
             liquidity \in LiquidityChoices :
          ClaimRewards(u, withdraw, accrued, liquidity)
    BY <1>8 DEF UserClaims, Claims
  <2>2. QED
    BY <2>1, ClaimSafe
<1>9. CASE UNCHANGED vars
  <2>1. /\ now' = now /\ config' = config /\ UNCHANGED <<state, users, balance, lp>>
    BY <1>9 DEF vars
  <2>2. TypeOK'
    BY <2>1, BaseParts DEF TypeOK, ConfigRecords, StateRecords, UserRecords
  <2>3. now <= now'
    BY <2>1, BaseParts, StateTypes
  <2>4. QED
    BY <2>1, <2>2, <2>3, FrameSafe
<1>10. QED
  BY <1>1, <1>2, <1>3, <1>4, <1>5, <1>6, <1>7, <1>8, <1>9 DEF Next

(* Every stored value has its type, so no checked subtraction fails. *)
THEOREM AuctionTypeCorrect == Spec => []TypeOK
<1>1. AuctionInv => TypeOK
  BY DEF AuctionInv
<1>2. QED
  BY <1>1, AuctionInit, AuctionNext, PTL DEF Spec

(* The UST held covers the deposits until the pool is created, whatever taxes were
   paid on withdrawals, and the deposits add up. *)
THEOREM DepositsAreCovered == Spec => []DepositsCovered
<1>1. AuctionInv => DepositsCovered
  BY DEF AuctionInv
<1>2. QED
  BY <1>1, AuctionInit, AuctionNext, PTL DEF Spec

(* The users' shares are within the LP tokens minted, early claim or late. *)
THEOREM SharesWithinMinted == Spec => []SharesOfMinted
<1>1. QED
  BY InvShares, AuctionInit, AuctionNext, PTL DEF Spec

(* No LP token is lost between the contract and the two it stakes with. *)
THEOREM LpTokensTracked == Spec => []LpTracked
<1>1. AuctionInv => LpTracked
  BY DEF AuctionInv
<1>2. QED
  BY <1>1, AuctionInit, AuctionNext, PTL DEF Spec

(* The MARS and ASTRO held cover all that users are due, claimed in any order. *)
THEOREM AuctionSolvent == Spec => []RewardsSolvent
<1>1. QED
  BY InvSolvent, AuctionInit, AuctionNext, PTL DEF Spec

-------------------------------------------------------------------------------
(* What the owner and the users can do whenever they want *)

(* What a user is due at a claim is covered by what is held and what arrives: the
   vested incentives with the MARS rewards, and the ASTRO rewards. *)
LEMMA DueCovered ==
  ASSUME AuctionInv, NEW u \in Users, NEW accrued \in RewardChoices
  PROVE  LET p == Provisioned(users[u])  spread == WithRewards(state, accrued) IN
         /\ MarsDue(p, spread) \in Int
         /\ MarsDue(p, spread) <= balance.mars + accrued.mars
         /\ AstroStakingReward(p, spread) <= balance.astro + accrued.astro
<1> DEFINE p      == Provisioned(users[u])
           spread == WithRewards(state, accrued)
           gm == state.global_mars_reward_index  ga == state.global_astro_reward_index
           fm == Field("mars_reward_index")  fa == Field("astro_reward_index")
           m  == MarsStakingReward(p, spread)  a == AstroStakingReward(p, spread)
           inc == Vested(u)
<1>1. accrued.mars \in Nat /\ accrued.astro \in Nat
  BY AuctionAssumption
<1>2. /\ StakedShares \in Nat /\ gm \in Nat /\ ga \in Nat /\ Scale \in Nat \ {0}
      /\ balance.mars \in Nat /\ balance.astro \in Nat /\ config.mars_rewards \in Nat
      /\ state.total_mars_deposited \in Nat /\ state \in StateRecords
  BY BaseParts, StakedSharesType, StateTypes, ScaleAssumption DEF TypeOK
<1>3. /\ IsFiniteSet(Users) /\ fm \in [Users -> Nat] /\ fa \in [Users -> Nat]
      /\ \A v \in Users : fm[v] <= gm
      /\ \A v \in Users : fa[v] <= ga
  BY BaseParts, FieldTypes DEF RecordsBounded, Field
<1>4. Left \in [Users -> Nat] /\ Total(Left) <= StakedShares
  BY BaseParts, SharesAddUp
<1>5. PICK dm \in Nat : /\ RewardIndex(gm, accrued.mars) = gm + dm
                        /\ dm * StakedShares <= accrued.mars * Scale
  BY <1>1, <1>2, IndexGrows
<1>6. PICK da \in Nat : /\ RewardIndex(ga, accrued.astro) = ga + da
                        /\ da * StakedShares <= accrued.astro * Scale
  BY <1>1, <1>2, IndexGrows
<1>7. /\ spread.global_mars_reward_index = gm + dm
      /\ spread.global_astro_reward_index = ga + da
  BY <1>2, <1>5, <1>6 DEF WithRewards, StateRecords
<1>8. /\ p.mars_reward_index = fm[u] /\ p.astro_reward_index = fa[u]
      /\ WithdrawableLpShares(p) = Left[u]
  BY BaseParts, ProvisionedFields DEF Field, Left
<1>9. /\ m = MulFloor(Left[u], gm + dm) - MulFloor(Left[u], fm[u])
      /\ a = MulFloor(Left[u], ga + da) - MulFloor(Left[u], fa[u])
  BY <1>7, <1>8 DEF MarsStakingReward, AstroStakingReward, AccruedReward
<1>10. /\ MarsExact = Exact(Users, Left, fm, gm) /\ AstroExact = Exact(Users, Left, fa, ga)
       /\ Total(MarsExact) \in Nat /\ Total(AstroExact) \in Nat
  BY BaseParts, ExactFactsHold DEF MarsExact, AstroExact, ExactFacts
<1> HIDE DEF p, spread, gm, ga, fm, fa, m, a
<1>11. ASSUME NEW f \in [Users -> Nat], NEW g \in Nat, NEW d \in Nat, NEW got \in Nat,
              \A v \in Users : f[v] <= g, d * StakedShares <= got * Scale,
              NEW due, due = MulFloor(Left[u], g + d) - MulFloor(Left[u], f[u])
       PROVE  /\ due \in Nat
              /\ Scale * due <= Total(Exact(Users, Left, f, g)) + got * Scale
  <2> DEFINE owed == Whole(Users, Left, f, g + d)
             ex   == Exact(Users, Left, f, g + d)
             ex0  == Exact(Users, Left, f, g)
  <2>1. g + d \in Nat /\ \A v \in Users : f[v] <= g + d
    <3>1. ASSUME NEW v \in Users PROVE f[v] <= g + d
      <4>1. f[v] <= g /\ f[v] \in Nat
        BY <1>11
      <4>2. QED
        BY <1>11, <4>1
    <3>2. QED
      BY <1>11, <3>1
  <2>2. owed \in [Users -> Nat] /\ Total(owed) * Scale <= Total(ex)
    BY <1>3, <1>4, <1>11, <2>1, OwedWithinExact
  <2>3. Total(ex) <= Total(ex0) + got * Scale
    BY <1>2, <1>3, <1>4, <1>11, ExactSpread
  <2>4. Total(ex) \in Nat /\ Total(ex0) \in Nat
    <3>1. ex \in [Users -> Nat] /\ ex0 \in [Users -> Nat]
      BY <1>4, <1>11, <2>1, ExactType
    <3>2. QED
      BY <1>3, <3>1, TotalType
  <2>5. due = owed[u] /\ due \in Nat
    <3>1. due = owed[u]
      BY <1>11 DEF Whole
    <3>2. QED
      BY <2>2, <3>1
  <2> HIDE DEF owed, ex, ex0
  <2>6. due <= Total(owed) /\ Total(owed) \in Nat
    <3>1. 0 \in Nat
      OBVIOUS
    <3>2. QED
      BY <1>3, <2>2, <2>5, <3>1, TotalUpdate, TotalType
  <2>7. due * Scale <= Total(owed) * Scale
    BY <1>2, <2>5, <2>6, ProductMono
  <2>8. Scale * due = due * Scale
    BY <1>2, <2>5
  <2>9. due * Scale \in Nat /\ Total(owed) * Scale \in Nat /\ got * Scale \in Nat
    BY <1>2, <1>11, <2>5, <2>6, ProductNat
  <2>10. QED
    BY <2>2, <2>3, <2>4, <2>5, <2>7, <2>8, <2>9 DEF ex0
<1>12. m \in Nat /\ Scale * m <= Total(MarsExact) + accrued.mars * Scale
  BY <1>1, <1>2, <1>3, <1>5, <1>9, <1>10, <1>11
<1>13. a \in Nat /\ Scale * a <= Total(AstroExact) + accrued.astro * Scale
  BY <1>1, <1>2, <1>3, <1>6, <1>9, <1>10, <1>11
<1>14. inc \in Int /\ inc + Total(Field("withdrawn_auction_incentives")) <= config.mars_rewards
       /\ Total(Field("withdrawn_auction_incentives")) \in Nat
  <2> DEFINE f == Field("withdrawn_auction_incentives")
             f2 == [f EXCEPT ![u] = f[u] + inc]
  <2>1. /\ f \in [Users -> Nat] /\ f[u] = users[u].withdrawn_auction_incentives
        /\ \A v \in Users : f[v] = users[v].withdrawn_auction_incentives
    BY BaseParts, FieldTypes DEF Field
  <2>2. /\ inc \in Int /\ f[u] + inc \in Nat /\ f[u] + inc <= Incentives[u]
    BY <2>1, IncentivesWithin
  <2>3. /\ Incentives \in [Users -> Nat] /\ Total(Incentives) <= config.mars_rewards
        /\ \A v \in Users : f[v] <= Incentives[v]
    BY <2>1, BaseParts, SharesAddUp
  <2> HIDE DEF f, inc
  <2>4. f2 \in [Users -> Nat] /\ \A v \in Users : f2[v] <= Incentives[v]
    BY <2>1, <2>2, <2>3
  <2>5. Total(f2) = Total(f) - f[u] + (f[u] + inc)
    BY <1>3, <2>1, <2>2, TotalUpdate
  <2> HIDE DEF f2
  <2>6. Total(f2) <= Total(Incentives)
    BY <1>3, <2>3, <2>4, TotalMono
  <2>7. Total(f2) \in Nat /\ Total(f) \in Nat /\ Total(Incentives) \in Nat /\ f[u] \in Nat
    BY <1>3, <2>1, <2>3, <2>4, TotalType
  <2>8. QED
    BY <1>2, <2>2, <2>3, <2>5, <2>6, <2>7 DEF f
<1>15. inc + m <= balance.mars + accrued.mars
  <2> DEFINE paid == Total(Field("withdrawn_auction_incentives"))
             need == MarsForPool + config.mars_rewards
             ex == Total(MarsExact)  has == balance.mars  got == accrued.mars
  <2>1. Scale * need + ex <= Scale * (has + paid)
    BY BaseParts DEF MarsBacked
  <2>2. /\ paid \in Nat /\ need \in Nat /\ ex \in Nat /\ has \in Nat /\ got \in Nat
        /\ inc \in Int /\ inc + paid <= need
    BY <1>1, <1>2, <1>10, <1>14 DEF MarsForPool
  <2>3. Scale * m <= ex + got * Scale
    BY <1>12
  <2> HIDE DEF paid, need, ex, has, got, inc
  <2>4. /\ Scale * need \in Nat /\ Scale * m \in Nat /\ Scale * (has + paid) \in Nat
        /\ got * Scale \in Nat
    <3>1. has + paid \in Nat
      BY <2>2
    <3>2. QED
      BY <1>2, <1>12, <2>2, <3>1, ProductNat
  <2>5. (need + m) * Scale <= (has + paid + got) * Scale
    <3>1. /\ (need + m) * Scale = Scale * need + Scale * m
          /\ (has + paid + got) * Scale = Scale * (has + paid) + got * Scale
      BY <1>2, <1>12, <2>2
    <3>2. QED
      BY <2>1, <2>2, <2>3, <2>4, <3>1
  <2>6. need + m <= has + paid + got
    <3>1. need + m \in Nat /\ has + paid + got \in Nat
      BY <1>12, <2>2
    <3>2. QED
      BY <1>2, <2>5, <3>1, ProductCancel
  <2>7. inc + m <= has + got
    BY <1>12, <2>2, <2>6
  <2>8. QED
    BY <2>7 DEF has, got
<1>16. a <= balance.astro + accrued.astro
  <2> DEFINE has == balance.astro  got == accrued.astro  ex == Total(AstroExact)
  <2>1. ex <= Scale * has /\ Scale * a <= ex + got * Scale
    BY <1>13, BaseParts DEF AstroBacked
  <2>2. has \in Nat /\ got \in Nat /\ ex \in Nat
    BY <1>1, <1>2, <1>10
  <2> HIDE DEF has, got, ex
  <2>3. Scale * has \in Nat /\ Scale * a \in Nat /\ got * Scale \in Nat
    BY <1>2, <1>13, <2>2, ProductNat
  <2>4. a * Scale <= (has + got) * Scale
    <3>1. (has + got) * Scale = Scale * has + got * Scale /\ a * Scale = Scale * a
      BY <1>2, <1>13, <2>2
    <3>2. QED
      BY <2>1, <2>2, <2>3, <3>1
  <2>5. a <= has + got
    <3>1. has + got \in Nat
      BY <2>2
    <3>2. QED
      BY <1>2, <1>13, <2>4, <3>1, ProductCancel
  <2>6. QED
    BY <2>5 DEF has, got
<1>17. MarsDue(p, spread) = inc + m
  BY DEF MarsDue, Vested, inc, m, p
<1>18. QED
  BY <1>12, <1>14, <1>15, <1>16, <1>17 DEF a, p, spread

(* The LP tokens of whoever has some left are where they are taken back from. *)
LEMMA SharesAtHand ==
  ASSUME AuctionInv, AddressesRight, NEW u \in Users, NEW accrued, MayAccrue(accrued),
         Left[u] > 0
  PROVE  CanUnstake(TRUE, Left[u], accrued)
<1>1. Left[u] \in Nat /\ Left[u] <= StakedShares
  <2>1. /\ Left \in [Users -> Nat] /\ Total(Left) <= StakedShares /\ IsFiniteSet(Users)
        /\ StakedShares \in Nat
    BY BaseParts, SharesAddUp, FieldTypes, StakedSharesType
  <2>2. 0 \in Nat
    OBVIOUS
  <2>3. Left[u] <= Total(Left) /\ Total(Left) \in Nat
    BY <2>1, <2>2, TotalUpdate, TotalType
  <2>4. QED
    BY <2>1, <2>3
<1>2. ~Staked => lp.held = StakedShares
  BY BaseParts DEF LpTracked
<1>3. Staked => StakedWith \in Contracts /\ lp.staked[StakedWith] = StakedShares
  BY DEF AddressesRight
<1>4. QED
  BY <1>1, <1>2, <1>3 DEF CanUnstake

LEMMA InvCreatable == AuctionInv => PoolCreatable
<1> SUFFICES ASSUME AuctionInv, AreWindowsClosed(now), ~PoolCreated,
                    config.astroport_lp_pool # NoPool,
                    state.total_mars_deposited > 0, UstForPool > 0,
                    NEW minted \in MintChoices \ {0}
             PROVE  CanInitPool(config.owner, minted)
  BY DEF PoolCreatable
<1>1. /\ state.total_ust_deposited \in Nat /\ state.total_mars_deposited \in Nat
      /\ balance.mars \in Nat /\ balance.uusd \in Nat /\ state.lp_shares_minted \in Nat
  BY BaseParts, StateTypes
<1>2. state.lp_shares_minted = 0
  BY <1>1 DEF PoolCreated
<1>3. state.total_mars_deposited <= balance.mars
  <2>1. state.total_mars_deposited + Total(IncentivesOwed) + Total(MarsOwed) <= balance.mars
    BY OwedSolvent DEF RewardsSolvent
  <2>2. Total(IncentivesOwed) \in Nat /\ Total(MarsOwed) \in Nat
    BY OwedSolvent
  <2>3. QED
    BY <1>1, <2>1, <2>2
<1>4. UstForPool + ChainTax(UstForPool) <= balance.uusd
  <2>1. /\ UstForPool \in Nat /\ ChainTax(UstForPool) \in Nat
        /\ UstForPool + ChainTax(UstForPool) <= state.total_ust_deposited
    BY <1>1, AstroportTaxWithin DEF UstForPool
  <2>2. state.total_ust_deposited <= balance.uusd
    BY BaseParts DEF DepositsCovered
  <2>3. QED
    BY <1>1, <2>1, <2>2
<1>5. minted > 0
  BY AuctionAssumption
<1>6. QED
  BY <1>2, <1>3, <1>4, <1>5 DEF CanInitPool

LEMMA InvWithdrawable == AuctionInv => SharesWithdrawable
<1> SUFFICES ASSUME AuctionInv, PoolCreated, AddressesRight, NEW u \in Users,
                    NEW accrued \in RewardChoices, NEW liquidity \in LiquidityChoices,
                    users[u].mars_deposited + users[u].ust_deposited > 0,
                    WithdrawableLpShares(Provisioned(users[u])) > 0, MayAccrue(accrued),
                    liquidity.uusd > 0 => DeductTax(liquidity.uusd) > 0
             PROVE  CanClaimRewards(u, TRUE, accrued, liquidity)
  BY DEF SharesWithdrawable
<1> DEFINE p      == Provisioned(users[u])
           spread == WithRewards(state, accrued)
           mars   == MarsDue(p, spread)
           fwd    == MarsForwarded(balance.mars, accrued.mars, mars, liquidity.mars)
           sent   == DeductTax(liquidity.uusd)
<1>1. AreWindowsClosed(now)
  BY BaseParts DEF WindowsKept, WindowsEnd, AreWindowsClosed
<1>2. users[u].mars_deposited # 0 \/ users[u].ust_deposited # 0
  BY BaseParts, UserTypes
<1>3. SharesToWithdraw(p, TRUE) = Left[u] /\ Left[u] > 0 /\ Left[u] # 0
  BY DEF SharesToWithdraw, Left
<1>4. CanUnstake(TRUE, Left[u], accrued)
  BY <1>3, SharesAtHand
<1>5. /\ mars \in Int /\ mars <= balance.mars + accrued.mars
      /\ AstroStakingReward(p, spread) <= balance.astro + accrued.astro
  BY DueCovered
<1>6. config.astroport_lp_pool = lp.pool
  BY DEF AddressesRight
<1>7. /\ accrued.mars \in Nat /\ liquidity.mars \in Nat /\ liquidity.uusd \in Nat
      /\ balance.mars \in Nat /\ balance.uusd \in Nat
  BY AuctionAssumption, BaseParts, StateTypes
<1>8. Returned(Left[u], liquidity) = liquidity
  BY <1>3 DEF Returned
<1> HIDE DEF p, spread, mars
<1>9. 0 <= fwd /\ fwd <= balance.mars + accrued.mars - mars + liquidity.mars
  BY <1>5, <1>7 DEF MarsForwarded
<1>10. sent + ChainTax(sent) <= balance.uusd + liquidity.uusd
  <2>1. sent \in Nat /\ ChainTax(sent) \in Nat /\ sent + ChainTax(sent) <= liquidity.uusd
    BY <1>7, PackageTaxWithin
  <2>2. QED
    BY <1>7, <2>1
<1>11. QED
  BY <1>1, <1>2, <1>3, <1>4, <1>5, <1>6, <1>8, <1>9, <1>10
  DEF CanClaimRewards, p, spread, mars

(* Once the windows are over, the owner can create the pool as soon as both tokens
   are there and a pool is configured: no incentive or withdrawal took from them. *)
THEOREM PoolCreatableHolds == Spec => []PoolCreatable
<1>1. QED
  BY InvCreatable, AuctionInit, AuctionNext, PTL DEF Spec

(* Whoever has LP tokens left can withdraw them with all that is due to him. *)
THEOREM SharesWithdrawableHolds == Spec => []SharesWithdrawable
<1>1. QED
  BY InvWithdrawable, AuctionInit, AuctionNext, PTL DEF Spec

-------------------------------------------------------------------------------
(* Vesting *)

\* No more has been paid to a user than has vested.
PaidWithinVested ==
  \A u \in Users :
    LET info == users[u] IN
    /\ info.withdrawn_auction_incentives <= info.total_auction_incentives
    /\ ~PoolCreated => info.withdrawn_auction_incentives = 0
    /\ PoolCreated /\ Elapsed < MarsVestingDuration =>
         info.withdrawn_auction_incentives
           <= MulFloor(info.total_auction_incentives,
                       FromRatio(Elapsed, MarsVestingDuration))

VestedInv == AuctionInv /\ PaidWithinVested

\* Nothing the vesting of incentives depends on changes, but for the time.
IncentivesKept ==
  /\ PoolCreated' = PoolCreated /\ now <= now' /\ now' \in Nat
  /\ state'.pool_init_timestamp = state.pool_init_timestamp
  /\ \A u \in Users :
       /\ users'[u].total_auction_incentives = users[u].total_auction_incentives
       /\ users'[u].withdrawn_auction_incentives = users[u].withdrawn_auction_incentives

(* What had vested of an amount has vested later. *)
LEMMA VestedGrows ==
  ASSUME NEW total \in Nat, NEW paid \in Nat, NEW early \in Nat, NEW late \in Nat,
         early <= late, paid <= MulFloor(total, FromRatio(early, MarsVestingDuration))
  PROVE  paid <= MulFloor(total, FromRatio(late, MarsVestingDuration))
<1> DEFINE r == FromRatio(early, MarsVestingDuration)
           s == FromRatio(late, MarsVestingDuration)
<1>1. MarsVestingDuration \in Nat \ {0}
  BY AuctionAssumption
<1>2. r \in Nat /\ s \in Nat /\ r <= s
  BY <1>1, FromRatioBound, FromRatioMono
<1> HIDE DEF r, s
<1>3. MulFloor(total, r) <= MulFloor(total, s)
  BY <1>2, MulFloorMono
<1>4. MulFloor(total, r) \in Nat /\ MulFloor(total, s) \in Nat
  BY <1>2, MulFloorBound
<1>5. paid <= MulFloor(total, r)
  BY DEF r
<1>6. QED
  BY <1>3, <1>4, <1>5 DEF s

LEMMA KeptVested ==
  ASSUME AuctionInv, PaidWithinVested, IncentivesKept
  PROVE  PaidWithinVested'
<1>1. /\ PoolCreated' = PoolCreated /\ now <= now' /\ now' \in Nat /\ now \in Nat
      /\ state'.pool_init_timestamp = state.pool_init_timestamp
      /\ state.pool_init_timestamp \in Nat /\ MarsVestingDuration \in Nat \ {0}
      /\ PoolCreated => state.pool_init_timestamp <= now
  BY BaseParts, StateTypes, AuctionAssumption DEF IncentivesKept, WindowsKept
<1>2. ASSUME NEW u \in Users
      PROVE  /\ users[u].withdrawn_auction_incentives
                  <= users[u].total_auction_incentives
             /\ ~PoolCreated => users[u].withdrawn_auction_incentives = 0
             /\ PoolCreated /\ Elapsed' < MarsVestingDuration =>
                  users[u].withdrawn_auction_incentives
                    <= MulFloor(users[u].total_auction_incentives,
                                FromRatio(Elapsed', MarsVestingDuration))
  <2>1. /\ users[u].withdrawn_auction_incentives <= users[u].total_auction_incentives
        /\ ~PoolCreated => users[u].withdrawn_auction_incentives = 0
        /\ PoolCreated /\ Elapsed < MarsVestingDuration =>
             users[u].withdrawn_auction_incentives
               <= MulFloor(users[u].total_auction_incentives,
                           FromRatio(Elapsed, MarsVestingDuration))
    BY DEF PaidWithinVested
  <2>2. ASSUME PoolCreated, Elapsed' < MarsVestingDuration
        PROVE  users[u].withdrawn_auction_incentives
                 <= MulFloor(users[u].total_auction_incentives,
                             FromRatio(Elapsed', MarsVestingDuration))
    <3>1. Elapsed \in Nat /\ Elapsed' \in Nat /\ Elapsed <= Elapsed'
      BY <1>1, <2>2 DEF Elapsed
    <3>2. Elapsed < MarsVestingDuration
      BY <1>1, <2>2, <3>1
    <3>3. /\ users[u].withdrawn_auction_incentives \in Nat
          /\ users[u].total_auction_incentives \in Nat
      BY BaseParts, UserTypes
    <3>4. QED
      BY <2>1, <2>2, <3>1, <3>2, <3>3, VestedGrows
  <2>3. QED
    BY <2>1, <2>2
<1>3. \A u \in Users :
        /\ users'[u].total_auction_incentives = users[u].total_auction_incentives
        /\ users'[u].withdrawn_auction_incentives = users[u].withdrawn_auction_incentives
  BY DEF IncentivesKept
<1>4. QED
  BY <1>1, <1>2, <1>3 DEF PaidWithinVested

(* Nothing is paid before the pool is created, and its creation pays nothing. *)
LEMMA PoolVested ==
  ASSUME AuctionInv, AuctionInv', PaidWithinVested, ~PoolCreated, users' = users
  PROVE  PaidWithinVested'
<1>1. ASSUME NEW u \in Users PROVE users[u].withdrawn_auction_incentives = 0
  BY DEF PaidWithinVested
<1>2. ASSUME NEW u \in Users PROVE users[u].total_auction_incentives \in Nat
  BY BaseParts, UserTypes
<1>3. TypeOK' /\ WindowsKept'
  BY DEF AuctionInv
<1>4. ASSUME PoolCreated' PROVE FromRatio(Elapsed', MarsVestingDuration) \in Nat
  <2>1. /\ now' \in Nat /\ state'.pool_init_timestamp \in Nat
        /\ state'.pool_init_timestamp <= now'
    BY <1>3, <1>4 DEF TypeOK, StateRecords, WindowsKept
  <2>2. Elapsed' \in Nat
    BY <2>1 DEF Elapsed
  <2>3. QED
    BY <2>2, FromRatioBound, AuctionAssumption
<1>5. ASSUME NEW u \in Users, PoolCreated'
      PROVE  0 <= MulFloor(users[u].total_auction_incentives,
                           FromRatio(Elapsed', MarsVestingDuration))
  <2> DEFINE total == users[u].total_auction_incentives
             r == FromRatio(Elapsed', MarsVestingDuration)
  <2>1. total \in Nat /\ r \in Nat
    BY <1>2, <1>4, <1>5
  <2> HIDE DEF total, r
  <2>2. MulFloor(total, r) \in Nat
    BY <2>1, MulFloorBound
  <2>3. QED
    BY <2>2 DEF total, r
<1>6. \A u \in Users : 0 <= users[u].total_auction_incentives
  BY <1>2
<1>7. QED
  BY <1>1, <1>5, <1>6 DEF PaidWithinVested

(* A claim pays what has vested and was not paid before. *)
LEMMA ClaimVested ==
  ASSUME AuctionInv, AuctionInv', PaidWithinVested, NEW u \in Users, NEW withdraw \in BOOLEAN,
         NEW accrued \in Accruals, NEW liquidity \in LiquidityChoices,
         ClaimRewards(u, withdraw, accrued, liquidity)
  PROVE  PaidWithinVested'
<1> DEFINE old == users[u].withdrawn_auction_incentives
           total == Incentives[u]
           most == MulFloor(total, FromRatio(Elapsed, MarsVestingDuration))
<1>1. PICK dm \in Nat, da \in Nat, n \in {0, Left[u]} :
        Spreads(dm, da) /\ ClaimsRecord(u, Vested(u), n)
  BY ClaimEffect
<1>2. now' = now
  BY DEF ClaimRewards
<1>3. /\ PoolCreated' = PoolCreated /\ Elapsed' = Elapsed
      /\ \A v \in Users : v # u => users'[v] = users[v]
      /\ users'[u].total_auction_incentives = total
      /\ users'[u].withdrawn_auction_incentives = old + Vested(u)
  BY <1>1, <1>2 DEF PoolCreated, Elapsed, Spreads, ClaimsRecord
<1>4. /\ old + Vested(u) <= total /\ (~PoolCreated => Vested(u) = 0)
      /\ old \in Nat /\ total \in Nat
  BY IncentivesWithin, BaseParts, SharesAddUp, UserTypes
<1>5. ~PoolCreated => old = 0
  BY DEF PaidWithinVested
<1>6. ASSUME PoolCreated, Elapsed < MarsVestingDuration PROVE old + Vested(u) <= most
  <2>1. /\ Elapsed \in Nat /\ state.pool_init_timestamp # 0
        /\ MarsVestingDuration \in Nat \ {0}
    BY <1>6, BaseParts, StateTypes, AuctionAssumption DEF WindowsKept, Elapsed
  <2>2. most \in Nat
    BY <1>4, <2>1, FromRatioBound, MulFloorBound
  <2>3. /\ Provisioned(users[u]).total_auction_incentives = total
        /\ Provisioned(users[u]).withdrawn_auction_incentives = old
    BY BaseParts, ProvisionedFields DEF Incentives
  <2>4. CASE old = total
    <3>1. Vested(u) = 0
      BY <2>3, <2>4 DEF Vested, WithdrawableIncentives
    <3>2. old <= most
      <4>1. CASE users[u].total_auction_incentives = 0
        <5>1. old <= 0
          BY <4>1 DEF PaidWithinVested
        <5>2. QED
          BY <1>4, <2>2, <5>1
      <4>2. CASE users[u].total_auction_incentives # 0
        <5>1. users[u].total_auction_incentives = total
          BY <4>2, BaseParts, ProvisionedFields DEF Incentives
        <5>2. QED
          BY <1>6, <5>1 DEF PaidWithinVested
      <4>3. QED
        BY <4>1, <4>2
    <3>3. QED
      BY <1>4, <3>1, <3>2
  <2>5. CASE old # total
    <3>1. ~(Elapsed >= MarsVestingDuration)
      BY <1>6, <2>1
    <3>2. Vested(u) = most - old
      BY <2>1, <2>3, <2>5, <3>1 DEF Vested, WithdrawableIncentives
    <3>3. QED
      BY <1>4, <2>2, <3>2
  <2>6. QED
    BY <2>4, <2>5
<1>7. ASSUME NEW v \in Users
      PROVE  /\ users'[v].withdrawn_auction_incentives
                  <= users'[v].total_auction_incentives
             /\ ~PoolCreated => users'[v].withdrawn_auction_incentives = 0
             /\ PoolCreated /\ Elapsed < MarsVestingDuration =>
                  users'[v].withdrawn_auction_incentives
                    <= MulFloor(users'[v].total_auction_incentives,
                                FromRatio(Elapsed, MarsVestingDuration))
  <2>1. CASE v = u
    BY <1>3, <1>4, <1>5, <1>6, <2>1
  <2>2. CASE v # u
    BY <1>3, <2>2 DEF PaidWithinVested
  <2>3. QED
    BY <2>1, <2>2
<1>8. QED
  BY <1>3, <1>7 DEF PaidWithinVested

LEMMA VestedNext == VestedInv /\ [Next]_vars => VestedInv'
<1> SUFFICES ASSUME AuctionInv, PaidWithinVested, [Next]_vars PROVE VestedInv'
  BY DEF VestedInv
<1>1. AuctionInv' /\ TypeOK'
  <2>1. AuctionInv'
    BY AuctionNext
  <2>2. QED
    BY <2>1 DEF AuctionInv
<1>2. /\ now \in Nat /\ now' \in Nat /\ state \in StateRecords
      /\ users \in [Users -> UserRecords]
  BY <1>1, BaseParts DEF TypeOK
<1>3. CASE Tick \/ UNCHANGED vars
  <2>1. now <= now' /\ state' = state /\ users' = users
    BY <1>2, <1>3 DEF Tick, vars
  <2>2. IncentivesKept
    BY <1>2, <2>1 DEF IncentivesKept, PoolCreated
  <2>3. QED
    BY <1>1, <2>2, KeptVested DEF VestedInv
<1>4. CASE (\E amount \in IncentiveAmounts : IncreaseMarsIncentives(amount)) \/ OwnerConfigures
  <2>1. now' = now /\ state' = state /\ users' = users
    BY <1>4 DEF IncreaseMarsIncentives, OwnerConfigures, UpdateConfig
  <2>2. IncentivesKept
    BY <1>2, <2>1 DEF IncentivesKept, PoolCreated
  <2>3. QED
    BY <1>1, <2>2, KeptVested DEF VestedInv
<1>5. CASE OwnerCreatesPool
  <2>1. /\ users' = users /\ state.lp_shares_minted = 0
    BY <1>5 DEF OwnerCreatesPool, InitPool, CanInitPool
  <2>2. ~PoolCreated
    BY <2>1 DEF PoolCreated
  <2>3. QED
    BY <1>1, <2>1, <2>2, PoolVested DEF VestedInv
<1>6. CASE OwnerStakes
  <2>1. PICK sender \in Owners, single \in BOOLEAN, accrued \in Accruals :
          StakeLpTokens(sender, single, accrued)
    BY <1>6 DEF OwnerStakes
  <2>2. /\ now' = now /\ users' = users
        /\ \/ state' = WithRewards(StateAfterStaking(single), accrued)
           \/ state' = StateAfterStaking(single)
    BY <2>1 DEF StakeLpTokens
  <2>3. /\ state'.lp_shares_minted = state.lp_shares_minted
        /\ state'.pool_init_timestamp = state.pool_init_timestamp
    BY <1>2, <2>2 DEF WithRewards, StateAfterStaking, StateRecords
  <2>4. IncentivesKept
    BY <1>2, <2>2, <2>3 DEF IncentivesKept, PoolCreated
  <2>5. QED
    BY <1>1, <2>4, KeptVested DEF VestedInv
<1>7. CASE UserDelegates \/ UserDeposits
  <2>1. PICK u \in Users, amount \in Nat :
          \/ DepositMarsTokens(u, amount)
          \/ DepositUst(u, amount)
          \/ WithdrawUst(u, amount)
    <3>1. 1 .. MaxMars \subseteq Nat /\ 1 .. MaxUst \subseteq Nat
      BY AuctionAssumption
    <3>2. QED
      BY <1>7, <3>1 DEF UserDelegates, UserDeposits
  <2>2. /\ now' = now
        /\ \/ state' = [state EXCEPT !.total_mars_deposited = @ + amount]
           \/ state' = [state EXCEPT !.total_ust_deposited = @ + amount]
           \/ state' = [state EXCEPT !.total_ust_deposited = @ - amount]
    BY <2>1 DEF DepositMarsTokens, DepositUst, WithdrawUst
  <2>3. /\ state'.lp_shares_minted = state.lp_shares_minted
        /\ state'.pool_init_timestamp = state.pool_init_timestamp
    BY <1>2, <2>2 DEF StateRecords
  <2>4. ASSUME NEW v \in Users
        PROVE  /\ users'[v].total_auction_incentives = users[v].total_auction_incentives
               /\ users'[v].withdrawn_auction_incentives
                    = users[v].withdrawn_auction_incentives
    <3>1. CASE DepositMarsTokens(u, amount)
      BY <1>2, <3>1 DEF DepositMarsTokens, UserRecords
    <3>2. CASE DepositUst(u, amount)
      BY <1>2, <3>2 DEF DepositUst, UserRecords
    <3>3. CASE WithdrawUst(u, amount)
      BY <1>2, <3>3 DEF WithdrawUst, UserRecords
    <3>4. QED
      BY <2>1, <3>1, <3>2, <3>3
  <2>5. IncentivesKept
    BY <1>2, <2>2, <2>3, <2>4 DEF IncentivesKept, PoolCreated
  <2>6. QED
    BY <1>1, <2>5, KeptVested DEF VestedInv
<1>8. CASE UserClaims
  <2>1. PICK u \in Users, withdraw \in BOOLEAN, accrued \in Accruals,
             liquidity \in LiquidityChoices :
          ClaimRewards(u, withdraw, accrued, liquidity)
    BY <1>8 DEF UserClaims, Claims
  <2>2. QED
    BY <1>1, <2>1, ClaimVested DEF VestedInv
<1>9. QED
  BY <1>3, <1>4, <1>5, <1>6, <1>7, <1>8 DEF Next

LEMMA VestedInit == Init => VestedInv
<1> SUFFICES ASSUME Init PROVE VestedInv
  OBVIOUS
<1>1. state.lp_shares_minted = 0 /\ ~PoolCreated
  BY DEF Init, NoState, PoolCreated
<1>2. \A u \in Users : /\ users[u].withdrawn_auction_incentives = 0
                       /\ users[u].total_auction_incentives = 0
  BY DEF Init, NoUser
<1>3. QED
  BY <1>1, <1>2, AuctionInit DEF VestedInv, PaidWithinVested

LEMMA VestedInvariant == Spec => []VestedInv
<1>1. QED
  BY VestedInit, VestedNext, PTL DEF Spec

\* The part of an amount that has vested before the end.
LEMMA VestedPart ==
  ASSUME NEW total \in Nat, NEW spent \in Nat, spent < MarsVestingDuration
  PROVE  LET most == MulFloor(total, FromRatio(spent, MarsVestingDuration)) IN
         most \in Nat /\ most <= total
<1> DEFINE r == FromRatio(spent, MarsVestingDuration)
<1>1. MarsVestingDuration \in Nat \ {0} /\ Scale \in Nat \ {0}
  BY AuctionAssumption, ScaleAssumption
<1>2. r \in Nat /\ r * MarsVestingDuration <= spent * Scale
  BY <1>1, FromRatioBound
<1> HIDE DEF r
<1>3. /\ spent * Scale <= MarsVestingDuration * Scale
      /\ MarsVestingDuration * Scale = Scale * MarsVestingDuration
      /\ r * MarsVestingDuration \in Nat /\ spent * Scale \in Nat
      /\ Scale * MarsVestingDuration \in Nat
  BY <1>1, <1>2, ProductMono, ProductNat
<1>4. r * MarsVestingDuration <= Scale * MarsVestingDuration
  BY <1>2, <1>3
<1>5. r <= Scale
  BY <1>1, <1>2, <1>4, ProductCancel
<1>6. QED
  BY <1>2, <1>5, MulFloorBound, WholeBound DEF r

\* A claim leaves the user with exactly what has vested.
LEMMA ClaimPaysVested ==
  ASSUME VestedInv, NEW u \in Users, NEW withdraw \in BOOLEAN,
         Claims(u, withdraw)
  PROVE  users'[u].withdrawn_auction_incentives = VestedIncentives(users[u])'
<1> DEFINE old == users[u].withdrawn_auction_incentives
           total == Incentives[u]
           most == MulFloor(total, FromRatio(Elapsed, MarsVestingDuration))
<1> USE DEF VestedInv
<1>1. PICK accrued \in Accruals, liquidity \in LiquidityChoices :
        ClaimRewards(u, withdraw, accrued, liquidity)
  BY DEF Claims
<1>2. PICK dm \in Nat, da \in Nat, n \in {0, Left[u]} :
        Spreads(dm, da) /\ ClaimsRecord(u, Vested(u), n)
  BY <1>1, ClaimEffect
<1>3. now' = now
  BY <1>1 DEF ClaimRewards
<1>4. /\ PoolCreated' = PoolCreated /\ Elapsed' = Elapsed
      /\ users'[u].total_auction_incentives = total
      /\ users'[u].withdrawn_auction_incentives = old + Vested(u)
  BY <1>2, <1>3 DEF PoolCreated, Elapsed, Spreads, ClaimsRecord
<1>5. VestedIncentives(users[u])' =
        IF ~PoolCreated THEN 0
        ELSE IF Elapsed >= MarsVestingDuration THEN total ELSE most
  BY <1>4 DEF VestedIncentives
<1>6. /\ old + Vested(u) <= total /\ (~PoolCreated => Vested(u) = 0)
      /\ old \in Nat /\ total \in Nat /\ old <= total
  BY IncentivesWithin, BaseParts, SharesAddUp, UserTypes
<1>7. /\ Provisioned(users[u]).total_auction_incentives = total
      /\ Provisioned(users[u]).withdrawn_auction_incentives = old
  BY BaseParts, ProvisionedFields DEF Incentives
<1>8. CASE ~PoolCreated
  <2>1. old = 0
    BY <1>8 DEF PaidWithinVested
  <2>2. QED
    BY <1>4, <1>5, <1>6, <1>8, <2>1
<1>9. ASSUME PoolCreated
      PROVE  /\ state.pool_init_timestamp # 0
             /\ Elapsed \in Nat /\ MarsVestingDuration \in Nat \ {0}
  BY <1>9, BaseParts, StateTypes, AuctionAssumption DEF WindowsKept, Elapsed
<1>10. CASE PoolCreated /\ Elapsed >= MarsVestingDuration
  <2>1. old + Vested(u) = total
    <3>1. CASE old = total
      BY <1>6, <1>7, <3>1 DEF Vested, WithdrawableIncentives
    <3>2. CASE old # total
      <4>1. Vested(u) = total - old
        BY <1>7, <1>9, <1>10, <3>2 DEF Vested, WithdrawableIncentives
      <4>2. QED
        BY <1>6, <4>1
    <3>3. QED
      BY <3>1, <3>2
  <2>2. QED
    BY <1>4, <1>5, <1>10, <2>1
<1>11. CASE PoolCreated /\ ~(Elapsed >= MarsVestingDuration)
  <2>1. most \in Nat /\ most <= total
    BY <1>6, <1>9, <1>11, VestedPart
  <2>2. CASE old # total
    <3>1. Vested(u) = most - old
      BY <1>7, <1>9, <1>11, <2>2 DEF Vested, WithdrawableIncentives
    <3>2. old + Vested(u) = most
      BY <1>6, <2>1, <3>1
    <3>3. QED
      BY <1>4, <1>5, <1>11, <3>2
  <2>3. CASE old = total
    <3>1. Vested(u) = 0
      BY <1>7, <2>3 DEF Vested, WithdrawableIncentives
    <3>2. old <= most
      <4>1. CASE users[u].total_auction_incentives = 0
        <5>1. old <= 0
          BY <4>1 DEF PaidWithinVested
        <5>2. QED
          BY <1>6, <2>1, <5>1
      <4>2. CASE users[u].total_auction_incentives # 0
        <5>1. users[u].total_auction_incentives = total
          BY <4>2, BaseParts, ProvisionedFields DEF Incentives
        <5>2. Elapsed < MarsVestingDuration
          BY <1>9, <1>11
        <5>3. QED
          BY <1>11, <5>1, <5>2 DEF PaidWithinVested
      <4>3. QED
        BY <4>1, <4>2
    <3>3. old + Vested(u) = most
      BY <1>6, <2>1, <2>3, <3>1, <3>2
    <3>4. QED
      BY <1>4, <1>5, <1>11, <3>3
  <2>4. QED
    BY <2>2, <2>3
<1>12. QED
  BY <1>8, <1>10, <1>11

\* Only a claim of u changes what u has been paid.
LEMMA PaidByClaims ==
  ASSUME VestedInv, [Next]_vars, NEW u \in Users,
         users'[u].withdrawn_auction_incentives # users[u].withdrawn_auction_incentives
  PROVE  \E withdraw \in BOOLEAN : Claims(u, withdraw)
<1>1. users \in [Users -> UserRecords]
  BY BaseParts DEF VestedInv, TypeOK
<1>2. users' # users
  OBVIOUS
<1>3. PICK v \in Users, withdraw \in BOOLEAN : Claims(v, withdraw)
  <2>1. CASE UserDelegates \/ UserDeposits
    <3>1. PICK v \in Users, amount \in Nat :
            \/ DepositMarsTokens(v, amount)
            \/ DepositUst(v, amount)
            \/ WithdrawUst(v, amount)
      <4>1. 1 .. MaxMars \subseteq Nat /\ 1 .. MaxUst \subseteq Nat
        BY AuctionAssumption
      <4>2. QED
        BY <2>1, <4>1 DEF UserDelegates, UserDeposits
    <3>2. CASE DepositMarsTokens(v, amount)
      BY <1>1, <3>2 DEF DepositMarsTokens, UserRecords
    <3>3. CASE DepositUst(v, amount)
      BY <1>1, <3>3 DEF DepositUst, UserRecords
    <3>4. CASE WithdrawUst(v, amount)
      BY <1>1, <3>4 DEF WithdrawUst, UserRecords
    <3>5. QED
      BY <3>1, <3>2, <3>3, <3>4
  <2>2. CASE Tick \/ OwnerConfigures \/ UNCHANGED vars
    BY <1>2, <2>2, Zenon DEF Tick, OwnerConfigures, UpdateConfig, vars
  <2>3. CASE \E amount \in IncentiveAmounts : IncreaseMarsIncentives(amount)
    BY <1>2, <2>3 DEF IncreaseMarsIncentives
  <2>4. CASE OwnerCreatesPool
    BY <1>2, <2>4 DEF OwnerCreatesPool, InitPool
  <2>5. CASE OwnerStakes
    BY <1>2, <2>5 DEF OwnerStakes, StakeLpTokens
  <2>6. CASE UserClaims
    BY <2>6 DEF UserClaims
  <2>7. QED
    BY <2>1, <2>2, <2>3, <2>4, <2>5, <2>6 DEF Next
<1>4. \A w \in Users : w # v => users'[w] = users[w]
  BY <1>1, <1>3 DEF Claims, ClaimRewards
<1>5. v = u
  BY <1>4
<1>6. QED
  BY <1>3, <1>5

(* Each claim brings what a user has been paid of his incentives to exactly what
   has vested, and nothing else changes it. *)
THEOREM IncentivesPaidAsVested == Spec => PaidAsVested
<1> DEFINE claims(u) == \E withdraw \in BOOLEAN : Claims(u, withdraw)
           paid(u)   == users'[u].withdrawn_auction_incentives
           PaysAsVested(u) ==
             /\ paid(u) = VestedIncentives(users[u])' \/ ~claims(u)
             /\ paid(u) = users[u].withdrawn_auction_incentives \/ claims(u)
<1>1. VestedInv /\ [Next]_vars => [\A u \in Users : PaysAsVested(u)]_vars
  <2> SUFFICES ASSUME VestedInv, [Next]_vars, NEW u \in Users PROVE PaysAsVested(u)
    OBVIOUS
  <2>1. CASE \E withdraw \in BOOLEAN : Claims(u, withdraw)
    BY <2>1, ClaimPaysVested
  <2>2. CASE ~\E withdraw \in BOOLEAN : Claims(u, withdraw)
    BY <2>2, PaidByClaims
  <2>3. QED
    BY <2>1, <2>2
<1>2. QED
  BY <1>1, VestedInvariant, PTL DEF Spec, PaidAsVested

-------------------------------------------------------------------------------
(* The UserInfo query and the claim *)

\* Until the LP tokens are first staked no rewards can have arrived.
NoRewardsYet ==
  ~Staked => state.global_mars_reward_index = 0 /\ state.global_astro_reward_index = 0

QueryInv == AuctionInv /\ NoRewardsYet

LEMMA NothingToSpread ==
  ASSUME StakedShares \in Nat, NEW index \in Nat
  PROVE  RewardIndex(index, 0) = index
<1>1. CASE StakedShares = 0
  BY <1>1 DEF RewardIndex
<1>2. CASE StakedShares # 0
  <2>1. 0 * Scale = 0 /\ 0 \div StakedShares = 0
    BY <1>2, ScaleAssumption
  <2>2. FromRatio(0, StakedShares) = 0
    BY <2>1 DEF FromRatio
  <2>3. QED
    BY <1>2, <2>2 DEF RewardIndex
<1>3. QED
  BY <1>1, <1>2

\* A claim before any staking spreads nothing.
LEMMA UnstakedSpread ==
  ASSUME AuctionInv, ~Staked, NEW u, NEW withdraw \in BOOLEAN, NEW accrued \in Accruals,
         NEW liquidity, ClaimRewards(u, withdraw, accrued, liquidity)
  PROVE  /\ WithRewards(state, accrued).global_mars_reward_index
              = state.global_mars_reward_index
         /\ WithRewards(state, accrued).global_astro_reward_index
              = state.global_astro_reward_index
<1>1. accrued.mars \in Nat /\ accrued.astro \in Nat
  BY AuctionAssumption DEF Accruals
<1>2. accrued.mars + accrued.astro = 0
  BY DEF ClaimRewards, CanClaimRewards, CanUnstake, MayAccrue
<1>3. accrued.mars = 0 /\ accrued.astro = 0
  BY <1>1, <1>2
<1>4. /\ state \in StateRecords /\ StakedShares \in Nat
      /\ state.global_mars_reward_index \in Nat /\ state.global_astro_reward_index \in Nat
  BY BaseParts, StakedSharesType, StateTypes DEF TypeOK
<1>5. /\ RewardIndex(state.global_mars_reward_index, accrued.mars)
           = state.global_mars_reward_index
      /\ RewardIndex(state.global_astro_reward_index, accrued.astro)
           = state.global_astro_reward_index
  BY <1>3, <1>4, NothingToSpread
<1>6. QED
  BY <1>4, <1>5 DEF WithRewards, StateRecords

\* Nothing of the staking changes.
StakingKept ==
  /\ state'.are_staked_for_single_incentives = state.are_staked_for_single_incentives
  /\ state'.are_staked_for_dual_incentives = state.are_staked_for_dual_incentives
  /\ state'.global_mars_reward_index = state.global_mars_reward_index
  /\ state'.global_astro_reward_index = state.global_astro_reward_index

LEMMA QueryNext == QueryInv /\ [Next]_vars => QueryInv'
<1> SUFFICES ASSUME AuctionInv, NoRewardsYet, [Next]_vars PROVE NoRewardsYet'
  BY AuctionNext DEF QueryInv
<1>1. state \in StateRecords
  BY BaseParts DEF TypeOK
<1>2. ASSUME StakingKept PROVE NoRewardsYet'
  BY <1>2 DEF StakingKept, NoRewardsYet, Staked
<1>3. ASSUME state' = state PROVE StakingKept
  BY <1>3 DEF StakingKept
<1>4. CASE \/ Tick \/ UNCHANGED vars \/ OwnerConfigures
           \/ \E amount \in IncentiveAmounts : IncreaseMarsIncentives(amount)
  <2>1. CASE Tick \/ UNCHANGED vars
    BY <1>2, <1>3, <2>1 DEF Tick, vars
  <2>2. CASE OwnerConfigures
    BY <1>2, <1>3, <2>2 DEF OwnerConfigures, UpdateConfig
  <2>3. ASSUME NEW amount, IncreaseMarsIncentives(amount) PROVE NoRewardsYet'
    BY <1>2, <1>3, <2>3 DEF IncreaseMarsIncentives
  <2>4. QED
    BY <1>4, <2>1, <2>2, <2>3
<1>5. CASE OwnerCreatesPool
  <2>1. PICK sender, minted : InitPool(sender, minted)
    BY <1>5 DEF OwnerCreatesPool
  <2>2. StakingKept
    BY <1>1, <2>1 DEF InitPool, StakingKept, StateRecords
  <2>3. QED
    BY <1>2, <2>2
<1>6. CASE UserDelegates \/ UserDeposits
  <2>1. PICK u, amount :
          \/ DepositMarsTokens(u, amount)
          \/ DepositUst(u, amount)
          \/ WithdrawUst(u, amount)
    BY <1>6 DEF UserDelegates, UserDeposits
  <2>2. \/ state' = [state EXCEPT !.total_mars_deposited = @ + amount]
        \/ state' = [state EXCEPT !.total_ust_deposited = @ + amount]
        \/ state' = [state EXCEPT !.total_ust_deposited = @ - amount]
    BY <2>1 DEF DepositMarsTokens, DepositUst, WithdrawUst
  <2>3. StakingKept
    BY <1>1, <2>2 DEF StakingKept, StateRecords
  <2>4. QED
    BY <1>2, <2>3
<1>7. CASE OwnerStakes
  <2>1. PICK sender \in Owners, single \in BOOLEAN, accrued \in Accruals :
          StakeLpTokens(sender, single, accrued)
    BY <1>7 DEF OwnerStakes
  <2>2. \/ state' = WithRewards(StateAfterStaking(single), accrued)
        \/ state' = StateAfterStaking(single)
    BY <2>1 DEF StakeLpTokens
  <2>3. /\ state'.are_staked_for_single_incentives = single
        /\ state'.are_staked_for_dual_incentives = ~single
    BY <1>1, <2>2 DEF WithRewards, StateAfterStaking, StateRecords
  <2>4. Staked'
    BY <2>3 DEF Staked
  <2>5. QED
    BY <2>4 DEF NoRewardsYet
<1>8. CASE UserClaims
  <2>1. PICK u \in Users, withdraw \in BOOLEAN, accrued \in Accruals,
             liquidity \in LiquidityChoices :
          ClaimRewards(u, withdraw, accrued, liquidity)
    BY <1>8 DEF UserClaims, Claims
  <2> DEFINE spread == WithRewards(state, accrued)
             n == SharesToWithdraw(Provisioned(users[u]), withdraw)
  <2>2. state' = [spread EXCEPT !.lp_shares_withdrawn = @ + n]
    BY <2>1 DEF ClaimRewards
  <2>3. /\ spread.are_staked_for_single_incentives = state.are_staked_for_single_incentives
        /\ spread.are_staked_for_dual_incentives = state.are_staked_for_dual_incentives
        /\ DOMAIN spread = DOMAIN state
    BY <1>1 DEF WithRewards, StateRecords
  <2>4. ~Staked => /\ spread.global_mars_reward_index = state.global_mars_reward_index
                   /\ spread.global_astro_reward_index = state.global_astro_reward_index
    BY <2>1, UnstakedSpread
  <2> HIDE DEF spread, n
  <2>5. /\ state'.are_staked_for_single_incentives = state.are_staked_for_single_incentives
        /\ state'.are_staked_for_dual_incentives = state.are_staked_for_dual_incentives
        /\ state'.global_mars_reward_index = spread.global_mars_reward_index
        /\ state'.global_astro_reward_index = spread.global_astro_reward_index
    BY <1>1, <2>2, <2>3 DEF StateRecords
  <2>6. CASE ~Staked
    <3>1. StakingKept
      BY <2>4, <2>5, <2>6 DEF StakingKept
    <3>2. QED
      BY <1>2, <3>1
  <2>7. CASE Staked
    <3>1. Staked'
      BY <2>5, <2>7 DEF Staked
    <3>2. QED
      BY <3>1 DEF NoRewardsYet
  <2>8. QED
    BY <2>6, <2>7
<1>9. QED
  BY <1>4, <1>5, <1>6, <1>7, <1>8 DEF Next

LEMMA QueryInit == Init => QueryInv
<1>1. Init => NoRewardsYet
  BY DEF Init, NoState, NoRewardsYet
<1>2. QED
  BY <1>1, AuctionInit DEF QueryInv

\* What a claim pays, and what the query says before it.
ClaimMatches(u, withdraw, accrued) ==
  LET q == QueryUserInfo(u, accrued) IN
  /\ Paid(u, "withdrawn_auction_incentives") = q.withdrawable_auction_incentives
  /\ Paid(u, "withdrawn_mars_incentives") = q.withdrawable_mars_incentives
  /\ withdraw => Paid(u, "withdrawn_lp_shares") = q.withdrawable_lp_shares
  /\ state.are_staked_for_dual_incentives =>
       Paid(u, "withdrawn_astro_incentives") = q.withdrawable_astro_incentives

LEMMA QueryTold ==
  ASSUME QueryInv, NEW u \in Users, NEW withdraw \in BOOLEAN, NEW accrued \in Accruals,
         NEW liquidity \in LiquidityChoices, ClaimRewards(u, withdraw, accrued, liquidity)
  PROVE  ClaimMatches(u, withdraw, accrued)
<1> DEFINE p      == Provisioned(users[u])
           spread == WithRewards(state, accrued)
           n      == SharesToWithdraw(p, withdraw)
           inc    == WithdrawableIncentives(p)
           m      == MarsStakingReward(p, spread)
           a      == AstroStakingReward(p, spread)
           left   == WithdrawableLpShares(p)
           new    == Settled(p, spread, n)
           q      == QueryUserInfo(u, accrued)
<1>1. AuctionInv /\ NoRewardsYet
  BY DEF QueryInv
<1>2. users' = [users EXCEPT ![u] = new]
  BY DEF ClaimRewards
<1>3. users \in [Users -> UserRecords] /\ users[u] \in UserRecords
  BY <1>1, BaseParts DEF TypeOK
<1>4. users'[u] = new
  <2> HIDE DEF new
  <2>1. QED
    BY <1>2, <1>3
<1>5. /\ p.withdrawn_auction_incentives = users[u].withdrawn_auction_incentives
      /\ p.withdrawn_mars_incentives = users[u].withdrawn_mars_incentives
      /\ p.withdrawn_astro_incentives = users[u].withdrawn_astro_incentives
      /\ p.withdrawn_lp_shares = users[u].withdrawn_lp_shares
      /\ p.mars_reward_index = users[u].mars_reward_index
      /\ p.astro_reward_index = users[u].astro_reward_index
      /\ DOMAIN p = DOMAIN users[u]
  BY <1>1, <1>3, BaseParts, ProvisionedFields DEF Provisioned
<1>6. /\ users[u].withdrawn_auction_incentives \in Nat
      /\ users[u].withdrawn_mars_incentives \in Nat
      /\ users[u].withdrawn_astro_incentives \in Nat
      /\ users[u].withdrawn_lp_shares \in Nat
  BY <1>1, BaseParts, UserTypes
<1>7. inc \in Int /\ left \in Nat
  <2>1. inc = Vested(u) /\ left = Left[u]
    BY DEF Vested, Left
  <2>2. QED
    BY <1>1, <2>1, BaseParts, SharesAddUp, IncentivesWithin
<1>8. /\ spread.global_mars_reward_index \in Nat /\ spread.global_astro_reward_index \in Nat
      /\ state.global_mars_reward_index \in Nat
  <2>1. /\ state \in StateRecords /\ StakedShares \in Nat
        /\ state.global_mars_reward_index \in Nat /\ state.global_astro_reward_index \in Nat
    BY <1>1, BaseParts, StakedSharesType, StateTypes DEF TypeOK
  <2>2. accrued.mars \in Nat /\ accrued.astro \in Nat
    BY AuctionAssumption DEF Accruals
  <2>3. PICK dm \in Nat : RewardIndex(state.global_mars_reward_index, accrued.mars)
                            = state.global_mars_reward_index + dm
    BY <2>1, <2>2, IndexGrows
  <2>4. PICK da \in Nat : RewardIndex(state.global_astro_reward_index, accrued.astro)
                            = state.global_astro_reward_index + da
    BY <2>1, <2>2, IndexGrows
  <2>5. QED
    BY <2>1, <2>3, <2>4 DEF WithRewards, StateRecords
<1>9. /\ users[u].mars_reward_index \in Nat /\ users[u].astro_reward_index \in Nat
      /\ users[u].mars_reward_index <= state.global_mars_reward_index
  BY <1>1, BaseParts, UserTypes DEF RecordsBounded
<1>10. /\ m = MulFloor(left, spread.global_mars_reward_index)
                - MulFloor(left, users[u].mars_reward_index)
       /\ a = MulFloor(left, spread.global_astro_reward_index)
                - MulFloor(left, users[u].astro_reward_index)
  <2> HIDE DEF p, spread
  <2>1. QED
    BY <1>5 DEF MarsStakingReward, AstroStakingReward, AccruedReward
<1>11. ~Staked => spread.global_mars_reward_index = 0 /\ users[u].mars_reward_index = 0
  <2>1. ~Staked => spread.global_mars_reward_index = state.global_mars_reward_index
    BY <1>1, UnstakedSpread
  <2> HIDE DEF spread
  <2>2. QED
    BY <1>1, <1>8, <1>9, <2>1 DEF NoRewardsYet
<1>12. q = [withdrawable_lp_shares |-> left,
            withdrawable_auction_incentives |-> inc,
            withdrawable_mars_incentives |-> IF Staked THEN m ELSE 0,
            withdrawable_astro_incentives |->
              IF state.are_staked_for_dual_incentives THEN a ELSE 0]
  BY DEF QueryUserInfo
<1>13. /\ new.withdrawn_auction_incentives = users[u].withdrawn_auction_incentives + inc
       /\ new.withdrawn_mars_incentives = users[u].withdrawn_mars_incentives + m
       /\ new.withdrawn_astro_incentives = users[u].withdrawn_astro_incentives + a
       /\ new.withdrawn_lp_shares = users[u].withdrawn_lp_shares + n
  <2> HIDE DEF p, spread, n
  <2>1. new = [p EXCEPT !.withdrawn_auction_incentives =
                           users[u].withdrawn_auction_incentives + inc,
                        !.withdrawn_mars_incentives = users[u].withdrawn_mars_incentives + m,
                        !.mars_reward_index = spread.global_mars_reward_index,
                        !.withdrawn_astro_incentives =
                           users[u].withdrawn_astro_incentives + a,
                        !.astro_reward_index = spread.global_astro_reward_index,
                        !.withdrawn_lp_shares = users[u].withdrawn_lp_shares + n]
    BY <1>5 DEF Settled
  <2> HIDE DEF new, inc, m, a
  <2>2. QED
    BY <1>3, <1>5, <2>1 DEF UserRecords
<1>14. withdraw => n = left
  BY DEF SharesToWithdraw
<1> HIDE DEF p, spread, n, inc, m, a, left, new, q
<1>15. m \in Int /\ a \in Int
  <2>1. ASSUME NEW from \in Nat, NEW to \in Nat
        PROVE  MulFloor(left, to) - MulFloor(left, from) \in Int
    <3>1. MulFloor(left, to) \in Nat /\ MulFloor(left, from) \in Nat
      BY <1>7, MulFloorBound
    <3>2. QED
      BY <3>1
  <2>2. QED
    BY <1>8, <1>9, <1>10, <2>1
<1>16. ~Staked => m = 0
  BY <1>7, <1>10, <1>11, MulFloorZero
<1>17. /\ Paid(u, "withdrawn_auction_incentives") = inc
       /\ Paid(u, "withdrawn_mars_incentives") = m
       /\ Paid(u, "withdrawn_astro_incentives") = a
       /\ withdraw => Paid(u, "withdrawn_lp_shares") = left
  BY <1>4, <1>6, <1>7, <1>13, <1>14, <1>15 DEF Paid
<1>18. QED
  BY <1>12, <1>16, <1>17 DEF ClaimMatches, q

(* A claim pays what the query announced just before it: the callback, which works
   from the balances before and after, finds the rewards the query asked for, for
   any rewards, taxes and roundings. *)
THEOREM QueriesAreHonest == Spec => QueryMatchesClaim
<1> DEFINE Told ==
      \A u \in {v \in Users : users'[v] # users[v]}, withdraw \in BOOLEAN,
         accrued \in Accruals, liquidity \in LiquidityChoices :
        LET q == QueryUserInfo(u, accrued) IN
        ClaimRewards(u, withdraw, accrued, liquidity) =>
          /\ Paid(u, "withdrawn_auction_incentives") = q.withdrawable_auction_incentives
          /\ Paid(u, "withdrawn_mars_incentives") = q.withdrawable_mars_incentives
          /\ withdraw => Paid(u, "withdrawn_lp_shares") = q.withdrawable_lp_shares
          /\ state.are_staked_for_dual_incentives =>
               Paid(u, "withdrawn_astro_incentives") = q.withdrawable_astro_incentives
<1>1. QueryInv => Told
  BY QueryTold DEF ClaimMatches
<1>2. QED
  BY <1>1, QueryInit, QueryNext, PTL DEF Spec, QueryMatchesClaim

-------------------------------------------------------------------------------
(* Payments *)

\* What users have been paid in MARS never shrinks, and stays before the pool is there.
UserPaymentsGrow ==
  \A u \in Users :
    /\ users[u].withdrawn_auction_incentives <= users'[u].withdrawn_auction_incentives
    /\ users[u].withdrawn_mars_incentives <= users'[u].withdrawn_mars_incentives
    /\ ~PoolCreated =>
         /\ users'[u].withdrawn_auction_incentives = users[u].withdrawn_auction_incentives
         /\ users'[u].withdrawn_mars_incentives = users[u].withdrawn_mars_incentives

\* What has vested is at least what was paid of it.
LEMMA VestedType ==
  ASSUME VestedInv, NEW u \in Users
  PROVE  Vested(u) \in Nat /\ (~PoolCreated => Vested(u) = 0)
<1> DEFINE old == users[u].withdrawn_auction_incentives
           total == Incentives[u]
           most == MulFloor(total, FromRatio(Elapsed, MarsVestingDuration))
<1> USE DEF VestedInv
<1>1. /\ old + Vested(u) <= total /\ (~PoolCreated => Vested(u) = 0)
      /\ old \in Nat /\ total \in Nat /\ Vested(u) \in Int
  BY IncentivesWithin, BaseParts, SharesAddUp, UserTypes
<1>2. /\ Provisioned(users[u]).total_auction_incentives = total
      /\ Provisioned(users[u]).withdrawn_auction_incentives = old
  BY BaseParts, ProvisionedFields DEF Incentives
<1>3. old <= total
  BY BaseParts, SharesAddUp
<1>4. CASE old = total \/ state.pool_init_timestamp = 0
  <2>1. Vested(u) = 0
    BY <1>2, <1>4 DEF Vested, WithdrawableIncentives
  <2>2. QED
    BY <1>1, <2>1
<1>5. CASE old # total /\ state.pool_init_timestamp # 0 /\ Elapsed >= MarsVestingDuration
  <2>1. Vested(u) = total - old
    BY <1>2, <1>5 DEF Vested, WithdrawableIncentives
  <2>2. QED
    BY <1>1, <1>3, <2>1
<1>6. CASE old # total /\ state.pool_init_timestamp # 0 /\ ~(Elapsed >= MarsVestingDuration)
  <2>1. PoolCreated
    BY <1>6, BaseParts DEF WindowsKept
  <2>2. Elapsed \in Nat /\ MarsVestingDuration \in Nat \ {0}
    BY <2>1, BaseParts, StateTypes, AuctionAssumption DEF WindowsKept, Elapsed
  <2>3. most \in Nat
    BY <1>1, <2>2, FromRatioBound, MulFloorBound
  <2>4. old <= most
    <3>1. CASE users[u].total_auction_incentives = 0
      <4>1. old <= 0
        BY <3>1 DEF PaidWithinVested
      <4>2. QED
        BY <1>1, <2>3, <4>1
    <3>2. CASE users[u].total_auction_incentives # 0
      <4>1. users[u].total_auction_incentives = total
        BY <3>2, BaseParts, ProvisionedFields DEF Incentives
      <4>2. Elapsed < MarsVestingDuration
        BY <1>6, <2>2
      <4>3. QED
        BY <2>1, <4>1, <4>2 DEF PaidWithinVested
    <3>3. QED
      BY <3>1, <3>2
  <2>5. Vested(u) = most - old
    BY <1>2, <1>6 DEF Vested, WithdrawableIncentives
  <2>6. QED
    BY <1>1, <2>1, <2>3, <2>4, <2>5
<1>7. QED
  BY <1>4, <1>5, <1>6

LEMMA ClaimPayments ==
  ASSUME VestedInv, NEW u \in Users, NEW withdraw \in BOOLEAN, NEW accrued \in Accruals,
         NEW liquidity \in LiquidityChoices, ClaimRewards(u, withdraw, accrued, liquidity)
  PROVE  UserPaymentsGrow
<1> USE DEF VestedInv
<1>1. PICK dm \in Nat, n \in {0, Left[u]}, m \in Nat :
        /\ m = MulFloor(Left[u], state.global_mars_reward_index + dm)
                 - MulFloor(Left[u], users[u].mars_reward_index)
        /\ ClaimsRecord(u, Vested(u), n)
        /\ users'[u].withdrawn_mars_incentives = users[u].withdrawn_mars_incentives + m
  BY ClaimEffect
<1>2. Vested(u) \in Nat /\ (~PoolCreated => Vested(u) = 0)
  BY VestedType
<1>3. /\ users[u].withdrawn_auction_incentives \in Nat
      /\ users[u].withdrawn_mars_incentives \in Nat
      /\ users[u].mars_reward_index \in Nat
      /\ state.global_mars_reward_index + dm \in Nat
  BY BaseParts, UserTypes, StateTypes
<1>4. ASSUME ~PoolCreated PROVE m = 0
  <2>1. Left[u] = 0
    BY <1>4, BaseParts, SharesAddUp
  <2>2. /\ MulFloor(0, state.global_mars_reward_index + dm) = 0
        /\ MulFloor(0, users[u].mars_reward_index) = 0
    BY <1>3, MulFloorZero
  <2>3. QED
    BY <1>1, <2>1, <2>2
<1>5. ASSUME NEW v \in Users, v # u PROVE users'[v] = users[v]
  BY <1>1, <1>5 DEF ClaimsRecord
<1>6. ASSUME NEW v \in Users
      PROVE  /\ users[v].withdrawn_auction_incentives \in Nat
             /\ users[v].withdrawn_mars_incentives \in Nat
  BY BaseParts, UserTypes
<1>7. /\ users'[u].withdrawn_auction_incentives
           = users[u].withdrawn_auction_incentives + Vested(u)
      /\ users'[u].withdrawn_mars_incentives = users[u].withdrawn_mars_incentives + m
  BY <1>1 DEF ClaimsRecord
<1>8. QED
  BY <1>2, <1>4, <1>5, <1>6, <1>7 DEF UserPaymentsGrow

LEMMA UserPaymentsNext == VestedInv /\ [Next]_vars => UserPaymentsGrow
<1> SUFFICES ASSUME VestedInv, [Next]_vars PROVE UserPaymentsGrow
  OBVIOUS
<1>1. ASSUME NEW u \in Users
      PROVE  /\ users[u].withdrawn_auction_incentives \in Nat
             /\ users[u].withdrawn_mars_incentives \in Nat
  BY BaseParts, UserTypes DEF VestedInv
<1>2. users \in [Users -> UserRecords]
  BY BaseParts DEF VestedInv, TypeOK
<1>3. CASE users' = users
  BY <1>1, <1>3 DEF UserPaymentsGrow
<1>4. CASE \/ Tick \/ UNCHANGED vars \/ OwnerConfigures \/ OwnerCreatesPool \/ OwnerStakes
           \/ \E amount \in IncentiveAmounts : IncreaseMarsIncentives(amount)
  <2>1. users' = users
    BY <1>4 DEF Tick, vars, IncreaseMarsIncentives, OwnerConfigures, UpdateConfig,
         OwnerCreatesPool, InitPool, OwnerStakes, StakeLpTokens
  <2>2. QED
    BY <1>3, <2>1
<1>5. CASE UserDelegates \/ UserDeposits
  <2>1. PICK u \in Users, amount \in Nat :
          \/ DepositMarsTokens(u, amount)
          \/ DepositUst(u, amount)
          \/ WithdrawUst(u, amount)
    <3>1. 1 .. MaxMars \subseteq Nat /\ 1 .. MaxUst \subseteq Nat
      BY AuctionAssumption
    <3>2. QED
      BY <1>5, <3>1 DEF UserDelegates, UserDeposits
  <2>2. ASSUME NEW v \in Users
        PROVE  /\ users'[v].withdrawn_auction_incentives
                    = users[v].withdrawn_auction_incentives
               /\ users'[v].withdrawn_mars_incentives = users[v].withdrawn_mars_incentives
    <3>1. CASE DepositMarsTokens(u, amount)
      BY <1>2, <3>1 DEF DepositMarsTokens, UserRecords
    <3>2. CASE DepositUst(u, amount)
      BY <1>2, <3>2 DEF DepositUst, UserRecords
    <3>3. CASE WithdrawUst(u, amount)
      BY <1>2, <3>3 DEF WithdrawUst, UserRecords
    <3>4. QED
      BY <2>1, <3>1, <3>2, <3>3
  <2>3. QED
    BY <1>1, <2>2 DEF UserPaymentsGrow
<1>6. CASE UserClaims
  <2>1. PICK u \in Users, withdraw \in BOOLEAN, accrued \in Accruals,
             liquidity \in LiquidityChoices :
          ClaimRewards(u, withdraw, accrued, liquidity)
    BY <1>6 DEF UserClaims, Claims
  <2>2. QED
    BY <2>1, ClaimPayments
<1>7. QED
  BY <1>4, <1>5, <1>6 DEF Next

PaidIncentives == Field("withdrawn_auction_incentives")

PaidRewards == Field("withdrawn_mars_incentives")

MarsPaidOut == Total(PaidIncentives) + Total(PaidRewards)

\* So neither do the totals, and they stay where each of them does.
PaymentsGrow ==
  /\ MarsPaidOut \in Nat /\ MarsPaidOut' \in Nat
  /\ MarsPaidOut <= MarsPaidOut'
  /\ ~PoolCreated => MarsPaidOut' = MarsPaidOut

LEMMA PaidTypes ==
  VestedInv => /\ PaidIncentives \in [Users -> Nat] /\ PaidRewards \in [Users -> Nat]
               /\ Total(PaidIncentives) \in Nat /\ Total(PaidRewards) \in Nat
<1> SUFFICES ASSUME VestedInv
             PROVE  /\ PaidIncentives \in [Users -> Nat] /\ PaidRewards \in [Users -> Nat]
                    /\ Total(PaidIncentives) \in Nat /\ Total(PaidRewards) \in Nat
  OBVIOUS
<1>1. PaidIncentives \in [Users -> Nat] /\ PaidRewards \in [Users -> Nat]
  BY BaseParts, UserTypes DEF VestedInv, PaidIncentives, PaidRewards, Field
<1> QED BY <1>1, TotalType, AuctionAssumption

LEMMA PaymentsNext == VestedInv /\ [Next]_vars => PaymentsGrow
<1> SUFFICES ASSUME VestedInv, [Next]_vars PROVE PaymentsGrow
  OBVIOUS
<1>1. UserPaymentsGrow /\ IsFiniteSet(Users)
  BY UserPaymentsNext, AuctionAssumption
<1>2. VestedInv'
  BY VestedNext
<1>3. /\ PaidIncentives \in [Users -> Nat] /\ PaidRewards \in [Users -> Nat]
      /\ Total(PaidIncentives) \in Nat /\ Total(PaidRewards) \in Nat
  BY PaidTypes
<1>4. (/\ PaidIncentives \in [Users -> Nat] /\ PaidRewards \in [Users -> Nat]
       /\ Total(PaidIncentives) \in Nat /\ Total(PaidRewards) \in Nat)'
  BY <1>2, PaidTypes, PTL
<1>5. \A u \in Users :
        /\ PaidIncentives[u] = users[u].withdrawn_auction_incentives
        /\ PaidIncentives'[u] = users'[u].withdrawn_auction_incentives
        /\ PaidRewards[u] = users[u].withdrawn_mars_incentives
        /\ PaidRewards'[u] = users'[u].withdrawn_mars_incentives
  BY DEF PaidIncentives, PaidRewards, Field
<1>6. Total(PaidIncentives) <= Total(PaidIncentives)'
  <2>1. \A u \in Users : PaidIncentives[u] <= PaidIncentives'[u]
    BY <1>1, <1>5 DEF UserPaymentsGrow
  <2> QED BY <1>1, <1>3, <1>4, <2>1, TotalMono
<1>7. Total(PaidRewards) <= Total(PaidRewards)'
  <2>1. \A u \in Users : PaidRewards[u] <= PaidRewards'[u]
    BY <1>1, <1>5 DEF UserPaymentsGrow
  <2> QED BY <1>1, <1>3, <1>4, <2>1, TotalMono
<1>8. ASSUME ~PoolCreated
      PROVE  PaidIncentives' = PaidIncentives /\ PaidRewards' = PaidRewards
  BY <1>1, <1>3, <1>4, <1>5, <1>8 DEF UserPaymentsGrow
<1>9. ~PoolCreated => MarsPaidOut' = MarsPaidOut
  BY <1>8 DEF MarsPaidOut
<1> QED BY <1>3, <1>4, <1>6, <1>7, <1>9 DEF PaymentsGrow, MarsPaidOut

LEMMA NothingPaidAtFirst == Init => MarsPaidOut = 0
<1> SUFFICES ASSUME Init PROVE MarsPaidOut = 0
  OBVIOUS
<1>1. /\ PaidIncentives \in [Users -> Nat] /\ \A u \in Users : PaidIncentives[u] = 0
      /\ PaidRewards \in [Users -> Nat] /\ \A u \in Users : PaidRewards[u] = 0
  BY DEF Init, NoUser, PaidIncentives, PaidRewards, Field
<1>2. Total(PaidIncentives) = 0 /\ Total(PaidRewards) = 0
  BY <1>1, TotalZero
<1> QED BY <1>2 DEF MarsPaidOut

LEMMA NoPoolYet == VestedInv /\ now <= MarsDelegationsEnd => ~PoolCreated
<1> SUFFICES ASSUME VestedInv, now <= MarsDelegationsEnd PROVE ~PoolCreated
  OBVIOUS
<1>1. WindowsKept /\ now \in Nat
  BY BaseParts DEF VestedInv, TypeOK
<1> QED BY <1>1, AuctionAssumption DEF WindowsKept, WindowsEnd, MarsDelegationsEnd,
             UstDepositsEnd

\* Nobody has more MARS on record than all together.
LEMMA NoneAboveTotal ==
  VestedInv => \A u \in Users : users[u].mars_deposited <= state.total_mars_deposited
<1> SUFFICES ASSUME VestedInv, NEW u \in Users
             PROVE  users[u].mars_deposited <= state.total_mars_deposited
  OBVIOUS
<1>1. DepositsCovered /\ TypeOK /\ IsFiniteSet(Users)
  BY BaseParts, AuctionAssumption DEF VestedInv
<1> DEFINE deposits == Field("mars_deposited")
<1>2. deposits \in [Users -> Nat] /\ deposits[u] = users[u].mars_deposited
  BY <1>1, UserTypes DEF Field
<1>3. Total(deposits) = state.total_mars_deposited
  BY <1>1 DEF DepositsCovered
<1> HIDE DEF deposits
<1>4. deposits[u] <= Total(deposits)
  <2>1. deposits[u] \in Nat
    BY <1>2
  <2> QED BY <1>1, <1>2, <2>1, TotalUpdate
<1> QED BY <1>2, <1>3, <1>4
===============================================================================
