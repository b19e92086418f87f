-------------------------- MODULE FixedPointTheorems --------------------------
(* What rounding down twice guarantees, for every Scale. *)
EXTENDS FixedPoint, TLAPS

(* Integer division rounds down. *)
LEMMA DivBound ==
  ASSUME NEW n \in Nat, NEW d \in Nat \ {0}
  PROVE  /\ n \div d \in Nat
         /\ (n \div d) * d <= n
         /\ n < (n \div d) * d + d
OBVIOUS

LEMMA ProductNat ==
  ASSUME NEW a \in Nat, NEW b \in Nat
  PROVE  a * b \in Nat
OBVIOUS

LEMMA ProductMono ==
  ASSUME NEW a \in Nat, NEW b \in Nat, NEW c \in Nat, a <= b
  PROVE  a * c <= b * c /\ c * a <= c * b
OBVIOUS

LEMMA ProductCancel ==
  ASSUME NEW a \in Nat, NEW b \in Nat, NEW c \in Nat \ {0}, a * c <= b * c
  PROVE  a <= b
OBVIOUS

(* A ratio is a decimal that does not exceed the exact quotient. *)
LEMMA FromRatioBound ==
  ASSUME NEW n \in Nat, NEW d \in Nat \ {0}
  PROVE  /\ FromRatio(n, d) \in Nat
         /\ FromRatio(n, d) * d <= n * Scale
<1>1. n * Scale \in Nat
  BY ScaleAssumption, ProductNat
<1>2. QED
  BY <1>1, DivBound DEF FromRatio

(* An amount times a decimal does not exceed the exact product. *)
LEMMA MulFloorBound ==
  ASSUME NEW a \in Nat, NEW r \in Nat
  PROVE  /\ MulFloor(a, r) \in Nat
         /\ MulFloor(a, r) * Scale <= a * r
<1>1. a * r \in Nat
  BY ProductNat
<1>2. QED
  BY <1>1, ScaleAssumption, DivBound DEF MulFloor

(* Nothing of an amount, and any part of nothing. *)
LEMMA MulFloorZero ==
  ASSUME NEW a \in Nat
  PROVE  MulFloor(a, 0) = 0 /\ MulFloor(0, a) = 0
<1>1. a * 0 = 0 /\ 0 * a = 0
  OBVIOUS
<1>2. 0 \div Scale = 0
  BY ScaleAssumption
<1>3. QED
  BY <1>1, <1>2 DEF MulFloor

(* The product grows with the decimal, so the difference between two readings
   of a growing index is never negative. *)
LEMMA MulFloorMono ==
  ASSUME NEW a \in Nat, NEW r \in Nat, NEW s \in Nat, r <= s
  PROVE  MulFloor(a, r) <= MulFloor(a, s)
<1>1. a * r \in Nat /\ a * s \in Nat /\ a * r <= a * s
  BY ProductNat, ProductMono
<1> DEFINE x == a * r  y == a * s  p == MulFloor(a, r)  q == MulFloor(a, s)
<1>2. /\ p \in Nat /\ p * Scale <= x
      /\ q \in Nat /\ y < q * Scale + Scale
  BY <1>1, ScaleAssumption, DivBound DEF MulFloor
<1>3. x \in Nat /\ y \in Nat /\ x <= y
  BY <1>1
<1> HIDE DEF x, y, p, q
<1>4. p * Scale < (q + 1) * Scale
  <2>1. p * Scale \in Nat /\ q * Scale \in Nat
    BY <1>2, ScaleAssumption, ProductNat
  <2>2. (q + 1) * Scale = q * Scale + Scale
    BY <1>2, ScaleAssumption
  <2>3. QED
    BY <1>2, <1>3, <2>1, <2>2, ScaleAssumption
<1>5. p < q + 1
  <2>1. SUFFICES ASSUME q + 1 <= p PROVE FALSE
    BY <1>2
  <2>2. (q + 1) * Scale <= p * Scale
    BY <2>1, <1>2, ScaleAssumption, ProductMono
  <2>3. p * Scale \in Nat /\ (q + 1) * Scale \in Nat
    BY <1>2, ScaleAssumption, ProductNat
  <2>4. QED
    BY <1>4, <2>2, <2>3
<1>6. QED
  BY <1>2, <1>5 DEF p, q

(* A share computed by a ratio and a product never exceeds the exact share:
   the two roundings both go down. *)
LEMMA ShareBound ==
  ASSUME NEW total \in Nat, NEW part \in Nat, NEW whole \in Nat \ {0}
  PROVE  /\ MulFloor(total, FromRatio(part, whole)) \in Nat
         /\ MulFloor(total, FromRatio(part, whole)) * whole <= part * total
<1> DEFINE r == FromRatio(part, whole)
           m == MulFloor(total, r)
<1>1. r \in Nat /\ r * whole <= part * Scale
  BY FromRatioBound
<1>2. m \in Nat /\ m * Scale <= total * r
  BY <1>1, MulFloorBound
<1> HIDE DEF r, m
<1>3. /\ m * Scale \in Nat /\ total * r \in Nat
      /\ r * whole \in Nat /\ part * Scale \in Nat
  BY <1>1, <1>2, ScaleAssumption, ProductNat
<1>4. (m * Scale) * whole <= (total * r) * whole
  BY <1>2, <1>3, ProductMono
<1>5. total * (r * whole) <= total * (part * Scale)
  BY <1>1, <1>3, ProductMono
<1>6. (total * r) * whole = total * (r * whole)
  BY <1>1
<1>7. (m * Scale) * whole = (m * whole) * Scale
  BY <1>2, ScaleAssumption
<1>8. total * (part * Scale) = (part * total) * Scale
  BY ScaleAssumption
<1>9. (m * whole) * Scale <= (part * total) * Scale
  <2>1. /\ (m * Scale) * whole \in Nat /\ (total * r) * whole \in Nat
        /\ total * (part * Scale) \in Nat
    BY <1>3, ProductNat
  <2>2. QED
    BY <1>4, <1>5, <1>6, <1>7, <1>8, <2>1
<1>10. m * whole \in Nat /\ part * total \in Nat
  BY <1>2, ProductNat
<1>11. m * whole <= part * total
  BY <1>9, <1>10, ScaleAssumption, ProductCancel
<1>12. QED
  BY <1>2, <1>11 DEF m, r

(* A decimal of at most one half takes at most half of an amount. *)
LEMMA HalfBound ==
  ASSUME NEW a \in Nat, NEW r \in Nat, 2 * r <= Scale
  PROVE  2 * MulFloor(a, r) <= a
<1> DEFINE m == MulFloor(a, r)
<1>1. m \in Nat /\ m * Scale <= a * r
  BY MulFloorBound
<1> HIDE DEF m
<1>2. a * (2 * r) <= a * Scale
  BY ScaleAssumption, ProductMono
<1>3. (2 * m) * Scale <= a * Scale
  <2>1. (2 * m) * Scale = 2 * (m * Scale) /\ a * (2 * r) = 2 * (a * r)
    BY <1>1, ScaleAssumption
  <2>2. m * Scale \in Nat /\ a * r \in Nat /\ a * Scale \in Nat
    BY <1>1, ScaleAssumption, ProductNat
  <2>3. QED
    BY <1>1, <1>2, <2>1, <2>2
<1>4. 2 * m <= a
  BY <1>1, <1>3, ScaleAssumption, ProductCancel
<1>5. QED
  BY <1>4 DEF m

(* A decimal of at most one takes no more than the amount. *)
LEMMA WholeBound ==
  ASSUME NEW a \in Nat, NEW r \in Nat, r <= Scale
  PROVE  MulFloor(a, r) <= a
<1> DEFINE m == MulFloor(a, r)
<1>1. m \in Nat /\ m * Scale <= a * r
  BY MulFloorBound
<1> HIDE DEF m
<1>2. a * r <= a * Scale
  BY ScaleAssumption, ProductMono
<1>3. m * Scale <= a * Scale
  <2>1. m * Scale \in Nat /\ a * r \in Nat /\ a * Scale \in Nat
    BY <1>1, ScaleAssumption, ProductNat
  <2>2. QED
    BY <1>1, <1>2, <2>1
<1>4. QED
  BY <1>1, <1>3, ScaleAssumption, ProductCancel DEF m

\* No larger number fits into a quotient.
LEMMA LargestQuotient ==
  ASSUME NEW k \in Nat, NEW n \in Nat, NEW d \in Nat \ {0}, k * d <= n
  PROVE  k <= n \div d
<1> DEFINE q == n \div d
<1>1. q \in Nat /\ n < q * d + d
  BY DivBound
<1> HIDE DEF q
<1>2. SUFFICES ASSUME q + 1 <= k PROVE FALSE
  BY <1>1 DEF q
<1>3. (q + 1) * d <= k * d
  BY <1>1, <1>2, ProductMono
<1>4. (q + 1) * d = q * d + d /\ q * d \in Nat /\ k * d \in Nat
  BY <1>1, ProductNat
<1> QED BY <1>1, <1>3, <1>4

LEMMA QuotientOf ==
  ASSUME NEW q \in Nat, NEW n \in Nat, NEW d \in Nat \ {0}, q * d <= n, n < q * d + d
  PROVE  n \div d = q
<1> DEFINE k == n \div d
<1>1. k \in Nat /\ k * d <= n /\ q <= k
  BY DivBound, LargestQuotient
<1> HIDE DEF k
<1>2. SUFFICES ASSUME q + 1 <= k PROVE FALSE
  BY <1>1 DEF k
<1>3. (q + 1) * d <= k * d
  BY <1>1, <1>2, ProductMono
<1>4. (q + 1) * d = q * d + d /\ q * d \in Nat /\ k * d \in Nat
  BY <1>1, ProductNat
<1> QED BY <1>1, <1>3, <1>4

LEMMA QuotientMono ==
  ASSUME NEW m \in Nat, NEW n \in Nat, NEW d \in Nat \ {0}, m <= n
  PROVE  m \div d <= n \div d
<1>1. m \div d \in Nat /\ (m \div d) * d <= m /\ (m \div d) * d \in Nat
  BY DivBound, ProductNat
<1>2. (m \div d) * d <= n
  BY <1>1
<1> QED BY <1>1, <1>2, LargestQuotient

\* Counting up by one, the quotient grows where the divisor divides.
LEMMA QuotientStep ==
  ASSUME NEW n \in Nat, NEW d \in Nat \ {0}
  PROVE  (n + 1) \div d = IF (n + 1) % d = 0 THEN n \div d + 1 ELSE n \div d
<1> DEFINE q == n \div d
           r == n % d
           k == (n + 1) \div d
           s == (n + 1) % d
           Q == q * d
<1>1. q \in Nat /\ r \in 0 .. d - 1 /\ n = Q + r /\ Q \in Nat
  BY DivBound, ProductNat
<1>2. k \in Nat /\ s \in 0 .. d - 1 /\ n + 1 = k * d + s
  OBVIOUS
<1> HIDE DEF q, r, k, s
<1>3. CASE r + 1 < d
  <2>1. q * d <= n + 1 /\ n + 1 < q * d + d
    BY <1>1, <1>3
  <2>2. k = q
    BY <1>1, <2>1, QuotientOf DEF k
  <2>3. n + 1 = Q + s
    BY <1>2, <2>2
  <2> HIDE DEF Q
  <2>4. s # 0
    BY <1>1, <1>2, <2>3
  <2> QED BY <2>2, <2>4 DEF k, q, s
<1>4. CASE r + 1 = d
  <2>1. (q + 1) * d = Q + d
    BY <1>1
  <2>2. (q + 1) * d <= n + 1 /\ n + 1 < (q + 1) * d + d /\ q + 1 \in Nat
    BY <1>1, <1>4, <2>1
  <2>3. k = q + 1
    BY <2>2, QuotientOf DEF k
  <2>4. n + 1 = Q + d + s
    BY <1>2, <2>1, <2>3
  <2> HIDE DEF Q
  <2>5. s = 0
    BY <1>1, <1>2, <1>4, <2>4
  <2> QED BY <2>3, <2>5 DEF k, q, s
<1> QED BY <1>1, <1>3, <1>4

(* Transfers that are taxed on top of what is sent, at a rate with a cap: when
   what is left of an amount is at most amount / (1 + rate), what is sent and the
   tax on it are within the amount. *)
LEMMA TaxWithin ==
  ASSUME NEW amount \in Nat, NEW left \in Nat, NEW rate \in Nat, NEW cap \in Nat,
         left * (Scale + rate) <= amount * Scale
  PROVE  LET Bounded(tax) == IF tax <= cap THEN tax ELSE cap
             sent == amount - Bounded(amount - left)
             taken == Bounded(MulFloor(sent, rate)) IN
         sent \in Nat /\ taken \in Nat /\ sent + taken <= amount
<1> DEFINE Bounded(tax) == IF tax <= cap THEN tax ELSE cap
           sent == amount - Bounded(amount - left)
           taken == Bounded(MulFloor(sent, rate))
<1>1. Scale \in Nat \ {0}
  BY ScaleAssumption
<1>2. /\ left * Scale \in Nat /\ left * rate \in Nat /\ amount * Scale \in Nat
      /\ left * (Scale + rate) = left * Scale + left * rate
  BY <1>1, ProductNat
<1>3. left <= amount
  BY <1>1, <1>2, ProductCancel
<1>4. CASE amount - left <= cap
  <2>1. sent = left
    BY <1>3, <1>4
  <2> DEFINE tax == MulFloor(left, rate)
  <2>2. tax \in Nat /\ tax * Scale <= left * rate
    BY <1>1, MulFloorBound
  <2>3. taken = Bounded(tax)
    BY <2>1
  <2> HIDE DEF tax, sent, taken
  <2>4. tax * Scale \in Nat /\ (left + tax) * Scale = left * Scale + tax * Scale
    BY <2>2, <1>1, ProductNat
  <2>5. (left + tax) * Scale <= amount * Scale
    BY <2>2, <2>4, <1>2
  <2>6. left + tax <= amount
    BY <2>2, <2>5, <1>1, ProductCancel
  <2>7. taken \in Nat /\ taken <= tax
    BY <2>2, <2>3
  <2>8. QED
    BY <2>1, <2>2, <2>6, <2>7 DEF sent, taken
<1>5. CASE ~(amount - left <= cap)
  <2>1. sent = amount - cap /\ sent \in Nat
    BY <1>1, <1>3, <1>5
  <2>2. MulFloor(sent, rate) \in Nat
    BY <1>1, <2>1, MulFloorBound
  <2>3. taken \in Nat /\ taken <= cap
    BY <1>1, <2>2
  <2>4. QED
    BY <1>1, <2>1, <2>3
<1>6. QED
  BY <1>4, <1>5

(* What is left when an amount is multiplied by the reciprocal of 1 + rate,
   itself rounded down. *)
LEMMA ReciprocalBound ==
  ASSUME NEW amount \in Nat, NEW rate \in Nat
  PROVE  LET left == MulFloor(amount, (Scale * Scale) \div (Scale + rate)) IN
         left \in Nat /\ left * (Scale + rate) <= amount * Scale
<1> DEFINE full == Scale + rate
           rev  == (Scale * Scale) \div full
           left == MulFloor(amount, rev)
<1>1. Scale \in Nat \ {0} /\ full \in Nat \ {0}
  BY ScaleAssumption
<1>2. Scale * Scale \in Nat
  BY <1>1, ProductNat
<1>3. rev \in Nat /\ rev * full <= Scale * Scale
  BY <1>1, <1>2, DivBound
<1> HIDE DEF rev, full
<1>4. left \in Nat /\ left * Scale <= amount * rev
  BY <1>3, MulFloorBound
<1> HIDE DEF left
<1>5. /\ left * Scale \in Nat /\ amount * rev \in Nat /\ rev * full \in Nat
      /\ left * full \in Nat /\ amount * Scale \in Nat
  BY <1>1, <1>3, <1>4, ProductNat
<1>6. (left * Scale) * full <= (amount * rev) * full
  BY <1>1, <1>4, <1>5, ProductMono
<1>7. amount * (rev * full) <= amount * (Scale * Scale)
  BY <1>2, <1>3, <1>5, ProductMono
<1>8. /\ (left * Scale) * full = (left * full) * Scale
      /\ (amount * rev) * full = amount * (rev * full)
      /\ amount * (Scale * Scale) = (amount * Scale) * Scale
  BY <1>1, <1>3, <1>4
<1>9. (left * full) * Scale <= (amount * Scale) * Scale
  <2>1. /\ (left * full) * Scale \in Nat /\ amount * (rev * full) \in Nat
        /\ (amount * Scale) * Scale \in Nat
    BY <1>1, <1>5, ProductNat
  <2>2. QED
    BY <1>6, <1>7, <1>8, <2>1
<1>10. left * full <= amount * Scale
  BY <1>1, <1>5, <1>9, ProductCancel
<1>11. QED
  BY <1>4, <1>10 DEF left, rev, full
===============================================================================
