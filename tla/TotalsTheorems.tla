---------------------------- MODULE TotalsTheorems ----------------------------
(***************************************************************************)
(* Lemmas about induction, iteration and the totals of functions.          *)
(* Induction over the natural numbers is stated for a set, and the         *)
(* existence of a function defined by iteration with it, both from the     *)
(* well ordering of the naturals: they give the theorems about the         *)
(* contracts' loops what the operators of NaturalsInduction give to        *)
(* provers that can instantiate them.                                      *)
(***************************************************************************)
EXTENDS Totals, FiniteSetTheorems, WellFoundedInduction, TLAPS

(* A nonempty set of natural numbers has a least element. *)
THEOREM LeastElement ==
  ASSUME NEW T, T \subseteq Nat, T # {}
  PROVE  \E m \in T : \A k \in T : m <= k
<1>1. PICK m \in T : \A k \in T : ~(<<k, m>> \in OpToRel(<, Nat))
  BY NatLessThanWellFounded, WFMin, Zenon
<1>2. ASSUME NEW k \in T PROVE m <= k
  <2>1. ~(<<k, m>> \in OpToRel(<, Nat))
    BY <1>1, Zenon
  <2>2. k \in Nat /\ m \in Nat
    OBVIOUS
  <2>3. ~(k < m)
    BY <2>1, <2>2, Zenon DEF OpToRel
  <2> QED
    BY <2>2, <2>3
<1> QED
  BY <1>2

(* A set that holds 0 and the successor of each natural number it holds, holds
   them all. *)
THEOREM SetInduction ==
  ASSUME NEW S, 0 \in S, \A n \in Nat : n \in S => n + 1 \in S
  PROVE  \A n \in Nat : n \in S
<1> SUFFICES ASSUME Nat \ S # {} PROVE FALSE
  OBVIOUS
<1>1. PICK m \in Nat \ S : \A k \in Nat \ S : m <= k
  BY LeastElement
<1>2. m # 0
  OBVIOUS
<1>3. m - 1 \in Nat /\ m - 1 \in S
  BY <1>1, <1>2
<1> QED
  BY <1>3

-------------------------------------------------------------------------------
(* Iteration *)

\* The beginnings, up to n, of the iteration of g from a.
Beginnings(X, a, g, n) ==
  {h \in [0 .. n -> X] :
     h[0] = a /\ \A k \in Nat : k < n => h[k + 1] = g[<<h[k], k>>]}

LEMMA BeginningsExist ==
  ASSUME NEW X, NEW a \in X, NEW g \in [X \X Nat -> X]
  PROVE  \A n \in Nat : Beginnings(X, a, g, n) # {}
<1> DEFINE S == {n \in Nat : Beginnings(X, a, g, n) # {}}
<1>1. 0 \in S
  <2> DEFINE h == [k \in 0 .. 0 |-> a]
  <2>1. h \in [0 .. 0 -> X] /\ h[0] = a
    OBVIOUS
  <2>2. h \in Beginnings(X, a, g, 0)
    BY <2>1 DEF Beginnings
  <2> QED
    BY <2>2
<1>2. ASSUME NEW n \in Nat, n \in S PROVE n + 1 \in S
  <2>1. PICK h : h \in Beginnings(X, a, g, n)
    BY <1>2
  <2>2. /\ h \in [0 .. n -> X] /\ h[0] = a
        /\ \A k \in Nat : k < n => h[k + 1] = g[<<h[k], k>>]
    BY <2>1 DEF Beginnings
  <2> DEFINE e == [k \in 0 .. n + 1 |-> IF k <= n THEN h[k] ELSE g[<<h[n], n>>]]
  <2>3. h[n] \in X /\ g[<<h[n], n>>] \in X
    BY <2>2
  <2>4. e \in [0 .. n + 1 -> X]
    BY <2>2, <2>3
  <2>5. e[0] = a
    BY <2>2
  <2>6. ASSUME NEW k \in Nat, k < n + 1 PROVE e[k + 1] = g[<<e[k], k>>]
    <3>1. CASE k < n
      BY <3>1, <2>2
    <3>2. CASE k = n
      BY <3>2, <2>2
    <3> QED
      BY <2>6, <3>1, <3>2
  <2>7. e \in Beginnings(X, a, g, n + 1)
    BY <2>4, <2>5, <2>6 DEF Beginnings
  <2> QED
    BY <2>7
<1> HIDE DEF S
<1>3. \A n \in Nat : n \in S
  BY <1>1, <1>2, SetInduction
<1> QED
  BY <1>3 DEF S

LEMMA BeginningsAgree ==
  ASSUME NEW X, NEW a \in X, NEW g \in [X \X Nat -> X],
         NEW n \in Nat, NEW h \in Beginnings(X, a, g, n),
         NEW m \in Nat, NEW j \in Beginnings(X, a, g, m)
  PROVE  \A k \in Nat : k <= n /\ k <= m => h[k] = j[k]
<1> DEFINE S == {k \in Nat : k <= n /\ k <= m => h[k] = j[k]}
<1>1. 0 \in S
  BY DEF Beginnings
<1>2. ASSUME NEW k \in Nat, k \in S PROVE k + 1 \in S
  <2>1. CASE k + 1 <= n /\ k + 1 <= m
    <3>1. k < n /\ k < m /\ h[k] = j[k]
      BY <1>2, <2>1
    <3>2. h[k + 1] = g[<<h[k], k>>] /\ j[k + 1] = g[<<j[k], k>>]
      BY <3>1 DEF Beginnings
    <3> QED
      BY <3>1, <3>2
  <2>2. CASE ~(k + 1 <= n /\ k + 1 <= m)
    BY <2>2
  <2> QED
    BY <2>1, <2>2
<1> HIDE DEF S
<1>3. \A k \in Nat : k \in S
  BY <1>1, <1>2, SetInduction
<1> QED
  BY <1>3 DEF S

\* Functions that take a value and the number of the step to the next value.
StepFunctions(X) == [X \X Nat -> X]

\* f is the iteration of g from a.
IsIteration(f, X, a, g) ==
  /\ f \in [Nat -> X]
  /\ f[0] = a
  /\ \A n \in Nat : f[n + 1] = g[<<f[n], n>>]

(* The iteration of a function from a starting point exists. *)
THEOREM IterationExists ==
  ASSUME NEW X, NEW a \in X, NEW g \in StepFunctions(X)
  PROVE  \E f : IsIteration(f, X, a, g)
<1> DEFINE B(n) == CHOOSE h : h \in Beginnings(X, a, g, n)
           f == [n \in Nat |-> B(n)[n]]
<1>1. ASSUME NEW n \in Nat PROVE B(n) \in Beginnings(X, a, g, n)
  BY BeginningsExist DEF StepFunctions
<1> HIDE DEF B
<1>2. ASSUME NEW n \in Nat PROVE f[n] \in X
  BY <1>1 DEF Beginnings
<1>3. f[0] = a
  BY <1>1 DEF Beginnings
<1>4. ASSUME NEW n \in Nat PROVE f[n + 1] = g[<<f[n], n>>]
  <2>1. B(n) \in Beginnings(X, a, g, n) /\ B(n + 1) \in Beginnings(X, a, g, n + 1)
    BY <1>1
  <2>2. B(n)[n] = B(n + 1)[n]
    BY <2>1, BeginningsAgree DEF StepFunctions
  <2>3. B(n + 1)[n + 1] = g[<<B(n + 1)[n], n>>]
    BY <2>1 DEF Beginnings
  <2> QED
    BY <2>2, <2>3
<1>5. f \in [Nat -> X]
  BY <1>2
<1> HIDE DEF f
<1>6. IsIteration(f, X, a, g)
  BY <1>3, <1>4, <1>5 DEF IsIteration
<1> QED
  BY <1>6

-------------------------------------------------------------------------------
(* Totals *)

(* The units of one index are finite, and as many as its value. *)
LEMMA UnitsOfCount ==
  ASSUME NEW i, NEW n \in Nat
  PROVE  /\ IsFiniteSet({i} \X (1 .. n))
         /\ Cardinality({i} \X (1 .. n)) = n
<1>1. IsFiniteSet({i}) /\ Cardinality({i}) = 1
  BY FS_Singleton
<1>2. IsFiniteSet(1 .. n) /\ Cardinality(1 .. n) = n
  <2>1. n \in Int /\ 1 \in Int
    OBVIOUS
  <2>2. /\ IsFiniteSet(1 .. n)
        /\ Cardinality(1 .. n) = IF 1 > n THEN 0 ELSE n - 1 + 1
    BY <2>1, FS_Interval
  <2>3. QED
    BY <2>2
<1>3. /\ IsFiniteSet({i} \X (1 .. n))
      /\ Cardinality({i} \X (1 .. n)) = Cardinality({i}) * Cardinality(1 .. n)
  BY <1>1, <1>2, FS_Product
<1>4. QED
  BY <1>1, <1>2, <1>3

(* A function with a finite domain has finitely many units, so its total is a
   natural number. *)
LEMMA TotalType ==
  ASSUME NEW I, IsFiniteSet(I), NEW f \in [I -> Nat]
  PROVE  IsFiniteSet(Units(f)) /\ Total(f) \in Nat
<1> DEFINE parts == {UnitsOf(f, i) : i \in I}
<1> DEFINE pick  == [i \in I |-> UnitsOf(f, i)]
<1>1. pick \in Surjection(I, parts)
  BY DEF Surjection
<1>2. IsFiniteSet(parts)
  BY <1>1, FS_Surjection
<1>3. \A part \in parts : IsFiniteSet(part)
  <2> SUFFICES ASSUME NEW i \in I
               PROVE  IsFiniteSet(UnitsOf(f, i))
    OBVIOUS
  <2> QED
    BY UnitsOfCount DEF UnitsOf
<1>4. IsFiniteSet(UNION parts)
  <2> HIDE DEF parts
  <2> QED
    BY <1>2, <1>3, FS_UNION
<1>5. DOMAIN f = I
  OBVIOUS
<1>6. IsFiniteSet(Units(f))
  BY <1>4, <1>5 DEF Units
<1>7. QED
  BY <1>6, FS_CardinalityType DEF Total

(* Membership in the units, without the union. *)
LEMMA UnitsMember ==
  ASSUME NEW I, NEW f \in [I -> Nat], NEW x
  PROVE  x \in Units(f) <=> \E i \in I : \E k \in 1 .. f[i] : x = <<i, k>>
BY DEF Units, UnitsOf

(* Changing one value changes the total by the difference. *)
LEMMA TotalUpdate ==
  ASSUME NEW I, IsFiniteSet(I), NEW f \in [I -> Nat], NEW i \in I, NEW v \in Nat
  PROVE  /\ f[i] <= Total(f)
         /\ Total([f EXCEPT ![i] = v]) = Total(f) - f[i] + v
<1> DEFINE g    == [f EXCEPT ![i] = v]
           old  == {i} \X (1 .. f[i])
           new  == {i} \X (1 .. v)
           rest == Units(f) \ old
<1>1. g \in [I -> Nat] /\ g[i] = v /\ \A j \in I \ {i} : g[j] = f[j]
  OBVIOUS
<1>2. IsFiniteSet(Units(f)) /\ Cardinality(Units(f)) \in Nat
  BY TotalType DEF Total
<1>3. f[i] \in Nat
  OBVIOUS
<1>4. IsFiniteSet(old) /\ Cardinality(old) = f[i]
  BY <1>3, UnitsOfCount
<1>5. IsFiniteSet(new) /\ Cardinality(new) = v
  BY UnitsOfCount
<1>6. old \subseteq Units(f)
  BY UnitsMember
<1>7. Units(f) \cap old = old
  BY <1>6
<1>8. IsFiniteSet(rest) /\ Cardinality(rest) = Cardinality(Units(f)) - f[i]
  <2>1. /\ IsFiniteSet(Units(f) \ old)
        /\ Cardinality(Units(f) \ old)
             = Cardinality(Units(f)) - Cardinality(Units(f) \cap old)
    BY <1>2, FS_Difference
  <2>2. QED
    BY <2>1, <1>4, <1>7
<1>9. Cardinality(old) <= Cardinality(Units(f))
  <2>1. old \in SUBSET Units(f)
    BY <1>6
  <2>2. QED
    BY <1>2, <2>1, FS_Subset
<1>10. Units(g) = rest \cup new
  <2> HIDE DEF g
  <2>1. ASSUME NEW x \in Units(g) PROVE x \in rest \cup new
    <3>1. PICK j \in I : \E k \in 1 .. g[j] : x = <<j, k>>
      BY <1>1, UnitsMember
    <3>2. CASE j = i
      BY <3>1, <3>2, <1>1
    <3>3. CASE j # i
      BY <3>1, <3>3, <1>1, UnitsMember
    <3>4. QED
      BY <3>2, <3>3
  <2>2. ASSUME NEW x \in rest PROVE x \in Units(g)
    <3>1. PICK j \in I : \E k \in 1 .. f[j] : x = <<j, k>>
      BY UnitsMember
    <3>2. j # i
      BY <3>1
    <3>3. QED
      BY <3>1, <3>2, <1>1, UnitsMember
  <2>3. ASSUME NEW x \in new PROVE x \in Units(g)
    <3>1. PICK k \in 1 .. v : x = <<i, k>>
      OBVIOUS
    <3>2. k \in 1 .. g[i]
      BY <1>1
    <3>3. QED
      BY <3>1, <3>2, <1>1, UnitsMember
  <2>4. QED
    BY <2>1, <2>2, <2>3
<1>11. rest \cap new = {}
  <2>1. ASSUME NEW x \in rest \cap new PROVE FALSE
    <3>1. PICK j \in I : \E k \in 1 .. f[j] : x = <<j, k>>
      BY UnitsMember
    <3>2. QED
      BY <3>1
  <2>2. QED
    BY <2>1
<1>12. Cardinality(Units(g)) = Cardinality(rest) + Cardinality(new)
  <2> HIDE DEF g, rest, new
  <2>1. Cardinality(rest \cup new)
          = Cardinality(rest) + Cardinality(new) - Cardinality(rest \cap new)
    BY <1>5, <1>8, FS_Union
  <2>2. Cardinality(rest \cap new) = 0
    BY <1>11, FS_EmptySet
  <2>3. Cardinality(rest) \in Nat /\ Cardinality(new) \in Nat
    BY <1>5, <1>8, FS_CardinalityType
  <2>4. QED
    BY <2>1, <2>2, <2>3, <1>10
<1>13. QED
  BY <1>2, <1>3, <1>4, <1>5, <1>8, <1>9, <1>12 DEF Total

(* The total of a function that is zero everywhere is zero. *)
LEMMA TotalZero ==
  ASSUME NEW I, NEW f \in [I -> Nat], \A i \in I : f[i] = 0
  PROVE  Total(f) = 0
<1>1. Units(f) = {}
  <2>1. ASSUME NEW x \in Units(f) PROVE FALSE
    <3>1. PICK i \in I : \E k \in 1 .. f[i] : x = <<i, k>>
      BY UnitsMember
    <3>2. QED
      BY <3>1
  <2>2. QED
    BY <2>1
<1>2. QED
  BY <1>1, FS_EmptySet DEF Total

(* A function that is nowhere larger has no larger total. *)
LEMMA TotalMono ==
  ASSUME NEW I, IsFiniteSet(I), NEW f \in [I -> Nat], NEW g \in [I -> Nat],
         \A i \in I : f[i] <= g[i]
  PROVE  Total(f) <= Total(g)
<1>1. Units(f) \in SUBSET Units(g)
  <2>1. ASSUME NEW x \in Units(f) PROVE x \in Units(g)
    <3>1. PICK i \in I : \E k \in 1 .. f[i] : x = <<i, k>>
      BY UnitsMember
    <3>2. PICK k \in 1 .. f[i] : x = <<i, k>>
      BY <3>1
    <3>3. f[i] \in Nat /\ g[i] \in Nat /\ f[i] <= g[i]
      OBVIOUS
    <3>4. k \in 1 .. g[i]
      BY <3>3
    <3>5. QED
      BY <3>2, <3>4, UnitsMember
  <2>2. QED
    BY <2>1
<1>2. IsFiniteSet(Units(g))
  BY TotalType
<1>3. QED
  BY <1>1, <1>2, FS_Subset DEF Total

(* Natural division: quotient and remainder, and the bounds the next lemma
   needs of a pair numbered row by row. *)
LEMMA DivMod ==
  ASSUME NEW n \in Nat, NEW b \in Nat \ {0}
  PROVE  /\ n \div b \in Nat /\ n % b \in 0 .. b - 1
         /\ n = b * (n \div b) + (n % b)
OBVIOUS

LEMMA QuotientBound ==
  ASSUME NEW n \in Nat, NEW a \in Nat, NEW b \in Nat \ {0}, n < a * b
  PROVE  n \div b < a
OBVIOUS

LEMMA RowMajorBound ==
  ASSUME NEW m \in Nat, NEW a \in Nat, NEW k \in 1 .. m, NEW l \in 1 .. a
  PROVE  /\ (k - 1) * a + (l - 1) \in Nat
         /\ (k - 1) * a + (l - 1) < m * a
<1>1. (k - 1) * a + a <= m * a
  <2>1. k \in Nat /\ k <= m
    OBVIOUS
  <2>2. k * a <= m * a
    BY <2>1
  <2>3. (k - 1) * a + a = k * a
    BY <2>1
  <2>4. QED
    BY <2>2, <2>3
<1>2. (k - 1) * a \in Nat
  <2>1. k - 1 \in Nat
    OBVIOUS
  <2>2. QED
    BY <2>1
<1>3. QED
  BY <1>1, <1>2

LEMMA RowMajorUnique ==
  ASSUME NEW a \in Nat, NEW k1 \in Nat, NEW k2 \in Nat,
         NEW l1 \in 1 .. a, NEW l2 \in 1 .. a,
         (k1 - 1) * a + (l1 - 1) = (k2 - 1) * a + (l2 - 1)
  PROVE  k1 = k2 /\ l1 = l2
<1>1. (k1 - k2) * a = l2 - l1
  OBVIOUS
<1>2. ~(k1 - k2 >= 1)
  <2>1. SUFFICES ASSUME k1 - k2 >= 1 PROVE FALSE
    OBVIOUS
  <2>2. (k1 - k2) * a >= 1 * a
    BY <2>1
  <2>3. QED
    BY <1>1, <2>2
<1>3. ~(k2 - k1 >= 1)
  <2>1. SUFFICES ASSUME k2 - k1 >= 1 PROVE FALSE
    OBVIOUS
  <2>2. (k2 - k1) * a >= 1 * a
    BY <2>1
  <2>3. (k2 - k1) * a = l1 - l2
    BY <1>1
  <2>4. QED
    BY <2>2, <2>3
<1>4. k1 = k2
  BY <1>2, <1>3
<1>5. QED
  BY <1>1, <1>4

(* A bound on every value, up to a factor on either side, is a bound on the
   totals. *)
LEMMA TotalScale ==
  ASSUME NEW I, IsFiniteSet(I), NEW f \in [I -> Nat], NEW g \in [I -> Nat],
         NEW a \in Nat, NEW b \in Nat \ {0},
         \A i \in I : f[i] * a <= g[i] * b
  PROVE  Total(f) * a <= Total(g) * b
<1> DEFINE S    == Units(f) \X (1 .. a)
           T    == Units(g) \X (1 .. b)
           n(x) == (x[1][2] - 1) * a + (x[2] - 1)
           y(x) == <<<<x[1][1], (n(x) \div b) + 1>>, (n(x) % b) + 1>>
           h    == [x \in S |-> y(x)]
<1>1. ASSUME NEW x \in S
      PROVE  /\ x[1][1] \in I /\ x[1][2] \in 1 .. f[x[1][1]] /\ x[2] \in 1 .. a
             /\ x = <<<<x[1][1], x[1][2]>>, x[2]>>
             /\ n(x) \in Nat /\ n(x) < f[x[1][1]] * a
  <2>1. PICK z \in Units(f) : \E l \in 1 .. a : x = <<z, l>>
    OBVIOUS
  <2>2. PICK i \in I : \E k \in 1 .. f[i] : z = <<i, k>>
    BY UnitsMember
  <2>3. /\ x[1][1] \in I /\ x[1][2] \in 1 .. f[x[1][1]] /\ x[2] \in 1 .. a
        /\ x = <<<<x[1][1], x[1][2]>>, x[2]>>
    BY <2>1, <2>2
  <2>4. f[x[1][1]] \in Nat
    BY <2>3
  <2>5. n(x) \in Nat /\ n(x) < f[x[1][1]] * a
    BY <2>3, <2>4, RowMajorBound
  <2>6. QED
    BY <2>3, <2>5
<1>2. ASSUME NEW x \in S PROVE y(x) \in T
  <2> DEFINE i == x[1][1]
  <2>1. i \in I /\ n(x) \in Nat /\ n(x) < f[i] * a
    BY <1>1
  <2>2. g[i] \in Nat /\ f[i] \in Nat /\ f[i] * a <= g[i] * b
    BY <2>1
  <2>3. n(x) < g[i] * b
    BY <2>1, <2>2
  <2> HIDE DEF n, i
  <2>4. n(x) \div b \in Nat /\ n(x) \div b < g[i]
    BY <2>1, <2>2, <2>3, QuotientBound, DivMod
  <2>5. n(x) % b \in 0 .. b - 1
    BY <2>1, DivMod
  <2>6. (n(x) \div b) + 1 \in 1 .. g[i] /\ (n(x) % b) + 1 \in 1 .. b
    BY <2>2, <2>4, <2>5
  <2>7. <<i, (n(x) \div b) + 1>> \in Units(g)
    BY <2>1, <2>6, UnitsMember
  <2>8. QED
    BY <2>6, <2>7 DEF i
<1>3. ASSUME NEW x1 \in S, NEW x2 \in S, y(x1) = y(x2)
      PROVE  x1 = x2
  <2>1. x1[1][1] = x2[1][1]
    BY <1>3
  <2>2. n(x1) \div b = n(x2) \div b /\ n(x1) % b = n(x2) % b
    <3>1. n(x1) \in Nat /\ n(x2) \in Nat
      BY <1>1
    <3> HIDE DEF n
    <3>2. /\ n(x1) \div b \in Nat /\ n(x1) % b \in 0 .. b - 1
          /\ n(x2) \div b \in Nat /\ n(x2) % b \in 0 .. b - 1
      BY <3>1, DivMod
    <3>3. (n(x1) \div b) + 1 = (n(x2) \div b) + 1 /\ (n(x1) % b) + 1 = (n(x2) % b) + 1
      BY <1>3
    <3>4. QED
      BY <3>2, <3>3
  <2>3. n(x1) = n(x2)
    <3>1. n(x1) \in Nat /\ n(x2) \in Nat
      BY <1>1
    <3> HIDE DEF n
    <3>2. n(x1) = b * (n(x1) \div b) + (n(x1) % b)
      BY <3>1, DivMod
    <3>3. n(x2) = b * (n(x2) \div b) + (n(x2) % b)
      BY <3>1, DivMod
    <3>4. QED
      BY <2>2, <3>2, <3>3
  <2>4. x1[1][2] \in Nat /\ x2[1][2] \in Nat /\ x1[2] \in 1 .. a /\ x2[2] \in 1 .. a
    <3>1. f[x1[1][1]] \in Nat /\ f[x2[1][1]] \in Nat
      BY <1>1
    <3>2. QED
      BY <1>1, <3>1
  <2>5. x1[1][2] = x2[1][2] /\ x1[2] = x2[2]
    <3>1. (x1[1][2] - 1) * a + (x1[2] - 1) = (x2[1][2] - 1) * a + (x2[2] - 1)
      BY <2>3
    <3> DEFINE k1 == x1[1][2]  l1 == x1[2]  k2 == x2[1][2]  l2 == x2[2]
    <3>2. (k1 - 1) * a + (l1 - 1) = (k2 - 1) * a + (l2 - 1)
      BY <3>1
    <3>3. k1 \in Nat /\ k2 \in Nat /\ l1 \in 1 .. a /\ l2 \in 1 .. a
      BY <2>4
    <3> HIDE DEF k1, l1, k2, l2
    <3>4. k1 = k2 /\ l1 = l2
      BY <3>2, <3>3, RowMajorUnique
    <3>5. QED
      BY <3>4 DEF k1, l1, k2, l2
  <2>6. QED
    BY <1>1, <2>1, <2>5
<1>4. h \in Injection(S, T)
  <2> HIDE DEF S, T, y
  <2>1. h \in [S -> T]
    BY <1>2
  <2>2. IsInjective(h)
    BY <1>3 DEF IsInjective
  <2>3. QED
    BY <2>1, <2>2 DEF Injection
<1>5. /\ IsFiniteSet(Units(f)) /\ IsFiniteSet(Units(g))
      /\ IsFiniteSet(1 .. a) /\ Cardinality(1 .. a) = a
      /\ IsFiniteSet(1 .. b) /\ Cardinality(1 .. b) = b
  <2>1. a \in Int /\ b \in Int /\ 1 \in Int
    OBVIOUS
  <2>2. /\ IsFiniteSet(1 .. a) /\ Cardinality(1 .. a) = IF 1 > a THEN 0 ELSE a - 1 + 1
    BY <2>1, FS_Interval
  <2>3. /\ IsFiniteSet(1 .. b) /\ Cardinality(1 .. b) = IF 1 > b THEN 0 ELSE b - 1 + 1
    BY <2>1, FS_Interval
  <2>4. QED
    BY <2>2, <2>3, TotalType
<1>6. Cardinality(S) = Total(f) * a
  BY <1>5, FS_Product DEF Total
<1>7. IsFiniteSet(T) /\ Cardinality(T) = Total(g) * b
  BY <1>5, FS_Product DEF Total
<1>8. Cardinality(S) <= Cardinality(T)
  <2> HIDE DEF S, T, h
  <2>1. QED
    BY <1>4, <1>7, FS_Injection
<1>9. QED
  BY <1>6, <1>7, <1>8

(* The sizes of disjoint finite sets add up to the size of their union. *)
LEMMA TotalOfSizes ==
  ASSUME NEW I, IsFiniteSet(I), NEW S,
         \A i \in I : IsFiniteSet(S[i]),
         \A i, j \in I : i # j => S[i] \cap S[j] = {}
  PROVE  Total([i \in I |-> Cardinality(S[i])]) = Cardinality(UNION {S[i] : i \in I})
<1> DEFINE size  == [i \in I |-> Cardinality(S[i])]
           all   == UNION {S[i] : i \in I}
           enum  == [i \in I |-> CHOOSE e : e \in Bijection(1 .. size[i], S[i])]
           h     == [x \in Units(size) |-> enum[x[1]][x[2]]]
<1>1. \A i \in I : size[i] \in Nat /\ enum[i] \in Bijection(1 .. size[i], S[i])
  <2> SUFFICES ASSUME NEW i \in I
               PROVE  size[i] \in Nat /\ enum[i] \in Bijection(1 .. size[i], S[i])
    OBVIOUS
  <2>1. size[i] \in Nat /\ ExistsBijection(1 .. size[i], S[i])
    BY FS_CardinalityType
  <2>2. \E e : e \in Bijection(1 .. size[i], S[i])
    BY <2>1 DEF ExistsBijection
  <2>3. QED
    BY <2>1, <2>2
<1>2. size \in [I -> Nat]
  BY <1>1
<1> HIDE DEF size, enum
<1>3. ASSUME NEW x \in Units(size)
      PROVE  /\ x[1] \in I /\ x[2] \in 1 .. size[x[1]] /\ x = <<x[1], x[2]>>
             /\ enum[x[1]][x[2]] \in S[x[1]]
  <2>1. PICK i \in I : \E k \in 1 .. size[i] : x = <<i, k>>
    BY <1>2, UnitsMember
  <2>2. x[1] \in I /\ x[2] \in 1 .. size[x[1]] /\ x = <<x[1], x[2]>>
    BY <2>1
  <2>3. enum[x[1]] \in [1 .. size[x[1]] -> S[x[1]]]
    BY <1>1, <2>2 DEF Bijection, Injection
  <2>4. QED
    BY <2>2, <2>3
<1>4. h \in [Units(size) -> all]
  BY <1>3
<1>5. IsInjective(h)
  <2>1. ASSUME NEW x \in Units(size), NEW y \in Units(size),
               enum[x[1]][x[2]] = enum[y[1]][y[2]]
        PROVE  x = y
    <3>1. x[1] = y[1]
      BY <1>3, <2>1
    <3>2. enum[x[1]] \in Bijection(1 .. size[x[1]], S[x[1]])
      BY <1>1, <1>3
    <3>3. x[2] = y[2]
      BY <1>3, <2>1, <3>1, <3>2 DEF Bijection, Injection, IsInjective
    <3>4. QED
      BY <1>3, <3>1, <3>3
  <2>2. QED
    BY <2>1 DEF IsInjective
<1>6. \A t \in all : \E x \in Units(size) : h[x] = t
  <2> SUFFICES ASSUME NEW t \in all
               PROVE  \E x \in Units(size) : h[x] = t
    OBVIOUS
  <2>1. PICK i \in I : t \in S[i]
    OBVIOUS
  <2>2. enum[i] \in Surjection(1 .. size[i], S[i])
    BY <1>1 DEF Bijection
  <2>3. PICK k \in 1 .. size[i] : enum[i][k] = t
    BY <2>1, <2>2 DEF Surjection
  <2>4. <<i, k>> \in Units(size)
    BY <1>2, UnitsMember
  <2>5. QED
    BY <2>3, <2>4
<1>7. h \in Bijection(Units(size), all)
  <2> HIDE DEF h, all
  <2>1. QED
    BY <1>4, <1>5, <1>6 DEF Bijection, Injection, Surjection
<1>8. IsFiniteSet(Units(size))
  BY <1>2, TotalType
<1>9. Cardinality(all) = Cardinality(Units(size))
  <2> HIDE DEF h, all
  <2>1. ExistsBijection(Units(size), all)
    BY <1>7 DEF ExistsBijection
  <2>2. QED
    BY <1>8, <2>1, FS_Bijection
<1>10. QED
  BY <1>9 DEF Total, size

(* Taking the values outside Z to zero leaves the total of those inside. *)
LEMMA TotalSplit ==
  ASSUME NEW K, IsFiniteSet(K), NEW f \in [K -> Nat], NEW Z, Z \subseteq K
  PROVE  Total([k \in K |-> IF k \in Z THEN 0 ELSE f[k]])
           = Total(f) - Total([k \in Z |-> f[k]])
<1> DEFINE inZ  == [k \in Z |-> f[k]]
           outZ == [k \in K |-> IF k \in Z THEN 0 ELSE f[k]]
<1>1. inZ \in [Z -> Nat] /\ outZ \in [K -> Nat]
  OBVIOUS
<1>2. IsFiniteSet(Z)
  <2>1. Z \in SUBSET K
    OBVIOUS
  <2>2. QED
    BY <2>1, FS_Subset
<1>3. /\ IsFiniteSet(Units(inZ)) /\ IsFiniteSet(Units(outZ)) /\ IsFiniteSet(Units(f))
  <2> HIDE DEF inZ, outZ
  <2>1. QED
    BY <1>1, <1>2, TotalType
<1>4. \A k \in Z : inZ[k] = f[k] /\ outZ[k] = 0
  OBVIOUS
<1>5. \A k \in K \ Z : outZ[k] = f[k]
  OBVIOUS
<1> HIDE DEF inZ, outZ
<1>6. Units(f) = Units(inZ) \cup Units(outZ)
  <2>1. ASSUME NEW x \in Units(f) PROVE x \in Units(inZ) \cup Units(outZ)
    <3>1. PICK k \in K : \E n \in 1 .. f[k] : x = <<k, n>>
      BY UnitsMember
    <3>2. CASE k \in Z
      BY <1>1, <1>4, <3>1, <3>2, UnitsMember
    <3>3. CASE k \notin Z
      BY <1>1, <1>5, <3>1, <3>3, UnitsMember
    <3>4. QED
      BY <3>2, <3>3
  <2>2. ASSUME NEW x \in Units(inZ) PROVE x \in Units(f)
    <3>1. PICK k \in Z : \E n \in 1 .. inZ[k] : x = <<k, n>>
      BY <1>1, UnitsMember
    <3>2. QED
      BY <1>4, <3>1, UnitsMember
  <2>3. ASSUME NEW x \in Units(outZ) PROVE x \in Units(f)
    <3>1. PICK k \in K : \E n \in 1 .. outZ[k] : x = <<k, n>>
      BY <1>1, UnitsMember
    <3>2. k \notin Z
      BY <1>4, <3>1
    <3>3. QED
      BY <1>5, <3>1, <3>2, UnitsMember
  <2>4. QED
    BY <2>1, <2>2, <2>3
<1>7. Units(inZ) \cap Units(outZ) = {}
  <2>1. ASSUME NEW x \in Units(inZ) \cap Units(outZ) PROVE FALSE
    <3>1. PICK k \in Z : \E n \in 1 .. inZ[k] : x = <<k, n>>
      BY <1>1, UnitsMember
    <3>2. PICK j \in K : \E n \in 1 .. outZ[j] : x = <<j, n>>
      BY <1>1, UnitsMember
    <3>3. j = k
      BY <3>1, <3>2
    <3>4. QED
      BY <1>4, <3>2, <3>3
  <2>2. QED
    BY <2>1
<1>8. Cardinality(Units(f))
        = Cardinality(Units(inZ)) + Cardinality(Units(outZ))
            - Cardinality(Units(inZ) \cap Units(outZ))
  BY <1>3, <1>6, FS_Union
<1>9. Cardinality(Units(inZ) \cap Units(outZ)) = 0
  BY <1>7, FS_EmptySet
<1>10. Cardinality(Units(inZ)) \in Nat /\ Cardinality(Units(outZ)) \in Nat
  BY <1>3, FS_CardinalityType
<1>11. QED
  BY <1>8, <1>9, <1>10 DEF Total, inZ, outZ

(* Totals over disjoint parts of the domain add up to the total over their union. *)
LEMMA TotalNested ==
  ASSUME NEW I, IsFiniteSet(I), NEW K, IsFiniteSet(K), NEW f \in [K -> Nat],
         NEW P, \A i \in I : P[i] \subseteq K,
         \A i, j \in I : i # j => P[i] \cap P[j] = {}
  PROVE  Total([i \in I |-> Total([k \in P[i] |-> f[k]])])
           = Total([k \in UNION {P[i] : i \in I} |-> f[k]])
<1> DEFINE all == UNION {P[i] : i \in I}
           S   == [i \in I |-> Units([k \in P[i] |-> f[k]])]
           u   == [k \in all |-> f[k]]
<1>1. ASSUME NEW i \in I, NEW x
      PROVE  x \in S[i] <=> \E k \in P[i] : \E n \in 1 .. f[k] : x = <<k, n>>
  <2> DEFINE g == [k \in P[i] |-> f[k]]
  <2>1. g \in [P[i] -> Nat] /\ \A k \in P[i] : g[k] = f[k]
    OBVIOUS
  <2> HIDE DEF g
  <2>2. x \in Units(g) <=> \E k \in P[i] : \E n \in 1 .. g[k] : x = <<k, n>>
    BY <2>1, UnitsMember
  <2>3. S[i] = Units(g)
    BY DEF g
  <2>4. QED
    BY <2>1, <2>2, <2>3
<1>2. \A i \in I : IsFiniteSet(S[i])
  <2> SUFFICES ASSUME NEW i \in I PROVE IsFiniteSet(S[i])
    OBVIOUS
  <2> DEFINE g == [k \in P[i] |-> f[k]]
  <2>1. g \in [P[i] -> Nat]
    OBVIOUS
  <2>2. P[i] \in SUBSET K
    OBVIOUS
  <2>3. IsFiniteSet(P[i])
    BY <2>2, FS_Subset
  <2>4. S[i] = Units(g)
    OBVIOUS
  <2> HIDE DEF g, S
  <2>5. QED
    BY <2>1, <2>3, <2>4, TotalType
<1>3. \A i, j \in I : i # j => S[i] \cap S[j] = {}
  <2> SUFFICES ASSUME NEW i \in I, NEW j \in I, i # j, NEW x \in S[i] \cap S[j]
               PROVE  FALSE
    OBVIOUS
  <2> HIDE DEF S
  <2>1. PICK k \in P[i] : \E n \in 1 .. f[k] : x = <<k, n>>
    BY <1>1
  <2>2. PICK l \in P[j] : \E n \in 1 .. f[l] : x = <<l, n>>
    BY <1>1
  <2>3. k = l
    BY <2>1, <2>2
  <2>4. QED
    BY <2>3
<1>4. UNION {S[i] : i \in I} = Units(u)
  <2>1. u \in [all -> Nat] /\ \A k \in all : u[k] = f[k]
    OBVIOUS
  <2>2. ASSUME NEW x
        PROVE  x \in Units(u) <=> \E k \in all : \E n \in 1 .. u[k] : x = <<k, n>>
    <3> HIDE DEF u, all
    <3>1. QED
      BY <2>1, UnitsMember
  <2>3. ASSUME NEW x
        PROVE  x \in UNION {S[i] : i \in I}
                 <=> \E i \in I : \E k \in P[i] : \E n \in 1 .. f[k] : x = <<k, n>>
    <3> HIDE DEF S
    <3>1. QED
      BY <1>1
  <2>4. ASSUME NEW x
        PROVE  (\E i \in I : \E k \in P[i] : \E n \in 1 .. f[k] : x = <<k, n>>)
                 <=> (\E k \in all : \E n \in 1 .. u[k] : x = <<k, n>>)
    <3>1. \A k : k \in all <=> \E i \in I : k \in P[i]
      OBVIOUS
    <3> HIDE DEF u, all
    <3>2. \A k \in all : 1 .. u[k] = 1 .. f[k]
      BY <2>1
    <3>3. QED
      BY <3>1, <3>2, Zenon
  <2> HIDE DEF S, u, all
  <2>5. QED
    BY <2>2, <2>3, <2>4
<1>5. Total([i \in I |-> Cardinality(S[i])]) = Cardinality(UNION {S[i] : i \in I})
  <2> HIDE DEF S
  <2>1. QED
    BY <1>2, <1>3, TotalOfSizes
<1>6. [i \in I |-> Cardinality(S[i])] = [i \in I |-> Total([k \in P[i] |-> f[k]])]
  BY DEF Total
<1>7. QED
  BY <1>4, <1>5, <1>6 DEF Total

(* When two functions differ at one index, so do their totals. *)
LEMMA TotalPoint ==
  ASSUME NEW I, IsFiniteSet(I), NEW f \in [I -> Nat], NEW g \in [I -> Nat],
         NEW i \in I, \A j \in I \ {i} : g[j] = f[j]
  PROVE  f[i] <= Total(f) /\ Total(g) = Total(f) - f[i] + g[i]
<1>1. g = [f EXCEPT ![i] = g[i]]
  OBVIOUS
<1>2. g[i] \in Nat
  OBVIOUS
<1>3. QED
  BY <1>1, <1>2, TotalUpdate

LEMMA TotalShift ==
  ASSUME NEW I, IsFiniteSet(I), NEW f \in [I -> Nat], NEW g \in [I -> Nat],
         NEW i \in I, NEW delta \in Int, g[i] = f[i] + delta,
         \A j \in I : j # i => g[j] = f[j]
  PROVE  f[i] <= Total(f) /\ Total(g) = Total(f) + delta
<1>1. f[i] <= Total(f) /\ Total(g) = Total(f) - f[i] + g[i]
  BY TotalPoint
<1>2. f[i] \in Nat /\ Total(f) \in Nat
  BY TotalType
<1>3. QED
  BY <1>1, <1>2

(* Indices where a function is zero do not count. *)
LEMMA TotalExtend ==
  ASSUME NEW I, NEW J, J \subseteq I,
         NEW f \in [J -> Nat], NEW g \in [I -> Nat],
         \A i \in I : g[i] = IF i \in J THEN f[i] ELSE 0
  PROVE  Total(g) = Total(f)
<1>1. ASSUME NEW x PROVE x \in Units(g) <=> x \in Units(f)
  <2>1. x \in Units(g) <=> \E i \in I : \E k \in 1 .. g[i] : x = <<i, k>>
    BY UnitsMember
  <2>2. x \in Units(f) <=> \E i \in J : \E k \in 1 .. f[i] : x = <<i, k>>
    BY UnitsMember
  <2>3. ASSUME NEW i \in I, NEW k \in 1 .. g[i]
        PROVE  i \in J /\ k \in 1 .. f[i]
    <3>1. CASE i \in J
      BY <3>1
    <3>2. CASE i \notin J
      <4>1. g[i] = 0
        BY <3>2
      <4>2. 1 .. 0 = {}
        OBVIOUS
      <4>3. QED
        BY <4>1, <4>2
    <3>3. QED
      BY <3>1, <3>2
  <2>4. ASSUME NEW i \in J, NEW k \in 1 .. f[i]
        PROVE  i \in I /\ k \in 1 .. g[i]
    OBVIOUS
  <2>5. QED
    BY <2>1, <2>2, <2>3, <2>4, Zenon
<1>2. Units(g) = Units(f)
  BY <1>1
<1>3. QED
  BY <1>2 DEF Total

(* The total of a pointwise sum is the sum of the totals. *)
LEMMA TotalSum ==
  ASSUME NEW I, IsFiniteSet(I), NEW f \in [I -> Nat], NEW g \in [I -> Nat]
  PROVE  Total([i \in I |-> f[i] + g[i]]) = Total(f) + Total(g)
<1> DEFINE h    == [i \in I |-> f[i] + g[i]]
           rest == Units(h) \ Units(f)
           move == [x \in Units(g) |-> <<x[1], f[x[1]] + x[2]>>]
<1>1. h \in [I -> Nat] /\ \A i \in I : h[i] = f[i] + g[i]
  OBVIOUS
<1> HIDE DEF h
<1>2. /\ IsFiniteSet(Units(f)) /\ IsFiniteSet(Units(g)) /\ IsFiniteSet(Units(h))
      /\ Total(f) \in Nat /\ Total(g) \in Nat /\ Total(h) \in Nat
  BY <1>1, TotalType
<1>3. ASSUME NEW i \in I, NEW k
      PROVE  /\ <<i, k>> \in Units(f) <=> k \in 1 .. f[i]
             /\ <<i, k>> \in Units(g) <=> k \in 1 .. g[i]
             /\ <<i, k>> \in Units(h) <=> k \in 1 .. (f[i] + g[i])
  BY <1>1, UnitsMember
<1>4. ASSUME NEW x
      PROVE  /\ x \in Units(g) => x = <<x[1], x[2]>> /\ x[1] \in I
             /\ x \in Units(h) => x = <<x[1], x[2]>> /\ x[1] \in I
             /\ x \in Units(f) => x = <<x[1], x[2]>> /\ x[1] \in I
  BY <1>1, UnitsMember
<1>5. Units(f) \subseteq Units(h)
  <2>1. ASSUME NEW x \in Units(f) PROVE x \in Units(h)
    <3>1. x = <<x[1], x[2]>> /\ x[1] \in I
      BY <1>4
    <3>2. x[2] \in 1 .. f[x[1]]
      BY <3>1, <1>3
    <3>3. f[x[1]] \in Nat /\ g[x[1]] \in Nat
      BY <3>1
    <3>4. x[2] \in 1 .. (f[x[1]] + g[x[1]])
      BY <3>2, <3>3
    <3>5. QED
      BY <3>1, <3>4, <1>3
  <2>2. QED
    BY <2>1
<1>6. ASSUME NEW x \in Units(g) PROVE move[x] \in rest
  <2>1. x[1] \in I /\ x[2] \in 1 .. g[x[1]]
    <3>1. x = <<x[1], x[2]>> /\ x[1] \in I
      BY <1>4
    <3>2. QED
      BY <3>1, <1>3
  <2>2. f[x[1]] \in Nat /\ g[x[1]] \in Nat
    BY <2>1
  <2>3. /\ f[x[1]] + x[2] \in 1 .. (f[x[1]] + g[x[1]])
        /\ f[x[1]] + x[2] \notin 1 .. f[x[1]]
    BY <2>1, <2>2
  <2>4. QED
    BY <2>1, <2>3, <1>3
<1>7. ASSUME NEW y \in rest PROVE \E x \in Units(g) : move[x] = y
  <2>1. y = <<y[1], y[2]>> /\ y[1] \in I
    BY <1>4
  <2>2. y[2] \in 1 .. (f[y[1]] + g[y[1]]) /\ y[2] \notin 1 .. f[y[1]]
    BY <2>1, <1>3
  <2>3. f[y[1]] \in Nat /\ g[y[1]] \in Nat
    BY <2>1
  <2>4. /\ y[2] - f[y[1]] \in 1 .. g[y[1]]
        /\ f[y[1]] + (y[2] - f[y[1]]) = y[2]
    BY <2>2, <2>3
  <2>5. <<y[1], y[2] - f[y[1]]>> \in Units(g)
    BY <2>1, <2>4, <1>3
  <2>6. move[<<y[1], y[2] - f[y[1]]>>] = y
    BY <2>1, <2>4, <2>5
  <2>7. QED
    BY <2>5, <2>6
<1>8. ASSUME NEW x \in Units(g), NEW y \in Units(g), move[x] = move[y] PROVE x = y
  <2>1. /\ x = <<x[1], x[2]>> /\ x[1] \in I /\ y = <<y[1], y[2]>> /\ y[1] \in I
    BY <1>4
  <2>2. x[2] \in 1 .. g[x[1]] /\ y[2] \in 1 .. g[y[1]]
    BY <2>1, <1>3
  <2>3. x[1] = y[1] /\ f[x[1]] + x[2] = f[y[1]] + y[2]
    BY <1>8
  <2>4. f[x[1]] \in Nat /\ g[x[1]] \in Nat
    BY <2>1
  <2>5. x[2] = y[2]
    BY <2>2, <2>3, <2>4
  <2>6. QED
    BY <2>1, <2>3, <2>5
<1>9. move \in Bijection(Units(g), rest)
  BY <1>6, <1>7, <1>8 DEF Bijection, Injection, Surjection, IsInjective
<1>10. IsFiniteSet(rest) /\ Cardinality(rest) = Cardinality(Units(g))
  BY <1>2, <1>9, FS_Bijection DEF ExistsBijection
<1>11. Units(h) = Units(f) \cup rest /\ Units(f) \cap rest = {}
  BY <1>5
<1>12. Cardinality(Units(h)) = Cardinality(Units(f)) + Cardinality(rest) - 0
  BY <1>2, <1>10, <1>11, FS_Union, FS_EmptySet
<1>13. Total(h) = Total(f) + Total(g)
  BY <1>2, <1>10, <1>12 DEF Total
<1>14. QED
  BY <1>13 DEF h

(* A function that alone reaches the total leaves nothing elsewhere. *)
LEMMA TotalInOnePlace ==
  ASSUME NEW I, IsFiniteSet(I), NEW f \in [I -> Nat], NEW i \in I, NEW j \in I,
         Total(f) <= f[i], i # j
  PROVE  Total(f) = f[i] /\ f[j] = 0
<1> DEFINE g == [f EXCEPT ![i] = 0]
<1>1. g \in [I -> Nat] /\ g[j] = f[j] /\ f[i] \in Nat /\ f[j] \in Nat
  OBVIOUS
<1>2. f[i] <= Total(f) /\ Total(g) = Total(f) - f[i] + 0 /\ Total(f) \in Nat
  <2>1. 0 \in Nat
    OBVIOUS
  <2>2. f[i] <= Total(f) /\ Total([f EXCEPT ![i] = 0]) = Total(f) - f[i] + 0
    BY <2>1, TotalUpdate
  <2>3. QED
    BY <2>2, TotalType DEF g
<1>3. g[j] <= Total(g)
  <2>1. Total([g EXCEPT ![j] = 0]) = Total(g) - g[j] + 0 /\ g[j] <= Total(g)
    BY <1>1, TotalUpdate
  <2>2. QED
    BY <2>1
<1>4. QED
  BY <1>1, <1>2, <1>3

(* Some of the values, or less of them, have no larger total. *)
LEMMA TotalSubset ==
  ASSUME NEW I, IsFiniteSet(I), NEW J, J \subseteq I,
         NEW f \in [I -> Nat], NEW g \in [J -> Nat], \A j \in J : g[j] <= f[j]
  PROVE  Total(g) <= Total(f)
<1> DEFINE h == [i \in I |-> IF i \in J THEN g[i] ELSE 0]
<1>1. h \in [I -> Nat] /\ \A i \in I : h[i] = IF i \in J THEN g[i] ELSE 0
  OBVIOUS
<1>2. \A i \in I : h[i] <= f[i]
  OBVIOUS
<1> HIDE DEF h
<1>3. Total(h) = Total(g)
  BY <1>1, TotalExtend
<1> QED BY <1>1, <1>2, <1>3, TotalMono

(* When one value falls by p and no other grows, the total falls by p. *)
LEMMA TotalDrop ==
  ASSUME NEW I, IsFiniteSet(I), NEW f \in [I -> Nat], NEW g \in [I -> Nat],
         NEW i \in I, NEW p \in Nat, g[i] + p <= f[i],
         \A j \in I : j # i => g[j] <= f[j]
  PROVE  Total(g) + p <= Total(f)
<1> DEFINE v == f[i] - p
           h == [f EXCEPT ![i] = v]
<1>1. v \in Nat /\ g[i] <= v
  OBVIOUS
<1>2. h \in [I -> Nat] /\ \A j \in I : g[j] <= h[j]
  BY <1>1
<1>3. Total(h) = Total(f) - f[i] + v /\ f[i] <= Total(f)
  BY <1>1, TotalUpdate
<1>4. Total(g) <= Total(h) /\ Total(g) \in Nat /\ Total(f) \in Nat
  BY <1>2, TotalMono, TotalType
<1> QED BY <1>3, <1>4
\* Totals of a multiple.
LEMMA TotalTimes ==
  ASSUME NEW I, IsFiniteSet(I), NEW f \in [I -> Nat], NEW g \in [I -> Nat],
         NEW a \in Nat, \A i \in I : g[i] = f[i] * a
  PROVE  Total(g) = Total(f) * a
<1>1. Total(f) \in Nat /\ Total(g) \in Nat
  BY TotalType
<1>2. CASE a = 0
  <2>1. \A i \in I : g[i] = 0
    BY <1>2
  <2>2. Total(g) = 0
    BY <2>1, TotalZero
  <2> QED BY <1>1, <1>2, <2>2
<1>3. CASE a # 0
  <2>1. \A i \in I : g[i] * 1 <= f[i] * a
    OBVIOUS
  <2>2. Total(g) * 1 <= Total(f) * a
    BY <1>3, <2>1, TotalScale
  <2>3. \A i \in I : f[i] * a <= g[i] * 1
    OBVIOUS
  <2>4. Total(f) * a <= Total(g) * 1
    BY <2>3, TotalScale
  <2>5. Total(f) * a \in Nat
    BY <1>1
  <2> HIDE DEF Total
  <2> QED BY <1>1, <2>2, <2>4, <2>5
<1> QED BY <1>2, <1>3
===============================================================================
