---------------------------- MODULE MerkleTheorems ----------------------------
(***************************************************************************)
(* Theorems about the trees of claims, for any lists: the contract accepts *)
(* nothing that is not on the list the root is of, with whichever proof,   *)
(* and everything that is on it, with the proof the scripts compute.       *)
(***************************************************************************)
EXTENDS Merkle, TotalsTheorems, SequenceTheorems

\* A list that a tree can be built of.
IsList(list) == IsFiniteSet(list) /\ list # {} /\ list \subseteq DOMAIN LeafHash

-------------------------------------------------------------------------------
(* Hashes *)

(* The hash of a pair tells the pair. *)
LEMMA PairHashInjective ==
  ASSUME NEW a \in Nat, NEW b \in Nat, NEW c \in Nat, NEW d \in Nat,
         PairHash(a, b) = PairHash(c, d)
  PROVE  a = c /\ b = d
<1>1. ASSUME NEW s \in Nat, NEW t \in Nat, s < t PROVE s * (s + 1) + 2 * s < t * (t + 1)
  <2>1. PICK k \in Nat : t = s + 1 + k
    <3>1. t - s - 1 \in Nat /\ t = s + 1 + (t - s - 1)
      BY <1>1
    <3> QED
      BY <3>1
  <2>2. t * (t + 1) = s * (s + 1) + 2 * s + 2 + k * (2 * s + 3 + k)
    BY <2>1
  <2>3. k * (2 * s + 3 + k) \in Nat
    OBVIOUS
  <2> QED
    BY <2>2, <2>3
<1> DEFINE s == a + b
           t == c + d
<1>2. s * (s + 1) + 2 * b = t * (t + 1) + 2 * d
  BY DEF PairHash
<1>3. s \in Nat /\ t \in Nat /\ b <= s /\ d <= t
  OBVIOUS
<1>4. s * (s + 1) \in Nat /\ t * (t + 1) \in Nat
  BY <1>3
<1> HIDE DEF s, t
<1>5. ~(s < t)
  <2>1. SUFFICES ASSUME s < t PROVE FALSE
    OBVIOUS
  <2>2. s * (s + 1) + 2 * s < t * (t + 1)
    BY <1>1, <1>3, <2>1
  <2> QED
    BY <1>2, <1>3, <1>4, <2>2
<1>6. ~(t < s)
  <2>1. SUFFICES ASSUME t < s PROVE FALSE
    OBVIOUS
  <2>2. t * (t + 1) + 2 * t < s * (s + 1)
    BY <1>1, <1>3, <2>1
  <2> QED
    BY <1>2, <1>3, <1>4, <2>2
<1>7. s = t
  BY <1>3, <1>5, <1>6
<1>8. b = d
  BY <1>2, <1>4, <1>7
<1> QED
  BY <1>7, <1>8 DEF s, t

(* It is odd, as no hash of a leaf is. *)
LEMMA PairHashOdd ==
  ASSUME NEW a \in Nat, NEW b \in Nat
  PROVE  PairHash(a, b) \in Nat /\ PairHash(a, b) % 2 = 1
<1> DEFINE s == a + b
<1>1. s \in Nat
  OBVIOUS
<1>2. PICK k \in Nat : s * (s + 1) = 2 * k
  <2>1. PICK m \in Nat : s = 2 * m \/ s = 2 * m + 1
    <3>1. s \div 2 \in Nat /\ (s = 2 * (s \div 2) \/ s = 2 * (s \div 2) + 1)
      BY <1>1
    <3> QED
      BY <3>1
  <2>2. CASE s = 2 * m
    <3>1. s * (s + 1) = 2 * (m * (2 * m + 1)) /\ m * (2 * m + 1) \in Nat
      BY <2>2
    <3> QED
      BY <3>1
  <2>3. CASE s = 2 * m + 1
    <3>1. s * (s + 1) = 2 * ((2 * m + 1) * (m + 1)) /\ (2 * m + 1) * (m + 1) \in Nat
      BY <2>3
    <3> QED
      BY <3>1
  <2> QED
    BY <2>1, <2>2, <2>3
<1>3. PairHash(a, b) = 2 * (k + b) + 1
  BY <1>2 DEF PairHash
<1> QED
  BY <1>3

LEMMA SortedPairHashes ==
  ASSUME NEW a \in Nat, NEW b \in Nat
  PROVE  /\ SortedPairHash(a, b) \in {PairHash(a, b), PairHash(b, a)}
         /\ Combined(a, b) \in {PairHash(a, b), PairHash(b, a)}
         /\ Combined(a, b) = SortedPairHash(a, b)
         /\ Combined(b, a) = SortedPairHash(a, b)
<1>1. a < b \/ b < a \/ a = b
  OBVIOUS
<1> QED
  BY <1>1 DEF SortedPairHash, Combined

-------------------------------------------------------------------------------
(* Levels *)

\* A sequence holds a number at every place.
LEMMA SequencePlaces ==
  ASSUME NEW S, NEW s \in Seq(S)
  PROVE  /\ Len(s) \in Nat /\ DOMAIN s = 1 .. Len(s)
         /\ \A i \in DOMAIN s : s[i] \in S
OBVIOUS

\* A function on the first n places is a sequence of length n.
LEMMA FunctionIsSequence ==
  ASSUME NEW n \in Nat, NEW S, NEW f \in [1 .. n -> S]
  PROVE  f \in Seq(S) /\ Len(f) = n
OBVIOUS

LEMMA AboveType ==
  ASSUME NEW level \in Seq(Nat)
  PROVE  /\ Above(level) \in Seq(Nat)
         /\ Len(Above(level)) = (Len(level) + 1) \div 2
         /\ \A i \in 1 .. (Len(level) + 1) \div 2 :
              Above(level)[i] = IF 2 * i > Len(level) THEN level[2 * i - 1]
                                ELSE SortedPairHash(level[2 * i - 1], level[2 * i])
<1> DEFINE n == (Len(level) + 1) \div 2
<1>1. Len(level) \in Nat /\ n \in Nat
  OBVIOUS
<1>2. ASSUME NEW i \in 1 .. n PROVE Above(level)[i] \in Nat
  <2>1. 2 * i - 1 \in 1 .. Len(level)
    BY <1>1
  <2>2. level[2 * i - 1] \in Nat
    BY <2>1, SequencePlaces
  <2>3. CASE 2 * i > Len(level)
    BY <2>2, <2>3 DEF Above
  <2>4. CASE ~(2 * i > Len(level))
    <3>1. 2 * i \in 1 .. Len(level)
      BY <2>4, <1>1
    <3>2. level[2 * i] \in Nat
      BY <3>1, SequencePlaces
    <3>3. SortedPairHash(level[2 * i - 1], level[2 * i]) \in Nat
      BY <2>2, <3>2, SortedPairHashes, PairHashOdd
    <3> QED
      BY <2>4, <3>3 DEF Above
  <2> QED
    BY <2>3, <2>4
<1>3. Above(level) \in [1 .. n -> Nat]
  BY <1>2 DEF Above
<1> HIDE DEF n
<1>4. Above(level) \in Seq(Nat) /\ Len(Above(level)) = n
  BY <1>1, <1>3, FunctionIsSequence
<1> QED
  BY <1>4 DEF Above, n

\* What is at a place of the level above.
LEMMA AbovePlaces ==
  ASSUME NEW level \in Seq(Nat), NEW i \in DOMAIN Above(level)
  PROVE  /\ i \in 1 .. (Len(level) + 1) \div 2
         /\ 2 * i - 1 \in DOMAIN level
         /\ 2 * i \notin DOMAIN level => Above(level)[i] = level[2 * i - 1]
         /\ 2 * i \in DOMAIN level =>
              Above(level)[i] = SortedPairHash(level[2 * i - 1], level[2 * i])
<1> DEFINE n == Len(level)
           above == Above(level)
<1>1. /\ n \in Nat /\ DOMAIN level = 1 .. n
      /\ above \in Seq(Nat) /\ Len(above) = (n + 1) \div 2
      /\ \A j \in 1 .. (n + 1) \div 2 :
           above[j] = IF 2 * j > n THEN level[2 * j - 1]
                      ELSE SortedPairHash(level[2 * j - 1], level[2 * j])
  <2>1. n \in Nat /\ DOMAIN level = 1 .. n
    BY SequencePlaces
  <2> QED
    BY <2>1, AboveType, Zenon
<1> HIDE DEF n, above
<1>2. i \in 1 .. (n + 1) \div 2
  BY <1>1 DEF above
<1>3. 2 * i - 1 \in 1 .. n
  BY <1>1, <1>2
<1>4. 2 * i \in 1 .. n <=> ~(2 * i > n)
  BY <1>1, <1>2
<1> QED
  BY <1>1, <1>2, <1>3, <1>4 DEF n, above

LEMMA LevelsUnfold ==
  ASSUME NEW list, SortedHashes(list) \in Seq(Nat)
  PROVE  /\ Levels(list)[0] = SortedHashes(list)
         /\ \A n \in Nat : /\ Levels(list)[n] \in Seq(Nat)
                           /\ Levels(list)[n + 1] = Above(Levels(list)[n])
<1> DEFINE X == Seq(Nat)
           first == SortedHashes(list)
           g == [p \in X \X Nat |-> Above(p[1])]
           Unfolds(f) == f = [n \in Nat |-> IF n = 0 THEN first ELSE Above(f[n - 1])]
<1>1. g \in StepFunctions(X)
  BY AboveType DEF StepFunctions
<1>2. PICK f : IsIteration(f, X, first, g)
  BY <1>1, IterationExists
<1>3. /\ f \in [Nat -> X] /\ f[0] = first
      /\ \A n \in Nat : f[n + 1] = Above(f[n])
  BY <1>2 DEF IsIteration
<1>4. Unfolds(f)
  <2>1. ASSUME NEW n \in Nat \ {0} PROVE f[n] = Above(f[n - 1])
    <3>1. n - 1 \in Nat /\ (n - 1) + 1 = n
      OBVIOUS
    <3> QED
      BY <1>3, <3>1
  <2> QED
    BY <1>3, <2>1
<1>5. Levels(list) = CHOOSE h : Unfolds(h)
  BY DEF Levels
<1> HIDE DEF Unfolds
<1>6. Unfolds(Levels(list))
  BY <1>4, <1>5
<1> DEFINE levels == Levels(list)
<1>7. /\ levels[0] = first
      /\ \A n \in Nat : levels[n + 1] = Above(levels[n])
  BY <1>6 DEF Unfolds
<1> DEFINE Good == {n \in Nat : levels[n] \in Seq(Nat)}
<1> HIDE DEF levels, first
<1>8. 0 \in Good
  BY <1>7 DEF first
<1>9. ASSUME NEW n \in Nat, n \in Good PROVE n + 1 \in Good
  <2>1. Above(levels[n]) \in Seq(Nat)
    BY <1>9, AboveType
  <2>2. levels[n + 1] \in Seq(Nat)
    BY <1>7, <2>1
  <2> QED
    BY <2>2
<1>10. \A n \in Nat : n \in Good
  BY <1>8, <1>9, SetInduction
<1> QED
  BY <1>7, <1>10 DEF levels, first

-------------------------------------------------------------------------------
(* The leaves *)

HashesOf(list) == {LeafHash[leaf] : leaf \in list}

LEMMA HashesOfList ==
  ASSUME NEW list, IsList(list)
  PROVE  /\ HashesOf(list) \subseteq Nat /\ HashesOf(list) # {}
         /\ \A h \in HashesOf(list) : h % 2 = 0
         /\ IsFiniteSet(HashesOf(list))
         /\ Cardinality(HashesOf(list)) \in Nat \ {0}
         /\ Cardinality(HashesOf(list)) <= Cardinality(list)
<1>1. /\ HashesOf(list) \subseteq Nat /\ HashesOf(list) # {}
      /\ \A h \in HashesOf(list) : h % 2 = 0
  BY LeafHashInjective DEF IsList, HashesOf
<1> DEFINE f == [leaf \in list |-> LeafHash[leaf]]
<1>2. f \in Surjection(list, HashesOf(list))
  BY DEF Surjection, HashesOf
<1>3. /\ IsFiniteSet(HashesOf(list))
      /\ Cardinality(HashesOf(list)) <= Cardinality(list)
  BY <1>2, FS_Surjection DEF IsList
<1>4. Cardinality(HashesOf(list)) \in Nat \ {0}
  BY <1>1, <1>3, FS_CardinalityType, FS_EmptySet
<1> QED
  BY <1>1, <1>3, <1>4

\* Functions that list a set of numbers in increasing order.
Orderings(S) ==
  {f \in [1 .. Cardinality(S) -> S] :
     \A i, j \in 1 .. Cardinality(S) : i < j => f[i] < f[j]}

(* A finite set of numbers can be listed in order: the place of a number is the
   number of those up to it. *)
LEMMA OrderingExists ==
  ASSUME NEW S, S \subseteq Nat, IsFiniteSet(S)
  PROVE  Orderings(S) # {}
<1> DEFINE n == Cardinality(S)
           UpTo(x) == {y \in S : y <= x}
           rank == [x \in S |-> Cardinality(UpTo(x))]
<1>1. n \in Nat
  BY FS_CardinalityType
<1>2. ASSUME NEW x \in S
      PROVE  /\ IsFiniteSet(UpTo(x)) /\ rank[x] \in 1 .. n
             /\ Cardinality(UpTo(x)) \in Nat
  <2>1. UpTo(x) \in SUBSET S
    OBVIOUS
  <2>2. IsFiniteSet(UpTo(x)) /\ Cardinality(UpTo(x)) <= n
    BY <2>1, FS_Subset
  <2>3. Cardinality(UpTo(x)) \in Nat
    BY <2>2, FS_CardinalityType
  <2>4. x \in UpTo(x)
    OBVIOUS
  <2>5. Cardinality(UpTo(x)) # 0
    BY <2>2, <2>4, FS_EmptySet
  <2> QED
    BY <1>1, <2>2, <2>3, <2>5
<1>3. ASSUME NEW x \in S, NEW y \in S, x < y PROVE rank[x] < rank[y]
  <2>1. UpTo(x) \in SUBSET UpTo(y)
    <3>1. \A z \in S : z <= x => z <= y
      BY <1>3
    <3> QED
      BY <3>1
  <2>2. y \in UpTo(y) /\ y \notin UpTo(x)
    BY <1>3
  <2>3. UpTo(x) # UpTo(y)
    BY <2>2, Zenon
  <2>4. /\ Cardinality(UpTo(x)) <= Cardinality(UpTo(y))
        /\ Cardinality(UpTo(x)) # Cardinality(UpTo(y))
    <3> HIDE DEF UpTo
    <3> QED
      BY <1>2, <2>1, <2>3, FS_Subset
  <2> QED
    BY <1>2, <2>4
<1> HIDE DEF rank
<1>4. rank \in Injection(S, 1 .. n)
  <2>1. rank \in [S -> 1 .. n]
    BY <1>2 DEF rank
  <2>2. ASSUME NEW x \in S, NEW y \in S, rank[x] = rank[y] PROVE x = y
    <3>1. x \in Nat /\ y \in Nat /\ rank[x] \in 1 .. n
      BY <2>1
    <3>2. ~(x < y) /\ ~(y < x)
      BY <1>3, <2>2, <3>1
    <3> QED
      BY <3>1, <3>2
  <2>3. \A x, y \in S : rank[x] = rank[y] => x = y
    BY <2>2
  <2> QED
    BY <2>1, <2>3 DEF Injection, IsInjective
<1>5. IsFiniteSet(1 .. n) /\ Cardinality(1 .. n) = n
  BY <1>1, FS_Interval
<1>6. rank \in Surjection(S, 1 .. n)
  BY <1>4, <1>5, FS_Injection
<1> DEFINE f == [i \in 1 .. n |-> CHOOSE x \in S : rank[x] = i]
<1>7. ASSUME NEW i \in 1 .. n PROVE f[i] \in S /\ rank[f[i]] = i
  BY <1>6 DEF Surjection
<1> HIDE DEF f
<1>8. ASSUME NEW i \in 1 .. n, NEW j \in 1 .. n, i < j PROVE f[i] < f[j]
  <2>1. /\ f[i] \in S /\ f[j] \in S /\ f[i] \in Nat /\ f[j] \in Nat
        /\ rank[f[i]] = i /\ rank[f[j]] = j
    BY <1>7
  <2>2. f[i] # f[j]
    BY <1>8, <2>1
  <2>3. ~(f[j] < f[i])
    BY <1>3, <1>8, <2>1
  <2> QED
    BY <2>1, <2>2, <2>3
<1>9. f \in [1 .. n -> S]
  BY <1>7 DEF f
<1>10. f \in Orderings(S)
  BY <1>8, <1>9 DEF Orderings
<1> QED
  BY <1>10

(* The first level holds each leaf's hash, and nothing else. *)
LEMMA FirstLevel ==
  ASSUME NEW list, IsList(list)
  PROVE  /\ SortedHashes(list) \in Seq(Nat)
         /\ Len(SortedHashes(list)) \in 1 .. Cardinality(list)
         /\ \A i \in DOMAIN SortedHashes(list) : SortedHashes(list)[i] \in HashesOf(list)
         /\ \A h \in HashesOf(list) :
              \E i \in DOMAIN SortedHashes(list) : SortedHashes(list)[i] = h
<1> DEFINE S == HashesOf(list)
           n == Cardinality(S)
           first == SortedHashes(list)
<1>1. /\ S \subseteq Nat /\ IsFiniteSet(S) /\ n \in Nat \ {0}
      /\ n <= Cardinality(list) /\ Cardinality(list) \in Nat
  BY HashesOfList, FS_CardinalityType DEF IsList
<1>2. first \in Orderings(S)
  <2>1. PICK f : f \in Orderings(S)
    BY <1>1, OrderingExists
  <2>2. /\ f \in [1 .. n -> S]
        /\ \A i, j \in DOMAIN f : i < j => f[i] < f[j]
    BY <2>1 DEF Orderings
  <2>3. /\ first \in [1 .. n -> S]
        /\ \A i, j \in DOMAIN first : i < j => first[i] < first[j]
    BY <2>2 DEF SortedHashes, HashesOf
  <2> QED
    BY <2>3 DEF Orderings
<1> HIDE DEF first, S
<1>3. first \in [1 .. n -> S] /\ first \in [1 .. n -> Nat]
  BY <1>1, <1>2 DEF Orderings
<1>4. first \in Injection(1 .. n, S)
  <2>1. ASSUME NEW i \in 1 .. n, NEW j \in 1 .. n, first[i] = first[j] PROVE i = j
    <3>1. ~(i < j) /\ ~(j < i)
      BY <1>2, <1>3, <2>1 DEF Orderings
    <3> QED
      BY <3>1
  <2>2. \A i, j \in 1 .. n : first[i] = first[j] => i = j
    BY <2>1
  <2> QED
    BY <1>3, <2>2 DEF Injection, IsInjective
<1>5. IsFiniteSet(1 .. n) /\ Cardinality(1 .. n) = n
  BY <1>1, FS_Interval
<1>6. first \in Surjection(1 .. n, S)
  BY <1>1, <1>4, <1>5, FS_Injection
<1>7. first \in Seq(Nat) /\ Len(first) = n
  BY <1>1, <1>3, FunctionIsSequence
<1>8. \A h \in S : \E i \in DOMAIN first : first[i] = h
  BY <1>3, <1>6 DEF Surjection
<1> QED
  BY <1>1, <1>3, <1>7, <1>8 DEF first, S

(* Levels are sequences of hashes, each half as long as the one below, rounded up;
   after as many levels as there are leaves only the root is left. *)
LEMMA LevelsOfList ==
  ASSUME NEW list, IsList(list)
  PROVE  /\ Levels(list)[0] = SortedHashes(list)
         /\ \A n \in Nat :
              /\ Levels(list)[n] \in Seq(Nat)
              /\ Len(Levels(list)[n]) \in Nat \ {0}
              /\ Levels(list)[n + 1] = Above(Levels(list)[n])
         /\ Len(Levels(list)[Cardinality(list)]) = 1
<1> DEFINE levels == Levels(list)
           c == Cardinality(list)
<1>1. /\ levels[0] = SortedHashes(list)
      /\ \A n \in Nat : levels[n] \in Seq(Nat) /\ levels[n + 1] = Above(levels[n])
  BY FirstLevel, LevelsUnfold
<1>2. Len(levels[0]) \in 1 .. c /\ c \in Nat
  BY <1>1, FirstLevel, FS_CardinalityType DEF IsList
<1> HIDE DEF levels, c
<1> DEFINE Good == {n \in Nat : /\ Len(levels[n]) \in Nat \ {0}
                                /\ Len(levels[n]) = 1 \/ Len(levels[n]) <= c - n}
<1>3. 0 \in Good
  BY <1>2
<1>4. ASSUME NEW n \in Nat, n \in Good PROVE n + 1 \in Good
  <2> DEFINE m == Len(levels[n])
             k == Len(levels[n + 1])
  <2>1. levels[n] \in Seq(Nat) /\ levels[n + 1] = Above(levels[n])
    BY <1>1
  <2>2. k = (m + 1) \div 2
    BY <2>1, AboveType
  <2>3. m \in Nat \ {0} /\ (m = 1 \/ m <= c - n)
    BY <1>4
  <2> HIDE DEF m, k
  <2>4. k \in Nat \ {0} /\ (k = 1 \/ k <= c - (n + 1))
    BY <1>2, <2>2, <2>3
  <2> QED
    BY <2>4 DEF k
<1> HIDE DEF Good
<1>5. \A n \in Nat : n \in Good
  BY <1>3, <1>4, SetInduction
<1>6. \A n \in Nat : Len(levels[n]) \in Nat \ {0}
  BY <1>5 DEF Good
<1>7. Len(levels[c]) = 1
  BY <1>2, <1>5 DEF Good
<1> QED
  BY <1>1, <1>6, <1>7 DEF levels, c

-------------------------------------------------------------------------------
(* What a proof shows *)

\* The hashes in the tree of a list.
Nodes(list) == UNION {{Levels(list)[n][i] : i \in DOMAIN Levels(list)[n]} : n \in Nat}

(* Every hash in the tree is a leaf's or that of two others in the tree. *)
LEMMA NodesFromNodes ==
  ASSUME NEW list, IsList(list)
  PROVE  /\ Nodes(list) \subseteq Nat
         /\ \A h \in Nodes(list) :
              \/ h \in HashesOf(list)
              \/ \E a, b \in Nodes(list) : h = SortedPairHash(a, b)
<1> DEFINE levels == Levels(list)
           Known(h) == \/ h \in HashesOf(list)
                       \/ \E a, b \in Nodes(list) : h = SortedPairHash(a, b)
           Good == {n \in Nat : \A i \in DOMAIN levels[n] : Known(levels[n][i])}
<1>1. /\ levels[0] = SortedHashes(list)
      /\ \A n \in Nat : levels[n] \in Seq(Nat) /\ levels[n + 1] = Above(levels[n])
  BY LevelsOfList
<1>2. ASSUME NEW n \in Nat, NEW i \in DOMAIN levels[n] PROVE levels[n][i] \in Nodes(list)
  BY DEF Nodes
<1> HIDE DEF levels
<1>3. 0 \in Good
  BY <1>1, FirstLevel
<1>4. ASSUME NEW n \in Nat, n \in Good PROVE n + 1 \in Good
  <2> DEFINE level == levels[n]
  <2>1. level \in Seq(Nat) /\ levels[n + 1] = Above(level)
    BY <1>1
  <2>2. ASSUME NEW i \in DOMAIN levels[n + 1] PROVE Known(levels[n + 1][i])
    <3>1. i \in DOMAIN Above(level)
      BY <2>1, <2>2
    <3> HIDE DEF level
    <3>2. /\ 2 * i - 1 \in DOMAIN level
          /\ 2 * i \notin DOMAIN level => Above(level)[i] = level[2 * i - 1]
          /\ 2 * i \in DOMAIN level =>
               Above(level)[i] = SortedPairHash(level[2 * i - 1], level[2 * i])
      BY <2>1, <3>1, AbovePlaces
    <3>3. CASE 2 * i \notin DOMAIN level
      BY <1>4, <2>1, <3>2, <3>3 DEF level
    <3>4. CASE 2 * i \in DOMAIN level
      <4>1. level[2 * i - 1] \in Nodes(list) /\ level[2 * i] \in Nodes(list)
        BY <1>2, <3>2, <3>4 DEF level
      <4> QED
        BY <2>1, <3>2, <3>4, <4>1
    <3> QED
      BY <3>3, <3>4
  <2> QED
    BY <2>2
<1>5. \A n \in Nat : n \in Good
  <2> HIDE DEF Good
  <2> QED
    BY <1>3, <1>4, SetInduction
<1>6. ASSUME NEW h \in Nodes(list) PROVE h \in Nat /\ Known(h)
  <2>1. PICK n \in Nat : \E i \in DOMAIN levels[n] : h = levels[n][i]
    BY <1>6 DEF Nodes, levels
  <2>2. PICK i \in DOMAIN levels[n] : h = levels[n][i]
    BY <2>1
  <2>3. levels[n] \in Seq(Nat) /\ Known(levels[n][i])
    BY <1>1, <1>5
  <2> QED
    BY <2>2, <2>3
<1> QED
  BY <1>6

(* A hash that combined with another gives one in the tree is in the tree. *)
LEMMA PartInTree ==
  ASSUME NEW list, IsList(list), NEW h \in Nat, NEW s \in Nat,
         Combined(h, s) \in Nodes(list)
  PROVE  h \in Nodes(list)
<1>1. Combined(h, s) \in {PairHash(h, s), PairHash(s, h)}
  BY SortedPairHashes
<1>2. Combined(h, s) % 2 = 1
  BY <1>1, PairHashOdd
<1>3. Combined(h, s) \notin HashesOf(list)
  <2>1. 0 # 1
    OBVIOUS
  <2> QED
    BY <1>2, <2>1, HashesOfList
<1>4. PICK a, b \in Nodes(list) : Combined(h, s) = SortedPairHash(a, b)
  BY <1>3, NodesFromNodes
<1>5. a \in Nat /\ b \in Nat
  BY NodesFromNodes
<1>6. Combined(h, s) \in {PairHash(a, b), PairHash(b, a)}
  BY <1>4, <1>5, SortedPairHashes
<1>7. h = a \/ h = b
  <2>1. CASE Combined(h, s) = PairHash(h, s)
    BY <1>5, <1>6, <2>1, PairHashInjective
  <2>2. CASE Combined(h, s) = PairHash(s, h)
    BY <1>5, <1>6, <2>2, PairHashInjective
  <2> QED
    BY <1>1, <2>1, <2>2
<1> QED
  BY <1>7

LEMMA HashesUnfold ==
  ASSUME NEW leaf \in DOMAIN LeafHash, NEW proof \in Seq(Nat)
  PROVE  LET hash == HashesOnTheWay(leaf, proof) IN
         /\ hash \in [0 .. Len(proof) -> Nat]
         /\ hash[0] = LeafHash[leaf]
         /\ \A k \in Nat : k < Len(proof) => hash[k + 1] = Combined(hash[k], proof[k + 1])
<1> DEFINE n == Len(proof)
           first == LeafHash[leaf]
           g == [p \in Nat \X Nat |-> IF p[2] < n THEN Combined(p[1], proof[p[2] + 1]) ELSE 0]
           Unfolds(f) ==
             f = [k \in 0 .. n |-> IF k = 0 THEN first ELSE Combined(f[k - 1], proof[k])]
<1>1. n \in Nat /\ first \in Nat
  BY LeafHashInjective
<1>2. ASSUME NEW h \in Nat, NEW k \in Nat, k < n PROVE Combined(h, proof[k + 1]) \in Nat
  <2>1. k + 1 \in 1 .. n
    BY <1>1, <1>2
  <2>2. proof[k + 1] \in Nat
    BY <2>1, ElementOfSeq
  <2> QED
    BY <2>2, SortedPairHashes, PairHashOdd
<1>3. g \in [Nat \X Nat -> Nat]
  BY <1>2
<1>4. PICK f : f \in Beginnings(Nat, first, g, n)
  <2> HIDE DEF g, n, first
  <2> QED
    BY <1>1, <1>3, BeginningsExist
<1>5. /\ f \in [0 .. n -> Nat] /\ f[0] = first
      /\ \A k \in Nat : k < n => f[k + 1] = g[<<f[k], k>>]
  BY <1>4 DEF Beginnings
<1>6. ASSUME NEW k \in Nat, k < n PROVE f[k + 1] = Combined(f[k], proof[k + 1])
  <2>1. k \in 0 .. n
    BY <1>1, <1>6
  <2>2. f[k] \in Nat
    BY <1>5, <2>1
  <2> QED
    BY <1>5, <1>6, <2>2
<1>7. Unfolds(f)
  <2>1. ASSUME NEW k \in 0 .. n, k # 0 PROVE f[k] = Combined(f[k - 1], proof[k])
    <3>1. k - 1 \in Nat /\ k - 1 < n /\ (k - 1) + 1 = k
      BY <1>1, <2>1
    <3> QED
      BY <1>6, <3>1
  <2> HIDE DEF n, first
  <2> QED
    BY <1>5, <2>1
<1> DEFINE hash == HashesOnTheWay(leaf, proof)
<1>8. hash = CHOOSE h : Unfolds(h)
  BY DEF HashesOnTheWay
<1> HIDE DEF Unfolds, hash
<1>9. Unfolds(hash)
  BY <1>7, <1>8
<1>10. /\ DOMAIN hash = 0 .. n /\ hash[0] = first
       /\ \A k \in 1 .. n : hash[k] = Combined(hash[k - 1], proof[k])
  BY <1>1, <1>9 DEF Unfolds
<1>11. ASSUME NEW k \in Nat, k < n PROVE hash[k + 1] = Combined(hash[k], proof[k + 1])
  <2>1. k + 1 \in 1 .. n /\ (k + 1) - 1 = k
    BY <1>1, <1>11
  <2> QED
    BY <1>10, <2>1
<1> DEFINE Good == {k \in Nat : k <= n => hash[k] \in Nat}
<1> HIDE DEF n, first
<1>12. 0 \in Good
  BY <1>1, <1>10
<1>13. ASSUME NEW k \in Nat, k \in Good PROVE k + 1 \in Good
  BY <1>1, <1>2, <1>11, <1>13
<1>14. \A k \in Nat : k \in Good
  <2> HIDE DEF Good
  <2> QED
    BY <1>12, <1>13, SetInduction
<1>15. hash \in [0 .. n -> Nat]
  <2>1. \A k \in 0 .. n : hash[k] \in Nat
    BY <1>1, <1>14
  <2>2. hash = [k \in 0 .. n |-> hash[k]]
    BY <1>9 DEF Unfolds
  <2> QED
    BY <2>1, <2>2
<1> QED
  BY <1>10, <1>11, <1>15 DEF hash, n, first

(* With whichever proof, the contract accepts against the root of a list only what
   is on the list. *)
THEOREM OnlyLeavesVerify ==
  ASSUME NEW list, IsList(list), NEW leaf \in DOMAIN LeafHash, NEW proof \in Seq(Nat),
         VerifyClaim(leaf, proof, TreeRoot(list))
  PROVE  leaf \in list
<1> DEFINE hash == HashesOnTheWay(leaf, proof)
           n == Len(proof)
           c == Cardinality(list)
<1>1. /\ n \in Nat /\ hash \in [0 .. n -> Nat] /\ hash[0] = LeafHash[leaf]
      /\ \A k \in Nat : k < n => hash[k + 1] = Combined(hash[k], proof[k + 1])
  BY HashesUnfold
<1>2. hash[n] \in Nodes(list)
  <2>1. hash[n] = Levels(list)[c][1]
    BY DEF VerifyClaim, ComputedRoot, TreeRoot
  <2>2. /\ c \in Nat
        /\ Levels(list)[c] \in Seq(Nat) /\ Len(Levels(list)[c]) = 1
    BY LevelsOfList, FS_CardinalityType DEF IsList
  <2>3. 1 \in DOMAIN Levels(list)[c]
    BY <2>2
  <2> QED
    BY <2>1, <2>2, <2>3 DEF Nodes
<1> DEFINE Good == {k \in Nat : k <= n => hash[n - k] \in Nodes(list)}
<1> HIDE DEF hash, n
<1>3. 0 \in Good
  BY <1>1, <1>2
<1>4. ASSUME NEW k \in Nat, k \in Good PROVE k + 1 \in Good
  <2>1. SUFFICES ASSUME k + 1 <= n PROVE hash[n - (k + 1)] \in Nodes(list)
    OBVIOUS
  <2> DEFINE m == n - (k + 1)
  <2>2. m \in Nat /\ m < n /\ m + 1 = n - k /\ m \in 0 .. n /\ m + 1 \in 1 .. n
    BY <1>1, <2>1
  <2>3. hash[m + 1] \in Nodes(list)
    BY <1>1, <1>4, <2>1, <2>2
  <2> HIDE DEF m
  <2>4. hash[m] \in Nat /\ proof[m + 1] \in Nat
    <3>1. proof[m + 1] \in Nat
      BY <2>2, ElementOfSeq DEF n
    <3> QED
      BY <1>1, <2>2, <3>1
  <2>5. Combined(hash[m], proof[m + 1]) \in Nodes(list)
    BY <1>1, <2>2, <2>3
  <2> QED
    BY <2>4, <2>5, PartInTree DEF m
<1>5. \A k \in Nat : k \in Good
  <2> HIDE DEF Good
  <2> QED
    BY <1>3, <1>4, SetInduction
<1>6. LeafHash[leaf] \in Nodes(list)
  <2>1. n \in Good
    BY <1>1, <1>5, Zenon
  <2>2. n <= n /\ n - n = 0
    BY <1>1
  <2> QED
    BY <1>1, <2>1, <2>2
<1>7. LeafHash[leaf] \in HashesOf(list)
  <2>1. SUFFICES ASSUME NEW a \in Nodes(list), NEW b \in Nodes(list),
                        LeafHash[leaf] = SortedPairHash(a, b)
                 PROVE  FALSE
    BY <1>6, NodesFromNodes
  <2>2. a \in Nat /\ b \in Nat
    BY NodesFromNodes
  <2>3. LeafHash[leaf] % 2 = 1
    <3>1. LeafHash[leaf] \in {PairHash(a, b), PairHash(b, a)}
      BY <2>1, <2>2, SortedPairHashes
    <3> QED
      BY <2>2, <3>1, PairHashOdd
  <2>4. LeafHash[leaf] % 2 = 0
    BY LeafHashInjective
  <2> QED
    BY <2>3, <2>4
<1>8. PICK other \in list : LeafHash[other] = LeafHash[leaf]
  BY <1>7 DEF HashesOf
<1> QED
  BY <1>8, LeafHashInjective DEF IsList

-------------------------------------------------------------------------------
(* The proofs handed out *)

(* Halving, rounded up. *)
LEMMA Halved ==
  ASSUME NEW i \in Nat
  PROVE  /\ (i + 1) \div 2 \in Nat
         /\ i % 2 = 0 => 2 * ((i + 1) \div 2) = i
         /\ i % 2 # 0 => 2 * ((i + 1) \div 2) = i + 1
<1>1. CASE i % 2 = 0
  <2>1. PICK q \in Nat : i = 2 * q
    <3>1. i \div 2 \in Nat /\ i = 2 * (i \div 2)
      BY <1>1
    <3> QED
      BY <3>1
  <2>2. (i + 1) \div 2 = q
    BY <2>1
  <2> QED
    BY <1>1, <2>1, <2>2
<1>2. CASE i % 2 # 0
  <2>1. PICK q \in Nat : i = 2 * q + 1
    <3>1. i \div 2 \in Nat /\ i = 2 * (i \div 2) + 1
      BY <1>2
    <3> QED
      BY <3>1
  <2>2. (i + 1) \div 2 = q + 1
    BY <2>1
  <2> QED
    BY <1>2, <2>1, <2>2
<1> QED
  BY <1>1, <1>2

LEMMA HalvedInRange ==
  ASSUME NEW n \in Nat, NEW i \in 1 .. n
  PROVE  (i + 1) \div 2 \in 1 .. (n + 1) \div 2
<1> DEFINE q == (i + 1) \div 2
           r == (n + 1) \div 2
<1>1. /\ i \in Nat /\ 1 <= i /\ i <= n
      /\ q \in Nat /\ (2 * q = i \/ 2 * q = i + 1)
      /\ r \in Nat /\ (2 * r = n \/ 2 * r = n + 1)
  BY Halved
<1> HIDE DEF q, r
<1>2. 1 <= q /\ q <= r
  BY <1>1
<1>3. q \in 1 .. r
  BY <1>1, <1>2
<1> QED
  BY <1>3 DEF q, r

(* Next to a node is the one it is paired with, from either side; a node without a
   neighbour is in the level above as it is. *)
LEMMA NodeAbove ==
  ASSUME NEW level \in Seq(Nat), NEW i \in DOMAIN level
  PROVE  /\ (i + 1) \div 2 \in DOMAIN Above(level)
         /\ Above(level)[(i + 1) \div 2] =
              IF Neighbour(i) \in DOMAIN level THEN Combined(level[i], level[Neighbour(i)])
              ELSE level[i]
<1> DEFINE n == Len(level)
           j == (i + 1) \div 2
<1>1. n \in Nat /\ DOMAIN level = 1 .. n /\ DOMAIN Above(level) = 1 .. (n + 1) \div 2
  BY AboveType
<1>2. j \in 1 .. (n + 1) \div 2
  <2>1. i \in 1 .. n
    BY <1>1
  <2> HIDE DEF n
  <2> QED
    BY <1>1, <2>1, HalvedInRange
<1>3. /\ 2 * j \notin DOMAIN level => Above(level)[j] = level[2 * j - 1]
      /\ 2 * j \in DOMAIN level =>
           Above(level)[j] = SortedPairHash(level[2 * j - 1], level[2 * j])
  BY <1>1, <1>2, AbovePlaces
<1>4. i \in 1 .. n /\ i \in Nat
  BY <1>1
<1>5. CASE i % 2 = 0
  <2>1. 2 * j = i /\ 2 * j - 1 = i - 1 /\ i - 1 \in 1 .. n /\ Neighbour(i) = i - 1
    <3>1. 2 * j = i /\ j \in Nat
      BY <1>4, <1>5, Halved
    <3>2. Neighbour(i) = i - 1
      BY <1>5 DEF Neighbour
    <3> HIDE DEF j
    <3>3. 1 <= j /\ i \in Nat /\ 1 <= i /\ i <= n
      BY <1>4, <3>1
    <3>4. i - 1 \in Nat /\ 1 <= i - 1 /\ i - 1 <= n
      BY <1>1, <3>1, <3>3
    <3>5. i - 1 \in 1 .. n
      BY <1>1, <3>4
    <3> QED
      BY <3>1, <3>2, <3>3, <3>5
  <2>2. level[i - 1] \in Nat /\ level[i] \in Nat
    BY <1>4, <2>1, ElementOfSeq
  <2>3. Combined(level[i], level[i - 1]) = SortedPairHash(level[i - 1], level[i])
    BY <2>2, SortedPairHashes
  <2> QED
    BY <1>1, <1>2, <1>3, <2>1, <2>3
<1>6. CASE i % 2 # 0
  <2>1. 2 * j = i + 1 /\ 2 * j - 1 = i /\ Neighbour(i) = i + 1
    <3>1. 2 * j = i + 1 /\ j \in Nat
      BY <1>4, <1>6, Halved
    <3>2. Neighbour(i) = i + 1
      BY <1>6 DEF Neighbour
    <3> HIDE DEF j, n
    <3> QED
      BY <1>4, <3>1, <3>2
  <2>2. CASE i + 1 \in DOMAIN level
    <3>1. level[i + 1] \in Nat /\ level[i] \in Nat
      BY <1>1, <1>4, <2>2, ElementOfSeq
    <3>2. Combined(level[i], level[i + 1]) = SortedPairHash(level[i], level[i + 1])
      BY <3>1, SortedPairHashes
    <3> QED
      BY <1>1, <1>2, <1>3, <2>1, <2>2, <3>2
  <2>3. CASE i + 1 \notin DOMAIN level
    BY <1>1, <1>2, <1>3, <2>1, <2>3
  <2> QED
    BY <2>2, <2>3
<1> QED
  BY <1>5, <1>6

LEMMA SiblingsType ==
  ASSUME NEW level \in Seq(Nat), NEW i
  PROVE  Siblings(level, i) \in Seq(Nat)
<1>1. CASE Neighbour(i) \in DOMAIN level
  <2>1. level[Neighbour(i)] \in Nat
    BY <1>1, SequencePlaces
  <2> QED
    BY <1>1, <2>1 DEF Siblings
<1>2. CASE Neighbour(i) \notin DOMAIN level
  BY <1>2 DEF Siblings
<1> QED
  BY <1>1, <1>2

LEMMA PlacesUnfold ==
  ASSUME NEW list, IsList(list), NEW leaf \in list
  PROVE  LET place == Places(list, leaf) IN
         /\ place[0] \in DOMAIN Levels(list)[0]
         /\ Levels(list)[0][place[0]] = LeafHash[leaf]
         /\ \A n \in Nat : place[n + 1] = (place[n] + 1) \div 2
<1> DEFINE level == Levels(list)[0]
           first == CHOOSE i \in DOMAIN level : level[i] = LeafHash[leaf]
           g == [p \in Nat \X Nat |-> (p[1] + 1) \div 2]
           Unfolds(f) == f = [n \in Nat |-> IF n = 0 THEN first ELSE (f[n - 1] + 1) \div 2]
<1>1. level \in Seq(Nat) /\ level = SortedHashes(list)
  BY LevelsOfList
<1>2. \E i \in DOMAIN level : level[i] = LeafHash[leaf]
  <2>1. LeafHash[leaf] \in HashesOf(list)
    BY DEF HashesOf
  <2> QED
    BY <1>1, <2>1, FirstLevel
<1> HIDE DEF level
<1>3. first \in DOMAIN level /\ level[first] = LeafHash[leaf]
  BY <1>2
<1>4. first \in Nat
  BY <1>1, <1>3
<1> HIDE DEF first
<1>5. g \in StepFunctions(Nat)
  BY DEF StepFunctions
<1>6. PICK f : IsIteration(f, Nat, first, g)
  BY <1>4, <1>5, IterationExists
<1>7. /\ f \in [Nat -> Nat] /\ f[0] = first
      /\ \A n \in Nat : f[n + 1] = (f[n] + 1) \div 2
  BY <1>6 DEF IsIteration
<1>8. Unfolds(f)
  <2>1. ASSUME NEW n \in Nat \ {0} PROVE f[n] = (f[n - 1] + 1) \div 2
    <3>1. n - 1 \in Nat /\ (n - 1) + 1 = n
      OBVIOUS
    <3> QED
      BY <1>7, <3>1
  <2> QED
    BY <1>7, <2>1
<1> DEFINE place == Places(list, leaf)
<1>9. place = CHOOSE h : Unfolds(h)
  BY DEF Places, first, level
<1> HIDE DEF Unfolds, place
<1>10. Unfolds(place)
  BY <1>8, <1>9
<1>11. place[0] = first /\ \A n \in Nat : place[n + 1] = (place[n] + 1) \div 2
  BY <1>10 DEF Unfolds
<1> QED
  BY <1>3, <1>11 DEF place, level

LEMMA PathsUnfold ==
  ASSUME NEW list, IsList(list), NEW leaf
  PROVE  LET path == Paths(list, leaf) IN
         /\ path[0] = <<>>
         /\ \A n \in Nat :
              /\ path[n] \in Seq(Nat)
              /\ path[n + 1] = path[n] \o Siblings(Levels(list)[n], Places(list, leaf)[n])
<1> DEFINE X == Seq(Nat)
           more == [n \in Nat |-> Siblings(Levels(list)[n], Places(list, leaf)[n])]
           g == [p \in X \X Nat |-> p[1] \o more[p[2]]]
           Unfolds(f) == f = [n \in Nat |-> IF n = 0 THEN <<>>
                              ELSE f[n - 1] \o Siblings(Levels(list)[n - 1],
                                                        Places(list, leaf)[n - 1])]
<1>1. more \in [Nat -> X]
  BY LevelsOfList, SiblingsType
<1>2. \A n \in Nat : more[n] = Siblings(Levels(list)[n], Places(list, leaf)[n])
  OBVIOUS
<1> HIDE DEF more
<1>3. g \in StepFunctions(X)
  <2>1. ASSUME NEW p \in X \X Nat PROVE p[1] \o more[p[2]] \in X
    <3>1. p[1] \in X /\ more[p[2]] \in X
      BY <1>1
    <3> QED
      BY <3>1, ConcatProperties
  <2>2. g \in [X \X Nat -> X]
    BY <2>1
  <2> QED
    BY <2>2 DEF StepFunctions
<1>4. <<>> \in X
  OBVIOUS
<1>5. PICK f : IsIteration(f, X, <<>>, g)
  <2> HIDE DEF X, g
  <2> QED
    BY <1>3, <1>4, IterationExists
<1>6. /\ f \in [Nat -> X] /\ f[0] = <<>>
      /\ \A n \in Nat : f[n + 1] = f[n] \o more[n]
  BY <1>5 DEF IsIteration
<1>7. Unfolds(f)
  <2>1. ASSUME NEW n \in Nat \ {0}
        PROVE  f[n] = f[n - 1] \o Siblings(Levels(list)[n - 1], Places(list, leaf)[n - 1])
    <3>1. n - 1 \in Nat /\ (n - 1) + 1 = n
      OBVIOUS
    <3>2. f[n] = f[n - 1] \o more[n - 1]
      BY <1>6, <3>1
    <3> QED
      BY <1>2, <3>1, <3>2
  <2> QED
    BY <1>6, <2>1
<1> DEFINE path == Paths(list, leaf)
<1>8. path = CHOOSE h : Unfolds(h)
  BY DEF Paths
<1> HIDE DEF Unfolds, path
<1>9. Unfolds(path)
  BY <1>7, <1>8
<1>10. path[0] = <<>>
  BY <1>9 DEF Unfolds
<1>11. ASSUME NEW n \in Nat PROVE path[n + 1] = path[n] \o more[n]
  <2>1. n + 1 \in Nat /\ n + 1 # 0 /\ (n + 1) - 1 = n
    OBVIOUS
  <2>2. path[n + 1] = path[n] \o Siblings(Levels(list)[n], Places(list, leaf)[n])
    BY <1>9, <2>1 DEF Unfolds
  <2> QED
    BY <1>2, <2>2
<1> DEFINE Good == {n \in Nat : path[n] \in X}
<1>12. 0 \in Good
  BY <1>4, <1>10
<1>13. ASSUME NEW n \in Nat, n \in Good PROVE n + 1 \in Good
  <2>1. path[n] \in X /\ more[n] \in X
    BY <1>1, <1>13
  <2>2. path[n] \o more[n] \in X
    BY <2>1, ConcatProperties
  <2>3. path[n + 1] \in X
    BY <1>11, <2>2
  <2> QED
    BY <2>3
<1>14. \A n \in Nat : n \in Good
  <2> HIDE DEF Good
  <2> QED
    BY <1>12, <1>13, SetInduction
<1> QED
  BY <1>2, <1>10, <1>11, <1>14 DEF path

(* One more hash at the end of a proof is one more step of the loop. *)
LEMMA ProofExtended ==
  ASSUME NEW leaf \in DOMAIN LeafHash, NEW proof \in Seq(Nat), NEW s \in Nat
  PROVE  ComputedRoot(leaf, proof \o <<s>>) = Combined(ComputedRoot(leaf, proof), s)
<1> DEFINE longer == proof \o <<s>>
           n == Len(proof)
           f == HashesOnTheWay(leaf, proof)
           h == HashesOnTheWay(leaf, longer)
<1>1. /\ longer \in Seq(Nat) /\ Len(longer) = n + 1 /\ n \in Nat
      /\ longer[n + 1] = s /\ \A k \in 1 .. n : longer[k] = proof[k]
  OBVIOUS
<1> HIDE DEF longer, n
<1>2. /\ f[0] = LeafHash[leaf] /\ h[0] = LeafHash[leaf]
      /\ \A k \in Nat : k < n => f[k + 1] = Combined(f[k], proof[k + 1])
      /\ \A k \in Nat : k < n + 1 => h[k + 1] = Combined(h[k], longer[k + 1])
  BY <1>1, HashesUnfold DEF n
<1> HIDE DEF f, h
<1> DEFINE Good == {k \in Nat : k <= n => h[k] = f[k]}
<1>3. 0 \in Good
  BY <1>2
<1>4. ASSUME NEW k \in Nat, k \in Good PROVE k + 1 \in Good
  <2>1. SUFFICES ASSUME k + 1 <= n PROVE h[k + 1] = f[k + 1]
    OBVIOUS
  <2>2. k < n /\ k < n + 1 /\ k + 1 \in 1 .. n
    BY <1>1, <2>1
  <2>3. h[k] = f[k]
    BY <1>1, <1>4, <2>2
  <2> QED
    BY <1>1, <1>2, <2>2, <2>3
<1>5. \A k \in Nat : k \in Good
  <2> HIDE DEF Good
  <2> QED
    BY <1>3, <1>4, SetInduction
<1>6. h[n] = f[n]
  <2>1. n \in Good
    BY <1>1, <1>5, Zenon
  <2> QED
    BY <1>1, <2>1
<1>7. h[n + 1] = Combined(f[n], s)
  BY <1>1, <1>2, <1>6
<1> QED
  BY <1>1, <1>7 DEF ComputedRoot, longer, n, f, h

(* The contract accepts what is on a list with the proof the scripts compute. *)
THEOREM MerkleProofsVerify ==
  ASSUME NEW list, IsList(list), NEW leaf \in list
  PROVE  /\ MerkleProof(list, leaf) \in Seq(Nat)
         /\ VerifyClaim(leaf, MerkleProof(list, leaf), TreeRoot(list))
<1> DEFINE levels == Levels(list)
           place == Places(list, leaf)
           path == Paths(list, leaf)
           c == Cardinality(list)
<1>1. /\ leaf \in DOMAIN LeafHash /\ c \in Nat
  BY FS_CardinalityType DEF IsList
<1>2. /\ \A n \in Nat : levels[n] \in Seq(Nat) /\ levels[n + 1] = Above(levels[n])
      /\ Len(levels[c]) = 1
  BY LevelsOfList
<1>3. /\ place[0] \in DOMAIN levels[0] /\ levels[0][place[0]] = LeafHash[leaf]
      /\ \A n \in Nat : place[n + 1] = (place[n] + 1) \div 2
  BY PlacesUnfold
<1>4. /\ path[0] = <<>>
      /\ \A n \in Nat : path[n] \in Seq(Nat) /\ path[n + 1] = path[n] \o Siblings(levels[n], place[n])
  BY PathsUnfold
<1> DEFINE Good == {n \in Nat : /\ place[n] \in DOMAIN levels[n]
                                /\ ComputedRoot(leaf, path[n]) = levels[n][place[n]]}
<1> HIDE DEF levels, place, path, c
<1>5. 0 \in Good
  <2>1. HashesOnTheWay(leaf, <<>>)[0] = LeafHash[leaf]
    BY <1>1, <1>4, HashesUnfold
  <2>2. ComputedRoot(leaf, path[0]) = LeafHash[leaf]
    BY <1>4, <2>1 DEF ComputedRoot
  <2> QED
    BY <1>3, <2>2
<1>6. ASSUME NEW n \in Nat, n \in Good PROVE n + 1 \in Good
  <2> DEFINE level == levels[n]
             i == place[n]
             p == path[n]
  <2>1. /\ level \in Seq(Nat) /\ levels[n + 1] = Above(level)
        /\ i \in DOMAIN level /\ place[n + 1] = (i + 1) \div 2
        /\ p \in Seq(Nat) /\ path[n + 1] = p \o Siblings(level, i)
        /\ ComputedRoot(leaf, p) = level[i]
    BY <1>2, <1>3, <1>4, <1>6
  <2> HIDE DEF level, i, p
  <2>2. /\ place[n + 1] \in DOMAIN levels[n + 1]
        /\ levels[n + 1][place[n + 1]] =
             IF Neighbour(i) \in DOMAIN level THEN Combined(level[i], level[Neighbour(i)])
             ELSE level[i]
    BY <2>1, NodeAbove
  <2>3. ComputedRoot(leaf, path[n + 1]) = levels[n + 1][place[n + 1]]
    <3>1. CASE Neighbour(i) \in DOMAIN level
      <4>1. level[Neighbour(i)] \in Nat /\ path[n + 1] = p \o <<level[Neighbour(i)]>>
        BY <2>1, <3>1, SequencePlaces DEF Siblings
      <4> QED
        BY <1>1, <2>1, <2>2, <3>1, <4>1, ProofExtended
    <3>2. CASE Neighbour(i) \notin DOMAIN level
      <4>1. path[n + 1] = p \o <<>>
        BY <2>1, <3>2 DEF Siblings
      <4>2. path[n + 1] = p
        BY <2>1, <4>1, ConcatEmptySeq
      <4> QED
        BY <2>1, <2>2, <3>2, <4>2
    <3> QED
      BY <3>1, <3>2
  <2> QED
    BY <2>2, <2>3
<1>7. \A n \in Nat : n \in Good
  <2> HIDE DEF Good
  <2> QED
    BY <1>5, <1>6, SetInduction
<1>8. /\ place[c] \in DOMAIN levels[c]
      /\ ComputedRoot(leaf, path[c]) = levels[c][place[c]]
  <2>1. c \in Good
    BY <1>1, <1>7, Zenon
  <2> QED
    BY <2>1
<1>9. place[c] = 1
  <2>1. levels[c] \in Seq(Nat)
    BY <1>1, <1>2
  <2>2. DOMAIN levels[c] = 1 .. Len(levels[c])
    BY <2>1, LenProperties
  <2>3. place[c] \in 1 .. 1
    BY <1>2, <1>8, <2>2
  <2> QED
    BY <2>3
<1>10. ComputedRoot(leaf, path[c]) = levels[c][1]
  BY <1>8, <1>9
<1>11. path[c] \in Seq(Nat)
  BY <1>1, <1>4
<1> QED
  BY <1>10, <1>11 DEF MerkleProof, VerifyClaim, TreeRoot, levels, path, c
===============================================================================
