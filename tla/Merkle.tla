-------------------------------- MODULE Merkle --------------------------------
(***************************************************************************)
(* The lists of who may claim how much of the airdrop.  The contract knows *)
(* of a list the root of a Merkle tree only; the scripts build the tree    *)
(* and the proofs, the contract folds a proof over the hash of a leaf.     *)
(*                                                                         *)
(* A leaf is a pair <<account, amount>>.  Hashes are numbers, which the    *)
(* contract compares as it compares their hexadecimal digits.  LeafHash    *)
(* and PairHash stand for Keccak: one is given for the leaves there are,   *)
(* the other is injective and odd where the hashes of leaves are even.     *)
(***************************************************************************)
EXTENDS Integers, FiniteSets, Sequences

CONSTANT LeafHash   \* the hash of each leaf

ASSUME LeafHashInjective ==
  /\ \A leaf \in DOMAIN LeafHash :
       LeafHash[leaf] \in Nat /\ LeafHash[leaf] % 2 = 0
  /\ \A leaf1, leaf2 \in DOMAIN LeafHash :
       LeafHash[leaf1] = LeafHash[leaf2] => leaf1 = leaf2

PairHash(a, b) == (a + b) * (a + b + 1) + 2 * b + 1

-------------------------------------------------------------------------------
(* The tree *)

SortedPairHash(a, b) == IF a < b THEN PairHash(a, b) ELSE PairHash(b, a)

\* The level above: neighbours are paired, one without a neighbour moves up.
Above(level) ==
  [i \in 1 .. (Len(level) + 1) \div 2 |->
     IF 2 * i > Len(level) THEN level[2 * i - 1]
     ELSE SortedPairHash(level[2 * i - 1], level[2 * i])]

\* The hashes of a list's leaves in increasing order.
SortedHashes(list) ==
  LET hashes == {LeafHash[leaf] : leaf \in list}
  IN CHOOSE level \in [1 .. Cardinality(hashes) -> hashes] :
       \A i, j \in DOMAIN level : i < j => level[i] < level[j]

\* The levels of a list's tree, from the leaves on; the root stays what it is.
Levels(list) ==
  LET levels[n \in Nat] ==
        IF n = 0 THEN SortedHashes(list) ELSE Above(levels[n - 1])
  IN levels

TreeRoot(list) == Levels(list)[Cardinality(list)][1]

\* The places of the nodes on the way from a leaf to the root.
Places(list, leaf) ==
  LET place[n \in Nat] ==
        IF n = 0 THEN CHOOSE i \in DOMAIN Levels(list)[0] :
                        Levels(list)[0][i] = LeafHash[leaf]
        ELSE (place[n - 1] + 1) \div 2
  IN place

Neighbour(i) == IF i % 2 = 0 THEN i - 1 ELSE i + 1

\* What a level adds to the proof: the neighbour of the node at i, if there is one.
Siblings(level, i) ==
  IF Neighbour(i) \in DOMAIN level THEN <<level[Neighbour(i)]>> ELSE <<>>

\* The siblings of the nodes on the way, up to each level.
Paths(list, leaf) ==
  LET path[n \in Nat] ==
        IF n = 0 THEN <<>>
        ELSE path[n - 1] \o Siblings(Levels(list)[n - 1], Places(list, leaf)[n - 1])
  IN path

MerkleProof(list, leaf) == Paths(list, leaf)[Cardinality(list)]

-------------------------------------------------------------------------------
(* The contract *)

\* Mutation: the two hashes are not put in order.
CombinedUnordered(hash, sibling) == PairHash(hash, sibling)

Combined(hash, sibling) ==
  IF sibling > hash THEN PairHash(hash, sibling) ELSE PairHash(sibling, hash)

\* The hash after each step of the loop over the proof.
HashesOnTheWay(leaf, proof) ==
  LET hash[n \in 0 .. Len(proof)] ==
        IF n = 0 THEN LeafHash[leaf] ELSE Combined(hash[n - 1], proof[n])
  IN hash

\* The hash the loop ends with.
ComputedRoot(leaf, proof) == HashesOnTheWay(leaf, proof)[Len(proof)]

\* Mutation: the leaf is the account alone.
VerifyClaimOfAnyAmount(leaf, proof, root) ==
  \E other \in DOMAIN LeafHash :
    other[1] = leaf[1] /\ ComputedRoot(other, proof) = root

VerifyClaim(leaf, proof, root) == ComputedRoot(leaf, proof) = root
===============================================================================
