-------------------------- MODULE AirdropProperties --------------------------
(* What the airdrop contract promises, and what its comments say of it. *)
EXTENDS Airdrop

ConfigRecords ==
  [owner : Owners, merkle_roots : RootChoices,
   from_timestamp : Nat, to_timestamp : Nat,
   auction_contract_address : Auctions \union {NoAuction},
   are_claims_enabled : BOOLEAN]

StateRecords ==
  [total_airdrop_size : Nat, total_delegated_amount : Nat, unclaimed_tokens : Nat]

UserRecords ==
  [claimed_amount : Nat, delegated_amount : Nat, tokens_withdrawn : BOOLEAN]

(* Every stored value has its type; no checked subtraction went below zero. *)
TypeOK ==
  /\ now \in Nat
  /\ config \in ConfigRecords
  /\ state \in StateRecords
  /\ users \in [Users -> UserRecords]
  /\ marsBalance \in Nat
  /\ received \in [Users -> Nat]
  /\ auctioned \in [Auctions -> Nat]
  /\ transferred \in Nat

Claimed == [u \in Users |-> users[u].claimed_amount]

Delegated == [u \in Users |-> users[u].delegated_amount]

\* What a user can still withdraw once claims are enabled.
Owed ==
  [u \in Users |->
     IF users[u].tokens_withdrawn THEN 0
     ELSE users[u].claimed_amount - users[u].delegated_amount]

(* The MARS held is what is unclaimed and what users can still withdraw, to the
   unit, however claims, delegations, withdrawals and the owner's transfers
   interleave; so that paying anyone, the owner included, takes nothing that
   is another's. *)
MarsConserved == marsBalance = state.unclaimed_tokens + Total(Owed)

(* Every user is paid what he claimed and did not delegate, once, whether he
   claimed before the switch or after it. *)
PaidOnce ==
  \A u \in Users :
    /\ users[u].delegated_amount <= users[u].claimed_amount
    /\ received[u] =
         IF users[u].tokens_withdrawn
         THEN users[u].claimed_amount - users[u].delegated_amount ELSE 0

(* All delegations are with one auction, the one that is configured and alone
   can enable claims, and it has what the users' records say. *)
DelegationsInOneAuction ==
  /\ Total(Delegated) = state.total_delegated_amount
  /\ \A a \in Auctions :
       auctioned[a] = IF a = config.auction_contract_address
                      THEN state.total_delegated_amount ELSE 0

(* Nobody claims an amount that no list grants him, with whichever proof. *)
ClaimsAreListed ==
  \A u \in Users :
    users[u].claimed_amount > 0 =>
      \E list \in Lists : <<u, users[u].claimed_amount>> \in list

RootOf == [list \in Lists |-> TreeRoot(list)]

(* Whoever is on a configured list and has claimed nothing can claim what it
   grants him, with the proof Merkle_Tree computes, while the window is open and
   there is MARS nobody has claimed. *)
ListedCanClaim ==
  ClaimWindowOpen =>
    \A u \in Users, list \in Lists, index \in DOMAIN config.merkle_roots :
      \A amount \in ClaimAmounts \ {0} :
        /\ <<u, amount>> \in list
        /\ config.merkle_roots[index] = RootOf[list]
        /\ users[u].claimed_amount = 0
        /\ amount <= state.unclaimed_tokens
        => CanClaim(u, amount, ProofOf[list][<<u, amount>>], index)

-------------------------------------------------------------------------------

\* The configured auction creates its pool, and users ask for what is theirs.
Fairness ==
  /\ WF_vars(\E sender \in Auctions : EnableClaims(sender))
  /\ \A u \in Users : WF_vars(WithdrawAirdropReward(u))

FairSpec == Spec /\ Fairness

(* Once there is an auction, whoever has claimed gets what he does not delegate
   before it ends, whatever the others and the owner do. *)
EveryClaimPaid ==
  \A u \in Users :
    users[u].claimed_amount > 0 /\ config.auction_contract_address \in Auctions
      ~> \/ users[u].tokens_withdrawn
         \/ users[u].delegated_amount = users[u].claimed_amount
===============================================================================
