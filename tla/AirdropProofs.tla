----------------------------- MODULE AirdropProofs -----------------------------
(* Theorems about the airdrop contract, for any users, lists, windows and amounts. *)
EXTENDS AirdropProperties, MerkleTheorems

\* Only what was claimed is withdrawn, and only once claims are enabled.
WithdrawalsInOrder ==
  \A u \in Users :
    users[u].tokens_withdrawn =>
      config.are_claims_enabled /\ users[u].claimed_amount > 0

\* There is something delegated only if there is an auction.
DelegationsNeedAuction ==
  config.auction_contract_address = NoAuction => state.total_delegated_amount = 0

AirdropInv ==
  /\ TypeOK
  /\ MarsConserved
  /\ PaidOnce
  /\ DelegationsInOneAuction
  /\ WithdrawalsInOrder
  /\ DelegationsNeedAuction

-------------------------------------------------------------------------------
(* Types *)

LEMMA InitType == Init => TypeOK
<1> SUFFICES ASSUME Init PROVE TypeOK
  OBVIOUS
<1>1. config \in ConfigRecords
  <2>1. PICK owner \in Owners, lists \in ListChoices,
             from \in Timestamps, to \in Timestamps :
          config = [owner |-> owner, merkle_roots |-> MerkleRoots(lists),
                    from_timestamp |-> from, to_timestamp |-> to,
                    auction_contract_address |-> NoAuction,
                    are_claims_enabled |-> FALSE]
    BY DEF Init
  <2>2. MerkleRoots(lists) \in RootChoices
    BY DEF RootChoices
  <2>3. from \in Nat /\ to \in Nat
    BY AirdropAssumption
  <2> QED
    BY <2>1, <2>2, <2>3 DEF ConfigRecords
<1>2. state \in StateRecords
  BY DEF Init, StateRecords
<1>3. users \in [Users -> UserRecords]
  BY DEF Init, NoUser, UserRecords
<1> QED
  BY <1>1, <1>2, <1>3 DEF Init, TypeOK

LEMMA UpdateConfigType ==
  ASSUME TypeOK, NEW sender, NEW owner \in Owners,
         NEW auction \in Auctions \union {config.auction_contract_address},
         NEW roots \in RootChoices \union {config.merkle_roots},
         NEW from \in Timestamps, NEW to \in Timestamps,
         UpdateConfig(sender, owner, auction, roots, from, to)
  PROVE  TypeOK'
<1>1. config \in ConfigRecords /\ from \in Nat /\ to \in Nat
  BY AirdropAssumption DEF TypeOK
<1>2. /\ roots \in RootChoices /\ auction \in Auctions \union {NoAuction}
      /\ config.are_claims_enabled \in BOOLEAN
  BY <1>1 DEF ConfigRecords
<1>3. config' \in ConfigRecords
  BY <1>1, <1>2 DEF UpdateConfig, ConfigRecords
<1> QED
  BY <1>3 DEF UpdateConfig, TypeOK

LEMMA TransferType ==
  ASSUME TypeOK, NEW sender, NEW amount \in Nat,
         TransferUnclaimedTokens(sender, amount)
  PROVE  TypeOK'
<1>1. /\ state \in StateRecords /\ marsBalance \in Nat /\ transferred \in Nat
      /\ amount <= state.unclaimed_tokens /\ amount <= marsBalance
  BY DEF TypeOK, TransferUnclaimedTokens, MayTransfer
<1>2. /\ state.unclaimed_tokens - amount \in Nat /\ marsBalance - amount \in Nat
      /\ transferred + amount \in Nat
  BY <1>1 DEF StateRecords
<1>3. state' \in StateRecords
  BY <1>1, <1>2 DEF TransferUnclaimedTokens, StateRecords
<1> QED
  BY <1>2, <1>3 DEF TransferUnclaimedTokens, TypeOK

LEMMA IncreaseType ==
  ASSUME TypeOK, NEW amount \in Nat, IncreaseMarsIncentives(amount)
  PROVE  TypeOK'
<1>1. state \in StateRecords /\ marsBalance \in Nat
  BY DEF TypeOK
<1>2. /\ state.total_airdrop_size + amount \in Nat
      /\ state.unclaimed_tokens + amount \in Nat /\ marsBalance + amount \in Nat
  BY <1>1 DEF StateRecords
<1>3. state' \in StateRecords
  BY <1>1, <1>2 DEF IncreaseMarsIncentives, StateRecords
<1> QED
  BY <1>2, <1>3 DEF IncreaseMarsIncentives, TypeOK

LEMMA EnableType ==
  ASSUME TypeOK, NEW sender, EnableClaims(sender)
  PROVE  TypeOK'
<1>1. config \in ConfigRecords
  BY DEF TypeOK
<1>2. config' \in ConfigRecords
  BY <1>1 DEF EnableClaims, ConfigRecords
<1> QED
  BY <1>2 DEF EnableClaims, TypeOK

\* What a user's record says of him.
LEMMA UserFields ==
  ASSUME TypeOK, NEW u \in Users
  PROVE  /\ users[u] \in UserRecords
         /\ users[u].claimed_amount \in Nat /\ users[u].delegated_amount \in Nat
         /\ users[u].tokens_withdrawn \in BOOLEAN /\ received[u] \in Nat
BY DEF TypeOK, UserRecords

LEMMA ClaimType ==
  ASSUME TypeOK, NEW u \in Users, NEW amount \in Nat, NEW proof, NEW index,
         Claim(u, amount, proof, index)
  PROVE  TypeOK'
<1>1. /\ state \in StateRecords /\ marsBalance \in Nat
      /\ users \in [Users -> UserRecords] /\ received \in [Users -> Nat]
      /\ config.are_claims_enabled \in BOOLEAN
  BY DEF TypeOK, ConfigRecords
<1>2. state' \in StateRecords
  <2>1. state.unclaimed_tokens - amount \in Nat
    BY <1>1 DEF Claim, CanClaim, StateRecords
  <2> QED
    BY <1>1, <2>1 DEF Claim, StateAfterClaim, StateRecords
<1>3. users' \in [Users -> UserRecords]
  <2>1. (users[u].tokens_withdrawn \/ config.are_claims_enabled) \in BOOLEAN
    OBVIOUS
  <2>2. UserAfterClaim(u, amount) \in UserRecords
    BY <2>1, UserFields DEF UserAfterClaim, UserRecords
  <2> QED
    BY <1>1, <2>2 DEF Claim
<1>4. marsBalance' \in Nat /\ received' \in [Users -> Nat]
  <2>1. CASE config.are_claims_enabled
    <3>1. marsBalance' = marsBalance - amount /\ amount <= marsBalance
          /\ received' = [received EXCEPT ![u] = @ + amount]
      BY <2>1 DEF Claim, CanClaim
    <3>2. received[u] + amount \in Nat
      BY <1>1
    <3> QED
      BY <1>1, <3>1, <3>2
  <2>2. CASE ~config.are_claims_enabled
    BY <1>1, <2>2 DEF Claim
  <2> QED
    BY <2>1, <2>2
<1> QED
  BY <1>2, <1>3, <1>4 DEF Claim, TypeOK

LEMMA DelegateType ==
  ASSUME TypeOK, NEW u \in Users, NEW amount \in Nat,
         DelegateMarsToBootstrapAuction(u, amount)
  PROVE  TypeOK'
<1> DEFINE auction == config.auction_contract_address
           info    == users[u]
<1>1. /\ state \in StateRecords /\ marsBalance \in Nat /\ amount <= marsBalance
      /\ users \in [Users -> UserRecords] /\ auctioned \in [Auctions -> Nat]
      /\ auction \in Auctions
  BY DEF TypeOK, DelegateMarsToBootstrapAuction
<1>2. /\ state.total_delegated_amount + amount \in Nat /\ marsBalance - amount \in Nat
      /\ auctioned[auction] + amount \in Nat /\ info.delegated_amount + amount \in Nat
  BY <1>1, UserFields DEF StateRecords
<1>3. state' \in StateRecords
  BY <1>1, <1>2 DEF DelegateMarsToBootstrapAuction, StateRecords
<1>4. users' \in [Users -> UserRecords]
  <2>1. [info EXCEPT !.delegated_amount = info.delegated_amount + amount] \in UserRecords
    BY <1>1, <1>2, UserFields DEF UserRecords
  <2> QED
    BY <1>1, <2>1 DEF DelegateMarsToBootstrapAuction
<1> QED
  BY <1>1, <1>2, <1>3, <1>4 DEF DelegateMarsToBootstrapAuction, TypeOK

LEMMA WithdrawType ==
  ASSUME TypeOK, NEW u \in Users, WithdrawAirdropReward(u)
  PROVE  TypeOK'
<1> DEFINE tokens == users[u].claimed_amount - users[u].delegated_amount
<1>1. /\ marsBalance \in Nat /\ users \in [Users -> UserRecords]
      /\ received \in [Users -> Nat]
  BY DEF TypeOK
<1>2. /\ tokens > 0 /\ tokens <= marsBalance
      /\ users' = [users EXCEPT ![u].tokens_withdrawn = TRUE]
      /\ marsBalance' = marsBalance - tokens
      /\ received' = [received EXCEPT ![u] = @ + tokens]
  BY DEF WithdrawAirdropReward
<1>3. tokens \in Int
  BY UserFields
<1> HIDE DEF tokens
<1>4. marsBalance - tokens \in Nat /\ received[u] + tokens \in Nat
  BY <1>1, <1>2, <1>3
<1>5. [users[u] EXCEPT !.tokens_withdrawn = TRUE] \in UserRecords
  BY UserFields DEF UserRecords
<1> QED
  BY <1>1, <1>2, <1>4, <1>5 DEF WithdrawAirdropReward, TypeOK

LEMMA NextType == TypeOK /\ [Next]_vars => TypeOK'
<1> SUFFICES ASSUME TypeOK, [Next]_vars PROVE TypeOK'
  OBVIOUS
<1>1. CASE Tick
  BY <1>1 DEF Tick, TypeOK
<1>2. ASSUME NEW amount \in MarsAmounts, IncreaseMarsIncentives(amount) PROVE TypeOK'
  BY <1>2, AirdropAssumption, IncreaseType
<1>3. ASSUME NEW sender \in Auctions, EnableClaims(sender) PROVE TypeOK'
  BY <1>3, EnableType
<1>4. CASE OwnerStep
  <2>1. MaxMars \in Nat
    BY AirdropAssumption
  <2> QED
    BY <1>4, <2>1, UpdateConfigType, TransferType DEF OwnerStep
<1>5. CASE UserStep
  <2>1. MaxMars \in Nat /\ \A amount \in ClaimAmounts : amount \in Nat
    BY AirdropAssumption
  <2> QED
    BY <1>5, <2>1, ClaimType, WithdrawType DEF UserStep
<1>8. CASE UserDelegates
  BY <1>8, AirdropAssumption, DelegateType DEF UserDelegates
<1>6. CASE UNCHANGED vars
  BY <1>6 DEF vars, TypeOK
<1> QED
  BY <1>1, <1>2, <1>3, <1>4, <1>5, <1>6, <1>8 DEF Next

-------------------------------------------------------------------------------
(* Safety *)

\* What is owed to the user of a record.
OwedFor(info) ==
  IF info.tokens_withdrawn THEN 0 ELSE info.claimed_amount - info.delegated_amount

LEMMA OwedType ==
  ASSUME TypeOK, PaidOnce
  PROVE  /\ Owed \in [Users -> Nat] /\ Delegated \in [Users -> Nat]
         /\ \A u \in Users : Owed[u] = OwedFor(users[u])
         /\ Total(Owed) \in Nat /\ Total(Delegated) \in Nat
<1>1. ASSUME NEW u \in Users
      PROVE  OwedFor(users[u]) \in Nat /\ users[u].delegated_amount \in Nat
  BY UserFields DEF OwedFor, PaidOnce
<1>2. Owed \in [Users -> Nat] /\ Delegated \in [Users -> Nat]
  BY <1>1 DEF Owed, OwedFor, Delegated
<1>3. \A u \in Users : Owed[u] = OwedFor(users[u])
  BY DEF Owed, OwedFor
<1> QED
  BY <1>2, <1>3, AirdropAssumption, TotalType

(* A step that changes the record of one user shifts the totals by what it
   changes for him. *)
LEMMA UserShift ==
  ASSUME TypeOK, PaidOnce, TypeOK', PaidOnce', NEW u \in Users,
         NEW next \in UserRecords, users' = [users EXCEPT ![u] = next],
         NEW owed \in Int, OwedFor(next) = OwedFor(users[u]) + owed,
         NEW delegated \in Int,
         next.delegated_amount = users[u].delegated_amount + delegated
  PROVE  /\ Total(Owed') = Total(Owed) + owed
         /\ Total(Delegated') = Total(Delegated) + delegated
<1>1. users \in [Users -> UserRecords]
  BY DEF TypeOK
<1>2. /\ users'[u] = next
      /\ \A v \in Users : v # u => users'[v] = users[v]
  BY <1>1
<1>3. /\ Owed \in [Users -> Nat] /\ Delegated \in [Users -> Nat]
      /\ \A v \in Users : Owed[v] = OwedFor(users[v])
  BY OwedType
<1>4. /\ Owed' \in [Users -> Nat] /\ Delegated' \in [Users -> Nat]
      /\ \A v \in Users : Owed'[v] = OwedFor(users'[v])
  <2>1. ASSUME NEW v \in Users
        PROVE  OwedFor(users'[v]) \in Nat /\ users'[v].delegated_amount \in Nat
    BY DEF TypeOK, PaidOnce, UserRecords, OwedFor
  <2> QED
    BY <2>1 DEF Owed, OwedFor, Delegated
<1>5. IsFiniteSet(Users)
  BY AirdropAssumption
<1>6. Total(Owed') = Total(Owed) + owed
  <2>1. Owed'[u] = Owed[u] + owed /\ \A v \in Users : v # u => Owed'[v] = Owed[v]
    BY <1>2, <1>3, <1>4
  <2> QED
    BY <1>3, <1>4, <1>5, <2>1, TotalShift
<1>7. Total(Delegated') = Total(Delegated) + delegated
  <2>1. /\ Delegated'[u] = Delegated[u] + delegated
        /\ \A v \in Users : v # u => Delegated'[v] = Delegated[v]
    BY <1>2 DEF Delegated
  <2> QED
    BY <1>3, <1>4, <1>5, <2>1, TotalShift
<1> QED
  BY <1>6, <1>7

(* A step that leaves the records of the users and the auctions alone moves the
   MARS held and the unclaimed tokens alike. *)
LEMMA RecordsKept ==
  ASSUME AirdropInv, TypeOK', UNCHANGED <<users, received, auctioned>>,
         state'.total_delegated_amount = state.total_delegated_amount,
         marsBalance' - state'.unclaimed_tokens = marsBalance - state.unclaimed_tokens,
         config.are_claims_enabled => config'.are_claims_enabled,
         config'.auction_contract_address # config.auction_contract_address =>
           state.total_delegated_amount = 0,
         config'.auction_contract_address = NoAuction =>
           config.auction_contract_address = NoAuction
  PROVE  AirdropInv'
<1>1. /\ TypeOK /\ MarsConserved /\ PaidOnce /\ DelegationsInOneAuction
      /\ WithdrawalsInOrder /\ DelegationsNeedAuction
  BY DEF AirdropInv
<1>2. PaidOnce'
  BY <1>1 DEF PaidOnce
<1>3. MarsConserved'
  <2>1. Owed' = Owed
    BY DEF Owed
  <2>2. /\ marsBalance \in Int /\ state.unclaimed_tokens \in Int
        /\ marsBalance' \in Int /\ state'.unclaimed_tokens \in Int
        /\ Total(Owed) \in Int
    BY <1>1, OwedType DEF TypeOK, StateRecords
  <2>3. Total(Owed') = Total(Owed)
    BY <2>1
  <2> QED
    BY <1>1, <2>2, <2>3 DEF MarsConserved
<1>4. DelegationsInOneAuction'
  <2>1. Delegated' = Delegated
    BY DEF Delegated
  <2>2. Total(Delegated') = state'.total_delegated_amount
    BY <1>1, <2>1 DEF DelegationsInOneAuction
  <2>3. ASSUME NEW a \in Auctions
        PROVE  auctioned'[a] = IF a = config'.auction_contract_address
                               THEN state'.total_delegated_amount ELSE 0
    BY <1>1 DEF DelegationsInOneAuction
  <2> QED
    BY <2>2, <2>3 DEF DelegationsInOneAuction
<1>5. WithdrawalsInOrder'
  BY <1>1 DEF WithdrawalsInOrder
<1>6. DelegationsNeedAuction'
  BY <1>1 DEF DelegationsNeedAuction
<1> QED
  BY <1>2, <1>3, <1>4, <1>5, <1>6 DEF AirdropInv

LEMMA UpdateConfigSafe ==
  ASSUME AirdropInv, NEW sender, NEW owner \in Owners,
         NEW auction \in Auctions \union {config.auction_contract_address},
         NEW roots \in RootChoices \union {config.merkle_roots},
         NEW from \in Timestamps, NEW to \in Timestamps,
         UpdateConfig(sender, owner, auction, roots, from, to)
  PROVE  AirdropInv'
<1>1. TypeOK /\ TypeOK' /\ config \in ConfigRecords /\ DelegationsNeedAuction
  BY UpdateConfigType DEF AirdropInv, TypeOK
<1>2. /\ config'.auction_contract_address = auction
      /\ config'.are_claims_enabled = config.are_claims_enabled
  BY <1>1 DEF UpdateConfig, ConfigRecords
<1>3. auction # config.auction_contract_address => state.total_delegated_amount = 0
  BY <1>1 DEF UpdateConfig, MayChangeAuction, DelegationsNeedAuction
<1>4. auction = NoAuction => config.auction_contract_address = NoAuction
  BY AirdropAssumption
<1>5. UNCHANGED <<state, users, marsBalance, received, auctioned>>
  BY DEF UpdateConfig
<1> QED
  BY <1>1, <1>2, <1>3, <1>4, <1>5, RecordsKept

LEMMA TransferSafe ==
  ASSUME AirdropInv, NEW sender, NEW amount \in Nat,
         TransferUnclaimedTokens(sender, amount)
  PROVE  AirdropInv'
<1>1. TypeOK /\ TypeOK' /\ state \in StateRecords /\ marsBalance \in Nat
  BY TransferType DEF AirdropInv, TypeOK
<1>2. /\ state' = [state EXCEPT !.unclaimed_tokens = state.unclaimed_tokens - amount]
      /\ marsBalance' = marsBalance - amount
      /\ UNCHANGED <<config, users, received, auctioned>>
  BY DEF TransferUnclaimedTokens
<1>3. /\ state'.total_delegated_amount = state.total_delegated_amount
      /\ state'.unclaimed_tokens = state.unclaimed_tokens - amount
      /\ state.unclaimed_tokens \in Nat
  BY <1>1, <1>2 DEF StateRecords
<1>4. marsBalance' - state'.unclaimed_tokens = marsBalance - state.unclaimed_tokens
  BY <1>1, <1>2, <1>3
<1> QED
  BY <1>1, <1>2, <1>3, <1>4, RecordsKept

LEMMA IncreaseSafe ==
  ASSUME AirdropInv, NEW amount \in Nat, IncreaseMarsIncentives(amount)
  PROVE  AirdropInv'
<1>1. TypeOK /\ TypeOK' /\ state \in StateRecords /\ marsBalance \in Nat
  BY IncreaseType DEF AirdropInv, TypeOK
<1>2. /\ marsBalance' = marsBalance + amount
      /\ UNCHANGED <<config, users, received, auctioned>>
  BY DEF IncreaseMarsIncentives
<1>3. /\ state'.total_delegated_amount = state.total_delegated_amount
      /\ state'.unclaimed_tokens = state.unclaimed_tokens + amount
      /\ state.unclaimed_tokens \in Nat
  BY <1>1 DEF IncreaseMarsIncentives, StateRecords
<1>4. marsBalance' - state'.unclaimed_tokens = marsBalance - state.unclaimed_tokens
  BY <1>1, <1>2, <1>3
<1> QED
  BY <1>1, <1>2, <1>3, <1>4, RecordsKept

LEMMA EnableSafe ==
  ASSUME AirdropInv, NEW sender, EnableClaims(sender)
  PROVE  AirdropInv'
<1>1. TypeOK /\ TypeOK' /\ config \in ConfigRecords
  BY EnableType DEF AirdropInv, TypeOK
<1>2. /\ config'.auction_contract_address = config.auction_contract_address
      /\ config'.are_claims_enabled
  BY <1>1 DEF EnableClaims, ConfigRecords
<1>3. UNCHANGED <<state, users, marsBalance, received, auctioned>>
  BY DEF EnableClaims
<1> QED
  BY <1>1, <1>2, <1>3, RecordsKept

LEMMA ClaimSafe ==
  ASSUME AirdropInv, NEW u \in Users, NEW amount \in Nat, NEW proof, NEW index,
         Claim(u, amount, proof, index)
  PROVE  AirdropInv'
<1> DEFINE paid == config.are_claims_enabled
           next == UserAfterClaim(u, amount)
           owed == IF paid THEN 0 ELSE amount
           none == 0
<1>1. /\ TypeOK /\ MarsConserved /\ PaidOnce /\ DelegationsInOneAuction
      /\ WithdrawalsInOrder /\ DelegationsNeedAuction
      /\ TypeOK' /\ state \in StateRecords /\ marsBalance \in Nat
      /\ users \in [Users -> UserRecords] /\ received \in [Users -> Nat]
  BY ClaimType DEF AirdropInv, TypeOK
<1>2. paid \in BOOLEAN
  BY <1>1 DEF TypeOK, ConfigRecords
<1>3. /\ users[u].claimed_amount = 0 /\ users[u].delegated_amount = 0
      /\ ~users[u].tokens_withdrawn /\ received[u] = 0
  BY <1>1, UserFields DEF Claim, CanClaim, PaidOnce, WithdrawalsInOrder
<1>4. /\ next \in UserRecords
      /\ next.claimed_amount = amount /\ next.delegated_amount = 0
      /\ next.tokens_withdrawn = paid
  BY <1>1, <1>2, <1>3 DEF UserAfterClaim, UserRecords
<1>5. /\ users' = [users EXCEPT ![u] = next] /\ config' = config
      /\ auctioned' = auctioned
      /\ paid => /\ amount > 0
                 /\ marsBalance' = marsBalance - amount
                 /\ received' = [received EXCEPT ![u] = @ + amount]
      /\ ~paid => marsBalance' = marsBalance /\ received' = received
  BY DEF Claim, CanClaim
<1>6. /\ state'.unclaimed_tokens = state.unclaimed_tokens - amount
      /\ state'.total_delegated_amount = state.total_delegated_amount
  BY <1>1 DEF Claim, StateAfterClaim, StateRecords
<1>7. /\ users'[u] = next
      /\ \A v \in Users : v # u => users'[v] = users[v] /\ received'[v] = received[v]
      /\ received'[u] = IF paid THEN amount ELSE 0
  BY <1>1, <1>2, <1>3, <1>5
<1> HIDE DEF next
<1>8. PaidOnce'
  BY <1>1, <1>2, <1>4, <1>7 DEF PaidOnce
<1>9. WithdrawalsInOrder'
  BY <1>1, <1>4, <1>5, <1>7 DEF WithdrawalsInOrder
<1>10. /\ owed \in Int /\ OwedFor(next) = OwedFor(users[u]) + owed
       /\ none \in Int /\ next.delegated_amount = users[u].delegated_amount + none
  BY <1>2, <1>3, <1>4 DEF OwedFor
<1> HIDE DEF owed, none
<1>11. /\ Total(Owed') = Total(Owed) + owed
       /\ Total(Delegated') = Total(Delegated) + none
  <2>1. next \in UserRecords /\ users' = [users EXCEPT ![u] = next]
    BY <1>4, <1>5
  <2> QED
    BY <1>1, <1>8, <1>10, <2>1, UserShift
<1>12. MarsConserved'
  <2>1. Total(Owed) \in Nat /\ state.unclaimed_tokens \in Nat
    BY <1>1, OwedType DEF StateRecords
  <2> QED
    BY <2>1, <1>1, <1>2, <1>5, <1>6, <1>11 DEF MarsConserved, owed
<1>13. DelegationsInOneAuction'
  <2>1. Total(Delegated') = Total(Delegated)
    BY <1>1, <1>11, OwedType DEF none
  <2> QED
    BY <2>1, <1>1, <1>5, <1>6 DEF DelegationsInOneAuction
<1>14. DelegationsNeedAuction'
  BY <1>1, <1>5, <1>6 DEF DelegationsNeedAuction
<1> QED
  BY <1>1, <1>8, <1>9, <1>12, <1>13, <1>14 DEF AirdropInv

LEMMA DelegateSafe ==
  ASSUME AirdropInv, NEW u \in Users, NEW amount \in Nat,
         DelegateMarsToBootstrapAuction(u, amount)
  PROVE  AirdropInv'
<1> DEFINE auction == config.auction_contract_address
           info    == users[u]
           next    == [info EXCEPT !.delegated_amount = info.delegated_amount + amount]
           owed    == 0 - amount
<1>1. /\ TypeOK /\ MarsConserved /\ PaidOnce /\ DelegationsInOneAuction
      /\ WithdrawalsInOrder /\ DelegationsNeedAuction
      /\ TypeOK' /\ state \in StateRecords /\ marsBalance \in Nat
      /\ users \in [Users -> UserRecords] /\ auctioned \in [Auctions -> Nat]
  BY DelegateType DEF AirdropInv, TypeOK
<1>2. /\ users' = [users EXCEPT ![u] = next]
      /\ UNCHANGED <<config, received>>
      /\ auction \in Auctions /\ ~config.are_claims_enabled
      /\ info.delegated_amount + amount <= info.claimed_amount
      /\ marsBalance' = marsBalance - amount
      /\ auctioned' = [auctioned EXCEPT ![auction] = @ + amount]
  BY <1>1 DEF DelegateMarsToBootstrapAuction
<1>3. /\ info.claimed_amount \in Nat /\ info.delegated_amount \in Nat
      /\ info \in UserRecords
  BY <1>1, UserFields
<1>4. /\ next \in UserRecords
      /\ next.claimed_amount = info.claimed_amount
      /\ next.delegated_amount = info.delegated_amount + amount
      /\ next.tokens_withdrawn = info.tokens_withdrawn
  BY <1>3 DEF UserRecords
<1>5. ~info.tokens_withdrawn
  BY <1>1, <1>2 DEF WithdrawalsInOrder
<1>6. /\ state'.unclaimed_tokens = state.unclaimed_tokens
      /\ state'.total_delegated_amount = state.total_delegated_amount + amount
      /\ state.total_delegated_amount \in Nat /\ state.unclaimed_tokens \in Nat
  BY <1>1 DEF DelegateMarsToBootstrapAuction, StateRecords
<1>7. /\ users'[u] = next
      /\ \A v \in Users : v # u => users'[v] = users[v]
  BY <1>1, <1>2
<1> HIDE DEF next
<1>8. PaidOnce'
  BY <1>1, <1>2, <1>3, <1>4, <1>5, <1>7 DEF PaidOnce
<1>9. WithdrawalsInOrder'
  BY <1>1, <1>2, <1>4, <1>5, <1>7 DEF WithdrawalsInOrder
<1>10. /\ owed \in Int /\ amount \in Int /\ OwedFor(next) = OwedFor(info) + owed
  BY <1>3, <1>4, <1>5 DEF OwedFor
<1> HIDE DEF owed
<1>11. /\ Total(Owed') = Total(Owed) + owed
       /\ Total(Delegated') = Total(Delegated) + amount
  BY <1>1, <1>2, <1>4, <1>8, <1>10, UserShift
<1>12. MarsConserved'
  <2>1. Total(Owed) \in Nat
    BY <1>1, OwedType
  <2> QED
    BY <2>1, <1>1, <1>2, <1>6, <1>11 DEF MarsConserved, owed
<1>13. DelegationsInOneAuction'
  BY <1>1, <1>2, <1>6, <1>11 DEF DelegationsInOneAuction
<1>14. DelegationsNeedAuction'
  BY <1>1, <1>2, AirdropAssumption DEF DelegationsNeedAuction
<1> QED
  BY <1>1, <1>8, <1>9, <1>12, <1>13, <1>14 DEF AirdropInv

LEMMA WithdrawSafe ==
  ASSUME AirdropInv, NEW u \in Users, WithdrawAirdropReward(u)
  PROVE  AirdropInv'
<1> DEFINE info   == users[u]
           tokens == info.claimed_amount - info.delegated_amount
           next   == [info EXCEPT !.tokens_withdrawn = TRUE]
           owed   == 0 - tokens
           none   == 0
<1>1. /\ TypeOK /\ MarsConserved /\ PaidOnce /\ DelegationsInOneAuction
      /\ WithdrawalsInOrder /\ DelegationsNeedAuction
      /\ TypeOK' /\ state \in StateRecords /\ marsBalance \in Nat
      /\ users \in [Users -> UserRecords] /\ received \in [Users -> Nat]
  BY WithdrawType DEF AirdropInv, TypeOK
<1>2. /\ users' = [users EXCEPT ![u] = next]
      /\ UNCHANGED <<config, state, auctioned>>
      /\ config.are_claims_enabled /\ ~info.tokens_withdrawn /\ tokens > 0
      /\ marsBalance' = marsBalance - tokens
      /\ received' = [received EXCEPT ![u] = @ + tokens]
  BY <1>1 DEF WithdrawAirdropReward
<1>3. /\ info.claimed_amount \in Nat /\ info.delegated_amount \in Nat
      /\ info \in UserRecords /\ received[u] = 0
  BY <1>1, <1>2, UserFields DEF PaidOnce
<1>4. /\ next \in UserRecords
      /\ next.claimed_amount = info.claimed_amount
      /\ next.delegated_amount = info.delegated_amount
      /\ next.tokens_withdrawn
  BY <1>3 DEF UserRecords
<1>5. /\ users'[u] = next /\ received'[u] = tokens
      /\ \A v \in Users : v # u => users'[v] = users[v] /\ received'[v] = received[v]
  BY <1>1, <1>2, <1>3
<1> HIDE DEF next
<1>6. PaidOnce'
  BY <1>1, <1>3, <1>4, <1>5 DEF PaidOnce
<1>7. WithdrawalsInOrder'
  BY <1>1, <1>2, <1>3, <1>4, <1>5 DEF WithdrawalsInOrder
<1>8. /\ owed \in Int /\ OwedFor(next) = OwedFor(info) + owed
      /\ none \in Int /\ next.delegated_amount = info.delegated_amount + none
  BY <1>2, <1>3, <1>4 DEF OwedFor
<1> HIDE DEF owed, none
<1>9. /\ Total(Owed') = Total(Owed) + owed
      /\ Total(Delegated') = Total(Delegated) + none
  BY <1>1, <1>2, <1>4, <1>6, <1>8, UserShift
<1>10. MarsConserved'
  <2>1. Total(Owed) \in Nat /\ state.unclaimed_tokens \in Nat
    BY <1>1, OwedType DEF StateRecords
  <2> QED
    BY <2>1, <1>1, <1>2, <1>3, <1>9 DEF MarsConserved, owed
<1>11. DelegationsInOneAuction'
  <2>1. Total(Delegated') = Total(Delegated)
    BY <1>1, <1>9, OwedType DEF none
  <2> QED
    BY <2>1, <1>1, <1>2 DEF DelegationsInOneAuction
<1>12. DelegationsNeedAuction'
  BY <1>1, <1>2 DEF DelegationsNeedAuction
<1> QED
  BY <1>1, <1>6, <1>7, <1>10, <1>11, <1>12 DEF AirdropInv

-------------------------------------------------------------------------------

LEMMA AirdropInit == Init => AirdropInv
<1> SUFFICES ASSUME Init PROVE AirdropInv
  OBVIOUS
<1>1. TypeOK
  BY InitType
<1>2. \A u \in Users : users[u] = NoUser /\ received[u] = 0
  BY DEF Init
<1>3. PaidOnce /\ WithdrawalsInOrder
  BY <1>2 DEF NoUser, PaidOnce, WithdrawalsInOrder
<1>4. Total(Owed) = 0 /\ Total(Delegated) = 0
  <2>1. Owed \in [Users -> Nat] /\ Delegated \in [Users -> Nat]
    BY <1>1, <1>3, OwedType
  <2>2. \A u \in Users : Owed[u] = 0 /\ Delegated[u] = 0
    BY <1>2 DEF Owed, Delegated, NoUser
  <2> QED
    BY <2>1, <2>2, TotalZero
<1>5. /\ state.total_delegated_amount = 0 /\ state.unclaimed_tokens = 0
      /\ marsBalance = 0 /\ \A a \in Auctions : auctioned[a] = 0
  BY DEF Init
<1> QED
  BY <1>1, <1>3, <1>4, <1>5
  DEF AirdropInv, MarsConserved, DelegationsInOneAuction, DelegationsNeedAuction

LEMMA AirdropNext == AirdropInv /\ [Next]_vars => AirdropInv'
<1> SUFFICES ASSUME AirdropInv, [Next]_vars PROVE AirdropInv'
  OBVIOUS
<1>1. TypeOK /\ TypeOK'
  BY NextType DEF AirdropInv
<1>2. CASE Tick
  BY <1>1, <1>2, RecordsKept DEF Tick
<1>3. ASSUME NEW amount \in MarsAmounts, IncreaseMarsIncentives(amount)
      PROVE  AirdropInv'
  BY <1>3, AirdropAssumption, IncreaseSafe
<1>4. ASSUME NEW sender \in Auctions, EnableClaims(sender) PROVE AirdropInv'
  BY <1>4, EnableSafe
<1>5. CASE OwnerStep
  <2>1. MaxMars \in Nat
    BY AirdropAssumption
  <2> QED
    BY <1>5, <2>1, UpdateConfigSafe, TransferSafe DEF OwnerStep
<1>6. CASE UserStep
  <2>1. MaxMars \in Nat /\ \A amount \in ClaimAmounts : amount \in Nat
    BY AirdropAssumption
  <2> QED
    BY <1>6, <2>1, ClaimSafe, WithdrawSafe DEF UserStep
<1>8. CASE UserDelegates
  BY <1>8, AirdropAssumption, DelegateSafe DEF UserDelegates
<1>7. CASE UNCHANGED vars
  BY <1>1, <1>7, RecordsKept DEF vars
<1> QED
  BY <1>2, <1>3, <1>4, <1>5, <1>6, <1>7, <1>8 DEF Next

-------------------------------------------------------------------------------

(* Every stored value keeps its type, whatever the users, the owner and the
   auctions call: no checked subtraction of the contract goes below zero. *)
THEOREM AirdropTypeCorrect == Spec => []TypeOK
<1>1. Init => TypeOK
  BY InitType
<1>2. TypeOK /\ [Next]_vars => TypeOK'
  BY NextType
<1> QED
  BY <1>1, <1>2, PTL DEF Spec

(* The MARS held by the contract is what nobody claimed and what users can still
   withdraw, after any sequence of claims, delegations and transfers. *)
THEOREM MarsConservedHolds == Spec => []MarsConserved
<1>1. AirdropInv => MarsConserved
  BY DEF AirdropInv
<1> QED
  BY <1>1, AirdropInit, AirdropNext, PTL DEF Spec

(* Every user is paid what he claimed and did not delegate exactly once. *)
THEOREM PaidOnceHolds == Spec => []PaidOnce
<1>1. AirdropInv => PaidOnce
  BY DEF AirdropInv
<1> QED
  BY <1>1, AirdropInit, AirdropNext, PTL DEF Spec

(* What was delegated is all with the auction that is configured, the only one
   that can enable claims, however often the owner changed it before. *)
THEOREM DelegationsInOneAuctionHolds == Spec => []DelegationsInOneAuction
<1>1. AirdropInv => DelegationsInOneAuction
  BY DEF AirdropInv
<1> QED
  BY <1>1, AirdropInit, AirdropNext, PTL DEF Spec

-------------------------------------------------------------------------------
(* Lists *)

LEMMA RootsOfLists ==
  ASSUME TypeOK, NEW index \in DOMAIN config.merkle_roots
  PROVE  \E list \in Lists : config.merkle_roots[index] = TreeRoot(list)
<1>1. config.merkle_roots \in RootChoices
  BY DEF TypeOK, ConfigRecords
<1>2. PICK lists \in ListChoices : config.merkle_roots = MerkleRoots(lists)
  BY <1>1 DEF RootChoices
<1>3. index \in DOMAIN lists /\ config.merkle_roots[index] = TreeRoot(lists[index])
  BY <1>2 DEF MerkleRoots
<1>4. lists \in Seq(Lists)
  BY AirdropAssumption
<1>5. lists[index] \in Lists
  BY <1>3, <1>4, SequencePlaces
<1> QED
  BY <1>3, <1>5

LEMMA ListsAreLists ==
  ASSUME NEW list \in Lists
  PROVE  IsList(list)
BY AirdropAssumption DEF IsList

LEMMA ProofsAreSequences ==
  ASSUME NEW proof \in Proofs
  PROVE  proof \in Seq(Nat)
<1>1. PICK list \in Lists : proof \in {ProofOf[list][leaf] : leaf \in list}
  BY DEF Proofs
<1>2. PICK leaf \in list : proof = ProofOf[list][leaf]
  BY <1>1
<1>3. proof = MerkleProof(list, leaf)
  BY <1>2 DEF ProofOf
<1> QED
  BY <1>3, ListsAreLists, MerkleProofsVerify

(* What a claim is accepted for is on a list of the configuration. *)
LEMMA ClaimIsListed ==
  ASSUME TypeOK, NEW u \in Users, NEW amount \in ClaimAmounts, NEW proof \in Seq(Nat),
         NEW index, CanClaim(u, amount, proof, index)
  PROVE  \E list \in Lists : <<u, amount>> \in list
<1>1. index \in DOMAIN config.merkle_roots
  BY DEF CanClaim
<1>2. PICK list \in Lists : config.merkle_roots[index] = TreeRoot(list)
  BY <1>1, RootsOfLists
<1>3. VerifyClaim(<<u, amount>>, proof, TreeRoot(list))
  BY <1>2 DEF CanClaim
<1>4. <<u, amount>> \in DOMAIN LeafHash
  BY AirdropAssumption
<1>5. <<u, amount>> \in list
  BY <1>3, <1>4, ListsAreLists, OnlyLeavesVerify
<1> QED
  BY <1>5

\* Only a claim changes what is claimed, and that from nothing.
LEMMA ClaimsKept ==
  ASSUME TypeOK, [Next]_vars
  PROVE  \/ \A u \in Users : users'[u].claimed_amount = users[u].claimed_amount
         \/ \E u \in Users, amount \in ClaimAmounts, proof \in Proofs,
               index \in DOMAIN config.merkle_roots : Claim(u, amount, proof, index)
<1> DEFINE Kept == \A u \in Users : users'[u].claimed_amount = users[u].claimed_amount
<1>1. users \in [Users -> UserRecords]
  BY DEF TypeOK
<1>2. ASSUME UNCHANGED users PROVE Kept
  BY <1>2
<1>3. ASSUME NEW u \in Users, WithdrawAirdropReward(u) PROVE Kept
  BY <1>1, <1>3 DEF WithdrawAirdropReward, UserRecords
<1>4. ASSUME NEW u \in Users, NEW amount \in 1 .. MaxMars,
             DelegateMarsToBootstrapAuction(u, amount)
      PROVE  Kept
  BY <1>1, <1>4 DEF DelegateMarsToBootstrapAuction, UserRecords
<1>5. CASE UserStep
  BY <1>3, <1>5 DEF UserStep
<1>6. CASE UserDelegates
  BY <1>4, <1>6 DEF UserDelegates
<1>7. CASE \/ \E amount \in MarsAmounts : IncreaseMarsIncentives(amount)
           \/ \E sender \in Auctions : EnableClaims(sender)
           \/ OwnerStep
  <2>1. UNCHANGED users
    BY <1>7, Zenon DEF IncreaseMarsIncentives, EnableClaims, OwnerStep, UpdateConfig,
                       TransferUnclaimedTokens
  <2> QED
    BY <1>2, <2>1
<1>8. CASE Tick \/ UNCHANGED vars
  BY <1>2, <1>8 DEF Tick, vars
<1> QED
  BY <1>5, <1>6, <1>7, <1>8 DEF Next

LEMMA ListedNext ==
  ASSUME TypeOK, ClaimsAreListed, [Next]_vars
  PROVE  ClaimsAreListed'
<1>1. CASE \A u \in Users : users'[u].claimed_amount = users[u].claimed_amount
  BY <1>1 DEF ClaimsAreListed
<1>2. ASSUME NEW u \in Users, NEW amount \in ClaimAmounts, NEW proof \in Proofs,
             NEW index \in DOMAIN config.merkle_roots, Claim(u, amount, proof, index)
      PROVE  ClaimsAreListed'
  <2>1. \E list \in Lists : <<u, amount>> \in list
    BY <1>2, ClaimIsListed, ProofsAreSequences DEF Claim
  <2>2. /\ users'[u].claimed_amount = amount
        /\ \A v \in Users : v # u => users'[v] = users[v]
    BY <1>2 DEF Claim, UserAfterClaim, TypeOK, UserRecords
  <2> QED
    BY <2>1, <2>2 DEF ClaimsAreListed
<1> QED
  BY <1>1, <1>2, ClaimsKept

(* Nobody ever claims an amount that no list grants him, whichever proof he sends
   and whichever roots the owner configures. *)
THEOREM ClaimsAreListedHolds == Spec => []ClaimsAreListed
<1>1. Init => ClaimsAreListed
  BY DEF Init, NoUser, ClaimsAreListed
<1>2. TypeOK /\ ClaimsAreListed /\ [Next]_vars => ClaimsAreListed'
  BY ListedNext
<1> QED
  BY <1>1, <1>2, AirdropTypeCorrect, PTL DEF Spec

LEMMA ListedCan == AirdropInv => ListedCanClaim
<1> SUFFICES ASSUME AirdropInv, ClaimWindowOpen, NEW u \in Users, NEW list \in Lists,
                    NEW index \in DOMAIN config.merkle_roots,
                    NEW amount \in ClaimAmounts \ {0}, <<u, amount>> \in list,
                    config.merkle_roots[index] = RootOf[list],
                    users[u].claimed_amount = 0, amount <= state.unclaimed_tokens
             PROVE  CanClaim(u, amount, ProofOf[list][<<u, amount>>], index)
  BY DEF ListedCanClaim
<1>1. TypeOK /\ MarsConserved /\ PaidOnce /\ amount \in Nat
  BY AirdropAssumption DEF AirdropInv
<1>2. 0 < amount /\ amount <= marsBalance
  <2>1. Total(Owed) \in Nat /\ state.unclaimed_tokens \in Nat
    BY <1>1, OwedType DEF TypeOK, StateRecords
  <2> QED
    BY <1>1, <2>1 DEF MarsConserved
<1>3. VerifyClaim(<<u, amount>>, ProofOf[list][<<u, amount>>], config.merkle_roots[index])
  <2> DEFINE leaf == <<u, amount>>
  <2>1. VerifyClaim(leaf, MerkleProof(list, leaf), TreeRoot(list))
    BY ListsAreLists, MerkleProofsVerify
  <2>2. ProofOf[list][leaf] = MerkleProof(list, leaf) /\ RootOf[list] = TreeRoot(list)
    BY DEF ProofOf, RootOf
  <2> HIDE DEF leaf
  <2> QED
    BY <2>1, <2>2 DEF leaf
<1> QED
  BY <1>2, <1>3 DEF CanClaim

(* The contract accepts what is on a configured list, with the proof that Merkle_Tree
   computes for it, as long as the window is open and the MARS is there: whatever was
   claimed, delegated or taken by the owner before. *)
THEOREM ListedCanClaimHolds == Spec => []ListedCanClaim
<1> QED
  BY ListedCan, AirdropInit, AirdropNext, PTL DEF Spec

-------------------------------------------------------------------------------
(* Payments of MARS *)

\* What a user has received never shrinks, and stays while claims are not enabled.
UserPaymentsGrow ==
  \A u \in Users :
    /\ received[u] <= received'[u]
    /\ ~config.are_claims_enabled => received'[u] = received[u]

LEMMA UserPaymentsNext == TypeOK /\ [Next]_vars => UserPaymentsGrow
<1> SUFFICES ASSUME TypeOK, [Next]_vars PROVE UserPaymentsGrow
  OBVIOUS
<1>1. /\ received \in [Users -> Nat]
      /\ \A u \in Users : received[u] \in Nat
  BY DEF TypeOK
<1>2. ASSUME UNCHANGED received PROVE UserPaymentsGrow
  BY <1>1, <1>2 DEF UserPaymentsGrow
<1>3. ASSUME NEW u \in Users, NEW paid \in Nat, config.are_claims_enabled,
             received' = [received EXCEPT ![u] = @ + paid]
      PROVE  UserPaymentsGrow
  BY <1>1, <1>3 DEF UserPaymentsGrow
<1>4. CASE UserStep
  <2>1. ASSUME NEW u \in Users, NEW amount \in ClaimAmounts, NEW proof, NEW index,
               Claim(u, amount, proof, index)
        PROVE  UserPaymentsGrow
    <3>1. amount \in Nat
      BY AirdropAssumption
    <3>2. \/ UNCHANGED received
          \/ /\ config.are_claims_enabled
             /\ received' = [received EXCEPT ![u] = @ + amount]
      BY <2>1 DEF Claim
    <3> QED BY <1>2, <1>3, <3>1, <3>2
  <2>2. ASSUME NEW u \in Users, WithdrawAirdropReward(u) PROVE UserPaymentsGrow
    <3> DEFINE tokens == users[u].claimed_amount - users[u].delegated_amount
    <3>1. /\ config.are_claims_enabled /\ tokens > 0
          /\ received' = [received EXCEPT ![u] = @ + tokens]
      BY <2>2 DEF WithdrawAirdropReward
    <3>2. tokens \in Nat
      BY <3>1 DEF TypeOK, UserRecords
    <3> HIDE DEF tokens
    <3> QED BY <1>3, <3>1, <3>2
  <2> QED BY <1>4, <2>1, <2>2 DEF UserStep
<1>5. CASE Tick \/ UNCHANGED vars
  BY <1>2, <1>5 DEF Tick, vars
<1>6. CASE OwnerStep
  <2>1. UNCHANGED received
    BY <1>6, Zenon DEF OwnerStep, UpdateConfig, TransferUnclaimedTokens
  <2> QED BY <1>2, <2>1
<1>7. CASE UserDelegates
  <2>1. UNCHANGED received
    BY <1>7, Zenon DEF UserDelegates, DelegateMarsToBootstrapAuction
  <2> QED BY <1>2, <2>1
<1>8. CASE \/ \E amount \in MarsAmounts : IncreaseMarsIncentives(amount)
           \/ \E sender \in Auctions : EnableClaims(sender)
  <2>1. UNCHANGED received
    BY <1>8, Zenon DEF IncreaseMarsIncentives, EnableClaims
  <2> QED BY <1>2, <2>1
<1> QED BY <1>4, <1>5, <1>6, <1>7, <1>8 DEF Next

\* So neither does the total, and it stays where each of them does.
PaymentsGrow ==
  /\ Total(received) \in Nat /\ Total(received') \in Nat
  /\ Total(received) <= Total(received')
  /\ ~config.are_claims_enabled => Total(received') = Total(received)

LEMMA PaymentsNext == TypeOK /\ TypeOK' /\ [Next]_vars => PaymentsGrow
<1> SUFFICES ASSUME TypeOK, TypeOK', [Next]_vars PROVE PaymentsGrow
  OBVIOUS
<1>1. UserPaymentsGrow /\ IsFiniteSet(Users)
  BY UserPaymentsNext, AirdropAssumption
<1>2. received \in [Users -> Nat] /\ received' \in [Users -> Nat]
  BY DEF TypeOK
<1>3. Total(received) \in Nat /\ Total(received') \in Nat
  BY <1>1, <1>2, TotalType
<1>4. Total(received) <= Total(received')
  <2>1. \A u \in Users : received[u] <= received'[u]
    BY <1>1 DEF UserPaymentsGrow
  <2> QED BY <1>1, <1>2, <2>1, TotalMono
<1>5. ASSUME ~config.are_claims_enabled PROVE received' = received
  BY <1>1, <1>2, <1>5 DEF UserPaymentsGrow
<1> QED BY <1>3, <1>4, <1>5 DEF PaymentsGrow

LEMMA NothingPaidAtFirst == Init => Total(received) = 0
<1> SUFFICES ASSUME Init PROVE Total(received) = 0
  OBVIOUS
<1>1. received \in [Users -> Nat] /\ \A u \in Users : received[u] = 0
  BY DEF Init
<1> QED BY <1>1, TotalZero
===============================================================================
