-------------------------------- MODULE Airdrop --------------------------------
(***************************************************************************)
(* The airdrop contract.  Users claim what a list grants them while the    *)
(* claim window is open.  Before the auction has created its pool a claim  *)
(* is a record, of which the user may delegate parts to the auction and    *)
(* later withdraw the rest; after it, a claim is paid at once.  The owner  *)
(* takes what nobody claimed.                                              *)
(*                                                                         *)
(* One action is one successful transaction with the token transfers it    *)
(* sends; what makes the code return an error or panic is a guard.         *)
(***************************************************************************)
EXTENDS Merkle, Totals

CONSTANTS
  Users,                  \* accounts that claim
  Owners,                 \* accounts that may own the contract
  Auctions, NoAuction,    \* auction contracts, and none configured
  Lists,                  \* lists of leaves, of which the contract has the roots
  ListChoices,            \* sequences of them the owner may configure
  Timestamps,             \* ends of the window he may configure
  ClaimAmounts,           \* amounts asked for
  MarsAmounts,            \* amounts of MARS sent to the contract at a time
  MaxTime, MaxMars        \* bounds on the clock and on the MARS sent

VARIABLES
  now,           \* block time
  config,        \* CONFIG
  state,         \* STATE
  users,         \* USERS, the default record where nothing is stored
  marsBalance,   \* MARS the token contract holds for this contract
  received,      \* MARS it has moved from here to each user,
  auctioned,     \* to each auction,
  transferred    \* and as unclaimed

vars == <<now, config, state, users, marsBalance, received, auctioned, transferred>>

ASSUME AirdropAssumption ==
  /\ IsFiniteSet(Users) /\ IsFiniteSet(Auctions)
  /\ NoAuction \notin Auctions
  /\ \A list \in Lists : IsFiniteSet(list) /\ list # {} /\ list \subseteq DOMAIN LeafHash
  /\ ListChoices \subseteq Seq(Lists)
  /\ Users \X ClaimAmounts \subseteq DOMAIN LeafHash
  /\ Timestamps \subseteq Nat
  /\ ClaimAmounts \subseteq Nat
  /\ MarsAmounts \subseteq Nat
  /\ MaxTime \in Nat /\ MaxMars \in Nat

NoUser == [claimed_amount |-> 0, delegated_amount |-> 0, tokens_withdrawn |-> FALSE]

MerkleRoots(lists) == [i \in DOMAIN lists |-> TreeRoot(lists[i])]

Init ==
  /\ now = 0
  /\ \E owner \in Owners, lists \in ListChoices,
        from \in Timestamps, to \in Timestamps :
       /\ from < to
       /\ config = [owner |-> owner, merkle_roots |-> MerkleRoots(lists),
                    from_timestamp |-> from, to_timestamp |-> to,
                    auction_contract_address |-> NoAuction,
                    are_claims_enabled |-> FALSE]
  /\ state = [total_airdrop_size |-> 0, total_delegated_amount |-> 0,
              unclaimed_tokens |-> 0]
  /\ users = [u \in Users |-> NoUser]
  /\ marsBalance = 0
  /\ received = [u \in Users |-> 0]
  /\ auctioned = [a \in Auctions |-> 0]
  /\ transferred = 0

Tick ==
  /\ now < MaxTime
  /\ now' = now + 1
  /\ UNCHANGED <<config, state, users, marsBalance, received, auctioned, transferred>>

-------------------------------------------------------------------------------
(* The owner *)

\* Mutation: delegations do not fix the auction.
MayChangeAuctionAlways == TRUE

MayChangeAuction ==
  config.auction_contract_address = NoAuction \/ state.total_delegated_amount = 0

\* What the message leaves out keeps its value; the second check on the window
\* already sees the new start.
UpdateConfig(sender, owner, auction, roots, from, to) ==
  /\ sender = config.owner
  /\ auction # config.auction_contract_address => MayChangeAuction
  /\ from # config.from_timestamp => now < config.from_timestamp
  /\ ~(now >= from /\ to < config.to_timestamp)
  /\ from < to
  /\ config' = [config EXCEPT !.owner = owner, !.auction_contract_address = auction,
                              !.merkle_roots = roots,
                              !.from_timestamp = from, !.to_timestamp = to]
  /\ UNCHANGED <<now, state, users, marsBalance, received, auctioned, transferred>>

\* Mutation: only what the contract holds limits the owner.
MayTransferAnyAmount(amount) == TRUE

MayTransfer(amount) == amount <= state.unclaimed_tokens

\* The token refuses to transfer nothing.
TransferUnclaimedTokens(sender, amount) ==
  /\ sender = config.owner
  /\ config.to_timestamp <= now
  /\ MayTransfer(amount)
  /\ amount > 0
  /\ amount <= marsBalance
  /\ state' = [state EXCEPT !.unclaimed_tokens = @ - amount]
  /\ marsBalance' = marsBalance - amount
  /\ transferred' = transferred + amount
  /\ UNCHANGED <<now, config, users, received, auctioned>>

\* MARS sent by anyone through the token's hook.
IncreaseMarsIncentives(amount) ==
  /\ amount > 0
  /\ state.total_airdrop_size + amount <= MaxMars
  /\ state' = [state EXCEPT !.total_airdrop_size = @ + amount,
                            !.unclaimed_tokens = @ + amount]
  /\ marsBalance' = marsBalance + amount
  /\ UNCHANGED <<now, config, users, received, auctioned, transferred>>

-------------------------------------------------------------------------------
(* The auction *)

\* Mutation: claims are refused while the claim window is open.
CanEnableClaimsAfterWindow(sender) ==
  /\ sender = config.auction_contract_address
  /\ sender \in Auctions
  /\ ~config.are_claims_enabled
  /\ config.to_timestamp < now

\* What the airdrop checks when it is told to enable claims.
CanEnableClaims(sender) ==
  /\ sender = config.auction_contract_address
  /\ sender \in Auctions
  /\ ~config.are_claims_enabled

EnableClaims(sender) ==
  /\ CanEnableClaims(sender)
  /\ config' = [config EXCEPT !.are_claims_enabled = TRUE]
  /\ UNCHANGED <<now, state, users, marsBalance, received, auctioned, transferred>>

-------------------------------------------------------------------------------
(* Users *)

ClaimWindowOpen == config.from_timestamp <= now /\ now <= config.to_timestamp

\* Mutation: what is claimed still counts as unclaimed.
StateAfterClaimKeeping(amount) == state

StateAfterClaim(amount) == [state EXCEPT !.unclaimed_tokens = @ - amount]

\* Mutation: a claim paid at once is not marked as withdrawn.
UserAfterClaimUnmarked(u, amount) == [users[u] EXCEPT !.claimed_amount = amount]

UserAfterClaim(u, amount) ==
  [users[u] EXCEPT !.claimed_amount = amount,
                   !.tokens_withdrawn = @ \/ config.are_claims_enabled]

\* What a claim is checked for, by the token too when it is paid at once.
CanClaim(u, amount, proof, index) ==
  /\ ClaimWindowOpen
  /\ index \in DOMAIN config.merkle_roots
  /\ VerifyClaim(<<u, amount>>, proof, config.merkle_roots[index])
  /\ users[u].claimed_amount = 0
  /\ amount <= state.unclaimed_tokens
  /\ config.are_claims_enabled => amount > 0 /\ amount <= marsBalance

Claim(u, amount, proof, index) ==
  /\ CanClaim(u, amount, proof, index)
  /\ state' = StateAfterClaim(amount)
  /\ users' = [users EXCEPT ![u] = UserAfterClaim(u, amount)]
  /\ \/ /\ config.are_claims_enabled
        /\ marsBalance' = marsBalance - amount
        /\ received' = [received EXCEPT ![u] = @ + amount]
     \/ /\ ~config.are_claims_enabled
        /\ UNCHANGED <<marsBalance, received>>
  /\ UNCHANGED <<now, config, auctioned, transferred>>

\* The auction takes a positive amount, or the transaction fails.
DelegateMarsToBootstrapAuction(u, amount) ==
  /\ config.auction_contract_address \in Auctions
  /\ ~config.are_claims_enabled
  /\ users[u].delegated_amount + amount <= users[u].claimed_amount
  /\ amount > 0 /\ amount <= marsBalance
  /\ state' = [state EXCEPT !.total_delegated_amount = @ + amount]
  /\ users' = [users EXCEPT ![u].delegated_amount = @ + amount]
  /\ marsBalance' = marsBalance - amount
  /\ auctioned' = [auctioned EXCEPT ![config.auction_contract_address] = @ + amount]
  /\ UNCHANGED <<now, config, received, transferred>>

WithdrawAirdropReward(u) ==
  LET tokens == users[u].claimed_amount - users[u].delegated_amount IN
  /\ config.are_claims_enabled
  /\ ~users[u].tokens_withdrawn
  /\ tokens > 0 /\ tokens <= marsBalance
  /\ users' = [users EXCEPT ![u].tokens_withdrawn = TRUE]
  /\ marsBalance' = marsBalance - tokens
  /\ received' = [received EXCEPT ![u] = @ + tokens]
  /\ UNCHANGED <<now, config, state, auctioned, transferred>>

-------------------------------------------------------------------------------

\* What the scripts compute: the roots to configure and the proofs to hand out.
RootChoices == {MerkleRoots(lists) : lists \in ListChoices}

ProofOf == [list \in Lists |-> [leaf \in list |-> MerkleProof(list, leaf)]]

Proofs == UNION {{ProofOf[list][leaf] : leaf \in list} : list \in Lists}

OwnerStep ==
  \E sender \in Owners :
    \/ \E owner \in Owners, auction \in Auctions \union {config.auction_contract_address},
          roots \in RootChoices \union {config.merkle_roots},
          from \in Timestamps, to \in Timestamps :
            UpdateConfig(sender, owner, auction, roots, from, to)
    \/ \E amount \in 1 .. MaxMars : TransferUnclaimedTokens(sender, amount)

UserStep ==
  \E u \in Users :
    \/ \E amount \in ClaimAmounts, proof \in Proofs, index \in DOMAIN config.merkle_roots :
         Claim(u, amount, proof, index)
    \/ WithdrawAirdropReward(u)

UserDelegates ==
  \E u \in Users, amount \in 1 .. MaxMars : DelegateMarsToBootstrapAuction(u, amount)

Next ==
  \/ Tick
  \/ \E amount \in MarsAmounts : IncreaseMarsIncentives(amount)
  \/ \E sender \in Auctions : EnableClaims(sender)
  \/ OwnerStep
  \/ UserStep
  \/ UserDelegates

Spec == Init /\ [][Next]_vars
===============================================================================
