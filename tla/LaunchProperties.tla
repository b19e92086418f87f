--------------------------- MODULE LaunchProperties ---------------------------
(* What the contracts promise together. *)
EXTENDS Launch

PoolCreated == AU!PoolCreated

Delegated(u) == userInfo[u].delegated_mars_incentives + airdropUsers[u].delegated_amount

(* The MARS the auction puts into the pool is what lockdrop and airdrop have
   recorded as delegated in total, and no user has more on record there than the
   auction credits him with: none is lost or counted twice between the contracts. *)
DelegationsMatch ==
  /\ auctionState.total_mars_deposited
       = lockdropState.total_mars_delegated + airdropState.total_delegated_amount
  /\ \A u \in Users : Delegated(u) <= auctionUsers[u].mars_deposited

(* For a user the lockdrop still has on record the two agree to the unit: nobody
   comes back to the lockdrop with a delegation that a nuke has made it forget. *)
RecordedDelegationsMatch ==
  \A u \in stored : Delegated(u) = auctionUsers[u].mars_deposited

(* Lockdrop and airdrop enable claims when the pool is created, both and at no
   other time; so claims in the lockdrop wait for its windows, although its own
   check would let them start before. *)
ClaimsEnabledTogether ==
  /\ lockdropState.are_claims_allowed <=> PoolCreated
  /\ airdropConfig.are_claims_enabled <=> PoolCreated
  /\ LD!ClaimsOnlyAfterWindows

(* Neither contract refuses its part when the auction is due: once its windows are
   over, it has both tokens and a pool, and the two know its address, the owner
   can create the pool: each of the three accepts its part of it. *)
PoolCreatable ==
  /\ AU!AreWindowsClosed(now) /\ ~PoolCreated
  /\ auctionConfig.astroport_lp_pool # NoPool
  /\ auctionState.total_mars_deposited > 0 /\ AU!UstForPool > 0
  /\ "auction_contract_address" \in lockdropConfig.known
  /\ airdropConfig.auction_contract_address = TheAuction
  => \A minted \in LpMintChoices \ {0} :
       /\ AU!CanInitPool(auctionConfig.owner, minted)
       /\ LD!CanEnableClaims
       /\ AD!CanEnableClaims(TheAuction)

-------------------------------------------------------------------------------
(* The promise *)

\* MARS that left the lockdrop and was not delegated.
LockdropPaid ==
  lockdropConfig.lockdrop_incentives - lockdropBalance.mars
    - lockdropState.total_mars_delegated

AirdropPaid == AD!Total(received)

AuctionPaid ==
  AU!Total(AU!Field("withdrawn_auction_incentives"))
    + AU!Total(AU!Field("withdrawn_mars_incentives"))

LaunchParts == {"lockdrop", "airdrop", "auction"}

OpenParts ==
  {part \in LaunchParts :
     \/ part = "lockdrop" /\ lockdropState.are_claims_allowed
     \/ part = "airdrop" /\ airdropConfig.are_claims_enabled
     \/ part = "auction" /\ PoolCreated}

Promise ==
  INSTANCE LaunchPromise WITH
    Parts <- LaunchParts,
    committed <- auctionState.total_mars_deposited,
    paid <- LockdropPaid + AirdropPaid + AuctionPaid,
    open <- OpenParts

(* MARS is committed only before the pool is created and paid only after it, by
   any of the three, and they open in one step. *)
KeepsPromise == Promise!PromiseSpec
===============================================================================
