SPECIFICATION FairSpec
CONSTANTS
  LeafHash <- LeafHashes
  Users = {1, 2}
  Owners = {owner}
  Auctions = {a1, a2}
  NoAuction = none
  Lists <- TwoLists
  ListChoices <- FirstOrBoth
  Timestamps = {0, 2, 3}
  ClaimAmounts = {1, 2}
  MarsAmounts = {2}
  MaxTime = 4
  MaxMars = 4
INVARIANTS MarsConserved PaidOnce DelegationsInOneAuction ClaimsAreListed ListedCanClaim
PROPERTIES EveryClaimPaid
