SPECIFICATION Spec

CONSTANTS
  Users = {1, 2}
  Owners = {owner}
  Scale = 12
  MaxTime = 5
  Durations = {1}
  Boost <- BoostOne
  LockdropInitTimestamp = 0
  DepositWindow = 2
  LockdropWithdrawalWindow = 1
  SecondsPerDurationUnit = 1
  NukeBatchSize = 1
  ConfigUpdates <- AllAddresses
  MaUstMintChoices = {1}
  XmarsAccruals = {0}
  MaxXmars = 0
  LeafHash <- LeafHashes
  TheAuction = auction
  NoAuction = noAuction
  Lists <- OneList
  ListChoices <- OnlyThatList
  Timestamps = {0, 5}
  ClaimAmounts = {1}
  Pools = {pool}
  NoPool = noPool
  Stakings = {}
  NoStaking = noStaking
  Generators = {generator}
  TaxRate = 0
  TaxCap = 0
  AuctionInitTimestamp = 3
  MarsDepositWindow = 0
  UstDepositWindow = 0
  WithdrawalWindow = 0
  MarsVestingDuration = 1
  LpTokensVestingDuration = 1
  LpMintChoices = {1}
  RewardChoices <- NoRewards
  LiquidityChoices <- OneLiquidity
  IncentiveAmounts = {1}
  MaxIncentives = 1
  MaxRewardIndex = 0
  MarsAmounts = {1}
  MaxUst = 1
  MaxMars = 2
  MaxAirdropMars = 1

INVARIANTS DelegationsMatch RecordedDelegationsMatch ClaimsEnabledTogether PoolCreatable
PROPERTIES KeepsPromise
CHECK_DEADLOCK FALSE
