SPECIFICATION FairSpec

CONSTANTS
  Users = {u1, u2}
  Owners = {owner}
  Pools = {p1}
  NoPool = noPool
  Stakings = {s1}
  NoStaking = noStaking
  Generators = {g1}
  Scale = 12
  TaxRate = 3
  TaxCap = 2
  InitTimestamp = 0
  MarsDepositWindow = 0
  UstDepositWindow = 0
  WithdrawalWindow = 0
  MarsVestingDuration = 1
  LpTokensVestingDuration = 4
  MintChoices = {5}
  RewardChoices <- SomeRewards
  LiquidityChoices <- OneLiquidity
  IncentiveAmounts = {3}
  MaxTime = 2
  MaxMars = 1
  MaxUst = 2
  MaxIncentives = 3
  MaxRewardIndex = 8

INVARIANTS RewardsSolvent
PROPERTIES QueryMatchesClaim EveryoneServed
CHECK_DEADLOCK FALSE
