SPECIFICATION Spec

CONSTANTS
  Users = {u1}
  Owners = {owner}
  Pools = {p1}
  NoPool = noPool
  Stakings = {s1}
  NoStaking = noStaking
  Generators = {g1}
  Scale = 12
  TaxRate = 3
  TaxCap = 2
  InitTimestamp = 0
  MarsDepositWindow = 0
  UstDepositWindow = 0
  WithdrawalWindow = 0
  MarsVestingDuration = 2
  LpTokensVestingDuration = 4
  MintChoices = {5}
  RewardChoices <- NoRewards
  LiquidityChoices <- OneLiquidity
  IncentiveAmounts = {3}
  MaxTime = 3
  MaxMars = 1
  MaxUst = 2
  MaxIncentives = 6
  MaxRewardIndex = 0

INVARIANTS IncentivesProRata
CHECK_DEADLOCK FALSE
