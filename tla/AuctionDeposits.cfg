SPECIFICATION Spec

CONSTANTS
  Users = {u1, u2}
  Owners = {owner}
  Pools = {p1}
  NoPool = noPool
  Stakings = {s1}
  NoStaking = noStaking
  Generators = {g1, g2}
  Scale = 12
  TaxRate = 3
  TaxCap = 2
  InitTimestamp = 1
  MarsDepositWindow = 0
  UstDepositWindow = 0
  WithdrawalWindow = 2
  MarsVestingDuration = 2
  LpTokensVestingDuration = 4
  MintChoices = {5}
  RewardChoices <- NoRewards
  LiquidityChoices <- OneLiquidity
  IncentiveAmounts = {3}
  MaxTime = 6
  MaxMars = 2
  MaxUst = 5
  MaxIncentives = 3
  MaxRewardIndex = 0

SYMMETRY UserSymmetry
INVARIANTS DepositsCovered PoolCreatable SharesOfMinted LpTracked SharesWithdrawable
PROPERTIES PaidAsVested
CHECK_DEADLOCK FALSE
