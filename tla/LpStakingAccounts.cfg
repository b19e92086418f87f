SPECIFICATION AccountSpec
CONSTANTS
  Users = {u1, u2}
  Owners = {owner}
  Tokens = {lp1, lp2}
  NoToken = none
  Scale = 12
  InitTimestamp = 1
  TillTimestamp = 6
  CycleDuration = 2
  CycleRewards = {3}
  RewardIncreases = {6}
  MarsAmounts = {4}
  MaxTime = 6
  MaxStake = 2
  MaxMars = 4
  MaxStakeChanges = 3

SYMMETRY UserSymmetry
INVARIANTS AccrualMatchesSchedule CreditsMatchDistribution StakesAddUp RewardsAlwaysCredited StakeAlwaysWithdrawable
