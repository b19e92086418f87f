SPECIFICATION Spec

CONSTANTS
  Users = {u1}
  Owners = {owner}
  Tokens = {lp}
  NoToken = none
  Scale = 12
  InitTimestamp = 1
  TillTimestamp = 5
  CycleDuration = 2
  CycleRewards = {3, 4}
  RewardIncreases = {0, 6}
  MarsAmounts = {4}
  MaxTime = 7
  MaxStake = 1
  MaxMars = 4

INVARIANTS TypeOK
PROPERTIES FollowsSchedule
