SPECIFICATION Spec
CONSTANTS
  Users = {1, 2}
  Durations = {1, 2}
  Boost <- BoostOneTwo
  Owners = {owner}
  Scale = 12
  TaxRate = 6
  TaxCap = 1
  InitTimestamp = 1
  DepositWindow = 2
  WithdrawalWindow = 1
  SecondsPerDurationUnit = 1
  NukeBatchSize = 1
  ConfigUpdates <- AllAddresses
  MarsAmounts = {2}
  MintChoices = {2, 4}
  XmarsAccruals = {0, 3}
  MaxTime = 5
  MaxUst = 4
  MaxMars = 4
  MaxXmars = 3
INVARIANTS
  PositionsMatchLockups
  UstCovered
  PositionsBacked
  ShareCoversPositions
  XmarsSolvent
PROPERTIES
  PaidRewardsFinal
CHECK_DEADLOCK FALSE
