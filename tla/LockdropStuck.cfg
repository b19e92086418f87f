SPECIFICATION FairOrderlySpec
CONSTANTS
  Users = {1, 2}
  Durations = {1}
  Boost <- BoostOneTwo
  Owners = {owner}
  Scale = 12
  TaxRate = 6
  TaxCap = 1
  InitTimestamp = 0
  DepositWindow = 2
  WithdrawalWindow = 1
  SecondsPerDurationUnit = 1
  NukeBatchSize = 1
  ConfigUpdates <- AllAddresses
  MarsAmounts = {}
  MintChoices = {4}
  XmarsAccruals = {0, 2}
  MaxTime = 4
  MaxUst = 2
  MaxMars = 0
  MaxXmars = 4
PROPERTIES
  EveryPositionUnlocks
CHECK_DEADLOCK FALSE
