SPECIFICATION OrderlySpec
CONSTANTS
  Users = {1}
  Durations = {1, 2}
  Boost <- BoostOneTwo
  Owners = {owner}
  Scale = 12
  TaxRate = 6
  TaxCap = 1
  InitTimestamp = 1
  DepositWindow = 2
  WithdrawalWindow = 1
  SecondsPerDurationUnit = 2
  NukeBatchSize = 1
  ConfigUpdates <- AllAddresses
  MarsAmounts = {4}
  MintChoices = {4}
  XmarsAccruals = {0}
  MaxTime = 9
  MaxUst = 3
  MaxMars = 4
  MaxXmars = 0
PROPERTIES
  UnlockedOnlyAfterExpiry
CHECK_DEADLOCK FALSE
