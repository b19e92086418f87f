SPECIFICATION Spec
CONSTANTS
  Users = {1, 2}
  Durations = {2}
  Boost <- BoostOneTwo
  Owners = {alice, bob}
  Scale = 12
  TaxRate = 6
  TaxCap = 1
  InitTimestamp = 1
  DepositWindow = 6
  WithdrawalWindow = 5
  SecondsPerDurationUnit = 1
  NukeBatchSize = 1
  ConfigUpdates <- EachAddress
  MarsAmounts = {3}
  MintChoices = {3}
  XmarsAccruals = {0}
  MaxTime = 13
  MaxUst = 6
  MaxMars = 3
  MaxXmars = 0
PROPERTIES
  LateWithdrawalOnce
CHECK_DEADLOCK FALSE
