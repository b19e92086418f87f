SPECIFICATION FairOrderlySpec
CONSTANTS
  Users = {1, 2}
  Durations = {1, 2}
  Boost <- BoostOneTwo
  Owners = {owner}
  Scale = 12
  TaxRate = 6
  TaxCap = 1
  InitTimestamp = 0
  DepositWindow = 2
  WithdrawalWindow = 1
  SecondsPerDurationUnit = 1
  NukeBatchSize = 10
  ConfigUpdates <- AllAddresses
  MarsAmounts = {2, 5}
  MintChoices = {2, 5}
  XmarsAccruals = {0}
  MaxTime = 4
  MaxUst = 4
  MaxMars = 5
  MaxXmars = 0
INVARIANTS
  TypeOK
  UstConserved
  MarsConserved
  RewardsFunded
PROPERTIES
  RewardBasisFrozen
  EveryPositionUnlocks
CHECK_DEADLOCK FALSE
