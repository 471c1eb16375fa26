SPECIFICATION StoreSpec
CONSTANTS
  Owners = {alice}
  Symbols = {svp, usdc}
  CapValues <- MCCapValues
  Amounts <- MCAmounts
  NoCap = NoCap
  NoFile = NoFile
  Persistent = TRUE
  MaxDay = 3
  MaxUsed = 2
INVARIANTS
  StoreTypeOK
  UsageIsTodays
  RestartKeepsState
  RestartNeverResurrectsUsage
PROPERTY
  QuotaSpec
