SPECIFICATION Spec
CONSTANTS
  MaxUint = 99
  Router = "router"
  WSVP = "wsvp"
  ForeignChains = {"base"}
  MaxMsgs = 0
  Tenants = {"t1"}
  QuantumsPerUSDC = 10
  WithdrawMaxUSDC = 2
  DailyWithdrawCapUSDC = 2
  Owner = "alice"
  Tenant = "t1"
  Markets <- MCMarkets
  Digits = 1
  Decimals <- MCDecimals
  DepositMaxUSDC = 1
  TransferMaxUSDC = 0
  AllowedSubaccounts = {0, 1}
  FeeAmount = 1
  Requests <- SellRequests
  FollowUps = {}
  MaxPayloads = 1
  MaxSeq = 0
INVARIANT
  WorstPriceKept
CHECK_DEADLOCK FALSE
