SPECIFICATION Spec
CONSTANTS
  MaxUint = 99
  Router = "router"
  WSVP = "wsvp"
  ForeignChains = {"base"}
  MaxMsgs = 3
  Tenants = {"t1"}
  QuantumsPerUSDC = 10
  WithdrawMaxUSDC = 2
  DailyWithdrawCapUSDC = 2
  Owner = "alice"
  Tenant = "t1"
  Markets <- MCMarkets
  Digits = 1
  Decimals <- MCDecimals
  DepositMaxUSDC = 1
  TransferMaxUSDC = 0
  AllowedSubaccounts = {0, 1}
  FeeAmount = 1
  Requests <- MCRequests
  FollowUps <- MCFollowUps
  MaxPayloads = 2
  MaxSeq = 2
INVARIANTS
  InspectionIsExact
  GoodUntilOvertaken
  OrderIsWhatWasAsked
  CapsSeeWhatWasTyped
\* A transaction of MaxMsgs messages is complete.
CHECK_DEADLOCK FALSE
