SPECIFICATION Spec
CONSTANTS
  alice = alice
  mallory = mallory
  t1 = t1
  t2 = t2
  c1 = c1
  c2 = c2
  Owners = {alice}
  Symbols = {"svp", "usdc", "usdv"}
  CappedSymbols = {"usdc"}
  CapValues <- MCCapValues
  Amounts <- MCAmounts
  NoCap = NoCap
  NoFile = NoFile
  Persistent = FALSE
  MaxDay = 1
  MaxUsed = 3
  Tenants = {t1, t2}
  OwnerOf <- MCOwnerOf
  MaxUint = 7
  QuantumsPerUSDC = 1
  WithdrawMaxUSDC = 0
  DailyWithdrawCapUSDC = 0
  ClientIDs = {c1}
  EmptyID = EmptyID
  TTL = 2
  MaxTime = 1
  Router = "router"
  WSVP = "wsvp"
  ForeignChains <- MCForeign
  Requests = {r1, r2}
  Txs <- OneTx
  EVMEnabled = TRUE
INVARIANT
  ReservedAfterSuccess
SYMMETRY Symmetry
