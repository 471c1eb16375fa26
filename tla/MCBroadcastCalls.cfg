SPECIFICATION BoundedSpec
CONSTANTS
  alice = alice
  mallory = mallory
  t1 = t1
  t2 = t2
  c1 = c1
  c2 = c2
  Owners = {alice}
  Symbols = {"svp", "usdc", "usdv"}
  CappedSymbols = {"usdc"}
  CapValues <- MCCapValues
  Amounts <- MCAmounts
  NoCap = NoCap
  NoFile = NoFile
  Persistent = TRUE
  MaxDay = 2
  MaxUsed = 3
  Tenants = {t1, t2}
  OwnerOf <- MCOwnerOf
  MaxUint = 7
  QuantumsPerUSDC = 1
  WithdrawMaxUSDC = 2
  DailyWithdrawCapUSDC = 3
  ClientIDs = {c1, c2, EmptyID}
  EmptyID = EmptyID
  TTL = 1
  MaxTime = 2
  Router = "router"
  WSVP = "wsvp"
  ForeignChains <- MCForeign
  Requests = {r1, r2}
  Txs <- MixedTxs
  EVMEnabled = TRUE
INVARIANTS
  CapBoundsOutflow
  CountsAcceptedOnly
  ClaimsAreSpaced
  CapBoundsWithdrawals
SYMMETRY Symmetry
