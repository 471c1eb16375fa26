SPECIFICATION Spec
CHECK_DEADLOCK FALSE
CONSTANTS
  MaxUint = 99
  MaxUint256 = 1000
  Home = 7
  Foreign = {3}
  Owner = "0xme"
  Zero = "0x0"
  Router = "0xrouter"
  WSVP = "0xwsvp"
  HexAddrs <- MCHexAddrs
  Folded <- MCFolded
  BridgeAt <- MCBridgeAt
  KnownSwapTokens <- MCKnown
  TokenDecimals <- MCDecimals
  Scenarios <- MCScenarios
  World <- MCWorld
  Rates <- MCRates
  MaxNonce = 2
  Scale = 4
  RepayMax = 1000
  NativeMarket = "cN"
  Listed <- MCListed
  Factor <- MCFactor
  Digits <- MCDigits
  Accounts <- MCAccounts
  Prices <- MCPrices
  MaxMoves = 2
INVARIANTS
  RoutesAreFound
  NonceIsFree
  ApproveFirst
  AnswersAreTrue
  GuardsAreTheComptrollers
  ProjectionComesTrue
  ReportIsTrue
  
PROPERTIES
  SwapPaysItsFloor
  DepositReachesTheTwin
  ApprovalUnblocks
  FullMeansAll
