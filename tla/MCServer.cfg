SPECIFICATION Spec
CONSTANTS
  Perps = {"perpBtc"}
  Tickers = {"BTC-USD"}
  TickerOf <- MCTickerOf
  Pairs = {1, 2, 3}
  PerpOf <- MCPerpOf
  Spot = Spot
  None = None
  MaxVersion = 1
  CTokens = {"cUSDC", "cSVP"}
  Native = "cSVP"
  NoAddr = NoAddr
  Configs <- MCConfigs
  RouteFiles <- MCRouteFiles
  NoConfig = NoConfig
  MaxRequests = 1
INVARIANTS
  WiredAsConfigured
  OnlySpotPairsDropped
  NativeIsNative
  OrderlyExit
PROPERTIES
  ResolvedStaysResolved
  SignalEnds
  ListedBecomesResolvable
CHECK_DEADLOCK FALSE
