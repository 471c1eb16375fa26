SPECIFICATION Spec
CONSTANTS
  Perps = {"perpBtc"}
  Tickers = {"BTC-USD"}
  TickerOf <- MCTickerOf
  Pairs = {1, 3}
  PerpOf <- MCPerpOf
  Spot = Spot
  None = None
  MaxVersion = 1
  CTokens = {"cUSDC", "cSVP"}
  Native = "cSVP"
  NoAddr = NoAddr
  Configs <- SmallConfigs
  RouteFiles <- NoRoutes
  NoConfig = NoConfig
  MaxRequests = 0
PROPERTY
  FirstRefreshIsFatal
CHECK_DEADLOCK FALSE
