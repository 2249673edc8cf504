SPECIFICATION PortfolioSpec
CONSTANTS
  ver = ver
  ham = ham
  None = None
  Driver = {ver, ham}
  Quote <- MCQuote
  DriverPrice <- MCDriverPrice
  RacePrice = 120
  Payout = 200
  HalfSpread = 3
  LevelStep = 2
  StandardError <- MCStandardError
  Fee = 2
  Slippage = 1
  MinEdge = 6
  MinConfidence = 75
  MinLiquidity = 100
  Listings <- MCListings
  MaxMoves = 2
  MaxProbes = 2
  Bankroll = 20000
  MaxTotal = 600
  PerMarketCap = 400
  DriverCap = 500
  ClusterCap = 1200
  KellyPercent = 10
INVARIANTS
  RankedIsHonest
  AtMostOneUnwelcome
  RankedHasEdge
  StakesComeFromTheScan
PROPERTIES
  ScanKeepsPromise
  RequestAnswered
CHECK_DEADLOCK FALSE
