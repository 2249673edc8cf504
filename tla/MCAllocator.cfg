SPECIFICATION Spec
CONSTANTS
  ver = ver
  ham = ham
  None = None
  Driver = {ver, ham}
  Candidate <- Candidates
  Payout = 10
  Bankroll = 200
  MaxTotal = 40
  PerMarketCap = 15
  DriverCap = 24
  ClusterCap = 26
  KellyPercent = 90
INVARIANTS
  CapsHold
  NeverAboveQuarterKelly
  BooksBalance
  GreedyIsMaximal
CHECK_DEADLOCK FALSE
