SPECIFICATION PricingSpec
CONSTANTS
  ver = ver
  ham = ham
  None = None
  Driver = {ver, ham}
  Tyre = {}
  Weather = {}
  Meeting = {}
  Source <- Seen
  RecentKept = 2
  MaxLog = 0
  Races <- RacesRun
  TotalLaps = 3
  ActiveLapTolerance = 1
  RetiredGap = 200
INVARIANTS
  CutIsTheRaceSoFar
  RetiredAsTheLogSays
  SimStartsInTowerOrder
CHECK_DEADLOCK FALSE
