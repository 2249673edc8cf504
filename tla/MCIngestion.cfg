SPECIFICATION IngestionSpec
CONSTANTS
  ver = ver
  ham = ham
  soft = soft
  rain = rain
  dry = dry
  scorching = scorching
  freezing = freezing
  None = None
  Driver = {ver, ham}
  Tyre = {soft}
  Weather = {rain, dry, scorching, freezing}
  Meeting = {}
  Sessions <- MCSessions
  Ended = 10
  MaxDownloads = 2
  MaxLog = 4
  Logs <- AllLogs
  MaxPlausiblePosition = 2
  NonPositiveLap <- Slow
  TrackImplausible = {scorching, freezing}
  AirImplausible = {scorching}
INVARIANTS
  LoadedKeepsItsPlaces
  DownloadKeepsOneClock
  LapIssuesAreExact
  PitIssuesAreExact
  OkLogCountsLapsUp
  TyreWarningsAreExact
CHECK_DEADLOCK FALSE
