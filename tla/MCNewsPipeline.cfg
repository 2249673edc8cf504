SPECIFICATION Spec
CONSTANTS
  ver = ver
  ham = ham
  penalty = penalty
  rain = rain
  bahrain = bahrain
  jeddah = jeddah
  None = None
  Driver = {ver, ham}
  Document <- Documents
  ConfirmingSource <- Sources
  Reliability <- Scores
  EntitylessOk <- Rain
  GridPrior <- Grid
  Time <- Times
  MaxDocuments = 3
INVARIANTS
  ActiveIsExact
  SupersededOnce
  ClustersPartitionActive
PROPERTY ConfirmedNewsSticks
