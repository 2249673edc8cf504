SPECIFICATION Spec
CONSTANTS
  ver = ver
  ham = ham
  soft = soft
  hard = hard
  dry = dry
  rain = rain
  spa = spa
  None = None
  Driver = {ver, ham}
  Tyre = {soft, hard}
  Weather = {dry, rain}
  Meeting = {spa}
  Source <- AllEvents
  RecentKept = 2
  MaxLog = 3
INVARIANTS
  TypeOK
  CarsMatchLog
  RaceMatchesLog
  RecentIsTail
  ReplayIsCanonical
PROPERTY ReplayMovesForward
CHECK_DEADLOCK FALSE
