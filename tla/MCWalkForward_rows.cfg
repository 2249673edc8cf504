SPECIFICATION Spec
CONSTANTS
  ver = ver
  ham = ham
  alo = alo
  None = None
  Driver = {ver, ham, alo}
  Team = {"bull", "merc"}
  Race = {1, 2, 3, 4, 5, 6, 7}
  Tables <- MCTables
  Orders <- MCOrders
  Undated = {2}
  Holdout = 2
  GridRound = 5
  NextRace = 6
INVARIANT ResultIsNotSeen
CHECK_DEADLOCK FALSE
