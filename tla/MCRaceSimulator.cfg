SPECIFICATION Spec
CONSTANTS
  None = None
  soft = soft
  medium = medium
  hard = hard
  N = 3
  Compound = {soft, medium, hard}
  Grip <- GripOf
  Deg <- DegOf
  Inputs <- Starts
  Noise <- Noises
  HardFrom = 2
  MediumFrom = 1
  FuelGain = 8
  PitLoss = 48
  DirtyAirPenalty = 8
  DirtyAirThreshold = 16
  ScLapPenalty = 40
  CompressionNum = 1
  CompressionDen = 2
  MandatoryStop = TRUE
  MinLapsLeftToPit = 1
  GainsThreshold = 1
  Podium = 2
  Points = 3
INVARIANTS
  ContractsCohere
  StopsAndTyresAgree
PROPERTY RetiredStayOut
CHECK_DEADLOCK FALSE
