SPECIFICATION Spec
CONSTANTS
  MaxTurns = 2
  MaxUpdates = 2
  MaxCancels = 1
  MaxNoise = 1
  NoiseKinds = {"noise", "poison"}
  MayAbandon = FALSE
  MayCrash = TRUE
PROPERTIES
  KeepsContract
CHECK_DEADLOCK FALSE
