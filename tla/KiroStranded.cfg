SPECIFICATION FairSpec
CONSTANTS
  MaxTurns = 2
  MaxUpdates = 1
  MaxCancels = 0
  MaxNoise = 1
  NoiseKinds = {"poison"}
  MayAbandon = FALSE
  MayCrash = FALSE
PROPERTIES
  EveryStreamEnds
CHECK_DEADLOCK FALSE
