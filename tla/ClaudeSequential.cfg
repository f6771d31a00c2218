SPECIFICATION FairSpec
CONSTANTS
  MaxTurns = 2
  MaxChunks = 1
  MaxCancels = 1
  Concurrent = FALSE
  MayAbandon = TRUE
INVARIANTS
  TearsDownItsOwn
  ProcessesAccountedFor
  ResumesLatest
PROPERTIES
  CancelEndsTurn
  CloseEndsTurns
CHECK_DEADLOCK FALSE
