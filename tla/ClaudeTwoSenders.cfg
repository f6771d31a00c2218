SPECIFICATION Spec
CONSTANTS
  MaxTurns = 2
  MaxChunks = 0
  MaxCancels = 0
  Concurrent = TRUE
  MayAbandon = FALSE
INVARIANTS
  OneTurnInFlight
CHECK_DEADLOCK FALSE
