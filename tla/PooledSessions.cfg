SPECIFICATION FairSpec
CONSTANTS
  Tasks = {t1, t2, t3}
  MaxCapacity = 2
  MaxRounds = 2
  MaxTurns = 2
  MaxLength = 2
INVARIANTS
  SessionsWithinPool
  PermitsAccounted
  CancelEndsOneTurn
PROPERTIES
  WaiterServed
CHECK_DEADLOCK FALSE
