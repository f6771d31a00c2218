SPECIFICATION Spec
CONSTANTS
  Turns = {t1}
  Cap = 1
  MaxBlocks = 1
  MaxDeltas = 1
PROPERTIES
  CancelGivesUp
CHECK_DEADLOCK FALSE
