SPECIFICATION FairSpec
CONSTANTS
  Tasks = {t1, t2}
  MaxLines = 2
  LineKinds = {"object", "blank", "malformed", "nonobject", "oversize"}
INVARIANTS
  CloseMeansGone
  CancelMeansGone
  PoliteBeforeKill
PROPERTIES
  CallsEnd
  ReceiveEnds
CHECK_DEADLOCK FALSE
