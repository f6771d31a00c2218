SPECIFICATION Spec
CONSTANTS
  Calls = {c1, c2, c3, c4}
  None = None
INVARIANTS
  OwnsOneSubprocess
  ClosedMeansGone
  LeakExplained
  InitializedMeansKnown
CHECK_DEADLOCK FALSE
PROPERTIES
  NothingSentAfterClose
