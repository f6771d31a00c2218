SPECIFICATION Spec
CONSTANTS
  Turns = {t1}
  Cap = 2
  MaxBlocks = 3
  MaxDeltas = 2
INVARIANTS
  WellFormedConversation
  ReplyPlayedBack
  RoundsBounded
  ToolsBounded
  HostViewInOrder
  NoToolLeftBehind
CHECK_DEADLOCK FALSE
