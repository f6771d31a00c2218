SPECIFICATION FairSpec
CONSTANTS
  MaxTurns = 2
  MaxUpdates = 1
  MaxCancels = 1
  MaxNoise = 1
  NoiseKinds = {"poison"}
  MayAbandon = TRUE
  MayCrash = TRUE
INVARIANTS
  OneLiveStream
  MarkNamesLiveStream
  CompleteTurn
  StreamedInOrder
  NoStrandedStream
  WedgedOnlyByLostSend
  ClosedMeansDown
PROPERTIES
  StreamEnds
  CloseEndsStreams
CHECK_DEADLOCK FALSE
