SPECIFICATION FairSpec
CONSTANTS
  Sizes <- MCSizes
  MaxMessage = 2
  QueueLen = 2
  MaxFrames = 3
  MaxStarts = 2
INVARIANTS TypeOK ShowsWholeFrame
PROPERTIES LastFrameShown
CHECK_DEADLOCK FALSE
