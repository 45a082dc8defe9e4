SPECIFICATION FairSpec
CONSTANTS
  Pictures <- MCPictures
  RestartIntervals <- MCRestartIntervals
  Side = 2
  RestartNumbers = 2
INVARIANTS TypeOK CountersAgree RestartsInStep CopyInBounds PictureComplete
PROPERTIES LoopEnds
CHECK_DEADLOCK FALSE
