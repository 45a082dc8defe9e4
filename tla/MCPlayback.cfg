SPECIFICATION FairSpec
CONSTANTS
  Frame = {f0, f1}
  ZeroFrame = f0
  BufferLengths <- MCBufferLengths
  U16 = 4
  StaticBuffer = TRUE
  StaticLength = 3
  FrameCount = 4
  Source = "avi"
INVARIANTS TypeOK FramesAccounted NoFrameDropped OvershootBounded
PROPERTIES DeinitIsFinal IsFramePipe PlaybackEnds
