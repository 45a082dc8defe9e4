SPECIFICATION CallsSpec
CONSTANTS
  Frame = {f0, f1}
  ZeroFrame = f0
  BufferLengths <- MCBufferLengths
  U16 = 4
  StaticBuffer = FALSE
  StaticLength = 2
INVARIANTS CallsTypeOK CursorsAgree
PROPERTIES IsFrameQueue
