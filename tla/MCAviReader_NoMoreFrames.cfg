SPECIFICATION FairSpec
CONSTANTS
  Byte <- MCByte
  ByteValue <- MCByteValue
  NoByte = "n0"
  InBuf = 1
  Videos <- MCVideos
PROPERTIES NoMoreFrames
CHECK_DEADLOCK FALSE
