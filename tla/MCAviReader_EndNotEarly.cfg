SPECIFICATION FairSpec
CONSTANTS
  Byte <- MCByte
  ByteValue <- MCByteValue
  NoByte = "n0"
  InBuf = 1
  Videos <- MCVideosZeroBefore
INVARIANTS EndNotEarly
CHECK_DEADLOCK FALSE
