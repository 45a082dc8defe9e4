SPECIFICATION FairSpec
CONSTANTS
  Byte <- MCByte
  ByteValue <- MCByteValue
  NoByte = "n0"
  InBuf = 1
  Videos <- MCVideos
INVARIANTS TypeOK SearchInStep CallbackInChunk ChunksInOrder EndNotEarly NoFrameNoDecode
PROPERTIES SearchReturns
CHECK_DEADLOCK FALSE
