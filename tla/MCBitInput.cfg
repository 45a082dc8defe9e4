SPECIFICATION Spec
CONSTANTS
  Width = 2
  InBufSize = 6
  Reserve = 4
  EOI = 1
  RST = 2
  MaxScan = 6
  Streams <- MCStreams
  MaxTaken = 10
INVARIANTS
  TypeOK
  StreamKept
  LowBitsZero
  BitsInOrder
PROPERTY
  RestartFindsMarker
CHECK_DEADLOCK FALSE
