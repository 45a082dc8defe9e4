SPECIFICATION Spec
CONSTANTS
  Streams <- MCStreams
  CodeLengths = 4
  QuantSize = 2
  MaxDC = 12
  MaxAC = 255
  MaxSize = 16384
  SOILimit = 12
INVARIANTS TypeOK TablesUsedAreRead HuffmanCanonical
PROPERTIES SegmentsInStep InitReturns
CHECK_DEADLOCK FALSE
