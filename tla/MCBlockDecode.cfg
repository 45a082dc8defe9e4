SPECIFICATION Spec
CONSTANTS
  ScanTypes <- MCScanTypes
  MaxRun = 15
INVARIANTS TypeOK ModesAgree PixelsComplete
PROPERTIES CoefficientsFresh
