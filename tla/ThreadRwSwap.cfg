SPECIFICATION Spec
CONSTANTS
  w1 = w1
  w2 = w2
  Writers <- OneWriter
  Counts <- ShortAndLong
  MaxBufs = 5
  InitNum = 3
  Block = 2
  CmaAlign = 4
  GrowSize = 4
  GrowLimit = 7
  MaxBytes = 6
  MaxWaits = 2
  FlushTries = 1
  NonBlock = FALSE
  Faults = TRUE
  ParserErrors = FALSE
INVARIANTS
  AtLeastThreeBuffers
CHECK_DEADLOCK FALSE
