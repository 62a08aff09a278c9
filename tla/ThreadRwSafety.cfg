SPECIFICATION Spec
CONSTANTS
  w1 = w1
  w2 = w2
  Writers <- TwoWriters
  Counts <- OneOrThree
  MaxBufs = 5
  InitNum = 3
  Block = 2
  CmaAlign = 4
  GrowSize = 4
  GrowLimit = 7
  MaxBytes = 4
  MaxWaits = 2
  FlushTries = 1
  NonBlock = FALSE
  Faults = TRUE
  ParserErrors = TRUE
INVARIANTS
  TypeOK
  Contiguous
  PlayedInOrder
  
  BuffersNotShared
  NoBufferLost
  DataIsAttended
  NothingRunsOnFreedTask
  
PROPERTIES
  FlushOkMeansPlayed
  StreamSpec
SYMMETRY Symmetry
CHECK_DEADLOCK FALSE
