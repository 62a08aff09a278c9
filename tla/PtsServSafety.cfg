SPECIFICATION Spec
CONSTANTS
  Types <- VideoAndAudio
  RecNum = 3
  M = 8
  BufSize = 4
  Pages = 2
  Threshold = 1
  KeepRange = 2
  AudioRes = 3
  Vals <- ZeroAndTwo
  Window = 3
  AllocFails = TRUE
  Overlaps = FALSE
INVARIANTS
  TypeOK
  Sorted
  RecordsKept
  SearchStart
  LookupBest
  
  
PROPERTIES
  TableSpec
CHECK_DEADLOCK FALSE
