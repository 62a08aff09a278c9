SPECIFICATION Spec
CONSTANTS
  Types <- JustVideo
  RecNum = 3
  M = 8
  BufSize = 4
  Pages = 2
  Threshold = 1
  KeepRange = 2
  AudioRes = 3
  Vals <- JustOne
  Window = 3
  AllocFails = FALSE
  Overlaps = FALSE
INVARIANT RecNumIsBigger
CHECK_DEADLOCK FALSE
