SPECIFICATION Spec
CONSTANTS
  v = v
  a = a
  s = s
  wv = wv
  uv = uv
  ua = ua
  us = us
  PortOf <- PortOfThread
  Kind <- KindOf
  Ports <- Video
  Threads <- OnlyVideoUser
  Workers <- None
  Drm <- None
  NonBlock <- None
  Phys <- None
  Size <- Five
  CanUse <- Five
  Counts <- OneOrFour
  Guard = 1
  MinWrite = 2
  Fraction = 2
  FetchBuf = 2
  MaxBytes = 9
  Signals = TRUE
  Faults = FALSE
  Stalls = FALSE
  LateIrq = FALSE
  OpenFails = FALSE
INVARIANTS
  ReserveKept
CHECK_DEADLOCK FALSE
