SPECIFICATION Spec
CONSTANTS
  v = v
  a = a
  s = s
  wv = wv
  uv = uv
  ua = ua
  us = us
  PortOf <- PortOfThread
  Kind <- KindOf
  Ports <- Video
  Threads <- OnlyVideoUser
  Workers <- None
  Drm <- OnlyVideoUser
  NonBlock <- None
  Phys <- None
  Size <- Five
  CanUse <- Five
  Counts <- OneOrFour
  Guard = 1
  MinWrite = 2
  Fraction = 2
  FetchBuf = 2
  MaxBytes = 6
  Signals = FALSE
  Faults = TRUE
  Stalls = FALSE
  LateIrq = FALSE
  OpenFails = FALSE
PROPERTIES
  NoPartReturn
CHECK_DEADLOCK FALSE
