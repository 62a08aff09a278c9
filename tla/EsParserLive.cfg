SPECIFICATION FairSpec
CONSTANTS
  v = v
  a = a
  s = s
  wv = wv
  uv = uv
  ua = ua
  us = us
  PortOf <- PortOfThread
  Kind <- KindOf
  Ports <- VideoAndSub
  Threads <- VideoAndSubUser
  Workers <- None
  Drm <- None
  NonBlock <- None
  Phys <- None
  Size <- Two
  CanUse <- Two
  Counts <- JustThree
  Guard = 1
  MinWrite = 2
  Fraction = 2
  FetchBuf = 2
  MaxBytes = 4
  Signals = TRUE
  Faults = TRUE
  Stalls = TRUE
  LateIrq = TRUE
  OpenFails = FALSE
PROPERTIES
  CallsReturn
