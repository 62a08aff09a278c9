SPECIFICATION FairSpec
CONSTANTS
  a = a
  b = b
  m = m
  s = s
  None = None
  Mains = {m}
  Slaves = {s}
  Master <- DualMaster
  Steady = {}
  MaxSem = 1
INVARIANTS
  TypeOK
  HwHasOneOwner
  ListsRight
  
  WakeupComes
PROPERTIES
  DisconnectReturns
  HwSpec
