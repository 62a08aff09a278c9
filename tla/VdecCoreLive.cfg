SPECIFICATION FairSpec
CONSTANTS
  a = a
  b = b
  m = m
  s = s
  None = None
  Mains = {a, b}
  Slaves = {}
  Master <- NoMaster
  Steady = {b}
  MaxSem = 1
PROPERTIES
  DisconnectReturns
  NoStarvation
