SPECIFICATION Spec
CONSTANTS
  a = a
  m = m
  s = s
  None = None
  Mains = {a, m}
  Slaves = {s}
  Master <- DualMaster
  SelfContext = {TRUE, FALSE}
INVARIANTS
  TypeOK
  
  AtMostOneBehind
