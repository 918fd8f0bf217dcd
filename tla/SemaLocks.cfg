SPECIFICATION Spec
CONSTANTS
  m1 = m1
  m2 = m2
  m3 = m3
  Ms = {m1, m2, m3}
  Nil = Nil
  LOCKED = LOCKED
  Spin = 1
INVARIANTS
  TypeOK
  InSync
  NobodyIsForgotten
PROPERTIES
  IsMutex
  Wakes
