SPECIFICATION Spec
CONSTANTS
  t1 = t1
  t2 = t2
  Tasks <- One
  Resetters <- Nobody
  NoTask = NoTask
  MaxLen = 1
  MaxMutex = 1
INVARIANT
  Synchronous
