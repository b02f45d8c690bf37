SPECIFICATION Spec
CONSTANTS
  t1 = t1
  t2 = t2
  l1 = l1
  l2 = l2
  Threads = {t1, t2}
  Lists = {l1, l2}
  Mutexes = {m1, m2}
  NULL = NULL
  Uninitialised = Uninitialised
  ONE_TIME_NUM = 1
  Owner <- MCOwner
  MaxMade = 2
  MaxBatch = 2
  MaxLength = 2
INVARIANTS TypeOK InBounds
PROPERTY ImplementsQueue
SYMMETRY Symmetry
