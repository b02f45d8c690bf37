SPECIFICATION Spec
CONSTANTS
  Threads = {t1, t2}
  Blocks = {b1, b2, b3}
  NULL = NULL
  Requests <- MCRequests
  BufferFreeTick = 1
  MaxTick = 2
  MaxDrift = 0
  SizeMod = 65536
  Debug = FALSE
CHECK_DEADLOCK FALSE
INVARIANTS TypeOK ExclusiveOwnership Integrity ListsExact Accounting NothingLeftBehind
PROPERTIES FitsRequest KeptForAWhile ImplementsOwnership
SYMMETRY Symmetry
