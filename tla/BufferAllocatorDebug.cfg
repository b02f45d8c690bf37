SPECIFICATION Spec
CONSTANTS
  Threads = {t1, t2}
  Blocks = {b1, b2}
  NULL = NULL
  Requests <- MCRequests
  BufferFreeTick = 1
  MaxTick = 1
  MaxDrift = 0
  SizeMod = 65536
  Debug = TRUE
CHECK_DEADLOCK FALSE
INVARIANT ReuseAssertHolds
