SPECIFICATION Spec
CONSTANTS
  Threads = {t1, t2}
  Vars = {v1, v2}
  Objs = {o1, o2}
  NULL = NULL
  ClientRules = {"exclusive"}
  InitialCounts = {0}
CHECK_DEADLOCK FALSE
INVARIANT StoresCounted
