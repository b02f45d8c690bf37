SPECIFICATION Spec
CONSTANTS
  Threads = {t1, t2}
  Vars = {v1, v2}
  Objs = {o1, o2}
  NULL = NULL
  ClientRules = {"exclusive", "outside"}
  InitialCounts = {0, 1}
CHECK_DEADLOCK FALSE
INVARIANT NoneForgotten
