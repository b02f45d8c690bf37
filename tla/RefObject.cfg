SPECIFICATION Spec
CONSTANTS
  Threads = {t1, t2}
  Vars = {v1, v2}
  Objs = {o1, o2, o3}
  NULL = NULL
  ClientRules = {"exclusive", "outside"}
  InitialCounts = {0}
CHECK_DEADLOCK FALSE
INVARIANTS TypeOK CountsExact NoDangling SafeAccess StoresCounted NoneForgotten
SYMMETRY Symmetry
