SPECIFICATION Spec
CONSTANTS
  Lists = {l1, l2}
  Nodes = {n1, n2, n3}
  Iterators = {i1, i2, i3}
  NULL = NULL
  ClientRules = {"keep_last"}
INVARIANTS TypeOK WellLinked IteratorsRegistered OnList VisitsAll
PROPERTY VisitsOnce
SYMMETRY Symmetry
