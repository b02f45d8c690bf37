SPECIFICATION Spec
CONSTANTS
  Lists = {l1, l2}
  Nodes = {n1, n2}
  Iterators = {i1, i2}
  NULL = NULL
  ClientRules = {}
INVARIANT IteratorsRegistered
SYMMETRY Symmetry
