SPECIFICATION Spec
CONSTANTS
  Handles = {h, g}
  Bodies = {b1, b2, b3}
  NULL = NULL
  Chars = {x}
  MaxLen = 1
  Garbage = {0}
  MaxCount = 2
INVARIANT NoDanglingString
CHECK_DEADLOCK FALSE
