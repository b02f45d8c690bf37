SPECIFICATION Spec
CONSTANTS
  NULL = NULL
INVARIANTS
  
  GCCollects
  TablesExact
  CallsRestored
  CodeComputes
  LibrariesAgree
  ApiKept
CHECK_DEADLOCK FALSE
