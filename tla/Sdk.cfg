SPECIFICATION Spec
CONSTANTS
  NULL = NULL
  Sentinel = Sentinel
INVARIANTS
  
  CountersAgree
  
  
  
  
  MessagesWhole
  
CHECK_DEADLOCK FALSE
