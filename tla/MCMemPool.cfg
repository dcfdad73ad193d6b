SPECIFICATION Spec
CONSTANTS
  capacity = 4
  SIZE_MAX = 255
INVARIANTS
  FreeListOK
PROPERTY
  ImplementsPool
CHECK_DEADLOCK FALSE
