SPECIFICATION Spec
CONSTANTS
  Launches = {l1, l2, l3}
  None = None
  NTags = 3
  Attempts = 2
CHECK_DEADLOCK FALSE
INVARIANTS
  TypeOK
  
  NothingLeft
  
