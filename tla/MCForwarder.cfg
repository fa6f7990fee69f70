CONSTANTS
  MaxSent = 4
  Buffer = 2
SPECIFICATION FairSpec
INVARIANTS
  TypeOK
  Delivered

  
CHECK_DEADLOCK FALSE
