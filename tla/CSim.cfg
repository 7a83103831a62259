CONSTANTS
  Addr <- MCAddr
  Argvs <- MCArgvs
  s = 1
  E = 3
  b = 1
  Garbage = {1}
  MaxAccesses = 6
SPECIFICATION Spec
INVARIANTS
  ListOrdered
PROPERTIES
  ModifyHits
  CacheSpec
CHECK_DEADLOCK FALSE
