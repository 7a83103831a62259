CONSTANTS
  small = small
  large = large
  huge = huge
  Urls = {small, large, huge}
  Size <- MCSize
  MAX_CACHE_SIZE = 2
  MAX_OBJECT_SIZE = 2
  Objects = {o1, o2, o3}
  Threads = {t1, t2}
  MaxFds = 5
SPECIFICATION FairSpec
INVARIANTS
  ListIntact
  NoFaultUntilFull
  ServedIsRequested
  TotalAccounted
PROPERTY RequestEnds
CHECK_DEADLOCK FALSE
