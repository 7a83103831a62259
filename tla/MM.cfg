CONSTANTS
  TOP_ALIGNMENT = 64
  PREPARED_SIZE = 40
  MIN_MIDDLE_SIZE = 24
  MIN_LARGE_SIZE = 40
  MIN_HUGE_SIZE = 56
  MAX_HEAP = 128
  Ids = {1, 2, 3}
  Requests = {12, 20, 32}
SPECIFICATION SoundSpec
VIEW LiveView
INVARIANTS
  DataKept
  HeapTiled
  BoundaryTags
  BinsExact
PROPERTIES
  ReallocKeeps
  AllocatorSpec
CHECK_DEADLOCK FALSE
