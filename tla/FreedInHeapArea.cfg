CONSTANTS
  TOP_ALIGNMENT = 64
  PREPARED_SIZE = 40
  MIN_MIDDLE_SIZE = 24
  MIN_LARGE_SIZE = 40
  MIN_HUGE_SIZE = 56
  MAX_HEAP = 128
  Ids = {1, 3}
  Requests = {8, 16}
SPECIFICATION Spec
INVARIANT FreedInHeapArea
CHECK_DEADLOCK FALSE
