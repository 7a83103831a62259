SPECIFICATION Spec
CONSTANTS
  Builds = {"USE_FCYC", "USE_ITIMER", "USE_GETTOD"}
  Word = 4
  Second = 4
  Starts = {0, 7}
  Durations = {3, 9}
  TickCosts = {3, 4, 5}
  Runs = 2
  kbest = 2
  maxsamples = 3
  NEVENT = 2
  RECORDTHRESH = 3
  Closeness = 4
  Argvs <- MCArgvs
  Files <- MCFiles
  default_tracefiles <- MCDefault
  TRACEDIR = "traces/"
  ALIGNMENT = 2
  MAX_HEAP = 8
  AVG_LIBC_THRUPUT = 1
  UTIL_WEIGHT = 60
  Addresses <- MCAddresses
  Filled = {TRUE, FALSE}
INVARIANTS VerdictSound RangesAreLive IndexIsEarned MeasuredIsElapsed
CHECK_DEADLOCK FALSE
