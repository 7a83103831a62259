\* A ^C or ^Z whose handler delays the SIGCHLD handler and waitfg.
CONSTANTS
  MAXJOBS = 1
  Pids = {p1, p2}
  MaxKeys = 1
SPECIFICATION FairSpec
PROPERTIES
  ZombiesAreReaped
  WaitEndsWithJob
CHECK_DEADLOCK FALSE
