\* Two jobs and a key: a SIGCHLD handler and a ^C or ^Z handler interrupt
\* each other and main at every point.
CONSTANTS
  MAXJOBS = 2
  Pids = {p1, p2}
  MaxKeys = 1
SPECIFICATION Spec
SYMMETRY Symmetry
INVARIANTS
  AtMostOneFG
  PromptMeansNoFG
  NoGhostJob
  NoLostJob
  StoppedJobIsStopped
  NeverForwardedToBG
PROPERTIES
  JobEndsWithChild
  JobControlSpec
CHECK_DEADLOCK FALSE
