CONSTANTS
  Argvs <- MCArgvs
  TEST_RANGE = 9
  MaxTimeouts = 1
  Randoms <- MCRandoms
SPECIFICATION Spec
INVARIANTS
  PuzzlesCorrect
  PointsAreEarned
CHECK_DEADLOCK FALSE
