CONSTANTS
  Pids <- MCPids
  Leaders <- MCPids
  MAXJOBS = 3
  Scripts <- MCScripts
  Options <- MCOptions
  MaxKeys = 2
  MaxInterrupts = 1
SPECIFICATION Spec
INVARIANTS
  EvaluatedAsWritten
  GroupActsTogether
  MessagesTrue
CHECK_DEADLOCK FALSE
