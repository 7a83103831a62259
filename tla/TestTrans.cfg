CONSTANT Shapes <- MCShapes
SPECIFICATION Spec
INVARIANTS
  Transposed
  FullScore
  ReportSound
CHECK_DEADLOCK FALSE
