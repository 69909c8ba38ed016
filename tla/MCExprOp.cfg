CONSTANTS
  UL_BITS = 3
  Ops <- MCOps
  Shapes <- MCShapes
  Firsts <- MCFirsts
  MaxSteps = 2
SPECIFICATION Spec
INVARIANTS
  ValuesExact
  CoverageExact
CHECK_DEADLOCK FALSE
