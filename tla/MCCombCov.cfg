CONSTANTS
  Trees <- MCTrees
  Signals = {"a", "b"}
  allow_multi_expr = TRUE
  MaxChanges = 3
  MaxExcludes = 3
SPECIFICATION Spec
INVARIANTS
  UnmarkedCurrent
  CoverageExact
  StatExact
CHECK_DEADLOCK FALSE
