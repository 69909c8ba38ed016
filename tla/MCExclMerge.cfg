CONSTANTS
  Trees <- MCTrees
  Signals = {"a", "b"}
  allow_multi_expr = TRUE
  MaxChanges = 3
  MaxExcludes = 3
SPECIFICATION Spec
INVARIANT LineExclusionsMerged
CHECK_DEADLOCK FALSE
