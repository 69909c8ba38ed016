CONSTANTS
  Node <- MCNode
  NULL = "none"
  Left <- MCLeft
  Right <- MCRight
  Kind <- MCKind
  Signal = {"a", "d"}
  SigOf <- MCSigOf
  Exps <- MCExps
  Thread = {"comb", "init"}
  Root <- MCRoot
  Comb = {"comb"}
  Initial = {"init"}
  Delaying = {}
  Writes <- MCWrites
  Dumped = {}
SPECIFICATION Spec
INVARIANT CombRunsAtZero
