CONSTANTS
  Node <- MCNode
  NULL = "none"
  Left <- MCLeft
  Right <- MCRight
  Kind <- MCKind
  Signal = {"a"}
  SigOf <- MCSigOf
  Exps <- MCExps
  Thread = {"t"}
  Root <- MCRoot
  Comb = {}
  Initial = {}
  Delaying = {}
  Writes <- MCWrites
  Dumped = {"a"}
SPECIFICATION Spec
INVARIANT ChangedMeansQueued
