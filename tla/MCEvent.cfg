CONSTANTS
  Node <- MCNode
  NULL = "none"
  Left <- MCLeft
  Right <- MCRight
  Kind <- MCKind
  Signal <- MCSignal
  SigOf <- MCSigOf
  Exps <- MCExps
  Thread <- MCThread
  Root <- MCRoot
  Comb = {"comb"}
  Initial = {}
  Delaying = {"wt"}
  Writes <- MCWrites
  Dumped = {"a", "b"}
SPECIFICATION Spec
INVARIANTS BitsSound NoMissedChange NoStaleEvent
PROPERTIES PassesOnEvent
