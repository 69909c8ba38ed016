SPECIFICATION Spec
CONSTANTS
  NULL = NULL
  Thread = {t1, t2}
  Funit <- MCFunit
  ChildFunits <- MCChildFunits
  Stmt <- MCStmt
  Op <- MCOp
  NextTrue <- MCNextTrue
  NextFalse <- MCNextFalse
  Cont = {}
  FinalStmt = {}
  FunitOf <- MCFunitOf
  Target <- MCTarget
  First <- MCFirst
  Func <- MCFunc
  Delay <- MCDelay
  Signal <- MCSignal
  Writes <- MCWrites
  Readers <- MCReaders
  PostSignals <- MCPostSignals
  Heads <- MCHeads
  DebugMode = FALSE
  MaxTime = 2
  Word = 2
INVARIANT DelayedInOrder
