SPECIFICATION FairSpec
CONSTANTS
  NULL = NULL
  Thread = {t1, t2, t3, t4, t5, t6, t7, t8, t9, t10, t11, t12, t13}
  Funit <- AllFunit
  ChildFunits <- AllChildFunits
  Stmt <- AllStmt
  Op <- AllOp
  NextTrue <- AllNextTrue
  NextFalse <- AllNextFalse
  Cont = {}
  FinalStmt = {"e1"}
  FunitOf <- AllFunitOf
  Target <- AllTarget
  First <- AllFirst
  Func <- AllFunc
  Delay <- AllDelay
  Signal <- AllSignal
  Writes <- AllWrites
  Readers <- AllReaders
  PostSignals = {"v", "y"}
  Heads <- AllHeads
  DebugMode = TRUE
  MaxTime = 3
  Word = 8
INVARIANTS
  QueuesMatchStates
  PoolSound
  ChildrenSound
  AssertionsHold
  TimesInOrder
  NoneOverdue
PROPERTIES
  JoinAfterAll
  FinalBlocksLast
  TimestepsEnd
