CONSTANTS
  None = None
  Signal = {"a", "d", "k"}
  Unknown = 99
  Symbol = {"A", "D"}
  SignalsOf <- MCSignalsOf
  Local = {"k"}
  ValuesOf <- MCValuesOf
  Stmt = {"w", "r", "b"}
  Blocking = {"b"}
  Index <- MCIndex
  Data <- MCData
  Plain = {"b"}
  Size = 2
  FirstIndex = 0
  Width = 4
  Descending = TRUE
  Executions <- MCExecutions
SPECIFICATION Spec
INVARIANTS QueuesFit LastValueCounts
PROPERTIES NonBlockingIsDeferred
