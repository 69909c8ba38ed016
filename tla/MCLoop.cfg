CONSTANTS
  None = None
  Signal = {"i", "d"}
  Unknown = 99
  Symbol = {"D"}
  SignalsOf <- MCSignalsOf
  Local = {"i"}
  ValuesOf <- MCValuesOf
  Stmt = {"w"}
  Blocking = {}
  Index <- MCIndex
  Data <- MCData
  Plain = {}
  Size = 2
  FirstIndex = 0
  Width = 4
  Descending = FALSE
  Executions <- MCExecutions
SPECIFICATION Spec
PROPERTIES NonBlockingIsDeferred
