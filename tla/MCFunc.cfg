CONSTANTS
  NULL = NULL
  Unit <- MCUnit
  UnitKind <- MCUnitKind
  ParentUnit <- MCParentUnit
  Var <- MCVar
  VarUnit <- MCVarUnit
  Ports <- MCPorts
  Result <- MCResult
  First <- MCFirst
  Exp <- MCExp
  ExpUnit <- MCExpUnit
  Kind <- MCKind
  Left <- MCLeft
  Right <- MCRight
  Sig <- MCSig
  Callee <- MCCallee
  NextTrue <- MCNextTrue
  NextFalse <- MCNextFalse
  Blocks <- MCBlocks
  Dumped <- MCDumped
  DumpVal <- MCDumpVal
  Val <- MCVal
  X <- MCX
  Apply <- MCApply
  Meaning <- MCMeaning
SPECIFICATION Spec
INVARIANTS CallsSeeArguments AssignmentsExact
PROPERTIES CallerKeepsVariables CallsReturn
