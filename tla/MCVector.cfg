CONSTANTS
  UL_BITS = 2
  FileBits = 2
  Width = 3
  Element = 1
  Digits = 2
  Patterns <- MCPatterns
  MaxAssign = 4
  MaxFiles = 2
  Kinds <- MCKinds
SPECIFICATION Spec
INVARIANTS
  TogglesExact
  MergedExact
  ElementsSound
CHECK_DEADLOCK FALSE
