CONSTANTS
  Designs <- MCDesigns
  Width = 3
  UL_BITS = 2
  CheckModes = {"WARNING", "FATAL"}
SPECIFICATION Spec
INVARIANTS RacesExact RemovalsExact
