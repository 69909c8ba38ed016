SPECIFICATION Spec
CONSTANTS
  v0 = v0
  v1 = v1
  vx = vx
  Values <- MCValues
  Unknown <- MCUnknown
  Zero = v0
  X = vx
  Designs <- MCDesigns
  MaxAssigns = 3
  MaxRuns = 2
  MaxEdits = 2
INVARIANTS DistinctArcs HitsExact ExclusionsExact SettledRecorded StatExact
CHECK_DEADLOCK FALSE
