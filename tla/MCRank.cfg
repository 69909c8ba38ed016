CONSTANTS
  f1 = f1
  f2 = f2
  f3 = f3
  File <- MCFile
  Order <- MCOrder
  Point = {0, 1, 2}
  Metric = {"LINE", "TOGGLE"}
  MetricOf <- MCMetricOf
  Weight <- MCWeight
  Timesteps = {1, 2}
  Depths = {1, 2}
  IndexSize = 8
  Garbage = {0}
SPECIFICATION Spec
INVARIANTS CoverageKept CountersExact DecreasingGain
