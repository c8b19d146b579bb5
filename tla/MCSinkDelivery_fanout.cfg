SPECIFICATION DeliverySpec
SYMMETRY WriterSymmetry
CONSTANTS
  FailureThreshold = 2
  RecoveryTime = 2
  ProbeMax = 2
  NumSinks = 2
  Writers = {w1, w2}
  ParallelModes = {TRUE, FALSE}
  Plain = {1}
  Fallback = 2
  Fragile = {1, 2}
  MaxOutages = 1
  MaxBoost = 3
INVARIANTS ProbesUnderway BoostCoversOpen Isolation
PROPERTIES BackoffAfterFailure
