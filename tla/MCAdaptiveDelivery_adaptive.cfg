SPECIFICATION FairSpec
CONSTANTS
  FailureThreshold = 2
  RecoveryTime = 1
  ProbeMax = 1
  NumSinks = 1
  Writers = {w1, w2}
  ParallelModes = {FALSE}
  Plain = {}
  Fallback = 0
  Fragile = {1}
  MaxOutages = 1
  MaxBoost = 2
  EscalateTo <- DefaultEscalateTo
  DeescalateTo <- DefaultDeescalateTo
  InitialWorkers = 2
  MaxWorkers = 8
  Fills = {0, 45, 85}
  PerOpen = 20
  Cooldown = 1

PROPERTIES Settles OutagesRaisePressure Recovers
