SPECIFICATION Spec
CONSTANTS
  Workers = {w1, w2}
  Events = {e1, e2, e3}
  Genesis = Genesis
  None = None
  NoEvent = NoEvent
  RotateChain = FALSE
  MaxFiles = 3
  MaxFaults = 1
SYMMETRY Symmetry
CHECK_DEADLOCK FALSE
INVARIANTS VerifiedIsWhole SealedVerifies NoFork
