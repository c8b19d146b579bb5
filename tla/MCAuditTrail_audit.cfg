SPECIFICATION FairSpec
CONSTANTS
  Events = {e1, e2, e3}
  NoEvent = NoEvent
  PoolSaturates = TRUE
  MaxFailures = 1
  MaxRestarts = 1
INVARIANTS QuietTrailVerifies StoredOnce
PROPERTIES StopDrains EventuallyStored
