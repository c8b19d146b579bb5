SPECIFICATION FairSpec
CONSTANTS
  FailureThreshold = 1
  RecoveryTime = 1
  ProbeMax = 1
  MaxClients = 1
  Kinds = {"http", "loki", "cloudwatch", "postgres"}
  Writers = {w1, w2}
  Owner = owner
  BatchSize = 2
  MaxAttempts = 2
  MaxEvents = 3
  MaxStarts = 2
INVARIANTS OneHolder StoredOnce PoolExclusive NothingDiscarded
PROPERTIES WrittenIsSettled
CHECK_DEADLOCK FALSE
