SPECIFICATION Spec
CONSTANTS
  c1 = c1  c2 = c2  e1 = e1  e2 = e2  e3 = e3  e4 = e4  w1 = w1  w2 = w2  d1 = d1
  NoOne = NoOne
  Monitor = Monitor
  Events = {e1, e2}
  Protected = {e1}
  MainCap = 1
  ProtCap = 1
  Callers = {c1}
  LoopCallers = {}
  Initial = {w1}
  Dynamic = {d1}
  BatchMax = 2
  SinkConcurrency = 2
  DropOnFull = FALSE
  MaxRetries = 1
  ShedPercent = 70
  RecoverPercent = 30
  Verdicts = {"keep"}
  SinkResults = {"written"}
  LateCalls = TRUE
  MaxFlushes = 1
  Adaptive = TRUE
PROPERTIES
  SheddingHoldsMain
