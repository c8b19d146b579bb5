SPECIFICATION FairSpec
CONSTANTS
  Callers = {c1, c2}
  Main = Main
  Loops = {"main", "other"}
  MainLoop = "main"
  Placements <- MCPlacements
  Events = {e1}
  NoEvent = NoEvent
  MaxCalls = 3
CONSTRAINT NotTorn
CHECK_DEADLOCK FALSE
INVARIANTS
  SameInstance
  LosersEnd
  SignalProcesses
PROPERTIES
  EveryCallReturns
  
