SPECIFICATION FairSpec
CONSTANTS
  s1 = s1
  s2 = s2
  c1 = c1
  c2 = c2
  Sinks = {s1, s2}
  Levels = {"ERROR", "INFO"}
  Writers = {w1}
  Configs = {c1, c2, bad}
  Invalid = {bad}
  Rules <- MCRules
  FirstConfig = c1
  Overlaps = {TRUE, FALSE}
  ParallelModes = {TRUE, FALSE}
  MaxEdits = 2
  MaxFaults = 1
INVARIANTS RoutedAsDecided
PROPERTIES Converges
