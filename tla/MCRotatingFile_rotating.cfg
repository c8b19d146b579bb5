SPECIFICATION Spec
CONSTANTS
  w1 = w1  w2 = w2  r1 = r1  r2 = r2  r3 = r3
  Writers = {w1, w2}
  Owner = Owner
  NoOne = NoOne
  Records = {r1, r2, r3}
  Big = {r3}
  Awkward = {r3}
  Settings <- MCSettings
  NoRecord = NoRecord
  NoFile = NoFile
  MaxBytes = 1
  MaxFiles = 1
  MaxTotal = 2
  Interval = 1
  MaxSecond = 1
  MaxFailures = 1
  MaxCrashes = 1
SYMMETRY Symmetry
INVARIANTS KeepsTheNewest SizeBound Acknowledged
