CONSTANTS
  Placements = {p1}
  Commands = {c1, c2}
  Workers = {w1, w2}
  Second = w2
  None = none
  Flags = {seen}
  MaxAttempts = 1
  MaxFaults = 1
  MaxLost = 1
  MaxRemote = 1
  MaxRestores = 1
SPECIFICATION BoundedFairSpec
INVARIANT HonestCommand
PROPERTY SettlesIfPlaced
CHECK_DEADLOCK FALSE
