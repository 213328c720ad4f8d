CONSTANTS
  MaxFlips = 2
  MaxFaults = 1
SPECIFICATION AllFairSpec
INVARIANT NothingLeftRunning
PROPERTIES ProcessFollows Converges
CHECK_DEADLOCK FALSE
