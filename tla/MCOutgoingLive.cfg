CONSTANTS
  Messages = {m1}
  Workers = {w1, w2}
  Poller = poller
  None = none
  Policies = {"server"}
  MaxAttempts = 2
  RepairLimit = 1
  MaxJobs = 1
  MaxFaults = 1
  MaxLost = 1
SPECIFICATION FairSpec
PROPERTY Settles
CHECK_DEADLOCK FALSE
