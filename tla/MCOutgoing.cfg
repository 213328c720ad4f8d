CONSTANTS
  Messages = {m1}
  Workers = {w1, w2}
  Poller = poller
  None = none
  Policies = {"server", "maildock"}
  MaxAttempts = 3
  RepairLimit = 1
  MaxJobs = 1
  MaxFaults = 2
  MaxLost = 1
SPECIFICATION Spec
INVARIANT IInv
PROPERTY ImplementsPromise
SYMMETRY Symmetric
CHECK_DEADLOCK FALSE
