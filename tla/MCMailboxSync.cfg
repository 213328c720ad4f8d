CONSTANTS
  MaxUid = 3
  MaxEpoch = 2
  OldDated = {1}
  OldArrives = FALSE
  Condstore = TRUE
  MayOmit = {"delta"}
  BatchSize = 2
  ChunkSize = 2
  MaxRequests = 1
  MaxEvents = 1
  MaxLost = 1
SPECIFICATION Spec
INVARIANTS NothingSkipped OneEpoch FlagsWillFollow AlertsAreArrivals
CHECK_DEADLOCK FALSE
