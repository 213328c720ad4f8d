CONSTANTS
  MaxUid = 3
  MaxEpoch = 2
  OldDated = {1}
  OldArrives = TRUE
  Condstore = TRUE
  MayOmit = {"delta"}
  BatchSize = 2
  ChunkSize = 2
  MaxRequests = 1
  MaxEvents = 0
  MaxLost = 0
SPECIFICATION Spec
INVARIANT NothingSkipped
CHECK_DEADLOCK FALSE
