CONSTANTS
  MaxWatches = 3
  MaxChanges = 3
  MaxFaults = 1
  b1 = b1  b2 = b2  w1 = w1  w2 = w2  d1 = d1  d2 = d2
  p1 = p1  delivery = delivery  none = none
SPECIFICATION AllFairSpec
INVARIANT OneConnection
PROPERTIES ReaderAnswered AttachmentServed ChangeHeard CopyEnds ListingFollows
CHECK_DEADLOCK FALSE
