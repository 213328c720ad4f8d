CONSTANTS
  Messages = {1}
  Workers = {w1, w2}
  Boxes = {b1, b2}
  Paths = {p1, p2}
  None = none
  Delivery = delivery
  RepairLimit = 1
  MaxFaults = 1
  MaxLost = 1
  MaxMoves = 1
  m1 = m1  c1 = c1  t1 = t1  t2 = t2  mark = mark
SPECIFICATION AllSpec
INVARIANTS AppendAtMostOnce HonestCopy SentOnceAsShown
PROPERTIES AttemptIsFinal CommandIsHonest NoSilentOverwrite
SYMMETRY Symmetric
CHECK_DEADLOCK FALSE
