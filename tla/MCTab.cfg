CONSTANTS
  Messages = {"m", "n"}
  None = none
  MaxAttempts = 2
  MaxSelects = 2
  MaxFaults = 1
  t1 = t1  t2 = t2
SPECIFICATION AllFairSpec
INVARIANT ShowsSelected
PROPERTIES AnswersSelected ReaderSettles ListFollows ActionsAddUp NewsOnce
CHECK_DEADLOCK FALSE
