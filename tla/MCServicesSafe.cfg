CONSTANTS
  Webs = {web1, web2}
  Setups = {form1, form2}
  Requests = {r1}
  MaxSecrets = 2
  MaxFactors = 3
  MaxSessions = 2
  MaxTokens = 3
  MaxAttempts = 2
  m1 = m1  w1 = w1  w2 = w2  f1 = f1  f2 = f2  t1 = t1  t2 = t2
  poller = poller  none = none
SPECIFICATION AllSpec
INVARIANTS NeverLockedOut AtMostOneSubmission ChosenStays ThreadsAreRight RecoveryIsSafe
PROPERTIES FullyProved SecretStands GrantStands TextIsWhole SignatureIsRight
CHECK_DEADLOCK FALSE
