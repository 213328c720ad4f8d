CONSTANTS
  Tabs = {t1, t2}
  MaxEdits = 3
  MaxOpens = 3
  MaxFaults = 2
  Large = {2}
  TwoTabsNew = TRUE
  Reborn = TRUE
SPECIFICATION Spec
PROPERTY NoSilentOverwrite
SYMMETRY Symmetric
CHECK_DEADLOCK FALSE
