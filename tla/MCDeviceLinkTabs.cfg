CONSTANTS
  Session = {s1, s2}
  Dialog = {o1}
  None = None
  MaxRdv = 2
  MaxFaults = 0
  Racing = FALSE
  Overlap = TRUE
SPECIFICATION FairSpec
PROPERTY Linked
CHECK_DEADLOCK FALSE
