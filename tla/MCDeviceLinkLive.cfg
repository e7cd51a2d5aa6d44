CONSTANTS
  Session = {s1, s2}
  Dialog = {o1, o2}
  None = None
  MaxRdv = 2
  MaxFaults = 0
  Racing = FALSE
  Overlap = FALSE
SPECIFICATION FairSpec
PROPERTY Linked
CHECK_DEADLOCK FALSE
