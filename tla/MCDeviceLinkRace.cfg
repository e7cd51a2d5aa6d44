CONSTANTS
  Session = {s1, s2}
  Dialog = {o1}
  None = None
  MaxRdv = 1
  MaxFaults = 0
  Racing = TRUE
  Overlap = FALSE
SPECIFICATION Spec
PROPERTY FirstWriteWins
CHECK_DEADLOCK FALSE
