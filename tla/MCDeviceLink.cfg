CONSTANTS
  Session = {s1, s2, s3}
  Dialog = {o1, o2}
  None = None
  MaxRdv = 2
  MaxFaults = 1
  Racing = TRUE
  Overlap = FALSE
SPECIFICATION Spec
SYMMETRY Symmetry
INVARIANTS TypeOK OpensWhereCompared HandedOnce
CHECK_DEADLOCK FALSE
