CONSTANTS
  Knock = {k1, k2}
  NoKnock = NoKnock
  Call = {c1, c2}
  NoCall = NoCall
  MaxUses = 1
  MAX_HYDRATED_KNOCKS = 1
  MaxStays = 2
  MaxFaults = 1
SPECIFICATION Spec
SYMMETRY Symmetry
CHECK_DEADLOCK FALSE
INVARIANT NoSeatLost
