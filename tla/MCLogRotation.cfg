CONSTANTS
  w1 = w1
  w2 = w2
  w3 = w3
  Writers = {w1, w2, w3}
  Keep = 1
  MaxWeek = 3
  MaxLines = 5
  MaxFaults = 1
SYMMETRY MCSymmetry
SPECIFICATION Spec
INVARIANTS
  LogRotationTypeOK
  NoLineVanishes
  WeeksAreKept
CHECK_DEADLOCK FALSE
