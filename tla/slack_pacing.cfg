CONSTANTS
  Workers = {w1, w2, w3}
  Interval = 2
  RetryAfters = {1, 3}
  Attempts = 2
  MaxTime = 5
  MaxSlots = 4
SPECIFICATION Spec
SYMMETRY PacingSymmetry
INVARIANTS
  TypeOK
  SlotsAreSpaced
  RetryAfterIsKept
CHECK_DEADLOCK FALSE
