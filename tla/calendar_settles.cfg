CONSTANTS
  Workers = {w1}
  Listers = {d1, d2}
  NEvents = 1
  PageSize = 1
  Ends = {2, 3}
  FirstCutoff = 3
  RaiseBy = 2
  Moves = {"event", "listed", "live", "age", "raise"}
  MaxMoves = 2
  Faults = {"attempt", "expiry"}
  MaxFaults = 1
  MaxQueued = 1
SPECIFICATION FairSpec
INVARIANTS
  NothingMissed
PROPERTIES
  Settles
CHECK_DEADLOCK FALSE
