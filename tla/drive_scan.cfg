CONSTANTS
  Scans = {s1}
  Discoveries = {d1}
  NFiles = 2
  Direct = {1}
  MaxScanPages = 3
  Moves = {"file", "member", "shared"}
  MaxMoves = 2
  Faults = {"scan"}
  MaxFaults = 1
SPECIFICATION FairSpec
INVARIANTS
  TypeOK
PROPERTIES
  Settles
CHECK_DEADLOCK FALSE
