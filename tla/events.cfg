CONSTANTS
  Executions = {e1}
  Writers = {w1, w2}
  Readers = {r1}
  Batch = 1
  MaxId = 2
  MaxDrops = 1
SPECIFICATION FairSpec
INVARIANTS
  TypeOK
  NothingSkipped
  NothingBehindTerminal
  OneUpdatePerWindow
PROPERTIES
  ScopedStreamCompletes
  EveryEventArrives
CHECK_DEADLOCK FALSE
