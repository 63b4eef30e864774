CONSTANTS
  Procs = {p1, p2}
  Executions = {e1}
  Outcomes = {"completed"}
  MaxDuration = TRUE
  Faults = {"crash", "shutdown", "store", "stall", "sandbox", "retry", "viewer"}
  MaxFaults = 1
SPECIFICATION Spec
INVARIANTS
  TypeOK
  DeliveredAtMostOnce
  ClosedTurnStaysClosed
PROPERTIES
  ImplementsContract
SYMMETRY Symmetry
CHECK_DEADLOCK FALSE
