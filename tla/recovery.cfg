CONSTANTS
  Procs = {p1, p2}
  Executions = {e1}
  Outcomes = {"completed"}
  MaxDuration = TRUE
  Faults = {"crash", "shutdown", "stall", "sandbox", "retry", "viewer"}
  MaxFaults = 1
SPECIFICATION FairSpec
INVARIANTS
  OwnedTurnIsDriven
PROPERTIES
  AcceptedExecutionEnds
  EndIsPublishedWhileUp
CHECK_DEADLOCK FALSE
