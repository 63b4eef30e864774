CONSTANTS
  Tasks = {t1}
  Workers = {w1, w2}
  Program <- AllOperations
  MaxAttempts = 2
  MaxRuns = 3
  RetryState = "pending"
  Faults = {"cancel", "lapse", "crash", "handler", "stall", "reply", "unknown", "load"}
  MaxFaults = 2
SPECIFICATION WFairSpec
INVARIANTS
  OneLiveRun
  NoLostWakeup
  ReplayAgrees
PROPERTIES
  TaskEnds
CHECK_DEADLOCK FALSE
