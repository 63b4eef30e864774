CONSTANTS
  Kinds = {"claude", "amp", "omp", "codex"}
  MaxExecutions = 2
  MaxPosts = 1
  MaxRetries = 1
  Faults = {"attachment", "expire", "agent", "result", "fail", "exit", "spawn", "model", "engine", "refuse"}
  MaxFaults = 1
SPECIFICATION FairSpec
INVARIANTS
  QuietBetweenTurns
  KnownTurnEndsItsOwn
PROPERTIES
  OwnEnd
  SteerIsKept
  EverythingEnds
CHECK_DEADLOCK FALSE
