CONSTANTS
  Replicas = {r1}
  Sessions = {s1}
  Sandboxes = {x1, x2}
  Target = 1
  Jobs = {"fill", "stale", "unconfigured", "reap"}
  Faults = {"crash", "error", "sandbox"}
  MaxFaults = 2
  MaxTurns = 2
SPECIFICATION FairSpec
INVARIANTS
  YoungClaimIsNotReaped
PROPERTIES
  UnusedSandboxIsReleased
CHECK_DEADLOCK FALSE
