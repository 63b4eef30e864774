CONSTANTS
  Replicas = {r1}
  Sessions = {s1, s2}
  Sandboxes = {x1, x2}
  Target = 1
  Jobs = {"fill", "drain", "switch", "release"}
  Faults = {"crash", "error", "flap", "capabilities"}
  MaxFaults = 1
  MaxTurns = 1
SPECIFICATION Spec
INVARIANTS
  NoSharedSandbox
SYMMETRY Symmetry
CHECK_DEADLOCK FALSE
