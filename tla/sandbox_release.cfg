CONSTANTS
  Replicas = {r1}
  Sessions = {s1}
  Sandboxes = {x1, x2}
  Target = 1
  Jobs = {"fill", "release", "orphan", "prune", "pause"}
  Faults = {"crash", "error", "sandbox", "flap", "capabilities"}
  MaxFaults = 1
  MaxTurns = 2
SPECIFICATION Spec
INVARIANTS
  ReleasedIsNotReused
  OrphanIsUnused
SYMMETRY Symmetry
CHECK_DEADLOCK FALSE
