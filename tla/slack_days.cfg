CONSTANTS
  Tasks = {t1, t2}
  Workers = {w1}
  Texts = {a, b}
  Refused = {}
  None = None
  Nobody = Nobody
  Gone = Gone
  MaxEdits = 2
  MaxMoves = 0
  MaxFaults = 1
SPECIFICATION FairSpec
INVARIANTS
  CompletedIsPublished
PROPERTIES
  Settles
