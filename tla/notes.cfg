CONSTANTS
  Credentials = {k1, k2}
  Workers = {w1, w2}
  Texts = {title, text, blank}
  People = {p}
  Blank = blank
  Title = title
  NoContent = none
  MaxMoves = 1
  MaxFaults = 1
SPECIFICATION Spec
SYMMETRY NoteSymmetry
INVARIANTS
  TypeOK
  ObservedIsKept
  RowTellsIndex
  VectorIsOfText
