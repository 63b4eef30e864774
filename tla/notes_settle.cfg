CONSTANTS
  Credentials = {k1}
  Workers = {w1}
  Texts = {title, blank}
  People = {p}
  Blank = blank
  Title = title
  NoContent = none
  MaxMoves = 3
  MaxFaults = 1
SPECIFICATION FairSpec
PROPERTIES
  Settles
