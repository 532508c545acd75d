CONSTANTS
  k1 = k1
  k2 = k2
  k3 = k3
  Keys = {k1, k2}
  Blank = Blank
  Numeric = {k1}
  Number <- OneNumber
  MaxRows = 3
  MaxChunk = 2
SPECIFICATION Spec
INVARIANT LastSeenWins
