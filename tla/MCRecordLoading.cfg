CONSTANTS
  k1 = k1
  k2 = k2
  k3 = k3
  Keys = {k1, k2, k3}
  Blank = Blank
  Numeric = {}
  Number <- NoNumbers
  MaxRows = 5
  MaxChunk = 3
SPECIFICATION Spec
INVARIANTS
  TypeOK
  LastSeenWins
  AllOrNothing
  StopsAtBadChunk
