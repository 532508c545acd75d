CONSTANTS
  k1 = k1
  k2 = k2
  k3 = k3
  Keys = {k1, k2}
  Blank = Blank
  Numeric = {}
  Number <- NoNumbers
  MaxRows = 3
  MaxChunk = 2
SPECIFICATION Spec
INVARIANT ChunkedAsWhole
