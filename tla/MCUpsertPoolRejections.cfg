CONSTANTS
  w1 = w1
  w2 = w2
  Workers = {w1, w2}
  NumRows = 3
  Window = 2
  Threshold = 2
  Replies = {"created", "RetryError"}
SPECIFICATION Spec
INVARIANT RejectionsAreCounted
