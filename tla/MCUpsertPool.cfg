CONSTANTS
  w1 = w1
  w2 = w2
  Workers = {w1, w2}
  NumRows = 5
  Window = 4
  Threshold = 2
  Replies = {"created", "HTTPError", "RetryError"}
SPECIFICATION FairSpec
INVARIANTS
  TypeOK
  TallyMatchesFutures
  ExitCodeTellsTruth
  SkipsNeedFailures
  LateSendsBounded
  BreakerHearsEachCallOnce
  JoinedOnExit
  InOrder
  PoolInv
  WindowBound
PROPERTIES
  BreakerKeepsPromise
  ImplementsRecordSync
  Terminates
