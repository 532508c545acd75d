CONSTANTS
  t1 = t1
  t2 = t2
  t3 = t3
  Threads = {t1, t2, t3}
  MaxCalls = 2
  MaxExpiries = 1
  Answers = {"token", "error", "unreachable"}
SPECIFICATION FairSpec
INVARIANTS
  TypeOK
  LockGuardsRefresh
  OneGrantPerExpiry
  TokenOutlivesCallStart
PROPERTY OnlyEntraBlocks
