CONSTANTS
  Threshold = 3
  MaxCalls = 8
SPECIFICATION BreakerSpec
INVARIANTS
  CounterIsTrailingRun
PROPERTY KeepsPromise
\* The history is capped at MaxCalls outcomes, after which nothing is enabled.
CHECK_DEADLOCK FALSE
