CONSTANTS
  Retries = 1
  MaxCalls = 3
SPECIFICATION FairSpec
INVARIANTS
  TypeOK
  AnswersHold
  RefusedChangesNothing
  OutcomeTellsOfBefore
PROPERTIES
  CallEnds
  ImplementsDelivery
