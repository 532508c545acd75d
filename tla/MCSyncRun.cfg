CONSTANTS
  Limit = 1
  Keys <- QuoteKeys
  Versions = {1, 2}
  MaxEdits = 1
SPECIFICATION FairSpec
INVARIANTS
  TypeOK
  ExitZeroMeansStored
  RowsHoldTheirOwnRecord
  EarlyErrorsWriteNothing
PROPERTY RerunsReachTheFeed
