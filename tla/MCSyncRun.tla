------------------------------ MODULE MCSyncRun ------------------------------
(* SyncRun with keys made of the character the predicate is built from.     *)
EXTENDS SyncRun

OneQuote == <<"'">>
TwoQuotes == <<"'", "'">>
QuoteKeys == {OneQuote, TwoQuotes}
=============================================================================
