----------------------------- MODULE MCODataCalls -----------------------------
(* ODataCalls with few retries and calls.  That one key stands for all      *)
(* rests on the URL of a key naming its row and no other: evaluated here    *)
(* for every text of at most five symbols, proved for all in SyncRunProofs. *)
EXTENDS ODataCalls

Key == INSTANCE EntityKey
Texts == INSTANCE SequencesExt

ASSUME KeysNameTheirRow ==
    \A text \in Texts!BoundedSeq(Key!Symbols, 5) : Key!RowNamed(Key!EntityUrl(text)) = text
=============================================================================
