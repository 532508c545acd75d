--------------------------- MODULE MCRecordLoading ---------------------------
(* RecordLoading on every feed of at most MaxRows rows and every chunk size. *)
EXTENDS RecordLoading, TLC

CONSTANTS k1, k2, k3

(* The shipped feeds: no key reads as a number.                            *)
NoNumbers == [k \in {} |-> 0]

(* One of the keys reads as an integer.                                    *)
OneNumber == k1 :> 7
=============================================================================
