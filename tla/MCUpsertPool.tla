---------------------------- MODULE MCUpsertPool ----------------------------
(* UpsertPool on small instances.                                          *)
EXTENDS UpsertPool

CONSTANTS w1, w2
=============================================================================
