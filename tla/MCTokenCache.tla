---------------------------- MODULE MCTokenCache ----------------------------
(* TokenCache on small instances; no symmetry, as OnlyEntraBlocks is a     *)
(* liveness property.                                                      *)
EXTENDS TokenCache

CONSTANTS t1, t2, t3
=============================================================================
