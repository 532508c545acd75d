-------------------------- MODULE MCCircuitBreaker --------------------------
(* CircuitBreaker on its own, with every sequence of MaxCalls outcomes.     *)
EXTENDS CircuitBreaker
=============================================================================
