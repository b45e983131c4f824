--------------------------- MODULE MCCircuitBreaker ---------------------------
(* A small instance of CircuitBreaker: three concurrent calls.             *)
EXTENDS CircuitBreaker

CONSTANTS c1, c2, c3

MCCalls == {c1, c2, c3}
=============================================================================
