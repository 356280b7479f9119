--------------------------- MODULE MCCircuitBreaker ---------------------------
EXTENDS CircuitBreaker, TLC
CONSTANTS t1, t2, t3
==============================================================================
