-------------------------- MODULE MCCircuitBreaker --------------------------
EXTENDS CircuitBreaker, TLC

Symmetric == Permutations(Callers)
=============================================================================
