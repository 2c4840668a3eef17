-------------------------- MODULE MCCircuitBreaker --------------------------
(* CircuitBreaker for TLC.  The callers are alike: sound for the runs of a *)
(* safety property, not for the liveness one.                              *)
EXTENDS CircuitBreaker, TLC

Callers == Permutations(Call)
=============================================================================
