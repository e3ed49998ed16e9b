-------------------------- MODULE MCUsageMetering --------------------------
(* TLC instance of UsageMetering: callers are interchangeable.             *)
EXTENDS UsageMetering, TLC
Symmetry == Permutations(Callers)
=============================================================================
