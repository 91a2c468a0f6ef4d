---------------------------- MODULE MCHybridHistory ---------------------------
(* Small instances of the hybrid driver with its history variables.        *)
EXTENDS HybridHistory, TLC

Symmetry == Permutations(Callers)
===============================================================================
