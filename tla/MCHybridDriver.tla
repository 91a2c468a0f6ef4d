---------------------------- MODULE MCHybridDriver ----------------------------
(* Small instances of the hybrid driver.                                   *)
EXTENDS HybridDriver, TLC

Symmetry == Permutations(Callers)
===============================================================================
