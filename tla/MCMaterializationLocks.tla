------------------------ MODULE MCMaterializationLocks ------------------------
(* Instances of MaterializationLocks for TLC.                              *)
EXTENDS MaterializationLocks, TLC

Symmetry == Permutations(Sessions) \union Permutations(Datasets) \union Permutations(Runs)
=============================================================================
