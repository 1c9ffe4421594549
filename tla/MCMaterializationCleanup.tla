----------------------- MODULE MCMaterializationCleanup -----------------------
(* Instances of MaterializationCleanup for TLC.                            *)
EXTENDS MaterializationCleanup, TLC

Symmetry == Permutations(Runs) \union Permutations(Workers) \union Permutations(Cleaners)
=============================================================================
