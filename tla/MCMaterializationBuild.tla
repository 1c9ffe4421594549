----------------------- MODULE MCMaterializationBuild -----------------------
(* Instances of MaterializationBuild for TLC.                              *)
EXTENDS MaterializationBuild, TLC

Symmetry == Permutations(Runs) \union Permutations(Workers)
=============================================================================
