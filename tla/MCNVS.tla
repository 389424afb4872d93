-------------------------------- MODULE MCNVS --------------------------------
(* NVS with the symmetry of its tasks, keys and objects.                   *)
EXTENDS NVS, TLC

Symmetry == Permutations(Tasks) \cup Permutations(Keys) \cup Permutations(Objects)
=============================================================================
