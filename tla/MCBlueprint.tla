---------------------------- MODULE MCBlueprint ----------------------------
(* Blueprint on a few revisions; services are interchangeable.             *)
EXTENDS Blueprint, TLC

Symmetry == Permutations(Services)

============================================================================
