---------------------------- MODULE MCGraphStore ----------------------------
(* GraphStore on a small instance: two connections, one fact with two      *)
(* versions, three revisions.  What an instance with an edge or a second   *)
(* fact would add is left to the proofs.                                   *)
EXTENDS GraphStore, TLC

Symmetry == Permutations(Payloads) \cup Permutations(Keys) \cup Permutations(Connections)

============================================================================
