-------------------------- MODULE MCStorageBridge --------------------------
(* StorageBridge on small instances. *)
EXTENDS StorageBridge, TLC

\* Jobs are interchangeable.
Symmetry == Permutations(Id)
=============================================================================
