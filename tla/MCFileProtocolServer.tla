------------------------ MODULE MCFileProtocolServer ------------------------
(* FileProtocolServer on small instances. *)
EXTENDS FileProtocolServer, TLC

\* Children are interchangeable.
Symmetry == Permutations(Child)
=============================================================================
