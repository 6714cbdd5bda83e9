---------------------------- MODULE MCLanPairing ----------------------------
(* LanPairing on small instances. *)
EXTENDS LanPairing, TLC

\* Connections and devices are interchangeable.
Symmetry == Permutations(Socket) \cup Permutations(Device)
=============================================================================
