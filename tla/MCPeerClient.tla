---------------------------- MODULE MCPeerClient ----------------------------
(* PeerClient on small instances. *)
EXTENDS PeerClient, TLC

\* Requests, hosts and links are interchangeable.
Symmetry == Permutations(Req) \cup Permutations(Host) \cup Permutations(Link)
=============================================================================
