---------------------------- MODULE MCPeerHost ----------------------------
(* PeerHost on small instances. *)
EXTENDS PeerHost
=============================================================================
