---------------------------- MODULE MCWebSocket ----------------------------
(* WebSocket on small instances. *)
EXTENDS WebSocket
=============================================================================
