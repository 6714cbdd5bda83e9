--------------------------- MODULE MCRelayServer ---------------------------
(* RelayServer on small instances. *)
EXTENDS RelayServer, TLC

\* Sockets, codes, route uuids, peer ids and accounts are interchangeable.
Symmetry ==
  Permutations(Socket) \cup Permutations(Code) \cup Permutations(Key)
  \cup Permutations(PeerId) \cup Permutations(Account)

\* Bound of the runs with three sockets: one session at a time is being verified or closed.
OneInTransit ==
  Cardinality({s \in Socket : sock[s] = "closing" \/ sessions[s].authenticating}) <= 1
=============================================================================
