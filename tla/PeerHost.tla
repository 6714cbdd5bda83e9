------------------------------ MODULE PeerHost ------------------------------
(***************************************************************************)
(* The host side of Peer (src/src/Peer.cpp) and its WebSocketServer        *)
(* (src/src/NetworkTransport.cpp): devices on the local network connect,   *)
(* show a ticket that the relay issued, and send requests.                 *)
(*                                                                         *)
(* The relay announces a ticket to the host and to the device over two     *)
(* connections, so a device may show it before the host knows it, after it *)
(* expired, after the host lost the relay, or twice.  A connection that is *)
(* being closed is still read until the other end is gone.                 *)
(***************************************************************************)
EXTENDS Integers, FiniteSets

CONSTANTS
  Socket,     \* connections, each used once
  Ticket,     \* tickets, each issued once
  None,       \* no ticket
  MaxPlaces,  \* 64: handshakes of the WebSocketServer
  MaxLinks,   \* 64: links of the Peer
  MaxTickets, \* 128
  MaxSessions \* bound: registrations with the relay

ASSUME TicketAssumption == None \notin Ticket
ASSUME LimitAssumption ==
  MaxPlaces \in Nat /\ MaxLinks \in Nat /\ MaxTickets \in Nat /\ MaxSessions \in Nat

VARIABLES
  running,  \* start() succeeded: the server listens
  ready,    \* registered with the relay
  tickets,  \* the ticket table
  expired,  \* tickets whose time has passed
  place,    \* per socket: "none", "handshake", "link" or "gone"
  link,     \* per socket: the ticket it was authenticated with, or None
  closing,  \* sockets that were told to close
  late,     \* unauthenticated links whose five seconds have passed
  session,  \* history: registrations so far
  born,     \* history, per ticket: the session it was announced in, or 0
  opened    \* history, per ticket: the sockets it authenticated

conns == <<place, link, closing, late>>
history == <<session, born, opened>>
vars == <<running, ready, tickets, expired, conns, history>>

Placed(p) == {s \in Socket : place[s] = p}

Init ==
  /\ running = FALSE /\ ready = FALSE /\ tickets = {} /\ expired = {}
  /\ place = [s \in Socket |-> "none"] /\ link = [s \in Socket |-> None]
  /\ closing = {} /\ late = {}
  /\ session = 0 /\ born = [t \in Ticket |-> 0]
  /\ opened = [t \in Ticket |-> {}]

\* The sockets S are destroyed.
Retire(S) ==
  /\ place' = [s \in Socket |-> IF s \in S THEN "gone" ELSE place[s]]
  /\ link' = [s \in Socket |-> IF s \in S THEN None ELSE link[s]]
  /\ closing' = closing \ S /\ late' = late \ S

-----------------------------------------------------------------------------
(* The relay and the owner *)

Start ==
  /\ ~running
  /\ running' = TRUE
  /\ UNCHANGED <<ready, tickets, expired, conns, history>>

\* "registered" from the relay.
Registered ==
  /\ running /\ ~ready /\ session < MaxSessions
  /\ ready' = TRUE /\ session' = session + 1
  /\ UNCHANGED <<running, tickets, expired, conns, born, opened>>

\* Mutant: resetLocal() forgets the tickets.
TicketsKept == tickets

\* The ticket table after resetLocal().
TicketsReset == {}

\* The connection with the relay is lost, before or after the registration:
\* resetLocal().
RelayLost ==
  /\ running
  /\ ready' = FALSE /\ tickets' = TicketsReset
  /\ Retire(Placed("link"))
  /\ UNCHANGED <<running, expired, history>>

\* Mutant: the sockets of unfinished handshakes outlive the server.
LinksOnly == Placed("link")

\* What stop() destroys: the links, and with the server its children.
Stopped == Placed("link") \cup Placed("handshake")

Stop ==
  /\ running
  /\ running' = FALSE /\ ready' = FALSE /\ tickets' = {}
  /\ Retire(Stopped)
  /\ UNCHANGED <<expired, history>>

\* "ticket" from the relay; a full table drops it.
Announce(t) ==
  /\ ready /\ born[t] = 0
  /\ born' = [born EXCEPT ![t] = session]
  /\ tickets' = IF Cardinality(tickets) < MaxTickets THEN tickets \cup {t} ELSE tickets
  /\ UNCHANGED <<running, ready, expired, conns, session, opened>>

Expire(t) ==
  /\ t \notin expired
  /\ expired' = expired \cup {t}
  /\ UNCHANGED <<running, ready, tickets, conns, history>>

-----------------------------------------------------------------------------
(* Devices on the local network *)

\* A stream is accepted, or closed if no place is free.
Accept(s) ==
  /\ running /\ place[s] = "none"
  /\ place' = [place EXCEPT ![s] =
       IF Cardinality(Placed("handshake")) < MaxPlaces THEN "handshake" ELSE "gone"]
  /\ UNCHANGED <<running, ready, tickets, expired, link, closing, late, history>>

\* connected and newConnection: the Peer takes the socket over, or closes it
\* if it has all its links.
Adopt(s) ==
  /\ place[s] = "handshake"
  /\ place' = [place EXCEPT ![s] =
       IF Cardinality(Placed("link")) < MaxLinks THEN "link" ELSE "gone"]
  /\ UNCHANGED <<running, ready, tickets, expired, link, closing, late, history>>

\* disconnected: the device leaves, the codec fails, or the deadline of the
\* handshake or of a close has passed.
Disconnected(s) ==
  /\ place[s] \in {"handshake", "link"}
  /\ Retire({s})
  /\ UNCHANGED <<running, ready, tickets, expired, history>>

\* Mutant: the ticket stays in the table.
StaysValid(t) == tickets

\* tickets.take()
Taken(t) == tickets \ {t}

Valid(t) == ready /\ t \in tickets /\ t \notin expired

\* "hello" with a ticket.
Hello(s, t) ==
  /\ place[s] = "link"
  /\ IF link[s] = None /\ Valid(t)
     THEN /\ link' = [link EXCEPT ![s] = t]
          /\ tickets' = Taken(t)
          /\ opened' = [opened EXCEPT ![t] = @ \cup {s}]
          /\ UNCHANGED closing
     ELSE closing' = closing \cup {s} /\ UNCHANGED <<link, tickets, opened>>
  /\ UNCHANGED <<running, ready, expired, place, late, session, born>>

\* Any other message that is not a request of a link whose ticket is good; such
\* a request is answered and changes nothing here.
Refuse(s) ==
  /\ place[s] = "link"
  /\ closing' = closing \cup {s}
  /\ UNCHANGED <<running, ready, tickets, expired, place, link, late, history>>

\* Five seconds pass without a ticket.
Late(s) ==
  /\ place[s] = "link" /\ link[s] = None /\ s \notin late
  /\ late' = late \cup {s}
  /\ UNCHANGED <<running, ready, tickets, expired, place, link, closing, history>>

\* Mutant: only links with a ticket are looked at.
DueWithTicket(s) == place[s] = "link" /\ link[s] \in expired

\* The links that sweep() ends.
Due(s) ==
  /\ place[s] = "link"
  /\ IF link[s] # None THEN link[s] \in expired ELSE s \in late

\* sweep(), which runs as long as the Peer does.
Sweep ==
  /\ running
  /\ tickets \cap expired # {} \/ \E s \in Socket : Due(s)
  /\ tickets' = tickets \ expired
  /\ Retire({s \in Socket : Due(s)})
  /\ UNCHANGED <<running, ready, expired, history>>

-----------------------------------------------------------------------------
Next ==
  \/ Start \/ Registered \/ RelayLost \/ Stop \/ Sweep
  \/ \E t \in Ticket : Announce(t) \/ Expire(t)
  \/ \E s \in Socket :
       \/ Accept(s) \/ Adopt(s) \/ Disconnected(s) \/ Refuse(s) \/ Late(s)
       \/ \E t \in Ticket : Hello(s, t)

Spec == Init /\ [][Next]_vars

\* Time passes and the event loop runs: a handshake is ended by its deadline,
\* a closing socket by its own.  Nothing is assumed of the devices.
Fairness ==
  /\ WF_vars(Sweep)
  /\ \A t \in Ticket : WF_vars(Expire(t))
  /\ \A s \in Socket :
       /\ WF_vars(Late(s))
       /\ WF_vars(place[s] = "handshake" /\ (Adopt(s) \/ Disconnected(s)))
       /\ WF_vars(s \in closing /\ Disconnected(s))

FairSpec == Spec /\ Fairness

-----------------------------------------------------------------------------
(* Properties *)

\* Every variable has its type.
TypeOK ==
  /\ running \in BOOLEAN /\ ready \in BOOLEAN
  /\ tickets \subseteq Ticket /\ expired \subseteq Ticket
  /\ place \in [Socket -> {"none", "handshake", "link", "gone"}]
  /\ link \in [Socket -> Ticket \cup {None}]
  /\ closing \subseteq Placed("link") /\ late \subseteq Placed("link")
  /\ session \in 0..MaxSessions /\ born \in [Ticket -> 0..MaxSessions]

\* A ticket opens one connection, however often it is shown, also on a
\* connection that is being closed, and it is in the table or used, never both
\* (Peer.cpp:164-165).
TicketOpensOnce ==
  \A t \in Ticket : Cardinality(opened[t]) <= 1 /\ (t \in tickets => opened[t] = {})

\* Trust ends with the relay session that gave it: every ticket in the table
\* and every authenticated link was announced in the current one, and there is
\* none without (Peer.cpp:44-45, 60-63, 164, 269-270).
TrustIsCurrent ==
  \A t \in tickets \cup ({link[s] : s \in Socket} \ {None}) : ready /\ born[t] = session

\* The limits hold together, and no socket outlives its Peer: those of the
\* server are retired with it, those of the links by resetLocal()
\* (NetworkTransport.cpp:266, 285-290, Peer.cpp:61-62, 213, 258-259).
SocketsAreOwned ==
  /\ TypeOK
  /\ Cardinality(Placed("handshake")) <= MaxPlaces
  /\ Cardinality(Placed("link")) <= MaxLinks
  /\ Cardinality(tickets) <= MaxTickets
  /\ ~running => Placed("link") \cup Placed("handshake") = {}

\* A device cannot keep a place: the handshake ends, and a link ends when it
\* shows no ticket or when its ticket expires (NetworkTransport.cpp:266,
\* 277, Peer.cpp:237-240, 260).
PlacesComeBack ==
  \A s \in Socket : (place[s] \in {"handshake", "link"}) ~> (place[s] = "gone")
=============================================================================
