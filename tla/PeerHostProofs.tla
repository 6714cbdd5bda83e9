--------------------------- MODULE PeerHostProofs ---------------------------
(***************************************************************************)
(* Theorems about PeerHost, for any number of sockets and tickets and for  *)
(* any limits: a ticket opens one connection, trust ends with the relay    *)
(* session that gave it, and the tables of sockets keep to their limits.   *)
(*                                                                         *)
(* The inductive invariant has three parts.  Places is about sockets       *)
(* alone.  Trust adds to TrustIsCurrent that only a link is authenticated, *)
(* so that resetLocal(), which ends the links, ends all trust.  Once adds  *)
(* to TicketOpensOnce that a ticket not yet announced is unused, and rests *)
(* on Trust: what is in the table was announced.                           *)
(***************************************************************************)
EXTENDS PeerHost, FiniteSetTheorems, TLAPS

\* Sockets: the tables are finite, within their limits, and empty when the
\* Peer does not run.
Places ==
  /\ TypeOK
  /\ IsFiniteSet(Placed("handshake")) /\ Cardinality(Placed("handshake")) <= MaxPlaces
  /\ IsFiniteSet(Placed("link")) /\ Cardinality(Placed("link")) <= MaxLinks
  /\ IsFiniteSet(tickets) /\ Cardinality(tickets) <= MaxTickets
  /\ ~running => Placed("link") = {} /\ Placed("handshake") = {}

\* Trust: with the relay, and held by links only.
Trust ==
  /\ \A t \in tickets : ready /\ born[t] = session
  /\ \A s \in Socket : link[s] # None => place[s] = "link" /\ ready /\ born[link[s]] = session
  /\ ready => session > 0

\* Tickets: each one opened nothing or one socket; one that waits or was not
\* announced opened nothing.
Once ==
  /\ opened \in [Ticket -> SUBSET Socket]
  /\ \A t \in Ticket :
       /\ opened[t] = {} \/ \E s \in Socket : opened[t] = {s}
       /\ t \in tickets => opened[t] = {}
       /\ born[t] = 0 => opened[t] = {}

-----------------------------------------------------------------------------
(* Sockets *)

\* What Retire leaves of each table.
LEMMA Retired ==
  ASSUME NEW S, TypeOK, Retire(S)
  PROVE  /\ place' \in [Socket -> {"none", "handshake", "link", "gone"}]
         /\ link' \in [Socket -> Ticket \cup {None}]
         /\ Placed("handshake")' = Placed("handshake") \ S
         /\ Placed("link")' = Placed("link") \ S
         /\ closing' \subseteq Placed("link")' /\ late' \subseteq Placed("link")'
  BY DEF TypeOK, Retire, Placed

\* A finite set without some of its elements.
LEMMA Fewer ==
  ASSUME NEW A, NEW B, NEW n \in Nat, IsFiniteSet(A), Cardinality(A) <= n, B \subseteq A
  PROVE  IsFiniteSet(B) /\ Cardinality(B) <= n
<1>1. IsFiniteSet(B) /\ Cardinality(B) <= Cardinality(A)
  BY FS_Subset
<1>2. Cardinality(A) \in Nat /\ Cardinality(B) \in Nat
  BY <1>1, FS_CardinalityType
<1>3. QED
  BY <1>1, <1>2

\* A finite set below its limit with one more element.
LEMMA OneMore ==
  ASSUME NEW A, NEW x, NEW n \in Nat, IsFiniteSet(A), Cardinality(A) < n
  PROVE  IsFiniteSet(A \cup {x}) /\ Cardinality(A \cup {x}) <= n
<1>1. Cardinality(A) \in Nat
  BY FS_CardinalityType
<1>2. /\ IsFiniteSet(A \cup {x})
      /\ Cardinality(A \cup {x}) = IF x \in A THEN Cardinality(A) ELSE Cardinality(A) + 1
  BY FS_AddElement
<1>3. QED
  BY <1>1, <1>2

LEMMA PlacesInit == Init => Places
<1> SUFFICES ASSUME Init PROVE Places
  OBVIOUS
<1>1. Placed("handshake") = {} /\ Placed("link") = {} /\ tickets = {}
  BY DEF Init, Placed
<1>2. IsFiniteSet({}) /\ Cardinality({}) = 0
  BY FS_EmptySet
<1>3. TypeOK
  <2>1. 0 \in 0..MaxSessions
    BY LimitAssumption
  <2>2. QED
    BY <1>1, <2>1 DEF Init, TypeOK
<1>4. QED
  BY <1>1, <1>2, <1>3, LimitAssumption DEF Places

\* A step that retires sockets and shrinks the ticket table.
LEMMA PlacesShrink ==
  ASSUME NEW S, Places, Retire(S), tickets' \subseteq tickets, running' \in BOOLEAN, ready' \in BOOLEAN,
         running' = running \/ S = Stopped, UNCHANGED <<expired, history>>
  PROVE  Places'
<1>1. /\ Placed("handshake")' = Placed("handshake") \ S
      /\ Placed("link")' = Placed("link") \ S
      /\ TypeOK'
  BY Retired DEF Places, TypeOK, history
<1>2. /\ IsFiniteSet(Placed("handshake")') /\ Cardinality(Placed("handshake")') <= MaxPlaces
      /\ IsFiniteSet(Placed("link")') /\ Cardinality(Placed("link")') <= MaxLinks
      /\ IsFiniteSet(tickets') /\ Cardinality(tickets') <= MaxTickets
  BY <1>1, Fewer, LimitAssumption DEF Places
<1>3. ~running' => Placed("link")' = {} /\ Placed("handshake")' = {}
  BY <1>1 DEF Places, Stopped
<1>4. QED
  BY <1>1, <1>2, <1>3 DEF Places

\* A step that leaves the sockets where they are.
LEMMA PlacesStay ==
  ASSUME Places, place' = place, TypeOK', running => running',
         IsFiniteSet(tickets'), Cardinality(tickets') <= MaxTickets
  PROVE  Places'
<1>1. Placed("handshake")' = Placed("handshake") /\ Placed("link")' = Placed("link")
  BY DEF Placed
<1>2. QED
  BY <1>1 DEF Places

LEMMA PlacesNext == Places /\ [Next]_vars => Places'
<1> SUFFICES ASSUME Places, [Next]_vars PROVE Places'
  OBVIOUS
<1>t. TypeOK
  BY DEF Places
<1>f. tickets' \subseteq tickets => IsFiniteSet(tickets') /\ Cardinality(tickets') <= MaxTickets
  BY Fewer, LimitAssumption DEF Places
<1>1. CASE Start
  <2>1. TypeOK'
    BY <1>1, <1>t DEF Start, TypeOK, Placed, conns, history
  <2>2. place' = place /\ (running => running')
    BY <1>1 DEF Start, conns
  <2>3. tickets' \subseteq tickets
    BY <1>1 DEF Start, conns
  <2>4. QED
    BY <2>1, <2>2, <2>3, <1>f, PlacesStay
<1>2. CASE Registered
  <2>1. TypeOK'
    BY <1>2, <1>t, LimitAssumption DEF Registered, TypeOK, Placed, conns
  <2>2. place' = place /\ (running => running')
    BY <1>2 DEF Registered, conns
  <2>3. tickets' \subseteq tickets
    BY <1>2 DEF Registered, conns
  <2>4. QED
    BY <2>1, <2>2, <2>3, <1>f, PlacesStay
<1>3. CASE RelayLost
  BY <1>3, <1>t, PlacesShrink DEF RelayLost, TicketsReset, TypeOK
<1>4. CASE Stop
  BY <1>4, <1>t, PlacesShrink DEF Stop, TypeOK
<1>5. CASE Sweep
  BY <1>5, <1>t, PlacesShrink DEF Sweep, TypeOK
<1>6. ASSUME NEW t \in Ticket, Announce(t) PROVE Places'
  <2>1. TypeOK'
    BY <1>6, <1>t DEF Announce, TypeOK, Placed, conns
  <2>2. IsFiniteSet(tickets') /\ Cardinality(tickets') <= MaxTickets
    BY <1>6, OneMore, LimitAssumption DEF Announce, Places
  <2>3. QED
    BY <1>6, <2>1, <2>2, PlacesStay DEF Announce, conns
<1>7. ASSUME NEW t \in Ticket, Expire(t) PROVE Places'
  <2>1. TypeOK'
    BY <1>7, <1>t DEF Expire, TypeOK, Placed, conns, history
  <2>2. place' = place /\ (running => running')
    BY <1>7 DEF Expire, conns
  <2>3. tickets' \subseteq tickets
    BY <1>7 DEF Expire, conns
  <2>4. QED
    BY <2>1, <2>2, <2>3, <1>f, PlacesStay
<1>8. ASSUME NEW s \in Socket, Accept(s) PROVE Places'
  <2>1. CASE Cardinality(Placed("handshake")) < MaxPlaces
    <3>1. Placed("handshake")' = Placed("handshake") \cup {s} /\ Placed("link")' = Placed("link")
      BY <1>8, <2>1, <1>t DEF Accept, Placed, TypeOK
    <3>2. TypeOK'
      BY <1>8, <2>1, <3>1, <1>t DEF Accept, TypeOK, history
    <3>3. IsFiniteSet(Placed("handshake")') /\ Cardinality(Placed("handshake")') <= MaxPlaces
      BY <2>1, <3>1, OneMore, LimitAssumption DEF Places
    <3>4. QED
      BY <1>8, <3>1, <3>2, <3>3 DEF Accept, Places
  <2>2. CASE ~(Cardinality(Placed("handshake")) < MaxPlaces)
    <3>1. Placed("handshake")' = Placed("handshake") /\ Placed("link")' = Placed("link")
      BY <1>8, <2>2, <1>t DEF Accept, Placed, TypeOK
    <3>2. TypeOK'
      BY <1>8, <2>2, <3>1, <1>t DEF Accept, TypeOK, history
    <3>3. QED
      BY <1>8, <3>1, <3>2 DEF Accept, Places
  <2>3. QED
    BY <2>1, <2>2
<1>9. ASSUME NEW s \in Socket, Adopt(s) PROVE Places'
  <2>r. s \in Placed("handshake") /\ running
    BY <1>9 DEF Adopt, Places, Placed
  <2>1. Placed("handshake")' = Placed("handshake") \ {s}
    BY <1>9, <1>t DEF Adopt, Placed, TypeOK
  <2>2. Placed("link")' = IF Cardinality(Placed("link")) < MaxLinks
                          THEN Placed("link") \cup {s} ELSE Placed("link")
    BY <1>9, <1>t DEF Adopt, Placed, TypeOK
  <2>3. TypeOK'
    BY <1>9, <2>2, <1>t DEF Adopt, TypeOK, history
  <2>4. IsFiniteSet(Placed("handshake")') /\ Cardinality(Placed("handshake")') <= MaxPlaces
    BY <2>1, Fewer, LimitAssumption DEF Places
  <2>5. IsFiniteSet(Placed("link")') /\ Cardinality(Placed("link")') <= MaxLinks
    BY <2>2, OneMore, LimitAssumption DEF Places
  <2>6. QED
    BY <1>9, <2>r, <2>3, <2>4, <2>5 DEF Adopt, Places
<1>10. ASSUME NEW s \in Socket, Disconnected(s) PROVE Places'
  BY <1>10, <1>t, PlacesShrink DEF Disconnected, TypeOK
<1>11. ASSUME NEW s \in Socket, Refuse(s) \/ Late(s) PROVE Places'
  <2>1. TypeOK'
    BY <1>11, <1>t DEF Refuse, Late, TypeOK, Placed, history
  <2>2. place' = place /\ (running => running')
    BY <1>11 DEF Refuse, Late
  <2>3. tickets' \subseteq tickets
    BY <1>11 DEF Refuse, Late
  <2>4. QED
    BY <2>1, <2>2, <2>3, <1>f, PlacesStay
<1>12. ASSUME NEW s \in Socket, NEW t \in Ticket, Hello(s, t) PROVE Places'
  <2>1. TypeOK'
    BY <1>12, <1>t DEF Hello, Taken, TypeOK, Placed
  <2>2. place' = place /\ (running => running')
    BY <1>12 DEF Hello, Taken
  <2>3. tickets' \subseteq tickets
    BY <1>12 DEF Hello, Taken
  <2>4. QED
    BY <2>1, <2>2, <2>3, <1>f, PlacesStay
<1>13. CASE UNCHANGED vars
  BY <1>13 DEF vars, conns, history, Places, TypeOK, Placed
<1>14. QED
  BY <1>1, <1>2, <1>3, <1>4, <1>5, <1>6, <1>7, <1>8, <1>9, <1>10, <1>11, <1>12, <1>13 DEF Next

\* The limits on handshakes, links and tickets hold together, for every limit,
\* and no socket of the server or of a link outlives stop().
THEOREM SocketsOwned == Spec => []SocketsAreOwned
<1>1. Places => SocketsAreOwned
  BY DEF Places, SocketsAreOwned
<1>2. Spec => []Places
  BY PlacesInit, PlacesNext, PTL DEF Spec
<1>3. QED
  BY <1>1, <1>2, PTL

-----------------------------------------------------------------------------
(* Trust *)

LEMMA TrustInit == Init => Trust
  BY DEF Init, Trust

\* A step that retires sockets, all links of them if the relay is lost.
LEMMA TrustShrink ==
  ASSUME NEW S, TypeOK, Trust, Retire(S), tickets' \subseteq tickets, UNCHANGED history,
         ready' = ready \/ (Placed("link") \subseteq S /\ tickets' = {} /\ ready' = FALSE)
  PROVE  Trust'
<1>1. \A s \in Socket : link'[s] # None => s \notin S /\ link'[s] = link[s] /\ place'[s] = place[s]
  BY DEF Retire, TypeOK
<1>2. CASE ready' = ready
  BY <1>1, <1>2 DEF Trust, history
<1>3. CASE Placed("link") \subseteq S /\ tickets' = {} /\ ready' = FALSE
  <2>1. \A s \in Socket : link'[s] = None
    BY <1>1, <1>3 DEF Trust, Placed
  <2>2. QED
    BY <1>3, <2>1 DEF Trust
<1>4. QED
  BY <1>2, <1>3

LEMMA TrustNext == Places /\ Trust /\ [Next]_vars => Trust'
<1> SUFFICES ASSUME Places, Trust, [Next]_vars PROVE Trust'
  OBVIOUS
<1>t. TypeOK
  BY DEF Places
<1>1. CASE Start
  BY <1>1 DEF Start, Trust, conns, history
<1>2. CASE Registered
  <2>1. tickets = {} /\ \A s \in Socket : link[s] = None
    BY <1>2 DEF Registered, Trust
  <2>2. ready' /\ session' > 0
    BY <1>2, <1>t, LimitAssumption DEF Registered, TypeOK
  <2>3. QED
    BY <1>2, <2>1, <2>2 DEF Registered, Trust, conns
<1>3. CASE RelayLost
  BY <1>3, <1>t, TrustShrink DEF RelayLost, TicketsReset
<1>4. CASE Stop
  BY <1>4, <1>t, TrustShrink DEF Stop, Stopped
<1>5. CASE Sweep
  BY <1>5, <1>t, TrustShrink DEF Sweep
<1>6. ASSUME NEW t \in Ticket, Announce(t) PROVE Trust'
  <2>1. born'[t] = session /\ \A u \in Ticket : born[u] = session => born'[u] = session
    BY <1>6, <1>t DEF Announce, TypeOK
  <2>2. \A u \in tickets' : u \in tickets \/ u = t
    BY <1>6 DEF Announce
  <2>3. QED
    BY <1>6, <2>1, <2>2, <1>t DEF Announce, Trust, TypeOK, conns
<1>7. ASSUME NEW t \in Ticket, Expire(t) PROVE Trust'
  BY <1>7 DEF Expire, Trust, conns, history
<1>8. ASSUME NEW s \in Socket, Accept(s) \/ Adopt(s) PROVE Trust'
  <2>1. \A x \in Socket : place[x] = "link" => place'[x] = "link"
    BY <1>8, <1>t DEF Accept, Adopt, TypeOK
  <2>2. QED
    BY <1>8, <2>1 DEF Accept, Adopt, Trust, history
<1>9. ASSUME NEW s \in Socket, Disconnected(s) PROVE Trust'
  BY <1>9, <1>t, TrustShrink DEF Disconnected
<1>10. ASSUME NEW s \in Socket, Refuse(s) \/ Late(s) PROVE Trust'
  BY <1>10 DEF Refuse, Late, Trust, history
<1>11. ASSUME NEW s \in Socket, NEW t \in Ticket, Hello(s, t) PROVE Trust'
  <2>1. CASE link[s] = None /\ Valid(t)
    <3>1. link' = [link EXCEPT ![s] = t] /\ tickets' = tickets \ {t}
      BY <1>11, <2>1 DEF Hello, Taken
    <3>2. place[s] = "link" /\ ready /\ born[t] = session
      BY <1>11, <2>1 DEF Hello, Valid, Trust
    <3>3. QED
      BY <1>11, <3>1, <3>2, <1>t DEF Hello, Trust, TypeOK
  <2>2. CASE ~(link[s] = None /\ Valid(t))
    BY <1>11, <2>2 DEF Hello, Trust
  <2>3. QED
    BY <2>1, <2>2
<1>12. CASE UNCHANGED vars
  BY <1>12 DEF vars, conns, history, Trust
<1>13. QED
  BY <1>1, <1>2, <1>3, <1>4, <1>5, <1>6, <1>7, <1>8, <1>9, <1>10, <1>11, <1>12 DEF Next

\* Every ticket that can still be shown and every authenticated link belong to
\* the current session with the relay: trust does not survive its loss.
THEOREM TrustEnds == Spec => []TrustIsCurrent
<1>1. Trust => TrustIsCurrent
  BY DEF Trust, TrustIsCurrent
<1>2. Spec => [](Places /\ Trust)
  BY PlacesInit, PlacesNext, TrustInit, TrustNext, PTL DEF Spec
<1>3. QED
  BY <1>1, <1>2, PTL

-----------------------------------------------------------------------------
(* Tickets *)

LEMMA OnceInit == Init => Once
  BY DEF Init, Once

LEMMA OnceNext == Places /\ Trust /\ Once /\ [Next]_vars => Once'
<1> SUFFICES ASSUME Places, Trust, Once, [Next]_vars PROVE Once'
  OBVIOUS
<1>t. TypeOK
  BY DEF Places
<1>1. CASE Start \/ Registered \/ RelayLost \/ Stop \/ Sweep
  BY <1>1 DEF Start, Registered, RelayLost, TicketsReset, Stop, Sweep, Once, conns, history
<1>2. ASSUME NEW t \in Ticket, Announce(t) PROVE Once'
  <2>1. opened' = opened /\ opened[t] = {} /\ \A u \in tickets' : u \in tickets \/ u = t
    BY <1>2 DEF Announce, Once
  <2>2. \A u \in Ticket \ {t} : born'[u] = born[u]
    BY <1>2, <1>t DEF Announce, TypeOK
  <2>3. QED
    BY <2>1, <2>2 DEF Once
<1>3. ASSUME NEW t \in Ticket, Expire(t) PROVE Once'
  BY <1>3 DEF Expire, Once, conns, history
<1>4. ASSUME NEW s \in Socket,
             Accept(s) \/ Adopt(s) \/ Disconnected(s) \/ Refuse(s) \/ Late(s)
      PROVE  Once'
  BY <1>4 DEF Accept, Adopt, Disconnected, Refuse, Late, Once, history
<1>5. ASSUME NEW s \in Socket, NEW t \in Ticket, Hello(s, t) PROVE Once'
  <2>1. CASE link[s] = None /\ Valid(t)
    <3>1. /\ tickets' = tickets \ {t} /\ born' = born
          /\ opened' = [opened EXCEPT ![t] = opened[t] \cup {s}]
      BY <1>5, <2>1 DEF Hello, Taken
    <3>2. opened[t] = {} /\ born[t] # 0
      BY <2>1, <1>t DEF Valid, Once, Trust, TypeOK
    <3>3. opened'[t] = {s} /\ \A u \in Ticket \ {t} : opened'[u] = opened[u]
      BY <3>1, <3>2 DEF Once
    <3>4. opened' \in [Ticket -> SUBSET Socket]
      BY <3>1 DEF Once
    <3>5. QED
      BY <3>1, <3>2, <3>3, <3>4 DEF Once
  <2>2. CASE ~(link[s] = None /\ Valid(t))
    BY <1>5, <2>2 DEF Hello, Once
  <2>3. QED
    BY <2>1, <2>2
<1>6. CASE UNCHANGED vars
  BY <1>6 DEF vars, history, Once
<1>7. QED
  BY <1>1, <1>2, <1>3, <1>4, <1>5, <1>6 DEF Next

\* A ticket opens at most one connection, however often, on however many
\* sockets and in whatever order it is announced and shown.
THEOREM TicketsOnce == Spec => []TicketOpensOnce
<1>1. Once => TicketOpensOnce
  <2> SUFFICES ASSUME Once, NEW t \in Ticket
               PROVE  Cardinality(opened[t]) <= 1 /\ (t \in tickets => opened[t] = {})
    BY DEF TicketOpensOnce
  <2>1. Cardinality({}) = 0 /\ \A s \in Socket : Cardinality({s}) = 1
    BY FS_EmptySet, FS_Singleton
  <2>2. QED
    BY <2>1 DEF Once
<1>2. Spec => [](Places /\ Trust /\ Once)
  BY PlacesInit, PlacesNext, TrustInit, TrustNext, OnceInit, OnceNext, PTL DEF Spec
<1>3. QED
  BY <1>1, <1>2, PTL
=============================================================================
