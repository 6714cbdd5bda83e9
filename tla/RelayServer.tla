---------------------------- MODULE RelayServer ----------------------------
(***************************************************************************)
(* The relay (src/src/RelayServer.cpp): a single-threaded server that      *)
(* authenticates WebSocket sessions, lets them register under a peer id    *)
(* and a service, pairs a client with a host through a one-time QR code,   *)
(* and routes requests and responses between sessions of one account.      *)
(*                                                                         *)
(* Time is a countdown: every deadline of the code is the number of ticks  *)
(* that remain, and 0 is a deadline that has passed ("<= now" and "< now"  *)
(* differ by one millisecond, far below a tick).  Messages carry no text,  *)
(* only what a handler looks at.  What the relay sends is left out: it     *)
(* changes nothing in the relay, except that a send to a socket whose      *)
(* output is full ends that socket, which is a Disconnected step here.     *)
(***************************************************************************)
EXTENDS Integers, FiniteSets

CONSTANTS
  Socket,       \* WebSocket objects, reused once deleted
  Account,      \* accounts the authenticator knows
  PeerId,       \* identifiers a session registers under
  Service,      \* services a session registers for
  Code,         \* 256-bit QR codes: random, so never issued twice
  Key,          \* uuids of routes
  None,         \* an empty string, an absent entry
  MaxSessions,  \* 128
  MaxPerClient, \* 32 routes of one client
  MaxRoutes,    \* 1024 routes
  MaxAttempts,  \* 6 offers and claims of one session per window
  AuthTicks,    \* 60 s: longest life of a principal
  LoginTicks,   \* 7 s: a session without principal
  OfferTicks,   \* 60 s: longest life of a QR code
  ConfirmTicks, \* 15 s: longest wait for the confirmation
  RouteTicks,   \* 15 s: longest wait for a response
  WindowTicks   \* 30 s: the window of the attempt counter

ASSUME NoneAssumption ==
  None \notin Socket \cup Account \cup PeerId \cup Service

ASSUME LimitAssumption ==
  /\ {MaxSessions, MaxPerClient, MaxRoutes, MaxAttempts} \subseteq Nat
  /\ {LoginTicks, RouteTicks} \subseteq Nat
  /\ {AuthTicks, OfferTicks, ConfirmTicks, WindowTicks} \subseteq Nat \ {0}

VARIABLES
  listening, \* the listener exists and the 500 ms timer runs
  sock,      \* per socket: "none" (no session), "open" or "closing"
  sessions,  \* per socket: its Session, Blank when it has none
  offers,    \* per code: the Offer waiting to be claimed, or None
  pairs,     \* per code: the Pair waiting to be confirmed, or None
  routes,    \* per uuid: the Route waiting for a response, or None
  issued,    \* history: the codes issued so far
  bonds      \* history: per code, the host and client told "paired", or None

vars == <<listening, sock, sessions, offers, pairs, routes, issued, bonds>>

pairingVars == <<offers, pairs, issued, bonds>>

-----------------------------------------------------------------------------
(* Types and helpers *)

Session == [account: Account \cup {None}, left: 0..AuthTicks,
            id: PeerId \cup {None}, service: Service \cup {None},
            host: BOOLEAN, authenticating: BOOLEAN,
            grace: 0..LoginTicks,
            window: 0..WindowTicks, attempts: 0..MaxAttempts]

Offer == [host: Socket, left: 0..OfferTicks]

\* qr is not in the code: what remains of the life of the claimed QR code.
Pair == [host: Socket, client: Socket, left: 0..ConfirmTicks, qr: 0..OfferTicks]

Route == [client: Socket, host: Socket, left: 0..RouteTicks]

Bond == [host: Socket, client: Socket]

ASSUME AbsentAssumption == None \notin Offer \cup Pair \cup Route \cup Bond

\* A Session as its declaration initializes it; host stands for a descriptor
\* that is not empty, window = 0 for a pairing window that is invalid or over.
Blank == [account |-> None, left |-> 0, id |-> None, service |-> None,
          host |-> FALSE, authenticating |-> FALSE, grace |-> LoginTicks,
          window |-> 0, attempts |-> 0]

Least(a, b) == IF a <= b THEN a ELSE b

Dec(n) == IF n > 0 THEN n - 1 ELSE 0

Present(s) == sock[s] # "none"

\* protocol::live on the principal of s, and active.
live(s) == sessions[s].account # None /\ sessions[s].left > 0

active(s) == Present(s) /\ live(s)

\* The host sessions that target() may return for a caller: the first match
\* in hash order, so any of them.
target(s, id) ==
  {h \in Socket \ {s} :
     /\ active(h)
     /\ sessions[h].id = id
     /\ sessions[h].host
     /\ sessions[h].account = sessions[s].account
     /\ sessions[h].service = sessions[s].service}

\* cancelPairing(s) for every s in S: the offers of S, and the pairs in which
\* a member of S is host or client, are gone.
OffersWithout(S, f) ==
  [c \in Code |-> IF f[c] # None /\ f[c].host \in S THEN None ELSE f[c]]

\* Mutant: only the host's side of a pair counts.
PairsWithoutHostOnly(S, f) ==
  [c \in Code |-> IF f[c] # None /\ f[c].host \in S THEN None ELSE f[c]]

PairsWithout(S, f) ==
  [c \in Code |-> IF f[c] # None /\ {f[c].host, f[c].client} \cap S # {}
                  THEN None ELSE f[c]]

\* Mutant: remove() forgets the routes on which the socket is the host.
RoutesWithoutClientOnly(S, f) ==
  [k \in Key |-> IF f[k] # None /\ f[k].client \in S THEN None ELSE f[k]]

\* The routes that remain once the sockets of S are removed.
RoutesWithout(S, f) ==
  [k \in Key |-> IF f[k] # None /\ {f[k].host, f[k].client} \cap S # {}
                 THEN None ELSE f[k]]

\* Every socket of S is gone: disconnected, hence remove(s).  The arguments
\* are the tables as the handler has left them so far.
RemoveFrom(S, sess, off, prs, rts) ==
  /\ sessions' = [s \in Socket |-> IF s \in S THEN Blank ELSE sess[s]]
  /\ offers' = OffersWithout(S, off)
  /\ pairs' = PairsWithout(S, prs)
  /\ routes' = RoutesWithout(S, rts)

\* s->close() for every s in S.  A connected socket starts the closing
\* handshake; one that is closing already is finished on the spot.
CloseAll(S, sess, off, prs, rts) ==
  /\ sock' = [s \in Socket |-> IF s \notin S THEN sock[s]
                               ELSE IF sock[s] = "open" THEN "closing"
                               ELSE "none"]
  /\ RemoveFrom({s \in S : sock[s] = "closing"}, sess, off, prs, rts)

-----------------------------------------------------------------------------
(* listen(), stop(), new and lost connections *)

Init ==
  /\ listening = FALSE
  /\ sock = [s \in Socket |-> "none"]
  /\ sessions = [s \in Socket |-> Blank]
  /\ offers = [c \in Code |-> None]
  /\ pairs = [c \in Code |-> None]
  /\ routes = [k \in Key |-> None]
  /\ issued = {}
  /\ bonds = [c \in Code |-> None]

\* stop(), which listen() calls first and which is all that a listen() does
\* that fails: every table is cleared and every socket deleted.
Clear ==
  /\ sock' = [s \in Socket |-> "none"]
  /\ RemoveFrom(Socket, sessions, offers, pairs, routes)
  /\ UNCHANGED <<issued, bonds>>

Listen == Clear /\ listening' = TRUE

Stop == listening /\ Clear /\ listening' = FALSE

\* A connection above MaxSessions is closed at once and leaves no trace.
Accept(s) ==
  /\ listening
  /\ sock[s] = "none"
  /\ Cardinality({t \in Socket : Present(t)}) < MaxSessions
  /\ sock' = [sock EXCEPT ![s] = "open"]
  /\ sessions' = [sessions EXCEPT ![s] = Blank]
  /\ UNCHANGED <<listening, routes>> /\ UNCHANGED pairingVars

\* The transport reports disconnected: the peer or the network went away, or
\* a closing handshake ended or exceeded its second.
Disconnected(s) ==
  /\ Present(s)
  /\ sock' = [sock EXCEPT ![s] = "none"]
  /\ RemoveFrom({s}, sessions, offers, pairs, routes)
  /\ UNCHANGED <<listening, issued, bonds>>

\* Any message that is only answered by close(): malformed, binary, of an
\* unknown type, or sent without a live principal or before registering; an
\* auth while one is running; and the peer's own close frame.
Reject(s) ==
  /\ Present(s)
  /\ CloseAll({s}, sessions, offers, pairs, routes)
  /\ UNCHANGED <<listening, issued, bonds>>

-----------------------------------------------------------------------------
(* Authentication and registration.  A socket that is closing still delivers *)
(* the frames received with the one that closed it.                          *)

Auth(s) ==
  /\ Present(s)
  /\ ~sessions[s].authenticating
  /\ sessions' = [sessions EXCEPT ![s] = [@ EXCEPT !.authenticating = TRUE]]
  /\ UNCHANGED <<listening, sock, routes>> /\ UNCHANGED pairingVars

\* The life that the relay grants a principal that the verifier lets live for
\* d ticks, and the accounts that a session may authenticate for.
Granted(d) == Least(d, AuthTicks)

MayBe(s, a) == sessions[s].account \in {None, a}

\* The verifier's callback with a live principal.
AuthAccepted(s, a, d) ==
  /\ Present(s)
  /\ sessions[s].authenticating
  /\ MayBe(s, a)
  /\ sessions' = [sessions EXCEPT ![s] =
       [@ EXCEPT !.authenticating = FALSE, !.account = a, !.left = Granted(d)]]
  /\ UNCHANGED <<listening, sock, routes>> /\ UNCHANGED pairingVars

\* The callback with no live principal, or with one of another account.
AuthRefused(s) ==
  /\ Present(s)
  /\ sessions[s].authenticating
  /\ CloseAll({s},
       [sessions EXCEPT ![s] =
          [@ EXCEPT !.authenticating = FALSE, !.account = None, !.left = 0]],
       OffersWithout({s}, offers), PairsWithout({s}, pairs), routes)
  /\ UNCHANGED <<listening, issued, bonds>>

\* Mutant: only the name of a host is taken.
TakenByHost(s, id, service) ==
  \E t \in Socket \ {s} :
    /\ Present(t) /\ sessions[t].host
    /\ sessions[t].account = sessions[s].account
    /\ sessions[t].id = id
    /\ sessions[t].service = service

Taken(s, id, service) ==
  \E t \in Socket \ {s} :
    /\ Present(t)
    /\ sessions[t].account = sessions[s].account
    /\ sessions[t].id = id
    /\ sessions[t].service = service

\* Mutant: a host that unregisters keeps its pairings.
KeepsPairings(s, host) == FALSE

\* s stops being a host.
Unregisters(s, host) == sessions[s].host /\ ~host

Register(s, id, service, host) ==
  /\ active(s)
  /\ ~Taken(s, id, service)
  /\ sessions[s].id \in {None, id}
  /\ sessions[s].service \in {None, service}
  /\ sessions' = [sessions EXCEPT ![s] =
                    [@ EXCEPT !.id = id, !.service = service, !.host = host]]
  /\ LET S == IF Unregisters(s, host) THEN {s} ELSE {}
     IN  /\ offers' = OffersWithout(S, offers)
         /\ pairs' = PairsWithout(S, pairs)
  /\ UNCHANGED <<listening, sock, routes, issued, bonds>>

\* A second session of the same peer, or another identity for the same
\* session, is closed.
RegisterRefused(s, id, service) ==
  /\ active(s)
  /\ \/ Taken(s, id, service)
     \/ sessions[s].id \notin {None, id}
     \/ sessions[s].service \notin {None, service}
  /\ Reject(s)

Registered(s) == active(s) /\ sessions[s].id # None

-----------------------------------------------------------------------------
(* Pairing *)

\* One more attempt of s, the first one opening a window.  Beyond the limit
\* the exact count makes no difference: attempts stops at MaxAttempts, and is
\* forgotten with its window (see Tick).
Counted(s) ==
  LET x == sessions[s]
  IN  [sessions EXCEPT ![s] =
         [x EXCEPT !.window = IF x.window = 0 THEN WindowTicks ELSE x.window,
                   !.attempts = Least(x.attempts + 1, MaxAttempts)]]

Allowed(s) == sessions[s].attempts < MaxAttempts

\* pair-offer: a fresh code replaces whatever pairing the host had.
PairOffer(s, c) ==
  /\ Registered(s)
  /\ Allowed(s)
  /\ sessions[s].host
  /\ c \notin issued
  /\ issued' = issued \cup {c}
  /\ offers' = [OffersWithout({s}, offers) EXCEPT
                  ![c] = [host |-> s, left |-> Least(OfferTicks, sessions[s].left)]]
  /\ pairs' = PairsWithout({s}, pairs)
  /\ sessions' = Counted(s)
  /\ UNCHANGED <<listening, sock, routes, bonds>>

\* The host of code c when s may claim it.
Claimable(s, c) ==
  /\ offers[c] # None
  /\ offers[c].left > 0
  /\ active(offers[c].host)
  /\ ~sessions[s].host
  /\ offers[c].host \in target(s, sessions[offers[c].host].id)

\* Mutants: the confirmation may outlast the QR code; a claim leaves the offer.
FullWait(c) == ConfirmTicks
OfferRemains(s, c) == OffersWithout({s}, offers)

\* How long the confirmation is awaited, and the offers once c is claimed by s.
ConfirmWait(c) == Least(ConfirmTicks, offers[c].left)

Consumed(s, c) == [OffersWithout({s}, offers) EXCEPT ![c] = None]

\* pair-claim: the offer becomes a pair that waits for the confirmation.
PairClaim(s, c) ==
  /\ Registered(s)
  /\ Allowed(s)
  /\ Claimable(s, c)
  /\ offers' = Consumed(s, c)
  /\ pairs' = [PairsWithout({s}, pairs) EXCEPT
                 ![c] = [host |-> offers[c].host, client |-> s,
                         left |-> ConfirmWait(c), qr |-> offers[c].left]]
  /\ sessions' = Counted(s)
  /\ UNCHANGED <<listening, sock, routes, issued, bonds>>

\* An attempt that is only counted: above the limit, an offer by a client, or
\* a claim of a code that is wrong, used, expired or of another scope.
PairRefused(s) ==
  /\ Registered(s)
  /\ sessions' = Counted(s)
  /\ UNCHANGED <<listening, sock, routes>> /\ UNCHANGED pairingVars

\* finishPair(id, "paired").
PairConfirm(s, c) ==
  /\ Registered(s)
  /\ pairs[c] # None
  /\ pairs[c].client = s
  /\ pairs[c].left > 0
  /\ active(pairs[c].host)
  /\ pairs[c].host \in target(s, sessions[pairs[c].host].id)
  /\ pairs' = [pairs EXCEPT ![c] = None]
  /\ bonds' = [bonds EXCEPT ![c] = [host |-> pairs[c].host, client |-> s]]
  /\ UNCHANGED <<listening, sock, sessions, offers, routes, issued>>

\* The same confirmation answered by finishPair(id, "expired").
PairConfirmLate(s, c) ==
  /\ Registered(s)
  /\ pairs[c] # None
  /\ pairs[c].client = s
  /\ \/ pairs[c].left = 0
     \/ ~active(pairs[c].host)
     \/ target(s, sessions[pairs[c].host].id) # {pairs[c].host}
  /\ pairs' = [pairs EXCEPT ![c] = None]
  /\ UNCHANGED <<listening, sock, sessions, offers, routes, issued, bonds>>

\* pair-cancel names one request of s, that is one offer or one pair.
PairCancel(s, c) ==
  /\ Registered(s)
  /\ \/ offers[c] # None /\ offers[c].host = s
     \/ pairs[c] # None /\ s \in {pairs[c].host, pairs[c].client}
  /\ offers' = [offers EXCEPT ![c] = None]
  /\ pairs' = [pairs EXCEPT ![c] = None]
  /\ UNCHANGED <<listening, sock, sessions, routes, issued, bonds>>

-----------------------------------------------------------------------------
(* Routing *)

RoutesOf(s) == {k \in Key : routes[k] # None /\ routes[k].client = s}

AllRoutes == {k \in Key : routes[k] # None}

\* A request beyond the limits is answered "busy", one without a target
\* "host_unavailable", and neither leaves a route.
Room(s) ==
  Cardinality(RoutesOf(s)) < MaxPerClient /\ Cardinality(AllRoutes) < MaxRoutes

Request(s, id, k) ==
  /\ Registered(s)
  /\ routes[k] = None
  /\ Room(s)
  /\ \E h \in target(s, id) :
       routes' = [routes EXCEPT ![k] = [client |-> s, host |-> h, left |-> RouteTicks]]
  /\ UNCHANGED <<listening, sock, sessions>> /\ UNCHANGED pairingVars

Response(s, k) ==
  /\ Registered(s)
  /\ routes[k] # None
  /\ routes[k].host = s
  /\ routes' = [routes EXCEPT ![k] = None]
  /\ UNCHANGED <<listening, sock, sessions>> /\ UNCHANGED pairingVars

-----------------------------------------------------------------------------
(* The sweep and time *)

\* The principal of s has expired, or s has none and its login time is over.
Dead(s) ==
  /\ Present(s)
  /\ IF sessions[s].account = None THEN sessions[s].grace = 0 ELSE ~live(s)

OfferOver(c) ==
  offers[c] # None /\ (offers[c].left = 0 \/ ~active(offers[c].host))

\* Mutant: pairs are not swept by their own deadline.
PairOverOnlyInactive(c) ==
  pairs[c] # None /\ (~active(pairs[c].host) \/ ~active(pairs[c].client))

PairOver(c) ==
  pairs[c] # None /\ (\/ pairs[c].left = 0
                     \/ ~active(pairs[c].host)
                     \/ ~active(pairs[c].client))

RouteOver(k) == routes[k] # None /\ routes[k].left = 0

\* One round of the 500 ms timer: late offers, pairs and routes are dropped,
\* dead sessions are closed.
Sweep ==
  /\ listening
  /\ CloseAll({s \in Socket : Dead(s)}, sessions,
       [c \in Code |-> IF OfferOver(c) THEN None ELSE offers[c]],
       [c \in Code |-> IF PairOver(c) THEN None ELSE pairs[c]],
       [k \in Key |-> IF RouteOver(k) THEN None ELSE routes[k]])
  /\ UNCHANGED <<listening, issued, bonds>>

\* A tick of the clock: every deadline comes closer.
Tick ==
  /\ sessions' = [s \in Socket |->
       IF Present(s)
       THEN [sessions[s] EXCEPT !.left = Dec(@), !.grace = Dec(@),
                                !.window = Dec(@),
                                !.attempts = IF sessions[s].window <= 1 THEN 0 ELSE @]
       ELSE sessions[s]]
  /\ offers' = [c \in Code |-> IF offers[c] = None THEN None
                 ELSE [offers[c] EXCEPT !.left = Dec(@)]]
  /\ pairs' = [c \in Code |-> IF pairs[c] = None THEN None
                 ELSE [pairs[c] EXCEPT !.left = Dec(@), !.qr = Dec(@)]]
  /\ routes' = [k \in Key |-> IF routes[k] = None THEN None
                 ELSE [routes[k] EXCEPT !.left = Dec(@)]]
  /\ UNCHANGED <<listening, sock, issued, bonds>>

-----------------------------------------------------------------------------
Step(s) ==
  \/ Accept(s)
  \/ Disconnected(s)
  \/ Reject(s)
  \/ Auth(s)
  \/ \E a \in Account, d \in 1..(AuthTicks + 1) : AuthAccepted(s, a, d)
  \/ AuthRefused(s)
  \/ \E id \in PeerId, v \in Service, h \in BOOLEAN : Register(s, id, v, h)
  \/ \E id \in PeerId, v \in Service : RegisterRefused(s, id, v)
  \/ \E c \in Code : PairOffer(s, c)
  \/ \E c \in Code : PairClaim(s, c)
  \/ PairRefused(s)
  \/ \E c \in Code : PairConfirm(s, c)
  \/ \E c \in Code : PairConfirmLate(s, c)
  \/ \E c \in Code : PairCancel(s, c)
  \/ \E id \in PeerId, k \in Key : Request(s, id, k)
  \/ \E k \in Key : Response(s, k)

Next == Listen \/ Stop \/ Sweep \/ Tick \/ \E s \in Socket : Step(s)

Spec == Init /\ [][Next]_vars

\* The event loop keeps running: the clock advances, the 500 ms timer fires,
\* and a closing handshake ends within its one-second deadline.
Fairness ==
  /\ WF_vars(Tick)
  /\ WF_vars(Sweep)
  /\ \A s \in Socket : WF_vars(sock[s] = "closing" /\ Disconnected(s))

FairSpec == Spec /\ Fairness

-----------------------------------------------------------------------------
(* Properties *)

\* Every table holds entries of its type; in particular no principal lasts
\* longer than AuthTicks and no deadline exceeds its limit
\* (RelayServer.cpp:81, 96, 172, 224).
TypeOK ==
  /\ listening \in BOOLEAN
  /\ sock \in [Socket -> {"none", "open", "closing"}]
  /\ sessions \in [Socket -> Session]
  /\ offers \in [Code -> Offer \cup {None}]
  /\ pairs \in [Code -> Pair \cup {None}]
  /\ routes \in [Key -> Route \cup {None}]
  /\ issued \in SUBSET Code
  /\ bonds \in [Code -> Bond \cup {None}]

\* s waits for the outcome of code c, as its host or as its client.
Engaged(s, c) ==
  \/ offers[c] # None /\ offers[c].host = s
  \/ pairs[c] # None /\ s \in {pairs[c].host, pairs[c].client}

\* A session takes part in at most one pairing at a time, whatever offers,
\* claims, role changes and cancellations came before: pair-offer and
\* pair-claim cancel what the caller had (RelayServer.cpp:78, 95), and a claim
\* moves the host's offer rather than copying it.
OnePairingAtATime ==
  /\ \A s \in Socket, c, d \in Code : Engaged(s, c) /\ Engaged(s, d) => c = d
  /\ \A c \in Code : offers[c] = None \/ pairs[c] = None

\* A pending offer or pair concerns only sessions that still exist, with the
\* identity it was made under: a registered host and, once claimed, another
\* session of the same account and service.  Disconnection, a refused
\* credential and unregistering discard it (RelayServer.cpp:122, 168, 199).
PairingScope ==
  /\ \A c \in Code : offers[c] # None =>
       LET h == offers[c].host
       IN  Present(h) /\ sessions[h].host /\ sessions[h].account # None
  /\ \A c \in Code : pairs[c] # None =>
       LET h == pairs[c].host
           p == pairs[c].client
       IN  /\ h # p
           /\ Present(h) /\ Present(p)
           /\ sessions[h].host
           /\ sessions[h].account # None
           /\ sessions[h].account = sessions[p].account
           /\ sessions[h].service = sessions[p].service

\* The confirmation is never awaited beyond the expiry of the QR code itself
\* (RelayServer.cpp:96).
ConfirmWithinQr == \A c \in Code : pairs[c] # None => pairs[c].left <= pairs[c].qr

\* Two open sessions never carry the same peer identity, so that target() has
\* one answer: registration refuses a duplicate, and neither identity nor
\* account of an open session can change later (RelayServer.cpp:167, 182, 187).
UniquePeer ==
  \A s, t \in Socket :
    /\ sock[s] = "open" /\ sock[t] = "open"
    /\ sessions[s].id # None
    /\ sessions[s].account = sessions[t].account
    /\ sessions[s].id = sessions[t].id
    /\ sessions[s].service = sessions[t].service
    => s = t

\* A route connects two existing sessions, and as long as both are open they
\* belong to one account and one service: no response crosses accounts, and no
\* route outlives an endpoint (RelayServer.cpp:104-110, 124-130).
RouteScope ==
  \A k \in Key : routes[k] # None =>
    LET p == routes[k].client
        h == routes[k].host
    IN  /\ p # h
        /\ Present(p) /\ Present(h)
        /\ sock[p] = "open" /\ sock[h] = "open" =>
             /\ sessions[p].account # None
             /\ sessions[p].account = sessions[h].account
             /\ sessions[p].service # None
             /\ sessions[p].service = sessions[h].service

\* A session has a service once it has an id, and an id if it is a host; an
\* open session without account has never registered, because a refused
\* credential closes it (RelayServer.cpp:167-169).
SessionBook ==
  \A s \in Socket :
    /\ sessions[s].id # None <=> sessions[s].service # None
    /\ sessions[s].host => sessions[s].id # None
    /\ sock[s] = "open" /\ sessions[s].account = None => sessions[s].id = None

\* Only issued codes are anywhere, and a code that has paired two sessions is
\* neither on offer nor claimed.
CodeBook ==
  \A c \in Code :
    /\ offers[c] # None \/ pairs[c] # None \/ bonds[c] # None => c \in issued
    /\ bonds[c] # None => offers[c] = None /\ pairs[c] = None

\* What the other invariants rest on: a refused credential leaves no open
\* session with an identity, and no step brings a used code back
\* (RelayServer.cpp:95, 167-169).
Bookkeeping == SessionBook /\ CodeBook

\* The relay's tables are sound: every entry has its type, in particular no
\* principal and no deadline lasts longer than its limit; no confirmation is
\* awaited beyond the QR code; sessions and codes are in order, however
\* claims, refusals and expiries interleave (RelayServer.cpp:95-96, 167-172).
Sound == TypeOK /\ ConfirmWithinQr /\ Bookkeeping

\* The stage of a code, as PairingContract counts it.
CodeState(c) ==
  IF offers[c] # None
    THEN [stage |-> "offered", host |-> offers[c].host, client |-> None]
  ELSE IF pairs[c] # None
    THEN [stage |-> "claimed", host |-> pairs[c].host, client |-> pairs[c].client]
  ELSE IF bonds[c] # None
    THEN [stage |-> "paired", host |-> bonds[c].host, client |-> bonds[c].client]
  ELSE [stage |-> IF c \in issued THEN "void" ELSE "fresh", host |-> None, client |-> None]

Contract == INSTANCE PairingContract
              WITH Party <- Socket, code <- [c \in Code |-> CodeState(c)]

\* The relay keeps the promise of QR pairing: a code is claimed once, by one
\* session other than its host, pairs exactly those two, and is then dead
\* (RelayServer.cpp:95, "Consume before notifying either participant").
ImplementsContract == Contract!Spec

\* Every offer and every claimed pair is eventually decided, so neither side
\* waits for ever on a peer that went silent; every route ends, by a response,
\* a lost endpoint or the sweep; and a session without a live principal gets
\* one, or is closed and removed (RelayServer.cpp:135-142, 143-149, 150-153).
EntriesEnd ==
  /\ \A c \in Code :
       (offers[c] # None \/ pairs[c] # None) ~> (offers[c] = None /\ pairs[c] = None)
  /\ \A k \in Key : routes[k] # None ~> routes[k] = None
  /\ \A s \in Socket : (listening /\ Present(s) /\ ~live(s)) ~> (~Present(s) \/ live(s))
=============================================================================
