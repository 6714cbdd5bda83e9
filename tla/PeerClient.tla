----------------------------- MODULE PeerClient -----------------------------
(***************************************************************************)
(* The requesting side of a Peer (src/src/Peer.cpp): requests wait until   *)
(* the relay has been asked how to reach their host, go over an            *)
(* authenticated local link when one of the host's addresses answers and   *)
(* over the relay otherwise, and end with one completed signal.  Serving   *)
(* requests is module PeerHost.                                            *)
(*                                                                         *)
(* The relay, the hosts and the application are the environment.  Time is  *)
(* a countdown of ticks, as in RelayServer.  Handlers run to completion on *)
(* one thread; QTimer::singleShot(0) is a step of its own.  Two calls can  *)
(* re-enter Peer from inside a handler: a send that overflows the output   *)
(* buffer reports disconnected at once, and the application may call       *)
(* stop() from its completed handler.                                      *)
(***************************************************************************)
EXTENDS Integers, FiniteSets

CONSTANTS
  Req,          \* uuids of requests, never used twice
  Host,         \* peers that requests name
  Link,         \* WebSocket objects of local links, reused once deleted
  None,         \* an absent entry, an empty string
  MaxRequests,  \* 32 pending requests
  MaxUrls,      \* bound: addresses that a host publishes
  RequestTicks, \* requestTimeoutMs
  LocalTicks,   \* localTimeoutMs: a link that has not authenticated
  TicketTicks,  \* longest life of a ticket
  LocalEnabled, \* options.localEnabled
  Midway        \* whether a re-entrant call may strike while a loop over
                \* requests.keys() still has keys to visit

ASSUME NoneAssumption == None \notin Req \cup Host \cup Link

ASSUME LimitAssumption ==
  /\ MaxRequests \in Nat /\ MaxUrls \in Nat /\ TicketTicks \in Nat
  /\ RequestTicks \in Nat \ {0} /\ LocalTicks \in Nat \ {0}
  /\ LocalEnabled \in BOOLEAN /\ Midway \in BOOLEAN

VARIABLES
  running, ready, fatal, \* the flags of the code
  retry,      \* the reconnection timer is active
  relay,      \* state of the relay's socket
  directory,  \* hosts of the relay's last peers message
  asked,      \* hosts whose connect message the relay has not answered
  requests,   \* per id: the pending request, or None
  queued,     \* ids whose startRequest is queued
  late,       \* ids whose "busy" completion is queued
  links,      \* per socket: the outgoing link, or None
  outbound,   \* per host: the socket last opened to it, or None
  attempts,   \* per host: the addresses still to try, or None
  connecting, \* hosts that are being connected
  again,      \* hosts whose nextLocal is queued
  done,       \* history: completed signals per id
  sent        \* history: transmissions per id

relayVars == <<ready, retry, relay, directory>>
linkVars == <<links, outbound, attempts, connecting>>
callVars == <<requests, done, sent>>

vars == <<running, fatal, relayVars, asked, callVars, queued, late, linkVars, again>>

-----------------------------------------------------------------------------
(* Types and helpers *)

\* A Pending; socket is a link while the transport is "local".
Pending == [peer: Host \cup {None}, transport: {"", "local", "remote"},
            socket: Link \cup {None}, left: 0..RequestTicks]

\* What requests[id] inserts for an id that is gone.
Zombie == [peer |-> None, transport |-> "", socket |-> None, left |-> 0]

Attempt == [urls: 0..MaxUrls, left: 0..TicketTicks]

\* open: the socket is not closing.
LinkState == [peer: Host, authenticated: BOOLEAN, open: BOOLEAN,
              expires: 0..TicketTicks, deadline: 0..LocalTicks]

ASSUME AbsentAssumption == None \notin Pending \cup Attempt \cup LinkState

Dec(n) == IF n > 0 THEN n - 1 ELSE 0

Ids == {r \in Req : requests[r] # None}

Links == {s \in Link : links[s] # None}

Waiting(p) == {r \in Ids : requests[r].peer = p /\ requests[r].transport = ""}

On(S) == {r \in Ids : requests[r].socket \in S}

\* One more transmission of every request of R; one more completed signal,
\* histories that count to 2 and 3.
Sent(R) == [r \in Req |-> IF r \in R /\ sent[r] < 2 THEN sent[r] + 1 ELSE sent[r]]

Done(R, d) == [r \in Req |-> IF r \in R /\ d[r] < 3 THEN d[r] + 1 ELSE d[r]]

\* finish for every r in R: taken from the table, then completed.
Finish(R) ==
  /\ requests' = [r \in Req |-> IF r \in R THEN None ELSE requests[r]]
  /\ done' = Done(R, done)

\* Mutant: the chosen transport is not recorded.
Unassigned(R, transport, s) == requests

\* The requests of R take a transport.
Assigned(R, transport, s) ==
  [r \in Req |-> IF r \in R
                 THEN [requests[r] EXCEPT !.transport = transport, !.socket = s]
                 ELSE requests[r]]

\* The ids left to visit, among R, when a loop is interrupted.
Unvisited(R) == IF Midway THEN SUBSET R ELSE {{}}

\* requests once every request is finished and ids of Z are visited after that.
Emptied(Z) == [r \in Req |-> IF r \in Z THEN Zombie ELSE None]

-----------------------------------------------------------------------------
(* The connection to the relay *)

Init ==
  /\ running = FALSE /\ ready = FALSE /\ fatal = FALSE /\ retry = FALSE
  /\ relay = "closed"
  /\ directory = {} /\ asked = {}
  /\ requests = [r \in Req |-> None]
  /\ queued = {} /\ late = {}
  /\ links = [s \in Link |-> None]
  /\ outbound = [p \in Host |-> None]
  /\ attempts = [p \in Host |-> None]
  /\ connecting = {} /\ again = {}
  /\ done = [r \in Req |-> 0]
  /\ sent = [r \in Req |-> 0]

resetLocal ==
  /\ links' = [s \in Link |-> None]
  /\ outbound' = [p \in Host |-> None]
  /\ attempts' = [p \in Host |-> None]
  /\ connecting' = {}

\* Mutant: only a relay that was registered is dialled again.
RetryIfReady == running /\ ~fatal /\ ready

scheduleReconnect == running /\ ~fatal

\* The relay's socket reports disconnected.
Dropped ==
  /\ relay' = "closed" /\ ready' = FALSE /\ directory' = {} /\ asked' = {}
  /\ retry' = (retry \/ scheduleReconnect)
  /\ resetLocal

\* stop(): the relay is aborted, which finishes the requests, unless there
\* was no connection and stop() finishes them itself.
Halt ==
  /\ retry' = FALSE /\ relay' = "closed" /\ ready' = FALSE
  /\ directory' = {} /\ asked' = {}
  /\ resetLocal

Stop ==
  /\ Halt /\ running' = FALSE
  /\ Finish(Ids)
  /\ UNCHANGED <<fatal, queued, late, again, sent>>

\* start() with valid options; with invalid ones it is a stop().
Start ==
  /\ Finish(Ids)
  /\ retry' = FALSE /\ ready' = FALSE /\ directory' = {} /\ asked' = {}
  /\ resetLocal
  /\ running' = TRUE /\ fatal' = FALSE /\ relay' = "connecting"
  /\ UNCHANGED <<queued, late, again, sent>>

\* The retry timer: openRelay.
Retry ==
  /\ retry
  /\ retry' = FALSE
  /\ relay' = "connecting"
  /\ UNCHANGED <<running, ready, fatal, directory, asked, queued, late, again>>
  /\ UNCHANGED linkVars /\ UNCHANGED callVars

\* The handshake with the relay takes longer than a zero timer.
RelayConnected ==
  /\ relay = "connecting"
  /\ again = {}
  /\ relay' = "connected"
  /\ UNCHANGED <<running, ready, fatal, retry, directory, asked, queued, late, again>>
  /\ UNCHANGED linkVars /\ UNCHANGED callVars

\* The relay's close frame; messages received with it are still delivered.
RelayClosing ==
  /\ relay = "connected"
  /\ relay' = "closing"
  /\ UNCHANGED <<running, ready, fatal, retry, directory, asked, queued, late, again>>
  /\ UNCHANGED linkVars /\ UNCHANGED callVars

\* Refused, timed out, failed or closed.
RelayLost ==
  /\ relay # "closed"
  /\ Dropped
  /\ Finish(Ids)
  /\ UNCHANGED <<running, fatal, queued, late, again, sent>>

Delivers == relay \in {"connected", "closing"}

\* "registered", which follows "authenticated" and the register it triggers.
Registered ==
  /\ Delivers
  /\ ready' = TRUE
  /\ UNCHANGED <<running, fatal, retry, relay, directory, asked, queued, late, again>>
  /\ UNCHANGED linkVars /\ UNCHANGED callVars

\* "error": the relay refuses this peer and closes.
Refused ==
  /\ Delivers
  /\ fatal' = TRUE
  /\ UNCHANGED <<running, asked, queued, late, again>>
  /\ UNCHANGED relayVars /\ UNCHANGED linkVars /\ UNCHANGED callVars

-----------------------------------------------------------------------------
(* Choosing a transport *)

\* remote(p): every waiting request for p goes to the relay.  A is what was
\* sent before the one whose send overflows the output buffer, Z the ids
\* visited after that.
Remote(p, ask) ==
  LET W == Waiting(p)
  IN \/ /\ IF relay = "connected"
           THEN /\ requests' = Assigned(W, "remote", None)
                /\ sent' = Sent(W)
                /\ UNCHANGED done
           ELSE Finish(W) /\ UNCHANGED sent
        /\ connecting' = connecting \ {p}
        /\ attempts' = [attempts EXCEPT ![p] = None]
        /\ asked' = ask
        /\ UNCHANGED <<links, outbound>> /\ UNCHANGED relayVars
     \/ /\ relay = "connected"
        /\ \E A \in (SUBSET W) \ {W}, Z \in Unvisited(Ids) :
             /\ A \cap Z = {}
             /\ Cardinality(W \ (A \cup Z)) = 1
             /\ sent' = Sent(A)
             /\ requests' = Emptied(Z)
             /\ done' = Done(Ids, done)
        /\ Dropped

\* local(s): every waiting request for the host of s goes over the link s.
Local(s) ==
  LET p == links[s].peer
      W == Waiting(p)
  IN /\ \/ /\ IF links[s].open
              THEN /\ requests' = Assigned(W, "local", s)
                   /\ sent' = Sent(W)
                   /\ UNCHANGED done
              ELSE Finish(W) /\ UNCHANGED sent
           /\ links' = [links EXCEPT ![s].authenticated = TRUE]
           /\ UNCHANGED outbound
        \/ /\ links[s].open
           /\ \E A \in (SUBSET W) \ {W}, Z \in Unvisited(On({s})) :
                /\ sent' = Sent(A)
                /\ requests' = [r \in Req |-> IF r \in Z THEN Zombie
                                             ELSE IF r \in W \cup On({s}) THEN None
                                             ELSE requests[r]]
                /\ done' = Done(W \cup On({s}), done)
           /\ links' = [links EXCEPT ![s] = None]
           /\ outbound' = [outbound EXCEPT ![p] = IF @ = s THEN None ELSE @]
     /\ connecting' = connecting \ {p}
     /\ attempts' = [attempts EXCEPT ![p] = None]
     /\ UNCHANGED <<asked, again>> /\ UNCHANGED relayVars

\* request(): accepted, unless too many are pending.
Request(r, p) ==
  /\ requests[r] = None /\ done[r] = 0 /\ r \notin late
  /\ Cardinality(Ids) < MaxRequests
  /\ requests' = [requests EXCEPT ![r] = [Zombie EXCEPT !.peer = p, !.left = RequestTicks]]
  /\ queued' = queued \cup {r}
  /\ UNCHANGED <<running, fatal, asked, again, late, done, sent>>
  /\ UNCHANGED relayVars /\ UNCHANGED linkVars

\* Mutant: the refusal is completed before request() returns its id.
RefusedAtOnce(r) ==
  /\ requests[r] = None /\ done[r] = 0
  /\ done' = Done({r}, done)
  /\ UNCHANGED <<running, fatal, asked, queued, late, again, requests, sent>>
  /\ UNCHANGED relayVars /\ UNCHANGED linkVars

\* request() with too many pending, or with a payload that is too large.
RequestRefused(r) ==
  /\ requests[r] = None /\ done[r] = 0 /\ r \notin late
  /\ late' = late \cup {r}
  /\ UNCHANGED <<running, fatal, asked, queued, again, requests, done, sent>>
  /\ UNCHANGED relayVars /\ UNCHANGED linkVars

Busy(r) ==
  /\ r \in late
  /\ late' = late \ {r}
  /\ done' = Done({r}, done)
  /\ UNCHANGED <<running, fatal, asked, queued, again, requests, sent>>
  /\ UNCHANGED relayVars /\ UNCHANGED linkVars

\* The link over which a new request for p may go.
Usable(p) ==
  LET s == outbound[p]
  IN  s # None /\ links[s] # None /\ links[s].authenticated /\ links[s].expires > 0

StartRequest(r) ==
  /\ r \in queued
  /\ queued' = queued \ {r}
  /\ UNCHANGED <<running, fatal, late, again>>
  /\ IF requests[r] = None
     THEN UNCHANGED asked /\ UNCHANGED relayVars /\ UNCHANGED linkVars /\ UNCHANGED callVars
     ELSE LET p == requests[r].peer
          IN IF ~ready \/ p \notin directory
             THEN Finish({r}) /\ UNCHANGED <<asked, sent>>
                  /\ UNCHANGED relayVars /\ UNCHANGED linkVars
             ELSE IF Usable(p) THEN Local(outbound[p])
             ELSE IF ~LocalEnabled THEN Remote(p, asked)
             ELSE /\ connecting' = connecting \cup {p}
                  /\ asked' = IF p \notin connecting /\ relay = "connected"
                              THEN asked \cup {p} ELSE asked
                  /\ UNCHANGED <<links, outbound, attempts>>
                  /\ UNCHANGED relayVars /\ UNCHANGED callVars

\* No address is left, or no time.
Exhausted(att) == att = None \/ att.urls = 0 \/ att.left = 0

\* nextLocal(p) with the addresses att: the next one is dialled, or the relay
\* is used.  A fingerprint that cannot be pinned is a link lost at once.
Try(p, att, ask) ==
  IF Exhausted(att)
  THEN Remote(p, ask)
  ELSE /\ \E s \in Link \ Links :
            /\ links' = [links EXCEPT ![s] =
                 [peer |-> p, authenticated |-> FALSE, open |-> TRUE,
                  expires |-> att.left, deadline |-> LocalTicks]]
            /\ outbound' = [outbound EXCEPT ![p] = s]
       /\ attempts' = [attempts EXCEPT ![p] = [att EXCEPT !.urls = @ - 1]]
       /\ asked' = ask
       /\ UNCHANGED connecting /\ UNCHANGED relayVars /\ UNCHANGED callVars

nextLocal(p) ==
  /\ p \in again
  /\ again' = again \ {p}
  /\ UNCHANGED <<running, fatal, queued, late>>
  /\ IF running /\ ready /\ p \in connecting
     THEN Try(p, attempts[p], asked)
     ELSE UNCHANGED asked /\ UNCHANGED relayVars /\ UNCHANGED linkVars /\ UNCHANGED callVars

\* "connect": n of the host's addresses are on this network, and the ticket
\* lasts d ticks; a host that is gone has none.
Connect(p, n, d) ==
  /\ Delivers /\ ready
  /\ p \in asked
  /\ UNCHANGED <<running, fatal, queued, late, again>>
  /\ IF p \in connecting
     THEN Try(p, [urls |-> n, left |-> d], asked \ {p})
     ELSE asked' = asked \ {p}
          /\ UNCHANGED relayVars /\ UNCHANGED linkVars /\ UNCHANGED callVars

\* The host accepted the ticket.
Hello(s) ==
  /\ s \in Links
  /\ ~links[s].authenticated
  /\ Local(s)
  /\ UNCHANGED <<running, fatal, queued, late>>

-----------------------------------------------------------------------------
(* The end of a request *)

\* Mutant: the requests of a lost link stay in the table.
KeepsRequests(S) == {}

\* The requests that end with the links of S.
Carried(S) == On(S)

\* The hosts whose next address is tried once the links of S are gone.
Retried(S) == {links[s].peer : s \in {x \in S : ~links[x].authenticated}}

\* lost(s) for every s in S, the requests of R ending as well.
Lose(S, R) ==
  /\ links' = [s \in Link |-> IF s \in S THEN None ELSE links[s]]
  /\ outbound' = [p \in Host |-> IF outbound[p] \in S THEN None ELSE outbound[p]]
  /\ again' = again \cup Retried(S)
  /\ Finish(R \cup Carried(S))
  /\ UNCHANGED <<running, fatal, asked, queued, late, attempts, connecting, sent>>

LinkLost(s) ==
  /\ s \in Links
  /\ Lose({s}, {})
  /\ UNCHANGED relayVars

\* A message that is out of place, a refused ticket, or the host's close frame.
LinkClosing(s) ==
  /\ s \in Links
  /\ links[s].open
  /\ links' = [links EXCEPT ![s].open = FALSE]
  /\ UNCHANGED <<running, fatal, asked, queued, late, again, outbound, attempts, connecting>>
  /\ UNCHANGED relayVars /\ UNCHANGED callVars

\* A response over the link that carries the request.
LinkResponse(s, r) ==
  /\ s \in Links
  /\ links[s].authenticated /\ ready /\ links[s].expires > 0
  /\ r \in On({s})
  /\ Finish({r})
  /\ UNCHANGED <<running, fatal, asked, queued, late, again, sent>>
  /\ UNCHANGED relayVars /\ UNCHANGED linkVars

\* A response from the relay.
Response(r) ==
  /\ Delivers /\ ready
  /\ r \in Ids
  /\ requests[r].transport = "remote"
  /\ Finish({r})
  /\ UNCHANGED <<running, fatal, asked, queued, late, again, sent>>
  /\ UNCHANGED relayVars /\ UNCHANGED linkVars

\* "peers": links to hosts that have left are dropped.
Peers(D) ==
  /\ Delivers /\ ready
  /\ directory' = D
  /\ Lose({s \in Links : links[s].peer \notin D}, {})
  /\ UNCHANGED <<ready, retry, relay>>

\* Mutant: a request that was handed to the relay has no deadline.
LateUnlessRemote(r) == requests[r].left = 0 /\ requests[r].transport # "remote"

Late(r) == requests[r].left = 0

Expired(s) == IF links[s].authenticated THEN links[s].expires = 0 ELSE links[s].deadline = 0

\* The 100 ms timer.
Sweep ==
  /\ running
  /\ Lose({s \in Links : Expired(s)}, {r \in Ids : Late(r)})
  /\ UNCHANGED relayVars

\* The same timer, when the application answers a timeout with stop(): an id
\* of Z is visited after stop() has finished it, and a new entry is late.
SweepStopped ==
  /\ running
  /\ Halt /\ running' = FALSE
  /\ \E r \in Ids : Late(r) /\ \E Z \in Unvisited(Ids \ {r}) :
       done' = Done(Z, Done(Ids, done))
  /\ requests' = Emptied({})
  /\ UNCHANGED <<fatal, queued, late, again, sent>>

Tick ==
  /\ requests' = [r \in Req |-> IF requests[r] = None THEN None
                                ELSE [requests[r] EXCEPT !.left = Dec(@)]]
  /\ links' = [s \in Link |-> IF links[s] = None THEN None
                 ELSE [links[s] EXCEPT !.expires = Dec(@), !.deadline = Dec(@)]]
  /\ attempts' = [p \in Host |-> IF attempts[p] = None THEN None
                                 ELSE [attempts[p] EXCEPT !.left = Dec(@)]]
  /\ UNCHANGED <<running, fatal, asked, queued, late, again, outbound, connecting, done, sent>>
  /\ UNCHANGED relayVars

-----------------------------------------------------------------------------
LinkStep(s) ==
  \/ Hello(s)
  \/ LinkLost(s)
  \/ LinkClosing(s)
  \/ \E r \in Req : LinkResponse(s, r)

Next ==
  \/ Start \/ Stop \/ Retry
  \/ RelayConnected \/ RelayClosing \/ RelayLost
  \/ Registered \/ Refused
  \/ \E D \in SUBSET Host : Peers(D)
  \/ \E p \in Host, n \in 0..MaxUrls, d \in 0..TicketTicks : Connect(p, n, d)
  \/ \E p \in Host : nextLocal(p)
  \/ \E r \in Req, p \in Host : Request(r, p)
  \/ \E r \in Req : RequestRefused(r) \/ Busy(r) \/ StartRequest(r) \/ Response(r)
  \/ \E s \in Link : LinkStep(s)
  \/ Sweep \/ SweepStopped \/ Tick

Spec == Init /\ [][Next]_vars

\* The event loop runs: queued calls and timers fire and the clock advances.
Fairness ==
  /\ WF_vars(Tick) /\ WF_vars(Sweep) /\ WF_vars(Retry)
  /\ \A r \in Req : WF_vars(StartRequest(r)) /\ WF_vars(Busy(r))
  /\ \A p \in Host : WF_vars(nextLocal(p))

FairSpec == Spec /\ Fairness

-----------------------------------------------------------------------------
(* Properties *)

\* Every table holds entries of its type; in particular no address is taken
\* from an empty list and no entry with an empty peer is ever sent
\* (Peer.cpp:121-128).
TypeOK ==
  /\ running \in BOOLEAN /\ ready \in BOOLEAN /\ fatal \in BOOLEAN /\ retry \in BOOLEAN
  /\ relay \in {"closed", "connecting", "connected", "closing"}
  /\ directory \in SUBSET Host /\ asked \in SUBSET Host
  /\ requests \in [Req -> Pending \cup {None}]
  /\ queued \in SUBSET Req /\ late \in SUBSET Req
  /\ links \in [Link -> LinkState \cup {None}]
  /\ outbound \in [Host -> Link \cup {None}]
  /\ attempts \in [Host -> Attempt \cup {None}]
  /\ connecting \in SUBSET Host /\ again \in SUBSET Host
  /\ done \in [Req -> 0..3] /\ sent \in [Req -> 0..2]

\* A request is completed at most once, and not while it is pending, whatever
\* order responses, losses, timeouts, the relay's end and stop() come in
\* (Peer.cpp:64-68).
CompletedOnce ==
  \A r \in Req : done[r] <= 1 /\ (done[r] = 1 => requests[r] = None /\ r \notin late)

\* A request is transmitted at most once, over one transport, even when the
\* link or the relay is lost while it is under way (Peer.cpp:72-74, 82-84;
\* WebServer.h:85, "never replayed automatically across transports").
NeverReplayed == \A r \in Req : sent[r] <= 1

\* Work in hand for host p: a question to the relay, a link that has not
\* authenticated, or the next address.
Unanswered(p) == p \in asked

Dialling(p) == {s \in Links : links[s].peer = p /\ ~links[s].authenticated}

\* A host that is being connected has exactly one of: an unanswered question
\* to the relay, one link that has not authenticated, or a queued attempt.
\* Otherwise requests would wait for nobody, or two chains of attempts would
\* race (Peer.cpp:96-99, 122-128, 149).  While the relay is closing a question
\* is not sent, and the end of the relay finishes the requests.
OneChain ==
  \A p \in Host :
    LET chains == Cardinality(Dialling(p)) + (IF Unanswered(p) THEN 1 ELSE 0)
                  + (IF p \in again THEN 1 ELSE 0)
    IN  IF p \in connecting
        THEN chains = 1 \/ (relay = "closing" /\ chains = 0)
        ELSE Dialling(p) = {} /\ ~Unanswered(p)

\* A request is completed once, and until then it is not forgotten: it is
\* about to be started, travels over a link or a relay connection that is still
\* there and whose loss will finish it, or waits for a host that is being
\* connected by one chain of attempts (Peer.cpp:46, 64-68, 96-99, 122-128, 148).
NobodyForgotten ==
  /\ TypeOK
  /\ CompletedOnce
  /\ OneChain
  /\ \A r \in Ids :
       \/ requests[r].transport = "" /\ (r \in queued \/ requests[r].peer \in connecting)
       \/ requests[r].transport = "remote" /\ ready /\ Delivers
       \/ /\ requests[r].transport = "local"
          /\ requests[r].socket \in Links
          /\ links[requests[r].socket].authenticated
          /\ links[requests[r].socket].peer = requests[r].peer

\* A running peer that has lost the relay is waiting to dial it again, unless
\* the relay refused it; and it dials only then (Peer.cpp:51-53).
Redials == running /\ ~fatal /\ relay = "closed" <=> retry

\* Every accepted request ends, and so does every request refused as busy,
\* even if relay and hosts never answer (Peer.cpp:235, 284).
RequestsEnd == \A r \in Req : (r \in Ids \cup late) ~> (r \notin Ids \cup late)

\* The stage of a request, as JobContract counts it.
JobStage(r) ==
  IF done[r] = 1 THEN "reported"
  ELSE IF done[r] # 0 THEN "repeated"
  ELSE IF requests[r] # None THEN "running"
  ELSE IF r \in late THEN "refused" ELSE "new"

Jobs == INSTANCE JobContract
          WITH Job <- Req, Limit <- MaxRequests, AtOnce <- FALSE, open <- TRUE, job <- [r \in Req |-> JobStage(r)]

\* Each request() is accepted while the table has room, or refused as busy, and
\* is completed once and later: answered, timed out, given up with its link, or
\* ended with all others by the relay's end and by stop() (Peer.cpp:46, 64-68,
\* 148, 235, 271, 283-286).
ImplementsJobs == Jobs!Spec
=============================================================================
