-------------------------- MODULE PeerClientProofs --------------------------
(***************************************************************************)
(* Theorems about the requesting side of a Peer, for any number of         *)
(* requests, hosts, addresses and links: a request is transmitted at most  *)
(* once, a lost relay is dialled again, and unless a re-entrant call       *)
(* strikes in the middle of a loop over the requests, every request is     *)
(* completed once and somebody answers for it until then.                  *)
(*                                                                         *)
(* The tables of links and the table of requests are written by different  *)
(* handlers.  ChainAt says of each host that one chain of attempts is      *)
(* under way while it is being connected and none otherwise; PlayedAt and  *)
(* OnceAt say of each request how its table entry, its transmissions and   *)
(* its completion go together; PlacedAt says who will complete it.         *)
(***************************************************************************)
EXTENDS PeerClient, FiniteSetTheorems, TLAPS

Flags ==
  /\ running \in BOOLEAN /\ ready \in BOOLEAN /\ fatal \in BOOLEAN /\ retry \in BOOLEAN
  /\ relay \in {"closed", "connecting", "connected", "closing"}

LinkTypes ==
  /\ directory \in SUBSET Host /\ asked \in SUBSET Host
  /\ links \in [Link -> LinkState \cup {None}]
  /\ outbound \in [Host -> Link \cup {None}]
  /\ attempts \in [Host -> Attempt \cup {None}]
  /\ connecting \in SUBSET Host /\ again \in SUBSET Host

CallTypes ==
  /\ requests \in [Req -> Pending \cup {None}]
  /\ queued \in SUBSET Req /\ late \in SUBSET Req
  /\ done \in [Req -> 0..3] /\ sent \in [Req -> {0, 1}]

\* The connection to the relay: a registered peer has one, and only a running
\* peer dials.
Relay ==
  /\ Redials
  /\ ready => Delivers
  /\ relay # "closed" => running

\* The chain of attempts of host p.  outbound names a link of p, and one over
\* which requests could go is there only when p is not being connected.
ChainAt(p) ==
  /\ p \notin connecting => Dialling(p) = {} /\ p \notin asked
  /\ p \in connecting =>
       /\ ready /\ LocalEnabled
       /\ \A s, t \in Dialling(p) : s = t
       /\ Dialling(p) # {} => p \notin asked /\ p \notin again
       /\ p \in asked => p \notin again
       /\ Dialling(p) # {} \/ p \in asked \/ p \in again \/ relay = "closing"
       /\ ~Usable(p)
  /\ Delivers /\ p \in again => p \in connecting
  /\ outbound[p] # None => links[outbound[p]] # None /\ links[outbound[p]].peer = p

\* A request that was transmitted is over, or has its transport; an entry with
\* no peer is never transmitted.
PlayedAt(r) ==
  sent[r] # 0 => IF requests[r] = None THEN done[r] # 0
                 ELSE requests[r].transport # "" \/ requests[r].peer = None

OnceAt(r) ==
  /\ done[r] \in {0, 1}
  /\ done[r] = 1 => requests[r] = None /\ r \notin late
  /\ r \in late => requests[r] = None

PlacedAt(r) ==
  \/ requests[r] = None
  \/ requests[r].transport = "" /\ (r \in queued \/ requests[r].peer \in connecting)
  \/ requests[r].transport = "remote" /\ ready /\ Delivers
  \/ /\ requests[r].transport = "local"
     /\ requests[r].socket \in Links
     /\ links[requests[r].socket].authenticated
     /\ links[requests[r].socket].peer = requests[r].peer

Calls == CallTypes /\ \A r \in Req : PlayedAt(r) /\ (~Midway => OnceAt(r))

Chains == \A p \in Host : ChainAt(p)

Placed == ~Midway => \A r \in Req : PlacedAt(r)

IInv == Flags /\ LinkTypes /\ Relay /\ Chains /\ Calls /\ Placed

-----------------------------------------------------------------------------
(* The table of requests *)

LEMMA DoneArith ==
  ASSUME NEW d \in 0..3
  PROVE  (IF d < 3 THEN d + 1 ELSE d) \in (0..3) \ {0} /\ (d = 0 => (IF d < 3 THEN d + 1 ELSE d) = 1)
  OBVIOUS

LEMMA DoneFacts ==
  ASSUME NEW d \in [Req -> 0..3], NEW R
  PROVE  /\ Done(R, d) \in [Req -> 0..3]
         /\ \A r \in Req : r \notin R => Done(R, d)[r] = d[r]
         /\ \A r \in Req : r \in R => Done(R, d)[r] # 0 /\ (d[r] = 0 => Done(R, d)[r] = 1)
         /\ \A r \in Req : d[r] # 0 => Done(R, d)[r] # 0
<1>1. \A r \in Req : Done(R, d)[r] = IF r \in R THEN (IF d[r] < 3 THEN d[r] + 1 ELSE d[r]) ELSE d[r]
  BY DEF Done
<1>2. ASSUME NEW r \in Req
      PROVE  /\ Done(R, d)[r] \in 0..3
             /\ r \notin R => Done(R, d)[r] = d[r]
             /\ r \in R => Done(R, d)[r] # 0 /\ (d[r] = 0 => Done(R, d)[r] = 1)
             /\ d[r] # 0 => Done(R, d)[r] # 0
  BY <1>1, DoneArith
<1>3. QED
  BY <1>2 DEF Done

LEMMA SentFacts ==
  ASSUME CallTypes, NEW R, \A r \in R : sent[r] = 0
  PROVE  /\ Sent(R) \in [Req -> {0, 1}]
         /\ \A r \in Req : r \notin R => Sent(R)[r] = sent[r]
<1>1. sent \in [Req -> {0, 1}]
  BY DEF CallTypes
<1>2. 0 + 1 = 1 /\ 0 < 2
  OBVIOUS
<1>3. \A r \in Req : Sent(R)[r] = IF r \in R THEN 1 ELSE sent[r]
  BY <1>1, <1>2 DEF Sent
<1>4. QED
  BY <1>1, <1>3 DEF Sent

\* What waits for a host has not been transmitted.
LEMMA WaitingFresh ==
  ASSUME Calls, NEW p \in Host, NEW r \in Waiting(p)
  PROVE  r \in Req /\ sent[r] = 0 /\ requests[r] \in Pending /\ requests[r] # None
         /\ requests[r].peer = p /\ requests[r].transport = ""
<1>1. r \in Req /\ requests[r] # None /\ requests[r].peer = p /\ requests[r].transport = ""
  BY DEF Waiting, Ids
<1>2. sent[r] = 0
  BY <1>1, NoneAssumption DEF Calls, CallTypes, PlayedAt
<1>3. QED
  BY <1>1, <1>2 DEF Calls, CallTypes

LEMMA FinishCalls ==
  ASSUME Calls, NEW R, R \subseteq Ids, Finish(R), UNCHANGED <<sent, late>>, queued' \in SUBSET Req
  PROVE  Calls' /\ \A r \in Req : requests'[r] = IF r \in R THEN None ELSE requests[r]
<1>1. \A r \in Req : requests'[r] = IF r \in R THEN None ELSE requests[r]
  BY DEF Finish
<1>2. done \in [Req -> 0..3] /\ done' = Done(R, done)
  BY DEF Calls, CallTypes, Finish
<1>3. /\ done' \in [Req -> 0..3]
      /\ \A r \in Req : r \notin R => done'[r] = done[r]
      /\ \A r \in Req : r \in R => done'[r] # 0 /\ (done[r] = 0 => done'[r] = 1)
  BY <1>2, DoneFacts
<1>4. CallTypes'
  <2>1. requests' \in [Req -> Pending \cup {None}]
    BY DEF Finish, Calls, CallTypes
  <2>2. QED
    BY <1>3, <2>1 DEF Calls, CallTypes
<1>5. ASSUME NEW r \in Req PROVE PlayedAt(r)' /\ (~Midway => OnceAt(r)')
  <2>1. CASE r \in R
    <3>1. requests'[r] = None /\ done'[r] # 0 /\ (done[r] = 0 => done'[r] = 1) /\ requests[r] # None
      BY <1>1, <1>3, <2>1 DEF Ids
    <3>2. ~Midway => done[r] = 0 /\ r \notin late
      BY <3>1 DEF Calls, OnceAt
    <3>3. QED
      BY <3>1, <3>2 DEF PlayedAt, OnceAt
  <2>2. CASE r \notin R
    <3>1. requests'[r] = requests[r] /\ done'[r] = done[r]
      BY <1>1, <1>3, <2>2
    <3>2. QED
      BY <3>1 DEF Calls, PlayedAt, OnceAt
  <2>3. QED
    BY <2>1, <2>2
<1>6. QED
  BY <1>1, <1>4, <1>5 DEF Calls

LEMMA AssignCalls ==
  ASSUME Calls, NEW p \in Host, NEW t \in {"local", "remote"}, NEW s \in Link \cup {None},
         requests' = Assigned(Waiting(p), t, s), sent' = Sent(Waiting(p)),
         UNCHANGED <<done, late>>, queued' \in SUBSET Req
  PROVE  /\ Calls'
         /\ \A r \in Req : r \notin Waiting(p) => requests'[r] = requests[r]
         /\ \A r \in Waiting(p) : /\ requests'[r].transport = t /\ requests'[r].socket = s
                                  /\ requests'[r].peer = p /\ requests'[r] # None
<1> DEFINE W == Waiting(p)
<1>1. \A r \in W : /\ r \in Req /\ sent[r] = 0 /\ requests[r] \in Pending
                   /\ requests[r] # None /\ requests[r].peer = p
  BY WaitingFresh
<1> HIDE DEF W
<1>2. requests' = [r \in Req |-> IF r \in W THEN [requests[r] EXCEPT !.transport = t, !.socket = s]
                                 ELSE requests[r]]
  BY DEF Assigned, W
<1>3. \A r \in Req : r \notin W => requests'[r] = requests[r]
  BY <1>2
<1>4. ASSUME NEW r \in W
      PROVE  /\ requests'[r].transport = t /\ requests'[r].socket = s /\ requests'[r].peer = p
             /\ requests'[r] \in Pending /\ requests'[r] # None
  <2>1. requests'[r] = [requests[r] EXCEPT !.transport = t, !.socket = s] /\ requests[r] \in Pending
    BY <1>1, <1>2
  <2>2. requests'[r] \in Pending
    BY <2>1 DEF Pending
  <2>3. QED
    BY <1>1, <2>1, <2>2, AbsentAssumption DEF Pending
<1>5. sent' \in [Req -> {0, 1}] /\ \A r \in Req : r \notin W => sent'[r] = sent[r]
  BY <1>1, SentFacts DEF Calls, W
<1>6. CallTypes'
  <2>1. requests' \in [Req -> Pending \cup {None}]
    BY <1>2, <1>3, <1>4 DEF Calls, CallTypes
  <2>2. QED
    BY <1>5, <2>1 DEF Calls, CallTypes
<1>7. ASSUME NEW r \in Req PROVE PlayedAt(r)' /\ (~Midway => OnceAt(r)')
  <2>1. CASE r \in W
    <3>1. PlayedAt(r)'
      BY <1>4, <2>1 DEF PlayedAt
    <3>2. ~Midway => done[r] # 1 /\ r \notin late /\ done[r] \in {0, 1}
      BY <1>1, <2>1 DEF Calls, OnceAt
    <3>3. QED
      BY <3>1, <3>2 DEF OnceAt
  <2>2. CASE r \notin W
    BY <1>3, <1>5, <2>2 DEF Calls, PlayedAt, OnceAt
  <2>3. QED
    BY <2>1, <2>2
<1>8. QED
  BY <1>3, <1>4, <1>6, <1>7 DEF Calls, W

LEMMA ZombieType == Zombie \in Pending /\ Zombie.peer = None /\ Zombie # None
<1>1. 0 \in 0..RequestTicks
  BY LimitAssumption
<1>2. Zombie \in Pending
  BY <1>1 DEF Zombie, Pending
<1>3. QED
  BY <1>2, AbsentAssumption DEF Zombie

\* The loop over the requests F is cut short by their end: the ids of Z are
\* visited after that.
LEMMA CutShort ==
  ASSUME Calls, NEW p \in Host, NEW A, A \subseteq Waiting(p), NEW F, A \subseteq F, F \subseteq Ids,
         NEW Z \in Unvisited(F), sent' = Sent(A), done' = Done(F, done),
         requests' = [r \in Req |-> IF r \in Z THEN Zombie ELSE IF r \in F THEN None ELSE requests[r]],
         UNCHANGED late, queued' \in SUBSET Req
  PROVE  /\ Calls' /\ \A r \in Req : r \notin F => requests'[r] = requests[r]
         /\ ~Midway => \A r \in F : requests'[r] = None
<1>1. Z \subseteq F /\ (~Midway => Z = {})
  BY DEF Unvisited
<1>2. \A r \in A : sent[r] = 0 /\ r \in Req
  BY WaitingFresh
<1>3. sent' \in [Req -> {0, 1}] /\ \A r \in Req : r \notin A => sent'[r] = sent[r]
  BY <1>2, SentFacts DEF Calls
<1>4. /\ done' \in [Req -> 0..3]
      /\ \A r \in Req : r \notin F => done'[r] = done[r]
      /\ \A r \in Req : r \in F => done'[r] # 0 /\ (done[r] = 0 => done'[r] = 1)
  <2>1. done \in [Req -> 0..3]
    BY DEF Calls, CallTypes
  <2>2. QED
    BY <2>1, DoneFacts
<1>5. CallTypes'
  <2>1. requests' \in [Req -> Pending \cup {None}]
    BY ZombieType DEF Calls, CallTypes
  <2>2. QED
    BY <1>3, <1>4, <2>1 DEF Calls, CallTypes
<1>6. \A r \in Req : r \in Z => requests'[r] = Zombie
  OBVIOUS
<1>7. \A r \in Req : r \in F /\ r \notin Z => requests'[r] = None
  OBVIOUS
<1>8. \A r \in Req : r \notin F => requests'[r] = requests[r] /\ r \notin A
  BY <1>1
<1>9. ASSUME NEW r \in Req PROVE PlayedAt(r)' /\ (~Midway => OnceAt(r)')
  <2>1. CASE r \in F
    <3>1. PlayedAt(r)'
      BY <1>4, <1>6, <1>7, <2>1, ZombieType DEF PlayedAt
    <3>2. ASSUME ~Midway PROVE OnceAt(r)'
      <4>1. requests[r] # None
        BY <2>1 DEF Ids
      <4>2. done[r] = 0 /\ r \notin late
        BY <3>2, <4>1 DEF Calls, OnceAt
      <4>3. requests'[r] = None /\ done'[r] = 1
        BY <1>1, <1>4, <1>7, <2>1, <3>2, <4>2
      <4>4. QED
        BY <4>2, <4>3 DEF OnceAt
    <3>3. QED
      BY <3>1, <3>2
  <2>2. CASE r \notin F
    BY <1>3, <1>4, <1>8, <2>2 DEF Calls, PlayedAt, OnceAt
  <2>3. QED
    BY <2>1, <2>2
<1>10. QED
  BY <1>1, <1>5, <1>7, <1>8, <1>9 DEF Calls, Ids

\* The table is emptied.
LEMMA EmptyPlaced == ASSUME \A r \in Req : requests'[r] = None PROVE Placed'
  BY DEF Placed, PlacedAt

LEMMA FinishAll ==
  ASSUME Calls, Finish(Ids), UNCHANGED <<sent, late, queued>> PROVE Calls' /\ Placed'
<1>1. Calls' /\ \A r \in Req : requests'[r] = IF r \in Ids THEN None ELSE requests[r]
  <2>1. queued' \in SUBSET Req
    BY DEF Calls, CallTypes
  <2>2. QED
    BY <2>1, FinishCalls
<1>2. QED
  BY <1>1, EmptyPlaced DEF Ids

-----------------------------------------------------------------------------
(* The connection to the relay *)

\* Every link and every attempt is forgotten.
LEMMA ResetKeeps ==
  ASSUME resetLocal, ready' = FALSE, directory' = {}, asked' = {}, again' \in SUBSET Host,
         relay' \in {"closed", "connecting"}
  PROVE  LinkTypes' /\ Chains'
<1>1. /\ links' = [s \in Link |-> None] /\ outbound' = [p \in Host |-> None]
      /\ attempts' = [p \in Host |-> None] /\ connecting' = {}
  BY DEF resetLocal
<1>2. LinkTypes'
  BY <1>1 DEF LinkTypes
<1>3. ASSUME NEW p \in Host PROVE ChainAt(p)'
  <2>1. Dialling(p)' = {}
    BY <1>1 DEF Dialling, Links
  <2>2. outbound'[p] = None
    BY <1>1
  <2>3. ~Delivers'
    BY DEF Delivers
  <2>4. QED
    BY <1>1, <2>1, <2>2, <2>3 DEF ChainAt
<1>4. QED
  BY <1>2, <1>3 DEF Chains

LEMMA DroppedKeeps ==
  ASSUME IInv, relay # "closed", Dropped, UNCHANGED <<running, fatal>>, again' \in SUBSET Host
  PROVE  Flags' /\ LinkTypes' /\ Relay' /\ Chains'
<1>1. /\ relay' = "closed" /\ ready' = FALSE /\ directory' = {} /\ asked' = {}
      /\ retry' = (retry \/ scheduleReconnect) /\ resetLocal
  BY DEF Dropped
<1>2. ~retry /\ running \in BOOLEAN /\ fatal \in BOOLEAN
  BY DEF IInv, Relay, Redials, Flags
<1>3. retry' = (running /\ ~fatal) /\ retry' \in BOOLEAN
  BY <1>1, <1>2 DEF scheduleReconnect
<1>4. Flags'
  BY <1>1, <1>2, <1>3 DEF Flags
<1>5. Relay'
  BY <1>1, <1>3 DEF Relay, Redials, Delivers
<1>6. QED
  BY <1>1, <1>4, <1>5, ResetKeeps

LEMMA HaltKeeps ==
  ASSUME IInv, Halt, running' = FALSE, UNCHANGED <<fatal, again>>
  PROVE  Flags' /\ LinkTypes' /\ Relay' /\ Chains'
<1>1. /\ retry' = FALSE /\ relay' = "closed" /\ ready' = FALSE /\ directory' = {} /\ asked' = {}
      /\ resetLocal
  BY DEF Halt
<1>2. Flags'
  BY <1>1 DEF IInv, Flags
<1>3. Relay'
  BY <1>1 DEF Relay, Redials
<1>4. again' \in SUBSET Host
  BY DEF IInv, LinkTypes
<1>5. QED
  BY <1>1, <1>2, <1>3, <1>4, ResetKeeps

LEMMA StopKeeps == ASSUME IInv, Stop PROVE IInv'
<1>1. Halt /\ running' = FALSE /\ Finish(Ids) /\ UNCHANGED <<fatal, queued, late, again, sent>>
  BY DEF Stop
<1>2. Flags' /\ LinkTypes' /\ Relay' /\ Chains'
  BY <1>1, HaltKeeps
<1>3. Calls' /\ Placed'
  BY <1>1, FinishAll DEF IInv
<1>4. QED
  BY <1>2, <1>3 DEF IInv

LEMMA StartKeeps == ASSUME IInv, Start PROVE IInv'
<1>1. /\ Finish(Ids) /\ resetLocal
      /\ retry' = FALSE /\ ready' = FALSE /\ directory' = {} /\ asked' = {}
      /\ running' = TRUE /\ fatal' = FALSE /\ relay' = "connecting"
      /\ UNCHANGED <<queued, late, again, sent>>
  BY DEF Start
<1>2. Flags' /\ Relay'
  BY <1>1 DEF Flags, Relay, Redials
<1>3. LinkTypes' /\ Chains'
  <2>1. again' \in SUBSET Host
    BY <1>1 DEF IInv, LinkTypes
  <2>2. QED
    BY <1>1, <2>1, ResetKeeps
<1>4. Calls' /\ Placed'
  BY <1>1, FinishAll DEF IInv
<1>5. QED
  BY <1>2, <1>3, <1>4 DEF IInv

LEMMA RelayLostKeeps == ASSUME IInv, RelayLost PROVE IInv'
<1>1. /\ relay # "closed" /\ Dropped /\ Finish(Ids)
      /\ UNCHANGED <<running, fatal, queued, late, again, sent>>
  BY DEF RelayLost
<1>2. Flags' /\ LinkTypes' /\ Relay' /\ Chains'
  <2>1. again' \in SUBSET Host
    BY <1>1 DEF IInv, LinkTypes
  <2>2. QED
    BY <1>1, <2>1, DroppedKeeps
<1>3. Calls' /\ Placed'
  BY <1>1, FinishAll DEF IInv
<1>4. QED
  BY <1>2, <1>3 DEF IInv

LEMMA SweepStoppedKeeps == ASSUME IInv, SweepStopped PROVE IInv'
<1>1. Halt /\ running' = FALSE /\ requests' = Emptied({}) /\ UNCHANGED <<fatal, queued, late, again, sent>>
  BY DEF SweepStopped
<1>2. PICK r \in Ids : \E Z \in Unvisited(Ids \ {r}) : done' = Done(Z, Done(Ids, done))
  BY DEF SweepStopped
<1>3. PICK Z \in Unvisited(Ids \ {r}) : done' = Done(Z, Done(Ids, done))
  BY <1>2
<1>4. Z \subseteq Ids /\ (~Midway => Z = {})
  BY DEF Unvisited
<1>5. Flags' /\ LinkTypes' /\ Relay' /\ Chains'
  BY <1>1, HaltKeeps
<1>6. \A q \in Req : requests'[q] = None
  BY <1>1 DEF Emptied
<1> DEFINE d == Done(Ids, done)
<1>7. /\ d \in [Req -> 0..3]
      /\ \A q \in Req : q \notin Ids => d[q] = done[q]
      /\ \A q \in Req : q \in Ids => d[q] # 0 /\ (done[q] = 0 => d[q] = 1)
      /\ \A q \in Req : done[q] # 0 => d[q] # 0
  <2>1. done \in [Req -> 0..3]
    BY DEF IInv, Calls, CallTypes
  <2>2. QED
    BY <2>1, DoneFacts
<1> HIDE DEF d
<1>8. /\ done' \in [Req -> 0..3]
      /\ \A q \in Req : q \notin Z => done'[q] = d[q]
      /\ \A q \in Req : d[q] # 0 => done'[q] # 0
  BY <1>3, <1>7, DoneFacts DEF d
<1>9. CallTypes'
  <2>1. requests' \in [Req -> Pending \cup {None}]
    BY <1>1 DEF Emptied
  <2>2. QED
    BY <1>1, <1>8, <2>1 DEF IInv, Calls, CallTypes
<1>10. ASSUME NEW q \in Req PROVE PlayedAt(q)' /\ (~Midway => OnceAt(q)')
  <2>1. PlayedAt(q)'
    <3>1. sent[q] # 0 => q \in Ids \/ done[q] # 0
      BY DEF IInv, Calls, PlayedAt, Ids
    <3>2. QED
      BY <1>1, <1>6, <1>7, <1>8, <3>1 DEF PlayedAt
  <2>2. ASSUME ~Midway PROVE OnceAt(q)'
    <3>1. OnceAt(q) /\ done'[q] = d[q]
      BY <1>4, <1>8, <2>2 DEF IInv, Calls
    <3>2. CASE q \in Ids
      <4>1. done[q] = 0 /\ q \notin late
        BY <3>1, <3>2 DEF OnceAt, Ids
      <4>2. QED
        BY <1>1, <1>6, <1>7, <3>1, <3>2, <4>1 DEF OnceAt
    <3>3. CASE q \notin Ids
      BY <1>1, <1>6, <1>7, <3>1, <3>3 DEF OnceAt
    <3>4. QED
      BY <3>2, <3>3
  <2>3. QED
    BY <2>1, <2>2
<1>11. QED
  BY <1>5, <1>6, <1>9, <1>10, EmptyPlaced DEF IInv, Calls

\* The relay's socket changes its state and nothing else does.
LEMMA RelayOnly ==
  ASSUME IInv, UNCHANGED <<directory, asked, queued, late, again>>,
         UNCHANGED linkVars, UNCHANGED callVars, Flags', Relay',
         ready => ready', relay = "closing" => relay' = "closing",
         Delivers' => Delivers \/ again = {}, Delivers => Delivers'
  PROVE  IInv'
<1>1. UNCHANGED <<links, outbound, attempts, connecting, requests, done, sent>>
  BY DEF linkVars, callVars
<1>2. LinkTypes' /\ Calls'
  BY <1>1 DEF IInv, LinkTypes, Calls, CallTypes, PlayedAt, OnceAt
<1>3. ASSUME NEW p \in Host PROVE ChainAt(p)'
  <2>1. Dialling(p)' = Dialling(p) /\ Usable(p)' = Usable(p)
    BY <1>1 DEF Dialling, Links, Usable
  <2>2. ChainAt(p)
    BY DEF IInv, Chains
  <2>3. QED
    BY <1>1, <2>1, <2>2 DEF ChainAt
<1>4. ASSUME ~Midway, NEW r \in Req PROVE PlacedAt(r)'
  <2>1. PlacedAt(r)
    BY <1>4 DEF IInv, Placed
  <2>2. QED
    BY <1>1, <2>1 DEF PlacedAt, Links
<1>5. QED
  BY <1>2, <1>3, <1>4 DEF IInv, Chains, Placed

LEMMA RelayStepKeeps ==
  ASSUME IInv, Retry \/ RelayConnected \/ RelayClosing \/ Registered \/ Refused PROVE IInv'
<1>1. Flags /\ Relay
  BY DEF IInv
<1>2. CASE Retry
  <2>1. /\ retry /\ retry' = FALSE /\ relay' = "connecting"
        /\ UNCHANGED <<running, ready, fatal, directory, asked, queued, late, again>>
        /\ UNCHANGED linkVars /\ UNCHANGED callVars
    BY <1>2 DEF Retry
  <2>2. running /\ relay = "closed" /\ ~ready
    BY <1>1, <2>1 DEF Relay, Redials, Delivers
  <2>3. Flags' /\ Relay'
    BY <1>1, <2>1, <2>2 DEF Flags, Relay, Redials
  <2>4. QED
    BY <2>1, <2>2, <2>3, RelayOnly DEF Delivers
<1>3. CASE RelayConnected
  <2>1. /\ relay = "connecting" /\ again = {} /\ relay' = "connected"
        /\ UNCHANGED <<running, ready, fatal, retry, directory, asked, queued, late, again>>
        /\ UNCHANGED linkVars /\ UNCHANGED callVars
    BY <1>3 DEF RelayConnected
  <2>2. Flags' /\ Relay'
    BY <1>1, <2>1 DEF Flags, Relay, Redials, Delivers
  <2>3. QED
    BY <2>1, <2>2, RelayOnly DEF Delivers
<1>4. CASE RelayClosing
  <2>1. /\ relay = "connected" /\ relay' = "closing"
        /\ UNCHANGED <<running, ready, fatal, retry, directory, asked, queued, late, again>>
        /\ UNCHANGED linkVars /\ UNCHANGED callVars
    BY <1>4 DEF RelayClosing
  <2>2. Flags' /\ Relay'
    BY <1>1, <2>1 DEF Flags, Relay, Redials, Delivers
  <2>3. QED
    BY <2>1, <2>2, RelayOnly DEF Delivers
<1>5. CASE Registered
  <2>1. /\ Delivers /\ ready' = TRUE
        /\ UNCHANGED <<running, fatal, retry, relay, directory, asked, queued, late, again>>
        /\ UNCHANGED linkVars /\ UNCHANGED callVars
    BY <1>5 DEF Registered
  <2>2. Flags' /\ Relay'
    BY <1>1, <2>1 DEF Flags, Relay, Redials, Delivers
  <2>3. QED
    BY <2>1, <2>2, RelayOnly DEF Delivers
<1>6. CASE Refused
  <2>1. /\ Delivers /\ fatal' = TRUE
        /\ UNCHANGED <<running, ready, retry, relay, directory, asked, queued, late, again>>
        /\ UNCHANGED linkVars /\ UNCHANGED callVars
    BY <1>6 DEF Refused, relayVars
  <2>2. Flags' /\ Relay'
    BY <1>1, <2>1 DEF Flags, Relay, Redials, Delivers
  <2>3. QED
    BY <2>1, <2>2, RelayOnly DEF Delivers
<1>7. QED
  BY <1>2, <1>3, <1>4, <1>5, <1>6

-----------------------------------------------------------------------------
(* Choosing a transport *)

LEMMA RelaySame ==
  ASSUME IInv, UNCHANGED <<running, fatal, ready, retry, relay>> PROVE Flags' /\ Relay'
  BY DEF IInv, Flags, Relay, Redials, Delivers

\* The step does not touch the chain of q.
SameChain(q) ==
  /\ q \in connecting' <=> q \in connecting
  /\ q \in asked' <=> q \in asked
  /\ q \in again' <=> q \in again
  /\ outbound'[q] = outbound[q]
  /\ \A s \in Link : links[s] # None /\ links[s].peer = q => links'[s] = links[s]
  /\ \A s \in Link : links'[s] # None /\ links'[s].peer = q => links'[s] = links[s]

LEMMA SameChainKeeps ==
  ASSUME IInv, NEW q \in Host, SameChain(q), UNCHANGED <<ready, relay>>
  PROVE  ChainAt(q)'
<1>1. ChainAt(q) /\ outbound \in [Host -> Link \cup {None}]
  BY DEF IInv, Chains, LinkTypes
<1>2. \A s \in Link : s \in Dialling(q)' <=> s \in Dialling(q)
  BY DEF SameChain, Dialling, Links
<1>3. Dialling(q)' = Dialling(q)
  BY <1>2 DEF Dialling, Links
<1>4. outbound[q] # None => /\ outbound[q] \in Link
                            /\ links[outbound[q]] # None /\ links[outbound[q]].peer = q
                            /\ links'[outbound[q]] = links[outbound[q]]
  BY <1>1 DEF ChainAt, SameChain
<1>5. Usable(q)' <=> Usable(q)
  BY <1>1, <1>4 DEF Usable, SameChain
<1>6. QED
  BY <1>1, <1>3, <1>4, <1>5 DEF ChainAt, SameChain, Delivers

\* A request that the step leaves waiting waits for another host than p.
LEMMA StillWaiting ==
  ASSUME NEW p, NEW r \in Req, r \notin Waiting(p), PlacedAt(r), requests[r] # None,
         requests[r].transport = "",
         r \in queued => r \in queued' \/ requests[r].peer = p, connecting' = connecting \ {p}
  PROVE  r \in queued' \/ requests[r].peer \in connecting'
<1>1. requests[r].peer # p
  BY DEF Waiting, Ids
<1>2. r \in queued \/ requests[r].peer \in connecting
  BY DEF PlacedAt
<1>3. QED
  BY <1>1, <1>2

LEMMA RemoteKeeps ==
  ASSUME IInv, NEW p \in Host, ready, Dialling(p) = {}, Remote(p, asked \ {p}),
         again' = again \ {p}, UNCHANGED <<running, fatal, late>>, queued' \in SUBSET Req,
         \A r \in queued : r \in queued' \/ requests[r] = None \/ requests[r].peer = p
  PROVE  IInv'
<1> DEFINE W == Waiting(p)
<1>1. Delivers
  BY DEF IInv, Relay
<1>2. CASE /\ IF relay = "connected"
              THEN /\ requests' = Assigned(W, "remote", None)
                   /\ sent' = Sent(W)
                   /\ UNCHANGED done
              ELSE Finish(W) /\ UNCHANGED sent
           /\ connecting' = connecting \ {p}
           /\ attempts' = [attempts EXCEPT ![p] = None]
           /\ asked' = asked \ {p}
           /\ UNCHANGED <<links, outbound>> /\ UNCHANGED relayVars
  <2>1. Flags' /\ Relay' /\ UNCHANGED <<ready, relay, directory>>
    BY <1>2, RelaySame DEF relayVars
  <2>2. LinkTypes'
    <3>1. attempts' \in [Host -> Attempt \cup {None}]
      BY <1>2 DEF IInv, LinkTypes
    <3>2. QED
      BY <1>2, <2>1, <3>1 DEF IInv, LinkTypes
  <2>3. Chains'
    <3>1. ASSUME NEW q \in Host, q # p PROVE ChainAt(q)'
      <4>1. SameChain(q)
        BY <1>2, <3>1 DEF SameChain
      <4>2. QED
        BY <2>1, <4>1, SameChainKeeps
    <3>2. ChainAt(p)'
      <4>1. Dialling(p)' = {} /\ ChainAt(p)
        BY <1>2 DEF Dialling, Links, IInv, Chains
      <4>2. QED
        BY <1>2, <4>1 DEF ChainAt
    <3>3. QED
      BY <3>1, <3>2 DEF Chains
  <2>4. /\ Calls' /\ \A r \in Req : r \notin W => requests'[r] = requests[r]
        /\ \A r \in W : requests'[r] = None \/ requests'[r].transport = "remote"
    <3>1. CASE relay = "connected"
      BY <1>2, <3>1, AssignCalls DEF IInv
    <3>2. CASE relay # "connected"
      <4>1. W \subseteq Ids /\ Ids \subseteq Req
        BY DEF Waiting, Ids
      <4>2. QED
        BY <1>2, <3>2, <4>1, FinishCalls DEF IInv
    <3>3. QED
      BY <3>1, <3>2
  <2>5. ASSUME ~Midway, NEW r \in Req PROVE PlacedAt(r)'
    <3>1. PlacedAt(r)
      BY <2>5 DEF IInv, Placed
    <3>2. CASE r \in W
      BY <1>1, <2>1, <2>4, <3>2 DEF PlacedAt, Delivers
    <3>3. CASE r \notin W
      <4>1. requests'[r] = requests[r]
        BY <2>4, <3>3
      <4>2. requests[r] # None /\ requests[r].transport = "" =>
              r \in queued' \/ requests[r].peer \in connecting'
        BY <1>2, <3>1, <3>3, StillWaiting
      <4>3. QED
        BY <1>2, <2>1, <3>1, <4>1, <4>2 DEF PlacedAt, Links, Delivers
    <3>4. QED
      BY <3>2, <3>3
  <2>6. QED
    BY <2>1, <2>2, <2>3, <2>4, <2>5 DEF IInv, Placed
<1>3. CASE /\ relay = "connected"
           /\ \E A \in (SUBSET W) \ {W}, Z \in Unvisited(Ids) :
                /\ A \cap Z = {}
                /\ Cardinality(W \ (A \cup Z)) = 1
                /\ sent' = Sent(A)
                /\ requests' = Emptied(Z)
                /\ done' = Done(Ids, done)
           /\ Dropped
  <2>1. Flags' /\ LinkTypes' /\ Relay' /\ Chains'
    <3>1. again' \in SUBSET Host
      BY DEF IInv, LinkTypes
    <3>2. QED
      BY <1>3, <3>1, DroppedKeeps
  <2>2. PICK A \in SUBSET W, Z \in Unvisited(Ids) :
          sent' = Sent(A) /\ requests' = Emptied(Z) /\ done' = Done(Ids, done)
    BY <1>3
  <2>3. requests' = [r \in Req |-> IF r \in Z THEN Zombie ELSE IF r \in Ids THEN None ELSE requests[r]]
    BY <2>2 DEF Emptied, Ids
  <2>4. A \subseteq Waiting(p) /\ A \subseteq Ids /\ Ids \subseteq Ids
    BY DEF Waiting
  <2>5. /\ Calls' /\ \A r \in Req : r \notin Ids => requests'[r] = requests[r]
        /\ ~Midway => \A r \in Ids : requests'[r] = None
    BY <2>2, <2>3, <2>4, CutShort DEF IInv
  <2>6. Placed'
    BY <2>5 DEF Placed, PlacedAt, Ids
  <2>7. QED
    BY <2>1, <2>5, <2>6 DEF IInv
<1>4. QED
  BY <1>2, <1>3 DEF Remote

\* local(s), for the host p of the link s.
LocalTo(s, p) ==
  LET W == Waiting(p)
  IN \/ /\ IF links[s].open
           THEN /\ requests' = Assigned(W, "local", s)
                /\ sent' = Sent(W)
                /\ UNCHANGED done
           ELSE Finish(W) /\ UNCHANGED sent
        /\ links' = [links EXCEPT ![s].authenticated = TRUE]
        /\ UNCHANGED outbound
     \/ /\ links[s].open
        /\ \E A \in (SUBSET W) \ {W}, Z \in Unvisited(On({s})) :
             /\ sent' = Sent(A)
             /\ requests' = [r \in Req |-> IF r \in Z THEN Zombie
                                          ELSE IF r \in W \cup On({s}) THEN None
                                          ELSE requests[r]]
             /\ done' = Done(W \cup On({s}), done)
        /\ links' = [links EXCEPT ![s] = None]
        /\ outbound' = [outbound EXCEPT ![p] = IF @ = s THEN None ELSE @]

LEMMA LocalKeeps ==
  ASSUME IInv, NEW s \in Link, links[s] # None, NEW p, p = links[s].peer,
         Local(s), UNCHANGED <<running, fatal, late>>,
         p \notin asked, p \notin again, Dialling(p) \subseteq {s}, queued' \in SUBSET Req,
         \A r \in queued : r \in queued' \/ requests[r] = None \/ requests[r].peer = p
  PROVE  IInv'
<1> DEFINE W == Waiting(p)
<1>1. links[s] \in LinkState /\ p \in Host /\ links \in [Link -> LinkState \cup {None}]
      /\ outbound \in [Host -> Link \cup {None}]
  BY DEF IInv, LinkTypes, LinkState
<1>2. /\ connecting' = connecting \ {p}
      /\ attempts' = [attempts EXCEPT ![p] = None]
      /\ UNCHANGED <<asked, again, ready, retry, relay, directory>>
  BY DEF Local, relayVars
<1>3. Flags' /\ Relay'
  BY <1>2, RelaySame
<1>4. \A q \in Host : outbound[q] = s => q = p
  BY NoneAssumption DEF IInv, Chains, ChainAt
<1>5. attempts' \in [Host -> Attempt \cup {None}]
  BY <1>2 DEF IInv, LinkTypes
<1>6. CASE /\ IF links[s].open
              THEN /\ requests' = Assigned(W, "local", s)
                   /\ sent' = Sent(W)
                   /\ UNCHANGED done
              ELSE Finish(W) /\ UNCHANGED sent
           /\ links' = [links EXCEPT ![s].authenticated = TRUE]
           /\ UNCHANGED outbound
  <2>1. /\ links'[s] \in LinkState /\ links'[s].peer = p /\ links'[s].authenticated = TRUE
        /\ links'[s] # None
        /\ \A t \in Link : t # s => links'[t] = links[t]
        /\ links' \in [Link -> LinkState \cup {None}]
    <3>1. links' = [links EXCEPT ![s] = [links[s] EXCEPT !.authenticated = TRUE]]
      BY <1>6
    <3>2. [links[s] EXCEPT !.authenticated = TRUE] \in LinkState
      BY <1>1 DEF LinkState
    <3>3. links'[s] = [links[s] EXCEPT !.authenticated = TRUE]
      BY <1>1, <3>1
    <3>4. links'[s].peer = p /\ links'[s].authenticated = TRUE
      BY <1>1, <3>3 DEF LinkState
    <3>5. QED
      BY <1>1, <3>1, <3>2, <3>3, <3>4, AbsentAssumption
  <2>2. LinkTypes'
    BY <1>2, <1>5, <1>6, <2>1 DEF IInv, LinkTypes
  <2>3. Chains'
    <3>1. ASSUME NEW q \in Host, q # p PROVE ChainAt(q)'
      <4>1. SameChain(q)
        BY <1>2, <1>6, <2>1, <3>1 DEF SameChain
      <4>2. QED
        BY <1>2, <4>1, SameChainKeeps
    <3>2. ChainAt(p)'
      <4>1. ChainAt(p)
        BY <1>1 DEF IInv, Chains
      <4>2. Dialling(p)' = {}
        BY <2>1 DEF Dialling, Links
      <4>3. outbound'[p] # None => links'[outbound'[p]] # None /\ links'[outbound'[p]].peer = p
        BY <1>1, <1>6, <2>1, <4>1 DEF ChainAt
      <4>4. QED
        BY <1>2, <4>2, <4>3 DEF ChainAt
    <3>3. QED
      BY <3>1, <3>2 DEF Chains
  <2>4. /\ Calls' /\ \A r \in Req : r \notin W => requests'[r] = requests[r]
        /\ \A r \in W : requests'[r] = None \/
                          /\ requests'[r].transport = "local" /\ requests'[r].socket = s
                          /\ requests'[r].peer = p
    <3>1. CASE links[s].open
      BY <1>1, <1>6, <3>1, AssignCalls DEF IInv
    <3>2. CASE ~links[s].open
      <4>1. W \subseteq Ids /\ Ids \subseteq Req
        BY DEF Waiting, Ids
      <4>2. QED
        BY <1>6, <3>2, <4>1, FinishCalls DEF IInv
    <3>3. QED
      BY <3>1, <3>2
  <2>5. ASSUME ~Midway, NEW r \in Req PROVE PlacedAt(r)'
    <3>1. PlacedAt(r)
      BY <2>5 DEF IInv, Placed
    <3>2. CASE r \in W
      BY <2>1, <2>4, <3>2 DEF PlacedAt, Links
    <3>3. CASE r \notin W
      <4>1. requests'[r] = requests[r]
        BY <2>4, <3>3
      <4>2. requests[r] # None /\ requests[r].transport = "" =>
              r \in queued' \/ requests[r].peer \in connecting'
        BY <1>2, <3>1, <3>3, StillWaiting
      <4>3. \A t \in Links : t \in Links' /\ (links[t].authenticated => links'[t].authenticated)
                             /\ links'[t].peer = links[t].peer
        BY <2>1 DEF Links
      <4>4. QED
        BY <1>2, <3>1, <4>1, <4>2, <4>3 DEF PlacedAt, Delivers
    <3>4. QED
      BY <3>2, <3>3
  <2>6. QED
    BY <1>3, <2>2, <2>3, <2>4, <2>5 DEF IInv, Placed
<1>7. CASE /\ links[s].open
           /\ \E A \in (SUBSET W) \ {W}, Z \in Unvisited(On({s})) :
                /\ sent' = Sent(A)
                /\ requests' = [r \in Req |-> IF r \in Z THEN Zombie
                                             ELSE IF r \in W \cup On({s}) THEN None
                                             ELSE requests[r]]
                /\ done' = Done(W \cup On({s}), done)
           /\ links' = [links EXCEPT ![s] = None]
           /\ outbound' = [outbound EXCEPT ![p] = IF @ = s THEN None ELSE @]
  <2>1. /\ links'[s] = None /\ \A t \in Link : t # s => links'[t] = links[t]
        /\ links' \in [Link -> LinkState \cup {None}]
    BY <1>1, <1>7
  <2>2. /\ outbound' \in [Host -> Link \cup {None}]
        /\ outbound'[p] = (IF outbound[p] = s THEN None ELSE outbound[p])
        /\ \A q \in Host : q # p => outbound'[q] = outbound[q]
    BY <1>1, <1>7
  <2>3. LinkTypes'
    BY <1>2, <1>5, <2>1, <2>2 DEF IInv, LinkTypes
  <2>4. Chains'
    <3>1. ASSUME NEW q \in Host, q # p PROVE ChainAt(q)'
      <4>1. SameChain(q)
        BY <1>2, <2>1, <2>2, <3>1 DEF SameChain
      <4>2. QED
        BY <1>2, <4>1, SameChainKeeps
    <3>2. ChainAt(p)'
      <4>1. ChainAt(p)
        BY <1>1 DEF IInv, Chains
      <4>2. Dialling(p)' = {}
        BY <2>1 DEF Dialling, Links
      <4>3. outbound'[p] # None => links'[outbound'[p]] # None /\ links'[outbound'[p]].peer = p
        <5>1. outbound[p] # None => outbound[p] \in Link
          BY <1>1
        <5>2. QED
          BY <2>1, <2>2, <4>1, <5>1 DEF ChainAt
      <4>4. QED
        BY <1>2, <4>2, <4>3 DEF ChainAt
    <3>3. QED
      BY <3>1, <3>2 DEF Chains
  <2> DEFINE F == W \cup On({s})
  <2>5. PICK A \in SUBSET W, Z \in Unvisited(On({s})) :
           /\ sent' = Sent(A) /\ done' = Done(F, done)
           /\ requests' = [r \in Req |-> IF r \in Z THEN Zombie ELSE IF r \in F THEN None ELSE requests[r]]
    BY <1>7
  <2>6. F \subseteq Ids /\ A \subseteq F /\ A \subseteq W /\ Z \in Unvisited(F)
    BY DEF Waiting, On, Unvisited
  <2>7. /\ Calls' /\ \A r \in Req : r \notin F => requests'[r] = requests[r]
        /\ ~Midway => \A r \in F : requests'[r] = None
    <3> HIDE DEF F
    <3>1. QED
      BY <1>1, <2>5, <2>6, CutShort DEF IInv
  <2>8. ASSUME ~Midway, NEW r \in Req PROVE PlacedAt(r)'
    <3>1. PlacedAt(r)
      BY <2>8 DEF IInv, Placed
    <3>2. CASE r \in F
      BY <2>7, <2>8, <3>2 DEF PlacedAt
    <3>3. CASE r \notin F
      <4>1. requests'[r] = requests[r]
        BY <2>7, <3>3
      <4>2. requests[r] # None /\ requests[r].transport = "" =>
              r \in queued' \/ requests[r].peer \in connecting'
        BY <1>2, <3>1, <3>3, StillWaiting
      <4>3. requests[r] # None => requests[r].socket # s
        BY <3>3 DEF On, Ids
      <4>4. \A t \in Links : t # s => t \in Links' /\ links'[t] = links[t]
        BY <2>1 DEF Links
      <4>5. QED
        BY <1>2, <3>1, <4>1, <4>2, <4>3, <4>4 DEF PlacedAt, Delivers
    <3>4. QED
      BY <3>2, <3>3
  <2>9. QED
    BY <1>3, <2>3, <2>4, <2>7, <2>8 DEF IInv, Placed
<1>8. LocalTo(s, p)
  <2>1. LocalTo(s, links[s].peer)
    BY DEF Local, LocalTo
  <2>2. QED
    BY <2>1
<1>9. QED
  BY <1>6, <1>7, <1>8 DEF LocalTo

\* The next address of p is dialled, or the relay is used.
LEMMA TryKeeps ==
  ASSUME IInv, NEW p \in connecting, NEW att \in Attempt \cup {None}, Dialling(p) = {},
         Try(p, att, asked \ {p}), again' = again \ {p}, UNCHANGED <<running, fatal, queued, late>>
  PROVE  IInv'
<1>1. p \in Host /\ ready /\ LocalEnabled /\ ChainAt(p) /\ queued' \in SUBSET Req
  BY DEF IInv, LinkTypes, Chains, ChainAt, Calls, CallTypes
<1>2. CASE Exhausted(att)
  <2>1. Remote(p, asked \ {p})
    BY <1>2 DEF Try
  <2>2. \A r \in queued : r \in queued'
    OBVIOUS
  <2>3. QED
    BY <1>1, <2>1, <2>2, RemoteKeeps
<1>3. CASE ~Exhausted(att)
  <2> DEFINE new == [peer |-> p, authenticated |-> FALSE, open |-> TRUE,
                     expires |-> att.left, deadline |-> LocalTicks]
  <2>1. /\ \E s \in Link \ Links : links' = [links EXCEPT ![s] = new]
                                   /\ outbound' = [outbound EXCEPT ![p] = s]
        /\ attempts' = [attempts EXCEPT ![p] = [att EXCEPT !.urls = @ - 1]]
        /\ asked' = asked \ {p}
        /\ UNCHANGED <<connecting, ready, retry, relay, directory, requests, done, sent>>
    BY <1>3 DEF Try, relayVars, callVars
  <2>2. PICK s \in Link \ Links : links' = [links EXCEPT ![s] = new] /\ outbound' = [outbound EXCEPT ![p] = s]
    BY <2>1
  <2>3. att \in Attempt /\ att.urls # 0
    BY <1>3 DEF Exhausted
  <2>4. new \in LinkState
    <3>1. LocalTicks \in 0..LocalTicks
      BY LimitAssumption
    <3>2. att.left \in 0..TicketTicks
      BY <2>3 DEF Attempt
    <3>3. QED
      BY <1>1, <3>1, <3>2 DEF LinkState
  <2>5. [att EXCEPT !.urls = @ - 1] \in Attempt
    <3>1. \A n \in 0..MaxUrls : n # 0 => n - 1 \in 0..MaxUrls
      BY LimitAssumption
    <3>2. att.urls - 1 \in 0..MaxUrls
      BY <2>3, <3>1 DEF Attempt
    <3>3. QED
      BY <2>3, <3>2 DEF Attempt
  <2>6. new.peer = p /\ ~new.authenticated /\ new # None
    BY <2>4, AbsentAssumption
  <2> HIDE DEF new
  <2>7. /\ links \in [Link -> LinkState \cup {None}] /\ links[s] = None
        /\ links' \in [Link -> LinkState \cup {None}] /\ links'[s] = new
        /\ \A t \in Link : t # s => links'[t] = links[t]
        /\ outbound' \in [Host -> Link \cup {None}] /\ outbound'[p] = s
        /\ \A q \in Host : q # p => outbound'[q] = outbound[q]
    BY <1>1, <2>2, <2>4 DEF IInv, LinkTypes, Links
  <2>8. LinkTypes'
    <3>1. attempts' \in [Host -> Attempt \cup {None}]
      <4> DEFINE less == [att EXCEPT !.urls = @ - 1]
      <4>1. less \in Attempt /\ attempts' = [attempts EXCEPT ![p] = less]
        BY <2>1, <2>5
      <4> HIDE DEF less
      <4>2. QED
        BY <4>1 DEF IInv, LinkTypes
    <3>2. QED
      BY <2>1, <2>7, <3>1 DEF IInv, LinkTypes
  <2>9. Chains'
    <3>1. ASSUME NEW q \in Host, q # p PROVE ChainAt(q)'
      <4>1. SameChain(q)
        BY <2>1, <2>6, <2>7, <3>1 DEF SameChain
      <4>2. QED
        BY <2>1, <4>1, SameChainKeeps
    <3>2. ChainAt(p)'
      <4>1. \A t \in Link : t \in Dialling(p)' <=> t = s
        BY <2>6, <2>7 DEF Dialling, Links
      <4>2. Dialling(p)' = {s}
        BY <4>1, <2>2 DEF Dialling, Links
      <4>3. ~Usable(p)' /\ links'[outbound'[p]] # None /\ links'[outbound'[p]].peer = p
        BY <2>6, <2>7 DEF Usable
      <4>4. QED
        BY <1>1, <2>1, <4>2, <4>3 DEF ChainAt
    <3>3. QED
      BY <3>1, <3>2 DEF Chains
  <2>10. Flags' /\ Relay'
    BY <2>1, RelaySame
  <2>11. Calls'
    BY <2>1 DEF IInv, Calls, CallTypes, PlayedAt, OnceAt
  <2>12. ASSUME ~Midway, NEW r \in Req PROVE PlacedAt(r)'
    <3>1. PlacedAt(r)
      BY <2>12 DEF IInv, Placed
    <3>2. \A t \in Links : t \in Links' /\ links'[t] = links[t]
      BY <2>7 DEF Links
    <3>3. QED
      BY <2>1, <3>1, <3>2 DEF PlacedAt, Delivers
  <2>13. QED
    BY <2>8, <2>9, <2>10, <2>11, <2>12 DEF IInv, Placed
<1>4. QED
  BY <1>2, <1>3

\* Nothing changes but what is queued for hosts and requests.
LEMMA QueuesKeep ==
  ASSUME IInv, UNCHANGED <<running, fatal, late>>, UNCHANGED relayVars, UNCHANGED linkVars,
         UNCHANGED <<asked, requests, done, sent>>,
         again' = again \/ \E p \in Host : p \notin connecting /\ again' = again \ {p},
         queued' = queued \/ \E r \in Req : requests[r] = None /\ queued' = queued \ {r}
  PROVE  IInv'
<1>1. /\ UNCHANGED <<ready, retry, relay, directory>>
      /\ UNCHANGED <<links, outbound, attempts, connecting>>
  BY DEF relayVars, linkVars
<1>2. Flags' /\ Relay'
  BY <1>1, RelaySame
<1>3. LinkTypes'
  BY <1>1 DEF IInv, LinkTypes
<1>4. ASSUME NEW q \in Host PROVE ChainAt(q)'
  <2>1. Dialling(q)' = Dialling(q) /\ Usable(q)' = Usable(q) /\ ChainAt(q)
    BY <1>1 DEF Dialling, Links, Usable, IInv, Chains
  <2>2. again' \subseteq again /\ (q \in connecting => (q \in again' <=> q \in again))
    OBVIOUS
  <2>3. QED
    BY <1>1, <2>1, <2>2 DEF ChainAt, Delivers
<1>5. Calls'
  BY DEF IInv, Calls, CallTypes, PlayedAt, OnceAt
<1>6. ASSUME ~Midway, NEW r \in Req PROVE PlacedAt(r)'
  <2>1. PlacedAt(r)
    BY <1>6 DEF IInv, Placed
  <2>2. requests[r] # None /\ r \in queued => r \in queued'
    OBVIOUS
  <2>3. QED
    BY <1>1, <2>1, <2>2 DEF PlacedAt, Links, Delivers
<1>7. QED
  BY <1>2, <1>3, <1>4, <1>5, <1>6 DEF IInv, Chains, Placed

LEMMA nextLocalKeeps == ASSUME IInv, NEW p \in Host, nextLocal(p) PROVE IInv'
<1>1. p \in again /\ again' = again \ {p} /\ UNCHANGED <<running, fatal, queued, late>>
  BY DEF nextLocal
<1>2. ChainAt(p) /\ Flags /\ Relay
  BY DEF IInv, Chains
<1>3. CASE running /\ ready /\ p \in connecting
  <2>1. Dialling(p) = {} /\ p \notin asked
    BY <1>1, <1>2, <1>3 DEF ChainAt
  <2>2. Try(p, attempts[p], asked)
    BY <1>3 DEF nextLocal
  <2>3. asked = asked \ {p}
    BY <2>1
  <2>4. Try(p, attempts[p], asked \ {p})
    BY <2>2, <2>3
  <2>5. attempts[p] \in Attempt \cup {None}
    BY DEF IInv, LinkTypes
  <2>6. PICK att \in Attempt \cup {None} : att = attempts[p]
    BY <2>5
  <2>7. Try(p, att, asked \ {p})
    BY <2>4, <2>6
  <2>8. QED
    BY <1>1, <1>3, <2>1, <2>7, TryKeeps
<1>4. CASE ~(running /\ ready /\ p \in connecting)
  <2>1. UNCHANGED asked /\ UNCHANGED relayVars /\ UNCHANGED linkVars /\ UNCHANGED callVars
    BY <1>4 DEF nextLocal
  <2>2. p \notin connecting
    BY <1>2, <1>4 DEF ChainAt, Relay, Delivers
  <2>3. QED
    BY <1>1, <2>1, <2>2, QueuesKeep DEF callVars
<1>5. QED
  BY <1>3, <1>4

LEMMA ConnectKeeps ==
  ASSUME IInv, NEW p \in Host, NEW n \in 0..MaxUrls, NEW d \in 0..TicketTicks, Connect(p, n, d)
  PROVE  IInv'
<1>1. /\ Delivers /\ ready /\ p \in asked /\ UNCHANGED <<running, fatal, queued, late, again>>
  BY DEF Connect
<1>2. p \in connecting /\ Dialling(p) = {} /\ p \notin again
  BY <1>1 DEF IInv, Chains, ChainAt
<1>3. Try(p, [urls |-> n, left |-> d], asked \ {p})
  BY <1>2 DEF Connect
<1>4. [urls |-> n, left |-> d] \in Attempt
  BY DEF Attempt
<1>5. again' = again \ {p}
  BY <1>1, <1>2
<1>6. QED
  BY <1>1, <1>2, <1>3, <1>4, <1>5, TryKeeps

LEMMA HelloKeeps == ASSUME IInv, NEW s \in Link, Hello(s) PROVE IInv'
<1>1. links[s] # None /\ ~links[s].authenticated /\ Local(s) /\ UNCHANGED <<running, fatal, queued, late>>
  BY DEF Hello, Links
<1>2. links[s].peer \in Host
  BY <1>1 DEF IInv, LinkTypes, LinkState
<1>3. PICK p \in Host : p = links[s].peer
  BY <1>2
<1>4. s \in Dialling(p) /\ ChainAt(p)
  BY <1>1, <1>3 DEF Dialling, Links, IInv, Chains
<1>5. p \notin asked /\ p \notin again /\ Dialling(p) \subseteq {s}
  BY <1>4 DEF ChainAt
<1>6. queued' \in SUBSET Req /\ \A r \in queued : r \in queued'
  BY <1>1 DEF IInv, Calls, CallTypes
<1>7. QED
  BY <1>1, <1>3, <1>5, <1>6, LocalKeeps

\* The relay is asked how to reach p, which is being connected from now on.
LEMMA AskKeeps ==
  ASSUME IInv, NEW p \in Host, ready, LocalEnabled, ~Usable(p),
         connecting' = connecting \cup {p},
         asked' = IF p \notin connecting /\ relay = "connected" THEN asked \cup {p} ELSE asked,
         UNCHANGED <<running, fatal, late, again, links, outbound, attempts>>,
         UNCHANGED relayVars, UNCHANGED callVars, queued' \in SUBSET Req,
         \A r \in queued : r \in queued' \/ requests[r].peer = p
  PROVE  IInv'
<1>1. UNCHANGED <<ready, retry, relay, directory, requests, done, sent>> /\ Delivers
  BY DEF relayVars, callVars, IInv, Relay
<1>2. Flags' /\ Relay'
  BY <1>1, RelaySame
<1>3. LinkTypes'
  BY <1>1 DEF IInv, LinkTypes
<1>4. ASSUME NEW q \in Host PROVE ChainAt(q)'
  <2>1. Dialling(q)' = Dialling(q) /\ Usable(q)' = Usable(q) /\ ChainAt(q)
    BY DEF Dialling, Links, Usable, IInv, Chains
  <2>2. CASE q # p \/ q \in connecting
    <3>1. (q \in connecting' <=> q \in connecting) /\ (q \in asked' <=> q \in asked)
      BY <2>2
    <3>2. QED
      BY <1>1, <2>1, <3>1 DEF ChainAt, Delivers
  <2>3. CASE q = p /\ p \notin connecting
    <3>1. Dialling(p) = {} /\ p \notin asked /\ p \notin again
      BY <1>1, <2>1, <2>3 DEF ChainAt
    <3>2. p \in asked' \/ relay = "closing"
      BY <1>1, <2>3 DEF Delivers
    <3>3. QED
      BY <1>1, <2>1, <2>3, <3>1, <3>2 DEF ChainAt
  <2>4. QED
    BY <2>2, <2>3
<1>5. Calls'
  BY <1>1 DEF IInv, Calls, CallTypes, PlayedAt, OnceAt
<1>6. ASSUME ~Midway, NEW r \in Req PROVE PlacedAt(r)'
  <2>1. PlacedAt(r)
    BY <1>6 DEF IInv, Placed
  <2>2. QED
    BY <1>1, <2>1 DEF PlacedAt, Links, Delivers
<1>7. QED
  BY <1>2, <1>3, <1>4, <1>5, <1>6 DEF IInv, Chains, Placed

\* One request is finished and nothing else changes but what is queued.
LEMMA FinishOneKeeps ==
  ASSUME IInv, NEW r \in Req, requests[r] # None, Finish({r}),
         UNCHANGED <<running, fatal, asked, late, again, sent>>,
         UNCHANGED relayVars, UNCHANGED linkVars, queued' \in SUBSET Req,
         \A q \in queued : q \in queued' \/ q = r
  PROVE  IInv'
<1>1. UNCHANGED <<ready, retry, relay, directory, links, outbound, attempts, connecting>>
  BY DEF relayVars, linkVars
<1>2. Calls' /\ \A q \in Req : requests'[q] = IF q \in {r} THEN None ELSE requests[q]
  BY FinishCalls DEF IInv, Ids
<1>3. LinkTypes' /\ Flags' /\ Relay'
  BY <1>1, RelaySame DEF IInv, LinkTypes
<1>4. ASSUME NEW q \in Host PROVE ChainAt(q)'
  <2>1. SameChain(q)
    BY <1>1 DEF SameChain
  <2>2. QED
    BY <1>1, <2>1, SameChainKeeps
<1>5. ASSUME ~Midway, NEW q \in Req PROVE PlacedAt(q)'
  <2>1. PlacedAt(q)
    BY <1>5 DEF IInv, Placed
  <2>2. requests'[q] = None \/ (q # r /\ requests'[q] = requests[q])
    BY <1>2
  <2>3. QED
    BY <1>1, <2>1, <2>2 DEF PlacedAt, Links, Delivers
<1>6. QED
  BY <1>2, <1>3, <1>4, <1>5 DEF IInv, Chains, Placed

LEMMA StartRequestKeeps == ASSUME IInv, NEW r \in Req, StartRequest(r) PROVE IInv'
<1>1. r \in queued /\ queued' = queued \ {r} /\ UNCHANGED <<running, fatal, late, again>>
  BY DEF StartRequest
<1>2. queued' \in SUBSET Req
  BY <1>1 DEF IInv, Calls, CallTypes
<1>3. CASE requests[r] = None
  <2>1. UNCHANGED asked /\ UNCHANGED relayVars /\ UNCHANGED linkVars /\ UNCHANGED callVars
    BY <1>3 DEF StartRequest
  <2>2. QED
    BY <1>1, <1>3, <2>1, QueuesKeep DEF callVars
<1>4. CASE requests[r] # None
  <2>1. PICK p : p = requests[r].peer
    OBVIOUS
  <2>2. CASE ~ready \/ p \notin directory
    <3>1. Finish({r}) /\ UNCHANGED <<asked, sent>> /\ UNCHANGED relayVars /\ UNCHANGED linkVars
      BY <1>4, <2>1, <2>2 DEF StartRequest
    <3>2. \A q \in queued : q \in queued' \/ q = r
      BY <1>1
    <3>3. QED
      BY <1>1, <1>2, <1>4, <3>1, <3>2, FinishOneKeeps
  <2>3. CASE ready /\ p \in directory
    <3>1. p \in Host /\ ChainAt(p) /\ Delivers
      BY <2>3 DEF IInv, LinkTypes, Chains, Relay
    <3>2. \A q \in queued : q \in queued' \/ requests[q] = None \/ requests[q].peer = p
      BY <1>1, <2>1
    <3>3. CASE Usable(p)
      <4>1. PICK s : s = outbound[p]
        OBVIOUS
      <4>2. s \in Link /\ links[s] # None /\ links[s].peer = p
        BY <3>1, <3>3, <4>1 DEF Usable, ChainAt, IInv, LinkTypes
      <4>3. Local(outbound[p])
        BY <1>4, <2>1, <2>3, <3>3 DEF StartRequest
      <4>4. Local(s)
        BY <4>1, <4>3
      <4>5. p \notin connecting
        BY <3>1, <3>3 DEF ChainAt
      <4>6. p \notin asked /\ p \notin again /\ Dialling(p) \subseteq {s}
        BY <3>1, <4>5 DEF ChainAt
      <4>7. QED
        BY <1>1, <1>2, <3>2, <4>2, <4>4, <4>6, LocalKeeps
    <3>4. CASE ~Usable(p) /\ ~LocalEnabled
      <4>1. p \notin connecting
        BY <3>1, <3>4 DEF ChainAt
      <4>2. Dialling(p) = {} /\ asked = asked \ {p} /\ again = again \ {p}
        BY <3>1, <4>1 DEF ChainAt
      <4>3. Remote(p, asked)
        BY <1>4, <2>1, <2>3, <3>4 DEF StartRequest
      <4>4. Remote(p, asked \ {p})
        BY <4>2, <4>3
      <4>5. QED
        BY <1>1, <1>2, <2>3, <3>1, <3>2, <4>2, <4>4, RemoteKeeps
    <3>5. CASE ~Usable(p) /\ LocalEnabled
      <4>1. /\ connecting' = connecting \cup {p}
            /\ asked' = IF p \notin connecting /\ relay = "connected" THEN asked \cup {p} ELSE asked
            /\ UNCHANGED <<links, outbound, attempts>>
            /\ UNCHANGED relayVars /\ UNCHANGED callVars
        BY <1>4, <2>1, <2>3, <3>5 DEF StartRequest
      <4>2. \A q \in queued : q \in queued' \/ requests[q].peer = p
        BY <1>1, <2>1
      <4>3. QED
        BY <1>1, <1>2, <2>3, <3>1, <3>5, <4>1, <4>2, AskKeeps
    <3>6. QED
      BY <3>3, <3>4, <3>5
  <2>4. QED
    BY <2>2, <2>3
<1>5. QED
  BY <1>3, <1>4

-----------------------------------------------------------------------------
(* The end of a request *)

\* The links of S are lost, and with them the requests they carry and those of R.
LEMMA LoseKeeps ==
  ASSUME IInv, NEW S \in SUBSET Links, NEW R \in SUBSET Ids, Lose(S, R),
         UNCHANGED <<ready, retry, relay>>, directory' \in SUBSET Host
  PROVE  IInv'
<1>1. /\ links' = [s \in Link |-> IF s \in S THEN None ELSE links[s]]
      /\ outbound' = [p \in Host |-> IF outbound[p] \in S THEN None ELSE outbound[p]]
      /\ again' = again \cup Retried(S)
      /\ Finish(R \cup On(S))
      /\ UNCHANGED <<running, fatal, asked, queued, late, attempts, connecting, sent>>
  BY DEF Lose, Carried
<1>2. /\ links \in [Link -> LinkState \cup {None}]
      /\ outbound \in [Host -> Link \cup {None}]
      /\ \A s \in S : s \in Link /\ links[s] # None /\ links[s] \in LinkState
  BY DEF IInv, LinkTypes, Links
<1>3. Flags' /\ Relay'
  BY <1>1, RelaySame
<1>4. ASSUME NEW p
      PROVE  p \in Retried(S) <=> \E s \in S : s \in Dialling(p)
  BY <1>2 DEF Retried, Dialling, Links
<1>5. LinkTypes'
  <2>1. Retried(S) \subseteq Host
    BY <1>2 DEF Retried, LinkState
  <2>2. links' \in [Link -> LinkState \cup {None}]
    BY <1>1, <1>2
  <2>3. outbound' \in [Host -> Link \cup {None}]
    BY <1>1, <1>2
  <2>4. QED
    BY <1>1, <2>1, <2>2, <2>3 DEF IInv, LinkTypes
<1>6. ASSUME NEW p \in Host PROVE ChainAt(p)'
  <2>1. ChainAt(p)
    BY DEF IInv, Chains
  <2>2. \A s \in Link : s \in Dialling(p)' <=> s \in Dialling(p) /\ s \notin S
    BY <1>1 DEF Dialling, Links
  <2>3. Dialling(p)' = Dialling(p) \ S
    BY <2>2 DEF Dialling, Links
  <2>4. p \in again' <=> p \in again \/ \E s \in S : s \in Dialling(p)
    BY <1>1, <1>4
  <2>5. outbound'[p] = outbound[p] \/ outbound'[p] = None
    BY <1>1
  <2>6. outbound'[p] # None => links'[outbound'[p]] = links[outbound[p]] /\ outbound'[p] = outbound[p]
    BY <1>1, <1>2
  <2>7. Usable(p)' => Usable(p)
    BY <2>6 DEF Usable
  <2>8. outbound'[p] # None => links'[outbound'[p]] # None /\ links'[outbound'[p]].peer = p
    BY <2>1, <2>6 DEF ChainAt
  <2>9. CASE Dialling(p) \cap S = {}
    <3>1. Dialling(p)' = Dialling(p) /\ (p \in again' <=> p \in again)
      BY <2>3, <2>4, <2>9
    <3>2. QED
      BY <1>1, <2>1, <2>7, <2>8, <3>1 DEF ChainAt, Delivers
  <2>10. CASE Dialling(p) \cap S # {}
    <3>1. p \in connecting
      BY <2>1, <2>10 DEF ChainAt
    <3>2. Dialling(p)' = {} /\ p \in again' /\ p \notin asked
      BY <2>1, <2>3, <2>4, <2>10, <3>1 DEF ChainAt
    <3>3. QED
      BY <1>1, <2>1, <2>7, <2>8, <3>1, <3>2 DEF ChainAt, Delivers
  <2>11. QED
    BY <2>9, <2>10
<1>7. Calls' /\ \A r \in Req : requests'[r] = IF r \in R \cup On(S) THEN None ELSE requests[r]
  <2>1. R \cup On(S) \subseteq Ids /\ queued' \in SUBSET Req
    BY <1>1 DEF On, IInv, Calls, CallTypes
  <2>2. QED
    BY <1>1, <2>1, FinishCalls DEF IInv
<1>8. ASSUME ~Midway, NEW r \in Req PROVE PlacedAt(r)'
  <2>1. PlacedAt(r)
    BY <1>8 DEF IInv, Placed
  <2>2. CASE r \in R \cup On(S)
    BY <1>7, <2>2 DEF PlacedAt
  <2>3. CASE r \notin R \cup On(S)
    <3>1. requests'[r] = requests[r]
      BY <1>7, <2>3
    <3>2. requests[r] # None => requests[r].socket \notin S
      BY <2>3 DEF On, Ids
    <3>3. \A t \in Links : t \notin S => t \in Links' /\ links'[t] = links[t]
      BY <1>1 DEF Links
    <3>4. QED
      BY <1>1, <2>1, <3>1, <3>2, <3>3 DEF PlacedAt, Delivers
  <2>4. QED
    BY <2>2, <2>3
<1>9. QED
  BY <1>3, <1>5, <1>6, <1>7, <1>8 DEF IInv, Chains, Placed

LEMMA LossKeeps ==
  ASSUME IInv, Sweep \/ (\E s \in Link : LinkLost(s)) \/ \E D \in SUBSET Host : Peers(D)
  PROVE  IInv'
<1>1. directory \in SUBSET Host
  BY DEF IInv, LinkTypes
<1>2. CASE Sweep
  <2>1. Lose({s \in Links : Expired(s)}, {r \in Ids : Late(r)}) /\ UNCHANGED relayVars
    BY <1>2 DEF Sweep
  <2>2. PICK S \in SUBSET Links, R \in SUBSET Ids :
          S = {s \in Links : Expired(s)} /\ R = {r \in Ids : Late(r)}
    OBVIOUS
  <2>3. Lose(S, R) /\ UNCHANGED <<ready, retry, relay, directory>>
    BY <2>1, <2>2 DEF relayVars
  <2>4. QED
    BY <1>1, <2>3, LoseKeeps
<1>3. ASSUME NEW s \in Link, LinkLost(s) PROVE IInv'
  <2>1. s \in Links /\ Lose({s}, {}) /\ UNCHANGED relayVars
    BY <1>3 DEF LinkLost
  <2>2. {s} \in SUBSET Links /\ {} \in SUBSET Ids /\ UNCHANGED <<ready, retry, relay, directory>>
    BY <2>1 DEF relayVars
  <2>3. QED
    BY <1>1, <2>1, <2>2, LoseKeeps
<1>4. ASSUME NEW D \in SUBSET Host, Peers(D) PROVE IInv'
  <2>1. /\ directory' = D /\ UNCHANGED <<ready, retry, relay>>
        /\ Lose({s \in Links : links[s].peer \notin D}, {})
    BY <1>4 DEF Peers
  <2>2. PICK S \in SUBSET Links : S = {s \in Links : links[s].peer \notin D}
    OBVIOUS
  <2>3. Lose(S, {}) /\ {} \in SUBSET Ids
    BY <2>1, <2>2
  <2>4. QED
    BY <2>1, <2>3, LoseKeeps
<1>5. QED
  BY <1>2, <1>3, <1>4

LEMMA ResponseKeeps ==
  ASSUME IInv, NEW r \in Req, Response(r) \/ \E s \in Link : LinkResponse(s, r)
  PROVE  IInv'
<1>1. /\ requests[r] # None /\ Finish({r})
      /\ UNCHANGED <<running, fatal, asked, queued, late, again, sent>>
      /\ UNCHANGED relayVars /\ UNCHANGED linkVars
  BY DEF Response, LinkResponse, On, Ids
<1>2. queued' \in SUBSET Req
  BY <1>1 DEF IInv, Calls, CallTypes
<1>3. QED
  BY <1>1, <1>2, FinishOneKeeps

LEMMA LinkClosingKeeps == ASSUME IInv, NEW s \in Link, LinkClosing(s) PROVE IInv'
<1>1. /\ links[s] # None /\ links' = [links EXCEPT ![s].open = FALSE]
      /\ UNCHANGED <<running, fatal, asked, queued, late, again, outbound, attempts, connecting>>
      /\ UNCHANGED <<ready, retry, relay, directory, requests, done, sent>>
  BY DEF LinkClosing, Links, relayVars, callVars
<1>2. links \in [Link -> LinkState \cup {None}] /\ links[s] \in LinkState
      /\ outbound \in [Host -> Link \cup {None}]
  BY <1>1 DEF IInv, LinkTypes
<1>3. /\ links'[s] = [links[s] EXCEPT !.open = FALSE] /\ links'[s] \in LinkState
      /\ \A t \in Link : t # s => links'[t] = links[t]
  <2>1. links'[s] = [links[s] EXCEPT !.open = FALSE]
    BY <1>1, <1>2
  <2>2. [links[s] EXCEPT !.open = FALSE] \in LinkState
    BY <1>2 DEF LinkState
  <2>3. QED
    BY <1>1, <1>2, <2>1, <2>2
<1>4. ASSUME NEW t \in Link
      PROVE  /\ links'[t] # None <=> links[t] # None
             /\ links[t] # None => /\ links'[t].peer = links[t].peer
                                   /\ links'[t].authenticated = links[t].authenticated
                                   /\ links'[t].expires = links[t].expires
  <2>1. links'[s] # None
    BY <1>3, AbsentAssumption
  <2>2. /\ links'[s].peer = links[s].peer /\ links'[s].authenticated = links[s].authenticated
        /\ links'[s].expires = links[s].expires
    BY <1>2, <1>3 DEF LinkState
  <2>3. QED
    BY <1>1, <1>3, <2>1, <2>2
<1>5. LinkTypes'
  <2>1. links' \in [Link -> LinkState \cup {None}]
    BY <1>1, <1>2, <1>3
  <2>2. QED
    BY <1>1, <2>1 DEF IInv, LinkTypes
<1>6. Flags' /\ Relay'
  BY <1>1, RelaySame
<1>7. ASSUME NEW p \in Host PROVE ChainAt(p)'
  <2>1. ChainAt(p) /\ outbound[p] \in Link \cup {None}
    BY <1>2 DEF IInv, Chains
  <2>2. \A t \in Link : t \in Dialling(p)' <=> t \in Dialling(p)
    BY <1>4 DEF Dialling, Links
  <2>3. Dialling(p)' = Dialling(p)
    BY <2>2 DEF Dialling, Links
  <2>4. Usable(p)' = Usable(p)
    BY <1>1, <1>4, <2>1 DEF Usable
  <2>5. outbound'[p] # None => links'[outbound'[p]] # None /\ links'[outbound'[p]].peer = p
    BY <1>1, <1>4, <2>1 DEF ChainAt
  <2>6. QED
    BY <1>1, <2>1, <2>3, <2>4, <2>5 DEF ChainAt, Delivers
<1>8. Calls'
  BY <1>1 DEF IInv, Calls, CallTypes, PlayedAt, OnceAt
<1>9. ASSUME ~Midway, NEW r \in Req PROVE PlacedAt(r)'
  <2>1. PlacedAt(r)
    BY <1>9 DEF IInv, Placed
  <2>2. ASSUME NEW s0 \in Links
        PROVE  /\ s0 \in Links' /\ links'[s0].peer = links[s0].peer
               /\ links'[s0].authenticated = links[s0].authenticated
    BY <1>4 DEF Links
  <2>3. QED
    BY <1>1, <2>1, <2>2 DEF PlacedAt, Delivers
<1>10. QED
  BY <1>5, <1>6, <1>7, <1>8, <1>9 DEF IInv, Chains, Placed

-----------------------------------------------------------------------------
(* Requests, and time *)

\* Nothing but the table of requests and the queues of requests changes, and
\* no request that is there loses its place.
LEMMA CallsOnly ==
  ASSUME IInv, Calls', UNCHANGED <<running, fatal, asked, again>>,
         UNCHANGED relayVars, UNCHANGED linkVars, queued \subseteq queued',
         \A r \in Req : requests'[r] = requests[r] \/ PlacedAt(r)'
  PROVE  IInv'
<1>1. UNCHANGED <<ready, retry, relay, directory, links, outbound, attempts, connecting>>
  BY DEF relayVars, linkVars
<1>2. LinkTypes' /\ Flags' /\ Relay'
  BY <1>1, RelaySame DEF IInv, LinkTypes
<1>3. ASSUME NEW q \in Host PROVE ChainAt(q)'
  <2>1. SameChain(q)
    BY <1>1 DEF SameChain
  <2>2. QED
    BY <1>1, <2>1, SameChainKeeps
<1>4. ASSUME ~Midway, NEW r \in Req PROVE PlacedAt(r)'
  <2>1. PlacedAt(r)
    BY <1>4 DEF IInv, Placed
  <2>2. CASE requests'[r] = requests[r]
    BY <1>1, <2>1, <2>2 DEF PlacedAt, Links, Delivers
  <2>3. QED
    BY <2>2
<1>5. QED
  BY <1>2, <1>3, <1>4 DEF IInv, Chains, Placed

LEMMA RequestKeeps ==
  ASSUME IInv, NEW r \in Req, RequestRefused(r) \/ Busy(r) \/ \E p \in Host : Request(r, p)
  PROVE  IInv'
<1>1. Calls /\ CallTypes /\ done \in [Req -> 0..3]
  BY DEF IInv, Calls, CallTypes
<1>2. CASE RequestRefused(r)
  <2>1. /\ requests[r] = None /\ done[r] = 0 /\ late' = late \cup {r}
        /\ UNCHANGED <<running, fatal, asked, queued, again, requests, done, sent>>
        /\ UNCHANGED relayVars /\ UNCHANGED linkVars
    BY <1>2 DEF RequestRefused
  <2>2. CallTypes'
    BY <1>1, <2>1 DEF CallTypes
  <2>3. ASSUME NEW q \in Req PROVE PlayedAt(q)' /\ (~Midway => OnceAt(q)')
    <3>1. PlayedAt(q)' /\ (~Midway => OnceAt(q))
      BY <1>1, <2>1 DEF Calls, PlayedAt
    <3>2. done[r] # 1
      BY <2>1
    <3>3. QED
      BY <2>1, <3>1, <3>2 DEF OnceAt
  <2>4. QED
    BY <2>1, <2>2, <2>3, CallsOnly DEF Calls
<1>3. CASE Busy(r)
  <2>1. /\ r \in late /\ late' = late \ {r} /\ done' = Done({r}, done)
        /\ UNCHANGED <<running, fatal, asked, queued, again, requests, sent>>
        /\ UNCHANGED relayVars /\ UNCHANGED linkVars
    BY <1>3 DEF Busy
  <2>2. /\ done' \in [Req -> 0..3]
        /\ \A q \in Req : q # r => done'[q] = done[q]
        /\ done'[r] # 0 /\ (done[r] = 0 => done'[r] = 1)
    BY <1>1, <2>1, DoneFacts
  <2>3. CallTypes'
    BY <1>1, <2>1, <2>2 DEF CallTypes
  <2>4. ASSUME NEW q \in Req PROVE PlayedAt(q)' /\ (~Midway => OnceAt(q)')
    <3>1. CASE q # r
      BY <1>1, <2>1, <2>2, <3>1 DEF Calls, PlayedAt, OnceAt
    <3>2. CASE q = r
      BY <1>1, <2>1, <2>2, <3>2 DEF Calls, PlayedAt, OnceAt
    <3>3. QED
      BY <3>1, <3>2
  <2>5. QED
    BY <2>1, <2>3, <2>4, CallsOnly DEF Calls
<1>4. ASSUME NEW p \in Host, Request(r, p) PROVE IInv'
  <2> DEFINE new == [Zombie EXCEPT !.peer = p, !.left = RequestTicks]
  <2>1. /\ requests[r] = None /\ done[r] = 0 /\ r \notin late
        /\ requests' = [requests EXCEPT ![r] = new] /\ queued' = queued \cup {r}
        /\ UNCHANGED <<running, fatal, asked, again, late, done, sent>>
        /\ UNCHANGED relayVars /\ UNCHANGED linkVars
    BY <1>4 DEF Request
  <2>2. new \in Pending /\ new.transport = ""
    <3>1. RequestTicks \in 0..RequestTicks
      BY LimitAssumption
    <3>2. QED
      BY <3>1 DEF Zombie, Pending
  <2> HIDE DEF new
  <2>3. requests' \in [Req -> Pending \cup {None}] /\ requests'[r] = new
        /\ \A q \in Req : q # r => requests'[q] = requests[q]
    BY <1>1, <2>1, <2>2 DEF CallTypes
  <2>4. CallTypes'
    BY <1>1, <2>1, <2>3 DEF CallTypes
  <2>5. ASSUME NEW q \in Req PROVE PlayedAt(q)' /\ (~Midway => OnceAt(q)')
    <3>1. CASE q # r
      BY <1>1, <2>1, <2>3, <3>1 DEF Calls, PlayedAt, OnceAt
    <3>2. CASE q = r
      <4>1. sent'[r] = 0
        BY <1>1, <2>1 DEF Calls, PlayedAt
      <4>2. done'[r] = 0 /\ done'[r] # 1 /\ r \notin late'
        BY <2>1
      <4>3. QED
        BY <3>2, <4>1, <4>2 DEF PlayedAt, OnceAt
    <3>3. QED
      BY <3>1, <3>2
  <2>6. PlacedAt(r)'
    BY <2>1, <2>2, <2>3 DEF PlacedAt
  <2>7. \A q \in Req : requests'[q] = requests[q] \/ PlacedAt(q)'
    BY <2>3, <2>6
  <2>8. QED
    BY <2>1, <2>4, <2>5, <2>7, CallsOnly DEF Calls
<1>5. QED
  BY <1>2, <1>3, <1>4

LEMMA DecFacts == ASSUME NEW m \in Nat, NEW n \in 0..m PROVE Dec(n) \in 0..m /\ (Dec(n) > 0 => n > 0)
  BY DEF Dec

LEMMA TickKeeps == ASSUME IInv, Tick PROVE IInv'
<1>1. /\ requests' = [r \in Req |-> IF requests[r] = None THEN None
                                    ELSE [requests[r] EXCEPT !.left = Dec(@)]]
      /\ links' = [s \in Link |-> IF links[s] = None THEN None
                     ELSE [links[s] EXCEPT !.expires = Dec(@), !.deadline = Dec(@)]]
      /\ attempts' = [p \in Host |-> IF attempts[p] = None THEN None
                                     ELSE [attempts[p] EXCEPT !.left = Dec(@)]]
      /\ UNCHANGED <<running, fatal, asked, queued, late, again, outbound, connecting, done, sent>>
      /\ UNCHANGED <<ready, retry, relay, directory>>
  BY DEF Tick, relayVars
<1>2. /\ LinkTypes /\ CallTypes /\ links \in [Link -> LinkState \cup {None}]
      /\ requests \in [Req -> Pending \cup {None}] /\ attempts \in [Host -> Attempt \cup {None}]
      /\ outbound \in [Host -> Link \cup {None}]
  BY DEF IInv, LinkTypes, Calls, CallTypes
<1>3. ASSUME NEW x \in Pending
      PROVE  LET y == [x EXCEPT !.left = Dec(@)]
             IN  y \in Pending /\ y.peer = x.peer /\ y.transport = x.transport /\ y.socket = x.socket
  <2>1. Dec(x.left) \in 0..RequestTicks
    BY DecFacts, LimitAssumption DEF Pending
  <2>2. QED
    BY <2>1 DEF Pending
<1>4. ASSUME NEW x \in LinkState
      PROVE  LET y == [x EXCEPT !.expires = Dec(@), !.deadline = Dec(@)]
             IN  y \in LinkState /\ y.peer = x.peer /\ y.authenticated = x.authenticated
                 /\ (y.expires > 0 => x.expires > 0)
  <2>1. Dec(x.expires) \in 0..TicketTicks /\ (Dec(x.expires) > 0 => x.expires > 0)
    BY DecFacts, LimitAssumption DEF LinkState
  <2>2. Dec(x.deadline) \in 0..LocalTicks
    BY DecFacts, LimitAssumption DEF LinkState
  <2>3. QED
    BY <2>1, <2>2 DEF LinkState
<1>5. ASSUME NEW x \in Attempt PROVE [x EXCEPT !.left = Dec(@)] \in Attempt
  <2>1. Dec(x.left) \in 0..TicketTicks
    BY DecFacts, LimitAssumption DEF Attempt
  <2>2. QED
    BY <2>1 DEF Attempt
<1>6. ASSUME NEW r \in Req
      PROVE  /\ requests'[r] \in Pending \cup {None}
             /\ requests'[r] = None <=> requests[r] = None
             /\ requests[r] # None => /\ requests'[r].peer = requests[r].peer
                                      /\ requests'[r].transport = requests[r].transport
                                      /\ requests'[r].socket = requests[r].socket
  <2>1. CASE requests[r] = None
    BY <1>1, <2>1
  <2>2. CASE requests[r] # None
    <3>1. requests[r] \in Pending /\ requests'[r] = [requests[r] EXCEPT !.left = Dec(@)]
      BY <1>1, <1>2, <2>2
    <3>2. QED
      BY <1>3, <2>2, <3>1, AbsentAssumption
  <2>3. QED
    BY <2>1, <2>2
<1>7. ASSUME NEW s \in Link
      PROVE  /\ links'[s] \in LinkState \cup {None}
             /\ links'[s] = None <=> links[s] = None
             /\ links[s] # None => /\ links'[s].peer = links[s].peer
                                   /\ links'[s].authenticated = links[s].authenticated
                                   /\ links'[s].expires > 0 => links[s].expires > 0
  <2>1. CASE links[s] = None
    BY <1>1, <2>1
  <2>2. CASE links[s] # None
    <3>1. links[s] \in LinkState
          /\ links'[s] = [links[s] EXCEPT !.expires = Dec(@), !.deadline = Dec(@)]
      BY <1>1, <1>2, <2>2
    <3>2. QED
      BY <1>4, <2>2, <3>1, AbsentAssumption
  <2>3. QED
    BY <2>1, <2>2
<1>8. LinkTypes'
  <2>1. attempts' \in [Host -> Attempt \cup {None}]
    BY <1>1, <1>2, <1>5
  <2>2. links' \in [Link -> LinkState \cup {None}]
    BY <1>1, <1>7
  <2>3. QED
    BY <1>1, <1>2, <2>1, <2>2 DEF LinkTypes
<1>9. Flags' /\ Relay'
  BY <1>1, RelaySame
<1>10. ASSUME NEW p \in Host PROVE ChainAt(p)'
  <2>1. ChainAt(p) /\ outbound[p] \in Link \cup {None}
    BY <1>2 DEF IInv, Chains
  <2>2. \A s \in Link : s \in Dialling(p)' <=> s \in Dialling(p)
    BY <1>7 DEF Dialling, Links
  <2>3. Dialling(p)' = Dialling(p)
    BY <2>2 DEF Dialling, Links
  <2>4. Usable(p)' => Usable(p)
    BY <1>1, <1>7, <2>1 DEF Usable
  <2>5. outbound'[p] # None => links'[outbound'[p]] # None /\ links'[outbound'[p]].peer = p
    BY <1>1, <1>7, <2>1 DEF ChainAt
  <2>6. QED
    BY <1>1, <2>1, <2>3, <2>4, <2>5 DEF ChainAt, Delivers
<1>11. CallTypes'
  <2>1. requests' \in [Req -> Pending \cup {None}]
    BY <1>1, <1>6
  <2>2. QED
    BY <1>1, <1>2, <2>1 DEF CallTypes
<1>12. ASSUME NEW r \in Req PROVE PlayedAt(r)' /\ (~Midway => OnceAt(r)')
  <2>1. PlayedAt(r) /\ (~Midway => OnceAt(r))
    BY DEF IInv, Calls
  <2>2. PlayedAt(r)'
    BY <1>1, <1>6, <2>1 DEF PlayedAt
  <2>3. ~Midway => OnceAt(r)'
    BY <1>1, <1>6, <2>1 DEF OnceAt
  <2>4. QED
    BY <2>2, <2>3
<1>13. ASSUME ~Midway, NEW r \in Req PROVE PlacedAt(r)'
  <2>1. PlacedAt(r)
    BY <1>13 DEF IInv, Placed
  <2>2. ASSUME NEW s \in Links
        PROVE  /\ s \in Links' /\ links'[s].peer = links[s].peer
               /\ links'[s].authenticated = links[s].authenticated
    BY <1>7 DEF Links
  <2>3. requests[r] # None => /\ requests'[r].peer = requests[r].peer
                              /\ requests'[r].transport = requests[r].transport
                              /\ requests'[r].socket = requests[r].socket
    BY <1>6
  <2>4. CASE requests[r] = None
    BY <1>6, <2>4 DEF PlacedAt
  <2>5. CASE requests[r] # None
    <3>1. CASE requests[r].transport = "" /\ (r \in queued \/ requests[r].peer \in connecting)
      <4>1. requests'[r].transport = "" /\ requests'[r].peer = requests[r].peer
        BY <2>3, <2>5, <3>1
      <4>2. r \in queued' \/ requests'[r].peer \in connecting'
        <5>1. queued' = queued /\ connecting' = connecting
          BY <1>1
        <5>2. QED
          BY <3>1, <4>1, <5>1
      <4>3. QED
        BY <4>1, <4>2 DEF PlacedAt
    <3>2. CASE requests[r].transport = "remote" /\ ready /\ Delivers
      BY <1>1, <2>3, <2>5, <3>2 DEF PlacedAt, Delivers
    <3>3. CASE /\ requests[r].transport = "local" /\ requests[r].socket \in Links
               /\ links[requests[r].socket].authenticated
               /\ links[requests[r].socket].peer = requests[r].peer
      <4>1. PICK s \in Links : s = requests[r].socket
        BY <3>3
      <4>2. requests'[r].socket = s /\ requests'[r].transport = "local" /\ requests'[r].peer = links'[s].peer
            /\ s \in Links' /\ links'[s].authenticated
        BY <2>2, <2>3, <2>5, <3>3, <4>1
      <4>3. QED
        BY <4>2 DEF PlacedAt
    <3>4. QED
      BY <2>1, <2>5, <3>1, <3>2, <3>3 DEF PlacedAt
  <2>6. QED
    BY <2>4, <2>5
<1>14. QED
  BY <1>8, <1>9, <1>10, <1>11, <1>12, <1>13 DEF IInv, Chains, Calls, Placed

-----------------------------------------------------------------------------
(* The theorems *)

LEMMA InvInit == Init => IInv
<1> SUFFICES ASSUME Init PROVE IInv
  OBVIOUS
<1>1. Flags /\ Relay
  BY DEF Init, Flags, Relay, Redials
<1>2. LinkTypes
  BY DEF Init, LinkTypes
<1>3. ASSUME NEW p \in Host PROVE ChainAt(p)
  <2>1. Dialling(p) = {}
    BY DEF Init, Dialling, Links
  <2>2. p \notin connecting /\ p \notin asked /\ p \notin again /\ outbound[p] = None
    BY DEF Init
  <2>3. QED
    BY <2>1, <2>2 DEF ChainAt
<1>4. CallTypes
  <2>1. 0 \in 0..3
    OBVIOUS
  <2>2. QED
    BY <2>1 DEF Init, CallTypes
<1>5. ASSUME NEW r \in Req PROVE PlayedAt(r) /\ OnceAt(r) /\ PlacedAt(r)
  BY DEF Init, PlayedAt, OnceAt, PlacedAt
<1>6. QED
  BY <1>1, <1>2, <1>3, <1>4, <1>5 DEF IInv, Chains, Calls, Placed

LEMMA InvNext == IInv /\ [Next]_vars => IInv'
<1> SUFFICES ASSUME IInv, [Next]_vars PROVE IInv'
  OBVIOUS
<1>1. CASE Start \/ Stop
  BY <1>1, StartKeeps, StopKeeps
<1>2. CASE Retry \/ RelayConnected \/ RelayClosing \/ Registered \/ Refused
  BY <1>2, RelayStepKeeps
<1>3. CASE RelayLost
  BY <1>3, RelayLostKeeps
<1>4. CASE Sweep \/ (\E s \in Link : LinkLost(s)) \/ \E D \in SUBSET Host : Peers(D)
  BY <1>4, LossKeeps
<1>5. CASE \E p \in Host, n \in 0..MaxUrls, d \in 0..TicketTicks : Connect(p, n, d)
  BY <1>5, ConnectKeeps
<1>6. CASE \E p \in Host : nextLocal(p)
  BY <1>6, nextLocalKeeps
<1>7. CASE \E r \in Req : RequestRefused(r) \/ Busy(r) \/ \E p \in Host : Request(r, p)
  BY <1>7, RequestKeeps
<1>8. CASE \E r \in Req : StartRequest(r)
  BY <1>8, StartRequestKeeps
<1>9. CASE \E r \in Req : Response(r) \/ \E s \in Link : LinkResponse(s, r)
  BY <1>9, ResponseKeeps
<1>10. CASE \E s \in Link : Hello(s)
  BY <1>10, HelloKeeps
<1>11. CASE \E s \in Link : LinkClosing(s)
  BY <1>11, LinkClosingKeeps
<1>12. CASE SweepStopped
  BY <1>12, SweepStoppedKeeps
<1>13. CASE Tick
  BY <1>13, TickKeeps
<1>14. CASE UNCHANGED vars
  <2>1. UNCHANGED relayVars /\ UNCHANGED linkVars /\ UNCHANGED <<asked, requests, done, sent>>
        /\ UNCHANGED <<running, fatal, late, again, queued>>
    BY <1>14 DEF vars, callVars
  <2>2. QED
    BY <2>1, QueuesKeep
<1>15. QED
  BY <1>1, <1>2, <1>3, <1>4, <1>5, <1>6, <1>7, <1>8, <1>9, <1>10, <1>11, <1>12, <1>13, <1>14
     DEF Next, LinkStep

LEMMA Invariant == Spec => []IInv
<1>1. QED
  BY InvInit, InvNext, PTL DEF Spec

\* A request is transmitted at most once, over one transport, even when the
\* application re-enters the peer in the middle of a loop over the requests:
\* remote() and local() send only what has no transport yet, and record the
\* transport before they send (Peer.cpp:72-74, 82-84).
THEOREM TransmittedOnce == Spec => []NeverReplayed
<1>1. IInv => NeverReplayed
  <2>1. \A n \in {0, 1} : n <= 1
    OBVIOUS
  <2>2. QED
    BY <2>1 DEF IInv, Calls, CallTypes, NeverReplayed
<1>2. QED
  BY <1>1, Invariant, PTL

\* A running peer that has lost the relay is waiting to dial it again unless
\* the relay refused it, and it dials only then, in any order of stop(),
\* errors and the relay's end (Peer.cpp:51-53).
THEOREM RelayRedialled == Spec => []Redials
<1>1. IInv => Redials
  BY DEF IInv, Relay
<1>2. QED
  BY <1>1, Invariant, PTL

LEMMA ChainCounted == ASSUME IInv PROVE OneChain
<1> SUFFICES ASSUME NEW p \in Host
             PROVE  LET chains == Cardinality(Dialling(p)) + (IF Unanswered(p) THEN 1 ELSE 0)
                                  + (IF p \in again THEN 1 ELSE 0)
                    IN  IF p \in connecting
                        THEN chains = 1 \/ (relay = "closing" /\ chains = 0)
                        ELSE Dialling(p) = {} /\ ~Unanswered(p)
  BY DEF OneChain
<1>1. ChainAt(p)
  BY DEF IInv, Chains
<1>2. CASE p \notin connecting
  BY <1>1, <1>2 DEF ChainAt, Unanswered
<1>3. CASE p \in connecting
  <2>1. CASE Dialling(p) = {}
    <3>1. Cardinality(Dialling(p)) = 0
      BY <2>1, FS_EmptySet
    <3>2. p \in asked => p \notin again
      BY <1>1, <1>3 DEF ChainAt
    <3>3. p \in asked \/ p \in again \/ relay = "closing"
      BY <1>1, <1>3, <2>1 DEF ChainAt
    <3>4. QED
      BY <1>3, <3>1, <3>2, <3>3 DEF Unanswered
  <2>2. CASE Dialling(p) # {}
    <3>1. PICK s : Dialling(p) = {s}
      BY <1>1, <1>3, <2>2 DEF ChainAt
    <3>2. Cardinality(Dialling(p)) = 1
      BY <3>1, FS_Singleton
    <3>3. p \notin asked /\ p \notin again
      BY <1>1, <1>3, <2>2 DEF ChainAt
    <3>4. QED
      BY <1>3, <3>2, <3>3 DEF Unanswered
  <2>3. QED
    BY <2>1, <2>2
<1>4. QED
  BY <1>2, <1>3

\* A host that is being connected has one chain of attempts and any other
\* host none, also when the application re-enters the peer in the middle of a
\* loop over the requests (Peer.cpp:96-99, 122-128, 149).
THEOREM ChainsAreSingle == Spec => []OneChain
<1>1. IInv => OneChain
  BY ChainCounted
<1>2. QED
  BY <1>1, Invariant, PTL

\* Unless a re-entrant call strikes while a loop over the requests still has
\* keys to visit, a request is completed once, and until then somebody answers
\* for it: a queued start, the one chain of attempts of its host, the relay's
\* connection or the link that carries it (Peer.cpp:46, 64-68, 96-99, 122-128,
\* 148).
THEOREM RequestsHaveAnOwner == ASSUME ~Midway PROVE Spec => []NobodyForgotten
<1>1. ASSUME IInv PROVE NobodyForgotten
  <2>1. TypeOK
    <3>1. sent \in [Req -> 0..2]
      <4>1. {0, 1} \subseteq 0..2
        OBVIOUS
      <4>2. QED
        BY <1>1, <4>1 DEF IInv, Calls, CallTypes
    <3>2. QED
      BY <1>1, <3>1 DEF IInv, Flags, LinkTypes, Calls, CallTypes, TypeOK
  <2>2. CompletedOnce
    <3>1. \A n \in {0, 1} : n <= 1
      OBVIOUS
    <3>2. QED
      BY <1>1, <3>1 DEF IInv, Calls, OnceAt, CompletedOnce
  <2>3. OneChain
    BY <1>1, ChainCounted
  <2>4. \A r \in Ids : PlacedAt(r) /\ requests[r] # None
    BY <1>1 DEF IInv, Placed, Ids
  <2>5. QED
    BY <2>1, <2>2, <2>3, <2>4 DEF NobodyForgotten, PlacedAt
<1>2. QED
  BY <1>1, Invariant, PTL

-----------------------------------------------------------------------------
(* The contract of jobs *)

\* A step that completes the requests S and leaves every other in its place.
Completes(S) ==
  /\ S \subseteq Ids \cup late
  /\ \A r \in S : done'[r] = 1
  /\ \A r \in Req \ S : /\ done'[r] = done[r]
                        /\ requests'[r] = None <=> requests[r] = None
                        /\ r \in late' <=> r \in late

CompletesSome == \E S : Completes(S)

\* What is pending has not been completed.
LEMMA NotYet ==
  ASSUME IInv, ~Midway
  PROVE  \A r \in Ids \cup late : r \in Req /\ done[r] = 0
<1> SUFFICES ASSUME NEW r \in Ids \cup late PROVE r \in Req /\ done[r] = 0
  OBVIOUS
<1>1. r \in Req
  BY DEF Ids, IInv, Calls, CallTypes
<1>2. OnceAt(r)
  BY <1>1 DEF IInv, Calls
<1>3. done[r] # 1
  BY <1>1, <1>2 DEF OnceAt, Ids
<1>4. QED
  BY <1>1, <1>2, <1>3 DEF OnceAt

\* The requests R are completed and taken from their places.
LEMMA CompletesAll ==
  ASSUME IInv, ~Midway, NEW R, R \subseteq Ids \cup late, done' = Done(R, done),
         \A r \in Req \ R : (requests'[r] = None <=> requests[r] = None) /\ (r \in late' <=> r \in late)
  PROVE  CompletesSome
<1>1. \A r \in R : r \in Req /\ done[r] = 0
  BY NotYet
<1>2. done \in [Req -> 0..3]
  BY DEF IInv, Calls, CallTypes
<1>3. /\ \A r \in Req : r \notin R => done'[r] = done[r]
      /\ \A r \in Req : r \in R => (done[r] = 0 => done'[r] = 1)
  BY <1>2, DoneFacts
<1>4. Completes(R)
  BY <1>1, <1>3 DEF Completes
<1>5. QED
  BY <1>4 DEF CompletesSome

LEMMA FinishCompletes ==
  ASSUME IInv, ~Midway, NEW R, R \subseteq Ids, Finish(R), UNCHANGED late
  PROVE  CompletesSome
<1>1. done' = Done(R, done) /\ \A r \in Req \ R : requests'[r] = requests[r]
  BY DEF Finish
<1>2. QED
  BY <1>1, CompletesAll

\* A step that completes nothing.
LEMMA NoneCompletes ==
  ASSUME UNCHANGED <<done, late>>,
         \A r \in Req : requests'[r] = None <=> requests[r] = None
  PROVE  CompletesSome
<1>1. Completes({})
  BY DEF Completes
<1>2. QED
  BY <1>1 DEF CompletesSome

LEMMA AssignCompletes ==
  ASSUME IInv, NEW R, R \subseteq Ids, NEW t \in {"local", "remote"}, NEW s \in Link \cup {None},
         requests' = Assigned(R, t, s), UNCHANGED <<done, late>>
  PROVE  CompletesSome
<1>1. requests' = [r \in Req |-> IF r \in R THEN [requests[r] EXCEPT !.transport = t, !.socket = s]
                                 ELSE requests[r]]
  BY DEF Assigned
<1>2. ASSUME NEW r \in Req PROVE requests'[r] = None <=> requests[r] = None
  <2>1. CASE r \in R
    <3>1. requests[r] \in Pending /\ requests[r] # None
      BY <2>1 DEF IInv, Calls, CallTypes, Ids
    <3>2. requests'[r] = [requests[r] EXCEPT !.transport = t, !.socket = s]
      BY <1>1, <2>1
    <3>3. requests'[r] \in Pending
      BY <3>1, <3>2 DEF Pending
    <3>4. QED
      BY <3>1, <3>3, AbsentAssumption
  <2>2. CASE r \notin R
    BY <1>1, <2>2
  <2>3. QED
    BY <2>1, <2>2
<1>3. QED
  BY <1>2, NoneCompletes

LEMMA RemoteCompletes ==
  ASSUME IInv, ~Midway, NEW p, NEW a, Remote(p, a), UNCHANGED late
  PROVE  CompletesSome
<1>1. Waiting(p) \subseteq Ids
  BY DEF Waiting
<1>2. CASE requests' = Assigned(Waiting(p), "remote", None) /\ UNCHANGED done
  BY <1>1, <1>2, AssignCompletes
<1>3. CASE Finish(Waiting(p))
  BY <1>1, <1>3, FinishCompletes
<1>4. ASSUME NEW Z \in Unvisited(Ids), requests' = Emptied(Z), done' = Done(Ids, done)
      PROVE  CompletesSome
  <2>1. \A r \in Req : requests'[r] = None
    BY <1>4 DEF Unvisited, Emptied
  <2>2. \A r \in Req \ Ids : requests[r] = None
    BY DEF Ids
  <2>3. QED
    BY <1>4, <2>1, <2>2, CompletesAll
<1>5. QED
  BY <1>2, <1>3, <1>4 DEF Remote

LEMMA LocalCompletes ==
  ASSUME IInv, ~Midway, NEW s \in Link, Local(s), UNCHANGED late
  PROVE  CompletesSome
<1>1. PICK W : W = Waiting(links[s].peer) /\ W \subseteq Ids /\ On({s}) \subseteq Ids
  BY DEF Waiting, On
<1>2. CASE requests' = Assigned(W, "local", s) /\ UNCHANGED done
  BY <1>1, <1>2, AssignCompletes
<1>3. CASE Finish(W)
  BY <1>1, <1>3, FinishCompletes
<1>4. ASSUME NEW Z \in Unvisited(On({s})),
             requests' = [r \in Req |-> IF r \in Z THEN Zombie
                                        ELSE IF r \in W \cup On({s}) THEN None
                                        ELSE requests[r]],
             done' = Done(W \cup On({s}), done)
      PROVE  CompletesSome
  <2>1. Z = {}
    BY <1>4 DEF Unvisited
  <2>2. \A r \in Req \ (W \cup On({s})) : requests'[r] = requests[r]
    BY <1>4, <2>1
  <2>3. QED
    BY <1>1, <1>4, <2>2, CompletesAll
<1>5. PICK p : p = links[s].peer
  OBVIOUS
<1>6. LocalTo(s, p) /\ W = Waiting(p)
  <2>1. LocalTo(s, links[s].peer)
    BY DEF Local, LocalTo
  <2>2. QED
    BY <1>1, <1>5, <2>1
<1>7. QED
  BY <1>2, <1>3, <1>4, <1>6 DEF LocalTo

LEMMA TryCompletes ==
  ASSUME IInv, ~Midway, NEW p, NEW att, NEW a, Try(p, att, a), UNCHANGED late
  PROVE  CompletesSome
<1>1. CASE Remote(p, a)
  BY <1>1, RemoteCompletes
<1>2. CASE UNCHANGED <<requests, done>>
  BY <1>2, NoneCompletes
<1>3. QED
  BY <1>1, <1>2 DEF Try, callVars

LEMMA StartRequestCompletes ==
  ASSUME IInv, ~Midway, NEW r \in Req, StartRequest(r)
  PROVE  CompletesSome
<1>1. UNCHANGED late
  BY DEF StartRequest
<1>2. CASE UNCHANGED <<requests, done>>
  BY <1>1, <1>2, NoneCompletes
<1>3. CASE requests[r] # None /\ Finish({r})
  <2>1. {r} \subseteq Ids
    BY <1>3 DEF Ids
  <2>2. QED
    BY <1>1, <1>3, <2>1, FinishCompletes
<1>4. ASSUME NEW p, Usable(p), Local(outbound[p]), p = requests[r].peer, p \in directory
      PROVE  CompletesSome
  <2>1. p \in Host /\ outbound[p] # None
    BY <1>4 DEF Usable, IInv, LinkTypes
  <2>2. PICK s \in Link : s = outbound[p]
    BY <2>1 DEF IInv, LinkTypes
  <2>3. Local(s)
    BY <1>4, <2>2
  <2>4. QED
    BY <1>1, <2>3, LocalCompletes
<1>5. ASSUME NEW p, Remote(p, asked) PROVE CompletesSome
  BY <1>1, <1>5, RemoteCompletes
<1>6. QED
  BY <1>2, <1>3, <1>4, <1>5 DEF StartRequest, callVars

\* Steps that end requests with a link, with the relay or by their timeout.
LEMMA LossCompletes ==
  ASSUME IInv, ~Midway, NEW S, NEW R, R \subseteq Ids, Lose(S, R)
  PROVE  CompletesSome
<1>1. Finish(R \cup On(S)) /\ UNCHANGED late
  BY DEF Lose, Carried
<1>2. R \cup On(S) \subseteq Ids
  BY DEF On
<1>3. QED
  BY <1>1, <1>2, FinishCompletes

LEMMA SweepStoppedCompletes ==
  ASSUME IInv, ~Midway, SweepStopped
  PROVE  CompletesSome
<1>1. PICK Z \in Unvisited(Ids) : done' = Done(Z, Done(Ids, done)) /\ Z = {}
  BY DEF SweepStopped, Unvisited
<1>2. requests' = Emptied({}) /\ UNCHANGED late
  BY DEF SweepStopped
<1>3. done \in [Req -> 0..3]
  BY DEF IInv, Calls, CallTypes
<1>4. Done(Ids, done) \in [Req -> 0..3]
  BY <1>3, DoneFacts
<1>5. /\ done' \in [Req -> 0..3]
      /\ \A r \in Req : r \notin {} => done'[r] = Done(Ids, done)[r]
  BY <1>1, <1>4, DoneFacts
<1>6. done' = Done(Ids, done)
  BY <1>4, <1>5
<1>7. \A r \in Req : requests'[r] = None
  BY <1>2 DEF Emptied
<1>8. \A r \in Req \ Ids : requests[r] = None
  BY DEF Ids
<1>9. QED
  BY <1>2, <1>6, <1>7, <1>8, CompletesAll

LEMMA TickCompletes == ASSUME IInv, Tick PROVE CompletesSome
<1>1. /\ requests' = [r \in Req |-> IF requests[r] = None THEN None
                                    ELSE [requests[r] EXCEPT !.left = Dec(@)]]
      /\ UNCHANGED <<done, late>>
  BY DEF Tick
<1>2. ASSUME NEW r \in Req PROVE requests'[r] = None <=> requests[r] = None
  <2>1. CASE requests[r] = None
    BY <1>1, <2>1
  <2>2. CASE requests[r] # None
    <3>1. requests[r] \in Pending
      BY <2>2 DEF IInv, Calls, CallTypes
    <3>2. requests'[r] = [requests[r] EXCEPT !.left = Dec(@)]
      BY <1>1, <2>2
    <3>3. Dec(requests[r].left) \in 0..RequestTicks
      BY <3>1, DecFacts, LimitAssumption DEF Pending
    <3>4. requests'[r] \in Pending
      BY <3>1, <3>2, <3>3 DEF Pending
    <3>5. QED
      BY <2>2, <3>4, AbsentAssumption
  <2>3. QED
    BY <2>1, <2>2
<1>3. QED
  BY <1>1, <1>2, NoneCompletes

\* Every step that is not a request() completes some requests, or none.
LEMMA StepCompletes ==
  ASSUME IInv, ~Midway, [Next]_vars,
         ~ \E r \in Req : RequestRefused(r) \/ \E p \in Host : Request(r, p)
  PROVE  CompletesSome
<1>1. ASSUME UNCHANGED <<requests, done, late>> PROVE CompletesSome
  BY <1>1, NoneCompletes
<1>2. CASE Start \/ Stop \/ RelayLost
  <2>1. Finish(Ids) /\ UNCHANGED late
    BY <1>2 DEF Start, Stop, RelayLost
  <2>2. QED
    BY <2>1, FinishCompletes
<1>3. CASE Retry \/ RelayConnected \/ RelayClosing \/ Registered \/ Refused
  BY <1>1, <1>3 DEF Retry, RelayConnected, RelayClosing, Registered, Refused, callVars
<1>4. ASSUME NEW D, Peers(D) PROVE CompletesSome
  <2>1. \E S : Lose(S, {})
    BY <1>4 DEF Peers
  <2>2. QED
    BY <2>1, LossCompletes
<1>5. ASSUME NEW p \in Host, NEW n, NEW d, Connect(p, n, d) PROVE CompletesSome
  <2>1. UNCHANGED late
    BY <1>5 DEF Connect
  <2>2. Try(p, [urls |-> n, left |-> d], asked \ {p}) \/ UNCHANGED <<requests, done>>
    BY <1>5 DEF Connect, callVars
  <2>3. QED
    BY <1>1, <2>1, <2>2, TryCompletes
<1>6. ASSUME NEW p \in Host, nextLocal(p) PROVE CompletesSome
  <2>1. UNCHANGED late
    BY <1>6 DEF nextLocal
  <2>2. PICK att : att = attempts[p]
    OBVIOUS
  <2>3. Try(p, att, asked) \/ UNCHANGED <<requests, done>>
    BY <1>6, <2>2 DEF nextLocal, callVars
  <2>4. PICK a : a = asked
    OBVIOUS
  <2>5. Try(p, att, a) \/ UNCHANGED <<requests, done>>
    BY <2>3, <2>4
  <2>6. QED
    BY <1>1, <2>1, <2>5, TryCompletes
<1>7. ASSUME NEW r \in Req, Busy(r) PROVE CompletesSome
  <2>1. r \in late /\ late' = late \ {r} /\ done' = Done({r}, done) /\ UNCHANGED requests
    BY <1>7 DEF Busy
  <2>2. {r} \subseteq Ids \cup late
    BY <2>1
  <2>3. QED
    BY <2>1, <2>2, CompletesAll
<1>8. ASSUME NEW r \in Req, StartRequest(r) PROVE CompletesSome
  BY <1>8, StartRequestCompletes
<1>9. ASSUME NEW r \in Req, Response(r) \/ \E s \in Link : LinkResponse(s, r) PROVE CompletesSome
  <2>1. {r} \subseteq Ids /\ Finish({r}) /\ UNCHANGED late
    BY <1>9 DEF Response, LinkResponse, On
  <2>2. QED
    BY <2>1, FinishCompletes
<1>10. ASSUME NEW s \in Link, Hello(s) PROVE CompletesSome
  <2>1. Local(s) /\ UNCHANGED late
    BY <1>10 DEF Hello
  <2>2. QED
    BY <2>1, LocalCompletes
<1>11. ASSUME NEW s \in Link, LinkLost(s) PROVE CompletesSome
  <2>1. Lose({s}, {})
    BY <1>11 DEF LinkLost
  <2>2. QED
    BY <2>1, LossCompletes
<1>12. ASSUME NEW s \in Link, LinkClosing(s) PROVE CompletesSome
  BY <1>1, <1>12 DEF LinkClosing, callVars
<1>13. CASE Sweep
  <2>1. \E S, R : R \subseteq Ids /\ Lose(S, R)
    <3>1. Lose({s \in Links : Expired(s)}, {r \in Ids : Late(r)})
      BY <1>13 DEF Sweep
    <3>2. {r \in Ids : Late(r)} \subseteq Ids
      OBVIOUS
    <3>3. QED
      BY <3>1, <3>2
  <2>2. QED
    BY <2>1, LossCompletes
<1>14. CASE SweepStopped
  BY <1>14, SweepStoppedCompletes
<1>15. CASE Tick
  BY <1>15, TickCompletes
<1>16. CASE UNCHANGED vars
  BY <1>1, <1>16 DEF vars, callVars
<1>17. QED
  BY <1>2, <1>3, <1>4, <1>5, <1>6, <1>7, <1>8, <1>9, <1>10, <1>11, <1>12, <1>13, <1>14, <1>15, <1>16
     DEF Next, LinkStep

LEMMA CompletesIsReport ==
  ASSUME IInv, ~Midway, CompletesSome
  PROVE  Jobs!Next
<1>1. PICK S : Completes(S)
  BY DEF CompletesSome
<1>2. \A r \in S : r \in Req /\ done[r] = 0
  BY <1>1, NotYet DEF Completes
<1>3. \A r \in S : JobStage(r) \in {"running", "refused"}
  BY <1>1, <1>2 DEF JobStage, Completes, Ids
<1>4. \A r \in S : JobStage(r)' = "reported"
  BY <1>1 DEF JobStage, Completes
<1>5. \A r \in Req : r \notin S => JobStage(r)' = JobStage(r)
  BY <1>1 DEF JobStage, Completes
<1>6. Jobs!Move(S, "reported")
  BY <1>4, <1>5 DEF Jobs!Move
<1>7. S \subseteq Jobs!In({"running", "refused"}) /\ S \in SUBSET Req
  BY <1>2, <1>3 DEF Jobs!In
<1>8. Jobs!Report(S)
  BY <1>6, <1>7 DEF Jobs!Report
<1>9. QED
  BY <1>7, <1>8 DEF Jobs!Next

\* request() is accepted, or refused as busy.
LEMMA ContractRequest ==
  ASSUME IInv, ~Midway, NEW r \in Req, RequestRefused(r) \/ \E p \in Host : Request(r, p)
  PROVE  Jobs!Next
<1>1. requests[r] = None /\ r \notin late /\ UNCHANGED done
  BY DEF Request, RequestRefused
<1>2. done[r] = 0
  BY DEF Request, RequestRefused
<1>3. JobStage(r) = "new" /\ r \in Jobs!In({"new"})
  BY <1>1, <1>2 DEF JobStage, Jobs!In
<1>4. ASSUME NEW p \in Host, Request(r, p) PROVE Jobs!Next
  <2>1. /\ requests' = [requests EXCEPT ![r] = [Zombie EXCEPT !.peer = p, !.left = RequestTicks]]
        /\ UNCHANGED late
    BY <1>4 DEF Request
  <2>2. requests \in [Req -> Pending \cup {None}]
    BY DEF IInv, Calls, CallTypes
  <2>3. requests'[r] # None
    <3>1. [Zombie EXCEPT !.peer = p, !.left = RequestTicks] \in Pending
      <4>1. RequestTicks \in 0..RequestTicks
        BY LimitAssumption
      <4>2. QED
        BY <4>1 DEF Zombie, Pending
    <3>2. QED
      BY <2>1, <2>2, <3>1, AbsentAssumption
  <2>4. \A k \in Req : k # r => requests'[k] = requests[k]
    BY <2>1, <2>2
  <2>5. \A k \in Req : JobStage(k)' = IF k \in {r} THEN "running" ELSE JobStage(k)
    BY <1>1, <1>2, <2>1, <2>3, <2>4 DEF JobStage
  <2>6. Jobs!Move({r}, "running")
    BY <2>5 DEF Jobs!Move
  <2>7. Jobs!In({"running"}) = Ids
    <3>1. \A k \in Req : JobStage(k) = "running" <=> requests[k] # None
      <4> TAKE k \in Req
      <4>1. CASE requests[k] # None
        <5>1. done[k] = 0
          BY <4>1, NotYet DEF Ids
        <5>2. QED
          BY <4>1, <5>1 DEF JobStage
      <4>2. CASE requests[k] = None
        BY <4>2 DEF JobStage
      <4>3. QED
        BY <4>1, <4>2
    <3>2. QED
      BY <3>1 DEF Jobs!In, Ids
  <2>8. Cardinality(Jobs!In({"running"})) < MaxRequests
    BY <1>4, <2>7 DEF Request
  <2>9. Jobs!Accept(r)
    BY <1>3, <2>6, <2>8 DEF Jobs!Accept, Jobs!Room, Jobs!Cardinality, Cardinality
  <2>10. QED
    BY <2>9 DEF Jobs!Next
<1>5. CASE RequestRefused(r)
  <2>1. late' = late \cup {r} /\ UNCHANGED requests
    BY <1>5 DEF RequestRefused
  <2>2. \A k \in Req : JobStage(k)' = IF k \in {r} THEN "refused" ELSE JobStage(k)
    BY <1>1, <1>2, <2>1 DEF JobStage
  <2>3. Jobs!Move({r}, "refused")
    BY <2>2 DEF Jobs!Move
  <2>4. Jobs!Refuse(r)
    BY <1>3, <2>3 DEF Jobs!Refuse
  <2>5. QED
    BY <2>4 DEF Jobs!Next
<1>6. QED
  BY <1>4, <1>5

LEMMA ContractInit == Init => Jobs!Init
<1> SUFFICES ASSUME Init PROVE Jobs!Init
  OBVIOUS
<1>1. late = {} /\ \A r \in Req : requests[r] = None /\ done[r] = 0
  BY DEF Init
<1>2. \A r \in Req : JobStage(r) = "new"
  BY <1>1 DEF JobStage
<1>3. QED
  BY <1>2 DEF Jobs!Init

\* Unless a re-entrant call strikes while a loop over the requests still has
\* keys to visit, the request table of Peer implements the contract of jobs, for
\* any number of requests, hosts and links: a request is accepted with room in
\* the table or refused, and completed once in a later step, over whatever
\* transport (Peer.cpp:46, 64-68, 148, 235, 271, 283-286).
THEOREM JobsImplemented == ASSUME ~Midway PROVE Spec => ImplementsJobs
<1>1. Init => Jobs!Init
  BY ContractInit
<1>2. IInv /\ [Next]_vars => [Jobs!Next]_(<<TRUE, [r \in Req |-> JobStage(r)]>>)
  BY ContractRequest, StepCompletes, CompletesIsReport
<1>3. QED
  BY <1>1, <1>2, Invariant, PTL DEF Spec, ImplementsJobs, Jobs!Spec
=============================================================================
