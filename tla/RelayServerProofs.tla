------------------------- MODULE RelayServerProofs -------------------------
(***************************************************************************)
(* Proofs about RelayServer, for every value of its constants.             *)
(***************************************************************************)
EXTENDS RelayServer, TLAPS

USE LimitAssumption DEF Present

-----------------------------------------------------------------------------
(* The tables that handlers compute *)

OfferTable == [Code -> Offer \cup {None}]

PairTable == [Code -> Pair \cup {None}]

RouteTable == [Key -> Route \cup {None}]

\* Cancelling pairings and dropping routes yields well-formed tables.
LEMMA WithoutType ==
  ASSUME NEW S \in SUBSET Socket
  PROVE  /\ \A f \in OfferTable : OffersWithout(S, f) \in OfferTable
         /\ \A f \in PairTable : PairsWithout(S, f) \in PairTable
         /\ \A f \in RouteTable : RoutesWithout(S, f) \in RouteTable
  BY DEF OfferTable, PairTable, RouteTable, OffersWithout, PairsWithout, RoutesWithout

\* A new session, as Accept inserts it, is well formed.
LEMMA BlankType == Blank \in Session
  BY NoneAssumption DEF Blank, Session

\* Removing and closing sockets keeps the tables well formed.
LEMMA RemoveType ==
  ASSUME NEW S \in SUBSET Socket, NEW sess \in [Socket -> Session],
         NEW off \in OfferTable, NEW prs \in PairTable, NEW rts \in RouteTable,
         RemoveFrom(S, sess, off, prs, rts)
  PROVE  /\ sessions' \in [Socket -> Session]
         /\ offers' \in OfferTable
         /\ pairs' \in PairTable
         /\ routes' \in RouteTable
  BY WithoutType, BlankType DEF RemoveFrom

\* close() of a set of sockets keeps the tables well formed.
LEMMA CloseType ==
  ASSUME sock \in [Socket -> {"none", "open", "closing"}],
         NEW S \in SUBSET Socket, NEW sess \in [Socket -> Session],
         NEW off \in OfferTable, NEW prs \in PairTable, NEW rts \in RouteTable,
         CloseAll(S, sess, off, prs, rts)
  PROVE  /\ sock' \in [Socket -> {"none", "open", "closing"}]
         /\ sessions' \in [Socket -> Session]
         /\ offers' \in OfferTable
         /\ pairs' \in PairTable
         /\ routes' \in RouteTable
<1>1. sock' \in [Socket -> {"none", "open", "closing"}]
  BY DEF CloseAll
<1>2. {s \in S : sock[s] = "closing"} \in SUBSET Socket
  OBVIOUS
<1>3. QED
  BY <1>1, <1>2, RemoveType DEF CloseAll

\* Updates of the fields of a session keep it well formed.
LEMMA SessionUpdate ==
  ASSUME NEW x \in Session
  PROVE  /\ \A b \in BOOLEAN : [x EXCEPT !.authenticating = b] \in Session
         /\ \A b \in BOOLEAN, a \in Account \cup {None}, d \in 0..AuthTicks :
              [x EXCEPT !.authenticating = b, !.account = a, !.left = d] \in Session
         /\ \A id \in PeerId, v \in Service, h \in BOOLEAN :
              [x EXCEPT !.id = id, !.service = v, !.host = h] \in Session
         /\ \A w \in 0..WindowTicks, n \in 0..MaxAttempts :
              [x EXCEPT !.window = w, !.attempts = n] \in Session
         /\ \A d \in 0..AuthTicks, g \in 0..LoginTicks, w \in 0..WindowTicks, n \in 0..MaxAttempts :
              [x EXCEPT !.left = d, !.grace = g, !.window = w, !.attempts = n] \in Session
<1>1. ASSUME NEW b \in BOOLEAN
      PROVE  [x EXCEPT !.authenticating = b] \in Session
  BY DEF Session
<1>2. ASSUME NEW b \in BOOLEAN, NEW a \in Account \cup {None}, NEW d \in 0..AuthTicks
      PROVE  [x EXCEPT !.authenticating = b, !.account = a, !.left = d] \in Session
  BY DEF Session
<1>3. ASSUME NEW id \in PeerId, NEW v \in Service, NEW h \in BOOLEAN
      PROVE  [x EXCEPT !.id = id, !.service = v, !.host = h] \in Session
  BY DEF Session
<1>4. ASSUME NEW w \in 0..WindowTicks, NEW n \in 0..MaxAttempts
      PROVE  [x EXCEPT !.window = w, !.attempts = n] \in Session
  BY DEF Session
<1>5. ASSUME NEW d \in 0..AuthTicks, NEW g \in 0..LoginTicks,
             NEW w \in 0..WindowTicks, NEW n \in 0..MaxAttempts
      PROVE  [x EXCEPT !.left = d, !.grace = g, !.window = w, !.attempts = n] \in Session
  BY DEF Session
<1>6. QED
  BY <1>1, <1>2, <1>3, <1>4, <1>5, Zenon

\* s and t have the same identity: what pairing and routing look at.
SameIdentity(x, y) ==
  x.account = y.account /\ x.id = y.id /\ x.service = y.service /\ x.host = y.host

\* Counting an attempt keeps the sessions well formed and changes only the
\* counter of the caller.
LEMMA CountedType ==
  ASSUME NEW s \in Socket, sessions \in [Socket -> Session]
  PROVE  /\ Counted(s) \in [Socket -> Session]
         /\ \A t \in Socket : SameIdentity(Counted(s)[t], sessions[t])
<1> DEFINE w == IF sessions[s].window = 0 THEN WindowTicks ELSE sessions[s].window
           n == Least(sessions[s].attempts + 1, MaxAttempts)
           x == [sessions[s] EXCEPT !.window = w, !.attempts = n]
<1>1. sessions[s] \in Session
  OBVIOUS
<1>2. w \in 0..WindowTicks /\ n \in 0..MaxAttempts
  BY <1>1 DEF Session, Least
<1>3. Counted(s) = [sessions EXCEPT ![s] = x]
  BY DEF Counted
<1> HIDE DEF w, n
<1>4. x \in Session
  BY <1>1, <1>2, SessionUpdate
<1>5. SameIdentity(x, sessions[s])
  BY <1>1 DEF Session, SameIdentity
<1> HIDE DEF x
<1>6. QED
  BY <1>3, <1>4, <1>5 DEF SameIdentity

\* The ways a record changes as time passes.
LEMMA TickType ==
  /\ \A x \in Session :
       LET y == [x EXCEPT !.left = Dec(@), !.grace = Dec(@), !.window = Dec(@),
                          !.attempts = IF x.window <= 1 THEN 0 ELSE @]
       IN  y \in Session /\ SameIdentity(y, x)
  /\ \A x \in Offer : [x EXCEPT !.left = Dec(@)] \in Offer
  /\ \A x \in Pair : [x EXCEPT !.left = Dec(@), !.qr = Dec(@)] \in Pair
  /\ \A x \in Route : [x EXCEPT !.left = Dec(@)] \in Route
<1>1. ASSUME NEW x \in Session
      PROVE  LET y == [x EXCEPT !.left = Dec(@), !.grace = Dec(@), !.window = Dec(@),
                                !.attempts = IF x.window <= 1 THEN 0 ELSE @]
             IN  y \in Session /\ SameIdentity(y, x)
  <2>1. /\ Dec(x.left) \in 0..AuthTicks /\ Dec(x.grace) \in 0..LoginTicks
        /\ Dec(x.window) \in 0..WindowTicks
        /\ (IF x.window <= 1 THEN 0 ELSE x.attempts) \in 0..MaxAttempts
    BY DEF Session, Dec
  <2>2. [x EXCEPT !.left = Dec(@), !.grace = Dec(@), !.window = Dec(@),
                  !.attempts = IF x.window <= 1 THEN 0 ELSE @] \in Session
    BY <2>1, SessionUpdate
  <2>3. QED
    BY <2>2 DEF SameIdentity, Session
<1>2. ASSUME NEW x \in Offer PROVE [x EXCEPT !.left = Dec(@)] \in Offer
  BY DEF Offer, Dec
<1>3. ASSUME NEW x \in Pair PROVE [x EXCEPT !.left = Dec(@), !.qr = Dec(@)] \in Pair
  <2>1. Dec(x.left) \in 0..ConfirmTicks /\ Dec(x.qr) \in 0..OfferTicks
    BY DEF Pair, Dec
  <2>2. QED
    BY <2>1 DEF Pair
<1>4. ASSUME NEW x \in Route PROVE [x EXCEPT !.left = Dec(@)] \in Route
  BY DEF Route, Dec
<1>5. QED
  BY <1>1, <1>2, <1>3, <1>4

-----------------------------------------------------------------------------
(* Type correctness *)

\* The relay before listen() is well typed.
LEMMA TypeInit == Init => TypeOK
  BY BlankType DEF Init, TypeOK

\* Every step keeps the tables well typed: one case per handler.
LEMMA TypeNext == TypeOK /\ [Next]_vars => TypeOK'
<1> SUFFICES ASSUME TypeOK, [Next]_vars PROVE TypeOK'
  OBVIOUS
<1> USE DEF TypeOK
<1>t. /\ offers \in OfferTable /\ pairs \in PairTable /\ routes \in RouteTable
      /\ Socket \in SUBSET Socket
  BY DEF OfferTable, PairTable, RouteTable
<1>1. CASE Listen
  <2>1. RemoveFrom(Socket, sessions, offers, pairs, routes)
    BY <1>1 DEF Listen, Clear
  <2>2. QED
    BY <1>1, <1>t, <2>1, RemoveType DEF Listen, Clear, OfferTable, PairTable, RouteTable
<1>2. CASE Stop
  <2>1. RemoveFrom(Socket, sessions, offers, pairs, routes)
    BY <1>2 DEF Stop, Clear
  <2>2. QED
    BY <1>2, <1>t, <2>1, RemoveType DEF Stop, Clear, OfferTable, PairTable, RouteTable
<1>3. CASE Sweep
  <2> DEFINE S == {s \in Socket : Dead(s)}
             off == [c \in Code |-> IF OfferOver(c) THEN None ELSE offers[c]]
             prs == [c \in Code |-> IF PairOver(c) THEN None ELSE pairs[c]]
             rts == [k \in Key |-> IF RouteOver(k) THEN None ELSE routes[k]]
  <2>1. off \in OfferTable /\ prs \in PairTable /\ rts \in RouteTable
    BY DEF OfferTable, PairTable, RouteTable
  <2>2. CloseAll(S, sessions, off, prs, rts) /\ UNCHANGED <<listening, issued, bonds>>
    BY <1>3 DEF Sweep
  <2>3. S \in SUBSET Socket
    OBVIOUS
  <2> HIDE DEF S, off, prs, rts
  <2>4. QED
    BY <2>1, <2>2, <2>3, CloseType DEF OfferTable, PairTable, RouteTable
<1>4. CASE Tick
  <2>1. sessions' \in [Socket -> Session]
    BY <1>4, TickType DEF Tick
  <2>2. offers' \in [Code -> Offer \cup {None}]
    BY <1>4, TickType DEF Tick
  <2>3. pairs' \in [Code -> Pair \cup {None}]
    BY <1>4, TickType DEF Tick
  <2>4. routes' \in [Key -> Route \cup {None}]
    BY <1>4, TickType DEF Tick
  <2>5. QED
    BY <1>4, <2>1, <2>2, <2>3, <2>4 DEF Tick
<1>5. CASE \E s \in Socket : Step(s)
  <2> PICK s \in Socket : Step(s)
    BY <1>5
  <2>t. {s} \in SUBSET Socket
    OBVIOUS
  <2>1. CASE Accept(s)
    BY <2>1, BlankType DEF Accept, pairingVars
  <2>2. CASE Disconnected(s)
    <3>1. RemoveFrom({s}, sessions, offers, pairs, routes)
      BY <2>2 DEF Disconnected
    <3>2. QED
      BY <1>t, <2>t, <2>2, <3>1, RemoveType DEF Disconnected, OfferTable, PairTable, RouteTable
  <2>3. CASE Reject(s)
    <3>1. CloseAll({s}, sessions, offers, pairs, routes)
      BY <2>3 DEF Reject
    <3>2. QED
      BY <1>t, <2>t, <2>3, <3>1, CloseType DEF Reject, OfferTable, PairTable, RouteTable
  <2>4. CASE Auth(s)
    <3>1. [sessions[s] EXCEPT !.authenticating = TRUE] \in Session
      BY SessionUpdate, TRUE \in BOOLEAN, sessions[s] \in Session, Zenon
    <3>2. QED
      BY <2>4, <3>1 DEF Auth, pairingVars
  <2>5. CASE \E a \in Account, d \in 1..(AuthTicks + 1) : AuthAccepted(s, a, d)
    <3> PICK a \in Account, d \in 1..(AuthTicks + 1) : AuthAccepted(s, a, d)
      BY <2>5
    <3>1. [sessions[s] EXCEPT !.authenticating = FALSE, !.account = a, !.left = Granted(d)] \in Session
      <4>1. FALSE \in BOOLEAN /\ a \in Account \cup {None} /\ Granted(d) \in 0..AuthTicks
        BY DEF Granted, Least
      <4>2. QED
        BY <4>1, SessionUpdate, sessions[s] \in Session, Zenon
    <3>2. QED
      BY <3>1 DEF AuthAccepted, pairingVars
  <2>6. CASE AuthRefused(s)
    <3> DEFINE x == [sessions[s] EXCEPT !.authenticating = FALSE, !.account = None, !.left = 0]
               sess == [sessions EXCEPT ![s] = x]
    <3>1. CloseAll({s}, sess, OffersWithout({s}, offers), PairsWithout({s}, pairs), routes)
      BY <2>6 DEF AuthRefused
    <3>2. sess \in [Socket -> Session]
      <4>0. FALSE \in BOOLEAN /\ None \in Account \cup {None} /\ 0 \in 0..AuthTicks
        OBVIOUS
      <4>1. x \in Session
        BY <4>0, SessionUpdate, sessions[s] \in Session, Zenon
      <4>2. QED
        BY <4>1
    <3>3. /\ OffersWithout({s}, offers) \in OfferTable
          /\ PairsWithout({s}, pairs) \in PairTable
      BY <1>t, <2>t, WithoutType
    <3> HIDE DEF sess
    <3>4. QED
      BY <1>t, <2>t, <2>6, <3>1, <3>2, <3>3, CloseType
      DEF AuthRefused, OfferTable, PairTable, RouteTable
  <2>7. CASE \E id \in PeerId, v \in Service, h \in BOOLEAN : Register(s, id, v, h)
    <3> PICK id \in PeerId, v \in Service, h \in BOOLEAN : Register(s, id, v, h)
      BY <2>7
    <3>1. sessions' \in [Socket -> Session]
      <4>1. [sessions[s] EXCEPT !.id = id, !.service = v, !.host = h] \in Session
        BY SessionUpdate, sessions[s] \in Session, Zenon
      <4>2. QED
        BY <4>1 DEF Register
    <3>2. PICK S \in SUBSET Socket :
            offers' = OffersWithout(S, offers) /\ pairs' = PairsWithout(S, pairs)
      BY DEF Register
    <3>3. offers' \in OfferTable /\ pairs' \in PairTable
      BY <1>t, <3>2, WithoutType
    <3>4. QED
      BY <3>1, <3>3 DEF Register, OfferTable, PairTable
  <2>8. CASE \E id \in PeerId, v \in Service : RegisterRefused(s, id, v)
    <3>1. Reject(s) /\ CloseAll({s}, sessions, offers, pairs, routes)
      BY <2>8 DEF RegisterRefused, Reject
    <3>2. QED
      BY <1>t, <2>t, <3>1, CloseType DEF Reject, OfferTable, PairTable, RouteTable
  <2>9. CASE \E c \in Code : PairOffer(s, c)
    <3> PICK c \in Code : PairOffer(s, c)
      BY <2>9
    <3>1. /\ OffersWithout({s}, offers) \in OfferTable
          /\ PairsWithout({s}, pairs) \in PairTable
      BY <1>t, <2>t, WithoutType
    <3>2. [host |-> s, left |-> Least(OfferTicks, sessions[s].left)] \in Offer
      BY DEF Offer, Least, Session
    <3>3. QED
      BY <3>1, <3>2, CountedType DEF PairOffer, OfferTable, PairTable
  <2>10. CASE \E c \in Code : PairClaim(s, c)
    <3> PICK c \in Code : PairClaim(s, c)
      BY <2>10
    <3>1. /\ OffersWithout({s}, offers) \in OfferTable
          /\ PairsWithout({s}, pairs) \in PairTable
      BY <1>t, <2>t, WithoutType
    <3>2. offers[c] \in Offer
      BY DEF PairClaim, Claimable
    <3>3. [host |-> offers[c].host, client |-> s,
           left |-> ConfirmWait(c), qr |-> offers[c].left] \in Pair
      BY <3>2 DEF Offer, Pair, ConfirmWait, Least
    <3>4. QED
      BY <3>1, <3>3, CountedType DEF PairClaim, Consumed, OfferTable, PairTable
  <2>11. CASE PairRefused(s)
    BY <2>11, CountedType DEF PairRefused, pairingVars
  <2>12. CASE \E c \in Code : PairConfirm(s, c)
    <3> PICK c \in Code : PairConfirm(s, c)
      BY <2>12
    <3>1. pairs[c] \in Pair
      BY DEF PairConfirm
    <3>2. [host |-> pairs[c].host, client |-> s] \in Bond
      BY <3>1 DEF Pair, Bond
    <3>3. QED
      BY <3>2 DEF PairConfirm
  <2>13. CASE \E c \in Code : PairConfirmLate(s, c)
    BY <2>13 DEF PairConfirmLate
  <2>14. CASE \E c \in Code : PairCancel(s, c)
    BY <2>14 DEF PairCancel
  <2>15. CASE \E id \in PeerId, k \in Key : Request(s, id, k)
    <3> PICK id \in PeerId, k \in Key : Request(s, id, k)
      BY <2>15
    <3>1. PICK h \in Socket :
            routes' = [routes EXCEPT ![k] = [client |-> s, host |-> h, left |-> RouteTicks]]
      BY DEF Request, target
    <3>2. [client |-> s, host |-> h, left |-> RouteTicks] \in Route
      BY DEF Route
    <3>3. QED
      BY <3>1, <3>2 DEF Request, pairingVars
  <2>16. CASE \E k \in Key : Response(s, k)
    BY <2>16 DEF Response, pairingVars
  <2>17. QED
    BY <2>1, <2>2, <2>3, <2>4, <2>5, <2>6, <2>7, <2>8, <2>9, <2>10, <2>11,
       <2>12, <2>13, <2>14, <2>15, <2>16 DEF Step
<1>6. CASE UNCHANGED vars
  BY <1>6 DEF vars
<1>7. QED
  BY <1>1, <1>2, <1>3, <1>4, <1>5, <1>6 DEF Next

\* Every reachable state is well typed, whatever the sockets, accounts, codes
\* and limits: in particular no principal, offer, pair or route is ever given
\* more time than its limit.
THEOREM TypeCorrect == Spec => []TypeOK
  BY TypeInit, TypeNext, PTL DEF Spec

-----------------------------------------------------------------------------
(***************************************************************************)
(* The inductive invariant.  Most steps are quiet: they only take away -    *)
(* close or remove sessions, drop offers, pairs and routes, let time pass - *)
(* and leave identities alone.  One lemma covers them all; the steps that   *)
(* create something or change an identity are treated one by one.           *)
(***************************************************************************)

IInv ==
  /\ TypeOK
  /\ Bookkeeping
  /\ OnePairingAtATime
  /\ PairingScope
  /\ ConfirmWithinQr
  /\ UniquePeer
  /\ RouteScope

\* What becomes of socket t in a quiet step: nothing, closing, or removal
\* together with everything that mentions it.
Gone(t) ==
  /\ sock'[t] = "none"
  /\ sessions'[t] = Blank
  /\ \A c \in Code :
       /\ offers'[c] # None => offers'[c].host # t
       /\ pairs'[c] # None => pairs'[c].host # t /\ pairs'[c].client # t
  /\ \A k \in Key : routes'[k] # None => routes'[k].host # t /\ routes'[k].client # t

Kept(t) ==
  /\ sock'[t] = sock[t] \/ (sock[t] = "open" /\ sock'[t] = "closing")
  /\ SameIdentity(sessions'[t], sessions[t])

FewerOffers ==
  \A c \in Code : offers'[c] # None => offers[c] # None /\ offers'[c].host = offers[c].host

FewerPairs ==
  \A c \in Code : pairs'[c] # None =>
    /\ pairs[c] # None
    /\ pairs'[c].host = pairs[c].host
    /\ pairs'[c].client = pairs[c].client
    /\ pairs[c].left <= pairs[c].qr => pairs'[c].left <= pairs'[c].qr

FewerRoutes ==
  \A k \in Key : routes'[k] # None =>
    /\ routes[k] # None
    /\ routes'[k].host = routes[k].host
    /\ routes'[k].client = routes[k].client

Quiet ==
  /\ \A t \in Socket : Kept(t) \/ Gone(t)
  /\ FewerOffers
  /\ FewerPairs
  /\ FewerRoutes
  /\ UNCHANGED <<issued, bonds>>

\* A quiet step preserves the invariant.
LEMMA QuietPreserves == IInv /\ TypeOK' /\ Quiet => IInv'
<1> SUFFICES ASSUME IInv, TypeOK', Quiet PROVE IInv'
  OBVIOUS
<1>0. TypeOK
  BY DEF IInv
<1>1. Bookkeeping'
  <2>1. ASSUME NEW s \in Socket
        PROVE  /\ sessions'[s].id # None <=> sessions'[s].service # None
               /\ sessions'[s].host => sessions'[s].id # None
               /\ sock'[s] = "open" /\ sessions'[s].account = None => sessions'[s].id = None
    <3>1. CASE Kept(s)
      BY <3>1 DEF IInv, Bookkeeping, SessionBook, Kept, SameIdentity
    <3>2. CASE Gone(s)
      BY <3>2 DEF Gone, Blank
    <3>3. QED
      BY <3>1, <3>2 DEF Quiet
  <2>2. ASSUME NEW c \in Code
        PROVE  /\ offers'[c] # None \/ pairs'[c] # None \/ bonds'[c] # None => c \in issued'
               /\ bonds'[c] # None => offers'[c] = None /\ pairs'[c] = None
    BY DEF IInv, Bookkeeping, CodeBook, Quiet, FewerOffers, FewerPairs
  <2>3. QED
    BY <2>1, <2>2 DEF Bookkeeping, SessionBook, CodeBook
<1>2. OnePairingAtATime'
  <2>1. ASSUME NEW s \in Socket, NEW c \in Code, Engaged(s, c)' PROVE Engaged(s, c)
    BY <2>1 DEF Engaged, Quiet, FewerOffers, FewerPairs
  <2>2. \A c \in Code : offers'[c] = None \/ pairs'[c] = None
    BY DEF IInv, OnePairingAtATime, Quiet, FewerOffers, FewerPairs
  <2>3. QED
    BY <2>1, <2>2 DEF IInv, OnePairingAtATime
<1>3. PairingScope'
  <2>1. ASSUME NEW c \in Code, offers'[c] # None
        PROVE  LET h == offers'[c].host
               IN  sock'[h] # "none" /\ sessions'[h].host /\ sessions'[h].account # None
    <3> DEFINE h == offers'[c].host
    <3>1. h \in Socket
      BY <2>1 DEF TypeOK, Offer
    <3>2. Kept(h) /\ offers[c] # None /\ h = offers[c].host
      BY <2>1, <3>1 DEF Quiet, Gone, FewerOffers
    <3>3. QED
      BY <3>2 DEF IInv, PairingScope, Kept, SameIdentity
  <2>2. ASSUME NEW c \in Code, pairs'[c] # None
        PROVE  LET h == pairs'[c].host
                   p == pairs'[c].client
               IN  /\ h # p
                   /\ sock'[h] # "none" /\ sock'[p] # "none"
                   /\ sessions'[h].host
                   /\ sessions'[h].account # None
                   /\ sessions'[h].account = sessions'[p].account
                   /\ sessions'[h].service = sessions'[p].service
    <3> DEFINE h == pairs'[c].host
               p == pairs'[c].client
    <3>1. h \in Socket /\ p \in Socket
      BY <2>2 DEF TypeOK, Pair
    <3>2. Kept(h) /\ Kept(p) /\ pairs[c] # None /\ h = pairs[c].host /\ p = pairs[c].client
      BY <2>2, <3>1 DEF Quiet, Gone, FewerPairs
    <3>3. QED
      BY <3>2 DEF IInv, PairingScope, Kept, SameIdentity
  <2>3. QED
    BY <2>1, <2>2 DEF PairingScope
<1>4. ConfirmWithinQr'
  BY DEF IInv, ConfirmWithinQr, Quiet, FewerPairs
<1>5. UniquePeer'
  <2>1. ASSUME NEW s \in Socket, sock'[s] = "open"
        PROVE  sock[s] = "open" /\ SameIdentity(sessions'[s], sessions[s])
    BY <2>1 DEF Quiet, Gone, Kept
  <2>2. QED
    BY <2>1 DEF IInv, UniquePeer, SameIdentity
<1>6. RouteScope'
  <2> SUFFICES ASSUME NEW k \in Key, routes'[k] # None
               PROVE  LET p == routes'[k].client
                          h == routes'[k].host
                      IN  /\ p # h
                          /\ sock'[p] # "none" /\ sock'[h] # "none"
                          /\ sock'[p] = "open" /\ sock'[h] = "open" =>
                               /\ sessions'[p].account # None
                               /\ sessions'[p].account = sessions'[h].account
                               /\ sessions'[p].service # None
                               /\ sessions'[p].service = sessions'[h].service
    BY DEF RouteScope
  <2> DEFINE p == routes'[k].client
             h == routes'[k].host
  <2>1. h \in Socket /\ p \in Socket
    BY DEF TypeOK, Route
  <2>2. Kept(h) /\ Kept(p) /\ routes[k] # None /\ h = routes[k].host /\ p = routes[k].client
    BY <2>1 DEF Quiet, Gone, FewerRoutes
  <2>3. QED
    BY <2>2 DEF IInv, RouteScope, Kept, SameIdentity
<1>7. QED
  BY <1>1, <1>2, <1>3, <1>4, <1>5, <1>6 DEF IInv

\* Removing the sockets of S from tables that are part of the current ones
\* takes away everything that mentions S.
LEMMA RemoveQuiet ==
  ASSUME NEW S \in SUBSET Socket, NEW sess, NEW off, NEW prs, NEW rts,
         \A t \in Socket : SameIdentity(sess[t], sessions[t]),
         \A c \in Code : off[c] \in {None, offers[c]} /\ prs[c] \in {None, pairs[c]},
         \A k \in Key : rts[k] \in {None, routes[k]},
         RemoveFrom(S, sess, off, prs, rts),
         \A t \in S : sock'[t] = "none",
         \A t \in Socket \ S : sock'[t] = sock[t] \/ (sock[t] = "open" /\ sock'[t] = "closing"),
         UNCHANGED <<issued, bonds>>
  PROVE  Quiet
<1>1. ASSUME NEW t \in Socket, t \notin S PROVE Kept(t)
  BY <1>1 DEF RemoveFrom, Kept
<1>2. ASSUME NEW t \in S PROVE Gone(t)
  BY DEF RemoveFrom, Gone, OffersWithout, PairsWithout, RoutesWithout
<1>3. FewerOffers
  BY DEF RemoveFrom, FewerOffers, OffersWithout
<1>4. FewerPairs
  BY DEF RemoveFrom, FewerPairs, PairsWithout
<1>5. FewerRoutes
  BY DEF RemoveFrom, FewerRoutes, RoutesWithout
<1>6. QED
  BY <1>1, <1>2, <1>3, <1>4, <1>5 DEF Quiet

\* close() of a set of sockets, as the sweep and a refusal do it, is a quiet
\* step.
LEMMA CloseQuiet ==
  ASSUME TypeOK,
         NEW S \in SUBSET Socket, NEW sess, NEW off, NEW prs, NEW rts,
         \A t \in Socket : SameIdentity(sess[t], sessions[t]),
         \A c \in Code : off[c] \in {None, offers[c]} /\ prs[c] \in {None, pairs[c]},
         \A k \in Key : rts[k] \in {None, routes[k]},
         CloseAll(S, sess, off, prs, rts),
         UNCHANGED <<issued, bonds>>
  PROVE  Quiet
<1> DEFINE R == {s \in S : sock[s] = "closing"}
<1>1. R \in SUBSET Socket /\ RemoveFrom(R, sess, off, prs, rts)
  BY DEF CloseAll
<1>2. \A t \in R : sock'[t] = "none"
  BY DEF CloseAll
<1>3. \A t \in Socket \ R : sock'[t] = sock[t] \/ (sock[t] = "open" /\ sock'[t] = "closing")
  BY DEF CloseAll, TypeOK
<1> HIDE DEF R
<1>4. QED
  BY <1>1, <1>2, <1>3, RemoveQuiet

\* The current tables are part of themselves.
LEMMA Same ==
  /\ \A t \in Socket : SameIdentity(sessions[t], sessions[t])
  /\ \A c \in Code : offers[c] \in {None, offers[c]} /\ pairs[c] \in {None, pairs[c]}
  /\ \A k \in Key : routes[k] \in {None, routes[k]}
  BY DEF SameIdentity

\* stop() and listen() remove every socket.
LEMMA ClearQuiet == Clear => Quiet
<1> SUFFICES ASSUME Clear PROVE Quiet
  OBVIOUS
<1>1. /\ RemoveFrom(Socket, sessions, offers, pairs, routes)
      /\ \A t \in Socket : sock'[t] = "none"
      /\ Socket \in SUBSET Socket
      /\ UNCHANGED <<issued, bonds>>
  BY DEF Clear
<1>2. QED
  BY <1>1, Same, RemoveQuiet

\* The 500 ms sweep is a quiet step.
LEMMA SweepQuiet == TypeOK /\ Sweep => Quiet
<1> SUFFICES ASSUME TypeOK, Sweep PROVE Quiet
  OBVIOUS
<1> DEFINE S == {s \in Socket : Dead(s)}
           off == [c \in Code |-> IF OfferOver(c) THEN None ELSE offers[c]]
           prs == [c \in Code |-> IF PairOver(c) THEN None ELSE pairs[c]]
           rts == [k \in Key |-> IF RouteOver(k) THEN None ELSE routes[k]]
<1>1. /\ \A c \in Code : off[c] \in {None, offers[c]} /\ prs[c] \in {None, pairs[c]}
      /\ \A k \in Key : rts[k] \in {None, routes[k]}
      /\ S \in SUBSET Socket
  OBVIOUS
<1>2. CloseAll(S, sessions, off, prs, rts) /\ UNCHANGED <<issued, bonds>>
  BY DEF Sweep
<1> HIDE DEF S, off, prs, rts
<1>3. QED
  BY <1>1, <1>2, Same, CloseQuiet

\* The passing of time is a quiet step.
LEMMA TickQuiet == TypeOK /\ Tick => Quiet
<1> SUFFICES ASSUME TypeOK, Tick PROVE Quiet
  OBVIOUS
<1>1. ASSUME NEW t \in Socket PROVE Kept(t)
  <2>1. sock' = sock /\ sessions[t] \in Session
    BY DEF Tick, TypeOK
  <2>2. SameIdentity(sessions'[t], sessions[t])
    BY <2>1, TickType DEF Tick, SameIdentity
  <2>3. QED
    BY <2>1, <2>2 DEF Kept
<1>2. FewerOffers
  <2>1. ASSUME NEW x \in Offer PROVE [x EXCEPT !.left = Dec(@)].host = x.host
    BY DEF Offer
  <2>2. QED
    BY <2>1 DEF Tick, TypeOK, FewerOffers
<1>3. FewerPairs
  <2>1. ASSUME NEW x \in Pair
        PROVE  LET y == [x EXCEPT !.left = Dec(@), !.qr = Dec(@)]
               IN  /\ y.host = x.host /\ y.client = x.client
                   /\ x.left <= x.qr => y.left <= y.qr
    BY DEF Pair, Dec
  <2>2. QED
    BY <2>1 DEF Tick, TypeOK, FewerPairs
<1>4. FewerRoutes
  <2>1. ASSUME NEW x \in Route
        PROVE  /\ [x EXCEPT !.left = Dec(@)].host = x.host
               /\ [x EXCEPT !.left = Dec(@)].client = x.client
    BY DEF Route
  <2>2. QED
    BY <2>1 DEF Tick, TypeOK, FewerRoutes
<1>5. QED
  BY <1>1, <1>2, <1>3, <1>4 DEF Quiet, Tick

\* The other quiet steps: each of them leaves identities alone.
LEMMA StepQuiet ==
  ASSUME TypeOK, NEW s \in Socket,
         \/ Disconnected(s) \/ Reject(s) \/ Auth(s) \/ PairRefused(s)
         \/ \E c \in Code : PairConfirmLate(s, c) \/ PairCancel(s, c)
         \/ \E k \in Key : Response(s, k)
  PROVE  Quiet
<1>t. {s} \in SUBSET Socket
  OBVIOUS
<1>1. CASE Disconnected(s)
  <2>1. /\ RemoveFrom({s}, sessions, offers, pairs, routes)
        /\ \A t \in {s} : sock'[t] = "none"
        /\ \A t \in Socket \ {s} : sock'[t] = sock[t]
        /\ UNCHANGED <<issued, bonds>>
    BY <1>1 DEF Disconnected, TypeOK
  <2>2. QED
    BY <1>t, <2>1, Same, RemoveQuiet
<1>2. CASE Reject(s)
  <2>1. CloseAll({s}, sessions, offers, pairs, routes) /\ UNCHANGED <<issued, bonds>>
    BY <1>2 DEF Reject
  <2>2. QED
    BY <1>t, <2>1, Same, CloseQuiet
<1>3. CASE Auth(s)
  <2>1. \A t \in Socket : SameIdentity(sessions'[t], sessions[t])
    <3>1. SameIdentity([sessions[s] EXCEPT !.authenticating = TRUE], sessions[s])
      BY DEF SameIdentity, Session, TypeOK
    <3>2. QED
      BY <1>3, <3>1 DEF Auth, TypeOK, SameIdentity
  <2>2. QED
    BY <1>3, <2>1 DEF Auth, pairingVars, Quiet, Kept, FewerOffers, FewerPairs, FewerRoutes
<1>4. CASE PairRefused(s)
  <2>1. \A t \in Socket : SameIdentity(sessions'[t], sessions[t])
    BY <1>4, CountedType DEF PairRefused, TypeOK
  <2>2. QED
    BY <1>4, <2>1 DEF PairRefused, pairingVars, Quiet, Kept, FewerOffers, FewerPairs, FewerRoutes
<1>5. CASE \E c \in Code : PairConfirmLate(s, c) \/ PairCancel(s, c)
  BY <1>5, Same
  DEF PairConfirmLate, PairCancel, Quiet, Kept, FewerOffers, FewerPairs, FewerRoutes, TypeOK
<1>6. CASE \E k \in Key : Response(s, k)
  BY <1>6, Same
  DEF Response, pairingVars, Quiet, Kept, FewerOffers, FewerPairs, FewerRoutes, TypeOK
<1>7. QED
  BY <1>1, <1>2, <1>3, <1>4, <1>5, <1>6

-----------------------------------------------------------------------------
(* The steps that are not quiet *)

\* Steps that change neither sockets nor identities keep what is said of
\* sessions alone, and of routes that were there before.
Still == \A t \in Socket : sock'[t] = sock[t] /\ SameIdentity(sessions'[t], sessions[t])

\* The conjuncts about identities survive a step of this kind.
LEMMA StillPreserves ==
  ASSUME IInv, TypeOK', Still
  PROVE  /\ SessionBook'
         /\ UniquePeer'
         /\ routes' = routes => RouteScope'
<1>1. SessionBook'
  BY DEF IInv, Bookkeeping, SessionBook, Still, SameIdentity
<1>2. UniquePeer'
  BY DEF IInv, UniquePeer, Still, SameIdentity
<1>3. ASSUME routes' = routes PROVE RouteScope'
  <2>1. \A k \in Key : routes[k] # None => routes[k].client \in Socket /\ routes[k].host \in Socket
    BY DEF IInv, TypeOK, Route
  <2>2. QED
    BY <1>3, <2>1 DEF IInv, RouteScope, Still, SameIdentity
<1>4. QED
  BY <1>1, <1>2, <1>3

\* A pairing whose parties keep socket and identity keeps its scope.
LEMMA StillScope ==
  ASSUME IInv, TypeOK', Still, NEW c \in Code
  PROVE  /\ offers[c] # None =>
              LET h == offers[c].host
              IN  h \in Socket /\ sock'[h] # "none" /\ sessions'[h].host /\ sessions'[h].account # None
         /\ pairs[c] # None =>
              LET h == pairs[c].host
                  p == pairs[c].client
              IN  /\ h # p
                  /\ sock'[h] # "none" /\ sock'[p] # "none"
                  /\ sessions'[h].host
                  /\ sessions'[h].account # None
                  /\ sessions'[h].account = sessions'[p].account
                  /\ sessions'[h].service = sessions'[p].service
<1>1. offers[c] # None => offers[c].host \in Socket
  BY DEF IInv, TypeOK, Offer
<1>2. pairs[c] # None => pairs[c].host \in Socket /\ pairs[c].client \in Socket
  BY DEF IInv, TypeOK, Pair
<1>3. QED
  BY <1>1, <1>2 DEF IInv, PairingScope, Still, SameIdentity

\* A new connection brings a session that nothing mentions yet.
LEMMA AcceptPreserves ==
  ASSUME IInv, TypeOK', NEW s \in Socket, Accept(s)
  PROVE  IInv'
<1>1. /\ sock[s] = "none" /\ sock'[s] = "open" /\ sessions'[s] = Blank
      /\ \A t \in Socket \ {s} : sock'[t] = sock[t] /\ sessions'[t] = sessions[t]
      /\ UNCHANGED <<routes, offers, pairs, issued, bonds>>
  BY DEF Accept, pairingVars, IInv, TypeOK
<1>2. Bookkeeping'
  BY <1>1 DEF IInv, Bookkeeping, SessionBook, CodeBook, Blank
<1>3. OnePairingAtATime'
  BY <1>1 DEF IInv, OnePairingAtATime, Engaged
<1>4. PairingScope'
  <2>1. \A c \in Code : offers[c] # None => offers[c].host \in Socket
    BY DEF IInv, TypeOK, Offer
  <2>2. \A c \in Code : pairs[c] # None => pairs[c].host \in Socket /\ pairs[c].client \in Socket
    BY DEF IInv, TypeOK, Pair
  <2>3. QED
    BY <1>1, <2>1, <2>2 DEF IInv, PairingScope
<1>5. ConfirmWithinQr'
  BY <1>1 DEF IInv, ConfirmWithinQr
<1>6. UniquePeer'
  BY <1>1 DEF IInv, UniquePeer, Blank
<1>7. RouteScope'
  <2>1. \A k \in Key : routes[k] # None => routes[k].client \in Socket /\ routes[k].host \in Socket
    BY DEF IInv, TypeOK, Route
  <2>2. QED
    BY <1>1, <2>1 DEF IInv, RouteScope
<1>8. QED
  BY <1>2, <1>3, <1>4, <1>5, <1>6, <1>7 DEF IInv

\* A verified principal: an account is set once and never replaced by another.
LEMMA AuthAcceptedPreserves ==
  ASSUME IInv, TypeOK', NEW s \in Socket, NEW a \in Account, NEW d \in 1..(AuthTicks + 1),
         AuthAccepted(s, a, d)
  PROVE  IInv'
<1> DEFINE x == [sessions[s] EXCEPT !.authenticating = FALSE, !.account = a, !.left = Granted(d)]
<1>0. /\ x.account = a /\ x.id = sessions[s].id
      /\ x.service = sessions[s].service /\ x.host = sessions[s].host
  BY DEF IInv, TypeOK, Session
<1>1. /\ sessions'[s] = x /\ sessions[s].account \in {None, a} /\ a # None
      /\ \A t \in Socket \ {s} : sessions'[t] = sessions[t]
      /\ UNCHANGED <<sock, routes, offers, pairs, issued, bonds>>
  BY NoneAssumption DEF AuthAccepted, MayBe, pairingVars, IInv, TypeOK
<1> HIDE DEF x
<1>2. Bookkeeping'
  BY <1>0, <1>1 DEF IInv, Bookkeeping, SessionBook, CodeBook
<1>3. OnePairingAtATime'
  BY <1>1 DEF IInv, OnePairingAtATime, Engaged
<1>4. PairingScope'
  <2>1. \A c \in Code : offers[c] # None => offers[c].host \in Socket
    BY DEF IInv, TypeOK, Offer
  <2>2. \A c \in Code : pairs[c] # None => pairs[c].host \in Socket /\ pairs[c].client \in Socket
    BY DEF IInv, TypeOK, Pair
  <2>3. QED
    BY <1>0, <1>1, <2>1, <2>2 DEF IInv, PairingScope
<1>5. ConfirmWithinQr'
  BY <1>1 DEF IInv, ConfirmWithinQr
<1>6. UniquePeer'
  BY <1>0, <1>1 DEF IInv, Bookkeeping, SessionBook, UniquePeer
<1>7. RouteScope'
  <2>1. \A k \in Key : routes[k] # None => routes[k].client \in Socket /\ routes[k].host \in Socket
    BY DEF IInv, TypeOK, Route
  <2>2. QED
    BY <1>0, <1>1, <2>1 DEF IInv, RouteScope
<1>8. QED
  BY <1>2, <1>3, <1>4, <1>5, <1>6, <1>7 DEF IInv

\* The sockets that tables mention are sockets.
LEMMA Mentions ==
  ASSUME TypeOK
  PROVE  /\ \A c \in Code : offers[c] # None => offers[c].host \in Socket
         /\ \A c \in Code : pairs[c] # None => pairs[c].host \in Socket /\ pairs[c].client \in Socket
         /\ \A k \in Key : routes[k] # None => routes[k].client \in Socket /\ routes[k].host \in Socket
  BY DEF TypeOK, Offer, Pair, Route

\* A refused credential takes account and pairings away and leaves the socket
\* closing, so that no open session is without its account.
LEMMA AuthRefusedPreserves ==
  ASSUME IInv, TypeOK', NEW s \in Socket, AuthRefused(s)
  PROVE  IInv'
<1> DEFINE x == [sessions[s] EXCEPT !.authenticating = FALSE, !.account = None, !.left = 0]
           R == {t \in {s} : sock[t] = "closing"}
<1>0. /\ x.account = None /\ x.id = sessions[s].id
      /\ x.service = sessions[s].service /\ x.host = sessions[s].host
  BY DEF IInv, TypeOK, Session
<1>t. TypeOK
  BY DEF IInv
<1>1. /\ \A t \in Socket \ {s} : sock'[t] = sock[t]
      /\ \/ sock[s] = "open" /\ sock'[s] = "closing"
         \/ sock[s] = "closing" /\ sock'[s] = "none"
  BY <1>t DEF AuthRefused, CloseAll, TypeOK
<1>2. /\ \A t \in Socket \ {s} : sessions'[t] = sessions[t]
      /\ sock[s] = "open" => sessions'[s] = x
      /\ sock[s] = "closing" => sessions'[s] = Blank
  BY <1>t DEF AuthRefused, CloseAll, RemoveFrom, TypeOK
<1>3. \A c \in Code : offers'[c] # None => offers'[c] = offers[c] /\ offers[c].host # s
  BY DEF AuthRefused, CloseAll, RemoveFrom, OffersWithout
<1>4. \A c \in Code : pairs'[c] # None =>
        pairs'[c] = pairs[c] /\ pairs[c].host # s /\ pairs[c].client # s
  BY DEF AuthRefused, CloseAll, RemoveFrom, PairsWithout
<1>5. \A k \in Key : routes'[k] # None =>
        /\ routes'[k] = routes[k]
        /\ sock[s] = "closing" => routes[k].host # s /\ routes[k].client # s
  BY DEF AuthRefused, CloseAll, RemoveFrom, RoutesWithout
<1>6. UNCHANGED <<issued, bonds>>
  BY DEF AuthRefused
<1> HIDE DEF x
<1>7. SessionBook'
  BY <1>0, <1>1, <1>2 DEF IInv, Bookkeeping, SessionBook, Blank
<1>8. CodeBook'
  BY <1>3, <1>4, <1>6 DEF IInv, Bookkeeping, CodeBook
<1>9. OnePairingAtATime'
  <2>1. ASSUME NEW t \in Socket, NEW c \in Code, Engaged(t, c)' PROVE Engaged(t, c)
    BY <1>3, <1>4, <2>1 DEF Engaged
  <2>2. QED
    BY <1>3, <1>4, <2>1 DEF IInv, OnePairingAtATime
<1>10. PairingScope'
  BY <1>t, <1>1, <1>2, <1>3, <1>4, Mentions DEF IInv, PairingScope
<1>11. ConfirmWithinQr'
  BY <1>4 DEF IInv, ConfirmWithinQr
<1>12. UniquePeer'
  BY <1>1, <1>2 DEF IInv, UniquePeer
<1>13. RouteScope'
  BY <1>t, <1>1, <1>2, <1>5, Mentions DEF IInv, RouteScope
<1>14. QED
  BY <1>7, <1>8, <1>9, <1>10, <1>11, <1>12, <1>13 DEF IInv, Bookkeeping

\* Registration keeps identities unique, and unregistering cancels pairings.
LEMMA RegisterPreserves ==
  ASSUME IInv, TypeOK', NEW s \in Socket, NEW id \in PeerId, NEW v \in Service,
         NEW host \in BOOLEAN, Register(s, id, v, host)
  PROVE  IInv'
<1> DEFINE x == [sessions[s] EXCEPT !.id = id, !.service = v, !.host = host]
<1>0. /\ x.account = sessions[s].account /\ x.id = id
      /\ x.service = v /\ x.host = host
  BY DEF IInv, TypeOK, Session
<1>t. TypeOK /\ id # None /\ v # None
  BY NoneAssumption DEF IInv
<1>1. /\ sessions'[s] = x
      /\ \A t \in Socket \ {s} : sessions'[t] = sessions[t]
      /\ UNCHANGED <<sock, routes, issued, bonds>>
  BY <1>t DEF Register, TypeOK
<1>2. /\ sock[s] # "none" /\ sessions[s].account # None
      /\ sessions[s].id \in {None, id} /\ sessions[s].service \in {None, v}
      /\ ~Taken(s, id, v)
  BY DEF Register, active, live
<1>3. \A c \in Code : offers'[c] # None =>
        offers'[c] = offers[c] /\ (sessions[s].host /\ ~host => offers[c].host # s)
  BY DEF Register, Unregisters, OffersWithout
<1>4. \A c \in Code : pairs'[c] # None =>
        /\ pairs'[c] = pairs[c]
        /\ sessions[s].host /\ ~host => pairs[c].host # s /\ pairs[c].client # s
  BY DEF Register, Unregisters, PairsWithout
<1> HIDE DEF x
<1>5. SessionBook'
  BY <1>0, <1>t, <1>1, <1>2 DEF IInv, Bookkeeping, SessionBook
<1>6. CodeBook'
  BY <1>1, <1>3, <1>4 DEF IInv, Bookkeeping, CodeBook
<1>7. OnePairingAtATime'
  <2>1. ASSUME NEW t \in Socket, NEW c \in Code, Engaged(t, c)' PROVE Engaged(t, c)
    BY <1>3, <1>4, <2>1 DEF Engaged
  <2>2. QED
    BY <1>3, <1>4, <2>1 DEF IInv, OnePairingAtATime
<1>8. PairingScope'
  <2>1. ASSUME NEW c \in Code, offers'[c] # None
        PROVE  LET h == offers'[c].host
               IN  sock'[h] # "none" /\ sessions'[h].host /\ sessions'[h].account # None
    BY <1>t, <1>0, <1>1, <1>2, <1>3, <2>1, Mentions DEF IInv, PairingScope
  <2>2. ASSUME NEW c \in Code, pairs'[c] # None
        PROVE  LET h == pairs'[c].host
                   p == pairs'[c].client
               IN  /\ h # p
                   /\ sock'[h] # "none" /\ sock'[p] # "none"
                   /\ sessions'[h].host
                   /\ sessions'[h].account # None
                   /\ sessions'[h].account = sessions'[p].account
                   /\ sessions'[h].service = sessions'[p].service
    <3> DEFINE h == pairs[c].host
               p == pairs[c].client
    <3>1. /\ pairs'[c] = pairs[c] /\ pairs[c] # None
          /\ h \in Socket /\ p \in Socket
      BY <1>t, <1>4, <2>2, Mentions
    <3>2. /\ h # p /\ sock[h] # "none" /\ sock[p] # "none"
          /\ sessions[h].host /\ sessions[h].account # None
          /\ sessions[h].account = sessions[p].account
          /\ sessions[h].service = sessions[p].service
          /\ sessions[h].service # None
      BY <3>1 DEF IInv, PairingScope, Bookkeeping, SessionBook
    <3>3. CASE s = h
      BY <1>0, <1>1, <1>2, <1>4, <2>2, <3>1, <3>2, <3>3
    <3>4. CASE s = p
      BY <1>0, <1>1, <1>2, <3>1, <3>2, <3>4
    <3>5. CASE s # h /\ s # p
      BY <1>1, <3>1, <3>2, <3>5
    <3>6. QED
      BY <3>3, <3>4, <3>5
  <2>3. QED
    BY <2>1, <2>2 DEF PairingScope
<1>9. ConfirmWithinQr'
  BY <1>4 DEF IInv, ConfirmWithinQr
<1>10. UniquePeer'
  BY <1>t, <1>0, <1>1, <1>2 DEF IInv, UniquePeer, Taken
<1>11. RouteScope'
  BY <1>t, <1>0, <1>1, <1>2, Mentions DEF IInv, RouteScope
<1>12. QED
  BY <1>5, <1>6, <1>7, <1>8, <1>9, <1>10, <1>11 DEF IInv, Bookkeeping

\* pair-offer: the caller's earlier pairing is cancelled before its new one.
LEMMA PairOfferPreserves ==
  ASSUME IInv, TypeOK', NEW s \in Socket, NEW c \in Code, PairOffer(s, c)
  PROVE  IInv'
<1>t. TypeOK
  BY DEF IInv
<1>1. Still /\ UNCHANGED <<routes, bonds>> /\ issued' = issued \cup {c}
  BY <1>t, CountedType DEF PairOffer, TypeOK, Still
<1>2. /\ c \notin issued /\ sock[s] # "none"
      /\ sessions[s].host /\ sessions[s].account # None
      /\ offers[c] = None /\ pairs[c] = None /\ bonds[c] = None
  BY DEF PairOffer, Registered, active, live, IInv, Bookkeeping, CodeBook
<1>3. /\ offers'[c].host = s /\ pairs'[c] = None
      /\ \A d \in Code \ {c} : offers'[d] # None => offers'[d] = offers[d] /\ offers[d].host # s
      /\ \A d \in Code : pairs'[d] # None =>
           pairs'[d] = pairs[d] /\ pairs[d].host # s /\ pairs[d].client # s
  BY <1>2 DEF PairOffer, OffersWithout, PairsWithout
<1>4. SessionBook' /\ UniquePeer' /\ RouteScope'
  BY <1>1, StillPreserves
<1>5. CodeBook'
  BY <1>1, <1>2, <1>3 DEF IInv, Bookkeeping, CodeBook
<1>6. OnePairingAtATime'
  <2>1. \A d \in Code : offers'[d] = None \/ pairs'[d] = None
    BY <1>3 DEF IInv, OnePairingAtATime
  <2>2. ASSUME NEW t \in Socket, NEW d \in Code, Engaged(t, d)'
        PROVE  (t = s /\ d = c) \/ (t # s /\ d # c /\ Engaged(t, d))
    BY <1>3, <2>2 DEF Engaged
  <2>3. QED
    BY <2>1, <2>2 DEF IInv, OnePairingAtATime
<1>7. PairingScope'
  <2>1. sock'[s] # "none" /\ sessions'[s].host /\ sessions'[s].account # None
    BY <1>1, <1>2 DEF Still, SameIdentity
  <2>2. QED
    BY <1>1, <1>3, <2>1, StillScope DEF PairingScope
<1>8. ConfirmWithinQr'
  BY <1>3 DEF IInv, ConfirmWithinQr
<1>9. QED
  BY <1>4, <1>5, <1>6, <1>7, <1>8 DEF IInv, Bookkeeping

\* pair-claim: the offer is consumed and the caller's own pairing cancelled.
LEMMA PairClaimPreserves ==
  ASSUME IInv, TypeOK', NEW s \in Socket, NEW c \in Code, PairClaim(s, c)
  PROVE  IInv'
<1> DEFINE h == offers[c].host
<1>t. TypeOK
  BY DEF IInv
<1>1. Still /\ UNCHANGED <<routes, bonds, issued>>
  BY <1>t, CountedType DEF PairClaim, TypeOK, Still
<1>2. /\ offers[c] \in Offer /\ offers[c] # None /\ pairs[c] = None /\ bonds[c] = None
      /\ c \in issued
  BY <1>t DEF PairClaim, Claimable, IInv, TypeOK, OnePairingAtATime, Bookkeeping, CodeBook
<1>3. /\ h \in Socket /\ h # s
      /\ sock[h] # "none" /\ sock[s] # "none"
      /\ sessions[h].host /\ sessions[h].account # None
      /\ sessions[h].account = sessions[s].account
      /\ sessions[h].service = sessions[s].service
  BY <1>2 DEF PairClaim, Claimable, Registered, active, live, target, Offer
<1>4. /\ pairs'[c] = [host |-> h, client |-> s,
                      left |-> ConfirmWait(c), qr |-> offers[c].left]
      /\ offers'[c] = None
      /\ \A d \in Code : offers'[d] # None => offers'[d] = offers[d] /\ d # c /\ offers[d].host # s
      /\ \A d \in Code \ {c} : pairs'[d] # None =>
           pairs'[d] = pairs[d] /\ pairs[d].host # s /\ pairs[d].client # s
  BY <1>t DEF PairClaim, Consumed, OffersWithout, PairsWithout, TypeOK
<1>5. SessionBook' /\ UniquePeer' /\ RouteScope'
  BY <1>1, StillPreserves
<1>6. CodeBook'
  BY <1>1, <1>2, <1>4 DEF IInv, Bookkeeping, CodeBook
<1>7. OnePairingAtATime'
  <2>1. \A d \in Code : offers'[d] = None \/ pairs'[d] = None
    BY <1>4 DEF IInv, OnePairingAtATime
  <2>2. ASSUME NEW d \in Code, d # c PROVE ~Engaged(s, d)'
    BY <1>4, <2>2 DEF Engaged
  <2>3. ASSUME NEW t \in Socket \ {s}, NEW d \in Code, Engaged(t, d)' PROVE Engaged(t, d)
    <3>1. CASE d = c
      BY <1>2, <1>4, <2>3, <3>1 DEF Engaged
    <3>2. CASE d # c
      BY <1>4, <2>3, <3>2 DEF Engaged
    <3>3. QED
      BY <3>1, <3>2
  <2>4. QED
    BY <2>1, <2>2, <2>3 DEF IInv, OnePairingAtATime
<1>8. PairingScope'
  <2>1. /\ sock'[h] # "none" /\ sock'[s] # "none"
        /\ sessions'[h].host /\ sessions'[h].account # None
        /\ sessions'[h].account = sessions'[s].account
        /\ sessions'[h].service = sessions'[s].service
    BY <1>1, <1>3 DEF Still, SameIdentity
  <2>2. pairs'[c].host = h /\ pairs'[c].client = s
    BY <1>4
  <2>3. ASSUME NEW d \in Code, offers'[d] # None
        PROVE  LET g == offers'[d].host
               IN  sock'[g] # "none" /\ sessions'[g].host /\ sessions'[g].account # None
    BY <1>1, <1>4, <2>3, StillScope
  <2>4. ASSUME NEW d \in Code, pairs'[d] # None, d # c
        PROVE  LET g == pairs'[d].host
                   p == pairs'[d].client
               IN  /\ g # p
                   /\ sock'[g] # "none" /\ sock'[p] # "none"
                   /\ sessions'[g].host
                   /\ sessions'[g].account # None
                   /\ sessions'[g].account = sessions'[p].account
                   /\ sessions'[g].service = sessions'[p].service
    BY <1>1, <1>4, <2>4, StillScope
  <2> HIDE DEF h
  <2>5. QED
    BY <1>3, <2>1, <2>2, <2>3, <2>4 DEF PairingScope
<1>9. ConfirmWithinQr'
  <2>1. ConfirmWait(c) <= offers[c].left
    BY <1>2 DEF Offer, ConfirmWait, Least
  <2>2. QED
    BY <1>4, <2>1 DEF IInv, ConfirmWithinQr
<1>10. QED
  BY <1>5, <1>6, <1>7, <1>8, <1>9 DEF IInv, Bookkeeping

\* pair-confirm: the pair becomes a bond and leaves the table.
LEMMA PairConfirmPreserves ==
  ASSUME IInv, TypeOK', NEW s \in Socket, NEW c \in Code, PairConfirm(s, c)
  PROVE  IInv'
<1>t. TypeOK
  BY DEF IInv
<1>1. Still /\ UNCHANGED <<offers, routes, issued>>
  BY DEF PairConfirm, Still, SameIdentity
<1>2. /\ pairs[c] # None /\ pairs'[c] = None /\ offers[c] = None /\ c \in issued
      /\ \A d \in Code \ {c} : pairs'[d] = pairs[d] /\ bonds'[d] = bonds[d]
  BY <1>t DEF PairConfirm, TypeOK, IInv, OnePairingAtATime, Bookkeeping, CodeBook
<1>3. SessionBook' /\ UniquePeer' /\ RouteScope'
  BY <1>1, StillPreserves
<1>4. CodeBook'
  BY <1>1, <1>2 DEF IInv, Bookkeeping, CodeBook
<1>5. OnePairingAtATime'
  <2>1. ASSUME NEW t \in Socket, NEW d \in Code, Engaged(t, d)' PROVE Engaged(t, d)
    BY <1>1, <1>2, <2>1 DEF Engaged
  <2>2. QED
    BY <1>1, <1>2, <2>1 DEF IInv, OnePairingAtATime
<1>6. PairingScope'
  BY <1>1, <1>2, StillScope DEF PairingScope
<1>7. ConfirmWithinQr'
  BY <1>2 DEF IInv, ConfirmWithinQr
<1>8. QED
  BY <1>3, <1>4, <1>5, <1>6, <1>7 DEF IInv, Bookkeeping

\* request: the new route has a target of the caller's account and service.
LEMMA RequestPreserves ==
  ASSUME IInv, TypeOK', NEW s \in Socket, NEW id \in PeerId, NEW k \in Key, Request(s, id, k)
  PROVE  IInv'
<1>t. TypeOK
  BY DEF IInv
<1>1. Still /\ UNCHANGED <<sock, sessions, offers, pairs, issued, bonds>>
  BY DEF Request, Still, SameIdentity, pairingVars
<1>2. SessionBook' /\ UniquePeer'
  BY <1>1, StillPreserves
<1>3. CodeBook' /\ OnePairingAtATime' /\ ConfirmWithinQr'
  BY <1>1 DEF IInv, Bookkeeping, CodeBook, OnePairingAtATime, Engaged, ConfirmWithinQr
<1>4. PairingScope'
  BY <1>1, StillScope DEF PairingScope
<1>5. RouteScope'
  <2>1. PICK h \in target(s, id) :
          routes' = [routes EXCEPT ![k] = [client |-> s, host |-> h, left |-> RouteTicks]]
    BY DEF Request
  <2>2. /\ h # s /\ sock[h] # "none" /\ sock[s] # "none"
        /\ sessions[s].account # None /\ sessions[s].service # None
        /\ sessions[s].account = sessions[h].account
        /\ sessions[s].service = sessions[h].service
    BY <2>1 DEF Request, Registered, active, live, target, IInv, Bookkeeping, SessionBook
  <2>3. /\ routes'[k].client = s /\ routes'[k].host = h
        /\ \A r \in Key \ {k} : routes'[r] = routes[r]
    BY <1>t, <2>1 DEF TypeOK
  <2>4. QED
    BY <1>1, <2>2, <2>3 DEF IInv, RouteScope
<1>6. QED
  BY <1>2, <1>3, <1>4, <1>5 DEF IInv, Bookkeeping

-----------------------------------------------------------------------------
(* The invariant holds *)

\* The inductive invariant holds before listen().
LEMMA InvInit == Init => IInv
<1> SUFFICES ASSUME Init PROVE IInv
  OBVIOUS
<1>1. TypeOK
  BY TypeInit
<1>2. \A s \in Socket : sock[s] = "none" /\ sessions[s] = Blank
  BY DEF Init
<1>3. /\ \A c \in Code : offers[c] = None /\ pairs[c] = None /\ bonds[c] = None
      /\ \A k \in Key : routes[k] = None
  BY DEF Init
<1>4. QED
  BY <1>1, <1>2, <1>3
  DEF IInv, Bookkeeping, SessionBook, CodeBook, OnePairingAtATime, Engaged, PairingScope,
      ConfirmWithinQr, UniquePeer, RouteScope, Blank

\* Every step preserves the inductive invariant.
LEMMA InvNext == IInv /\ [Next]_vars => IInv'
<1> SUFFICES ASSUME IInv, [Next]_vars PROVE IInv'
  OBVIOUS
<1>t. TypeOK /\ TypeOK'
  BY TypeNext DEF IInv
<1>1. CASE Listen \/ Stop
  BY <1>1, <1>t, ClearQuiet, QuietPreserves DEF Listen, Stop
<1>2. CASE Sweep
  BY <1>2, <1>t, SweepQuiet, QuietPreserves
<1>3. CASE Tick
  BY <1>3, <1>t, TickQuiet, QuietPreserves
<1>4. CASE \E s \in Socket : Step(s)
  <2> PICK s \in Socket : Step(s)
    BY <1>4
  <2>1. CASE \/ Disconnected(s) \/ Reject(s) \/ Auth(s) \/ PairRefused(s)
             \/ \E c \in Code : PairConfirmLate(s, c) \/ PairCancel(s, c)
             \/ \E k \in Key : Response(s, k)
    BY <2>1, <1>t, StepQuiet, QuietPreserves
  <2>2. CASE \E id \in PeerId, v \in Service : RegisterRefused(s, id, v)
    <3>1. Reject(s)
      BY <2>2 DEF RegisterRefused
    <3>2. QED
      BY <3>1, <1>t, StepQuiet, QuietPreserves
  <2>3. CASE Accept(s)
    BY <2>3, <1>t, AcceptPreserves
  <2>4. CASE \E a \in Account, d \in 1..(AuthTicks + 1) : AuthAccepted(s, a, d)
    BY <2>4, <1>t, AuthAcceptedPreserves
  <2>5. CASE AuthRefused(s)
    BY <2>5, <1>t, AuthRefusedPreserves
  <2>6. CASE \E id \in PeerId, v \in Service, h \in BOOLEAN : Register(s, id, v, h)
    BY <2>6, <1>t, RegisterPreserves
  <2>7. CASE \E c \in Code : PairOffer(s, c)
    BY <2>7, <1>t, PairOfferPreserves
  <2>8. CASE \E c \in Code : PairClaim(s, c)
    BY <2>8, <1>t, PairClaimPreserves
  <2>9. CASE \E c \in Code : PairConfirm(s, c)
    BY <2>9, <1>t, PairConfirmPreserves
  <2>10. CASE \E id \in PeerId, k \in Key : Request(s, id, k)
    BY <2>10, <1>t, RequestPreserves
  <2>11. QED
    BY <2>1, <2>2, <2>3, <2>4, <2>5, <2>6, <2>7, <2>8, <2>9, <2>10 DEF Step
<1>5. CASE UNCHANGED vars
  <2>1. Quiet
    BY <1>5, Same DEF vars, Quiet, Kept, FewerOffers, FewerPairs, FewerRoutes
  <2>2. QED
    BY <2>1, <1>t, QuietPreserves
<1>6. QED
  BY <1>1, <1>2, <1>3, <1>4, <1>5 DEF Next

\* The inductive invariant behind the properties below holds throughout: the
\* bookkeeping of sessions and codes, one pairing per session, the scope of
\* pairings and routes, unique peers, and confirmations within the QR code.
THEOREM Invariant == Spec => []IInv
  BY InvInit, InvNext, PTL DEF Spec

\* A session is never in two pairings at once.
THEOREM OnePairing == Spec => []OnePairingAtATime
  BY Invariant, PTL DEF IInv

\* Pending offers and pairs only ever concern existing, authorised sessions of
\* one account and service.
THEOREM PairingsInScope == Spec => []PairingScope
  BY Invariant, PTL DEF IInv

\* No open session shares its peer identity, so a request has one target.
THEOREM PeersUnique == Spec => []UniquePeer
  BY Invariant, PTL DEF IInv

\* Routes connect existing sessions, and open ones only within one account and
\* service.
THEOREM RoutesInScope == Spec => []RouteScope
  BY Invariant, PTL DEF IInv

\* The tables are sound: typed, with no confirmation awaited beyond its QR
\* code, no used code that comes back, and no identity without an account.
THEOREM TablesSound == Spec => []Sound
<1>1. IInv => Sound
  BY DEF IInv, Sound
<1>2. QED
  BY <1>1, Invariant, PTL

-----------------------------------------------------------------------------
(* The relay implements the pairing contract *)

\* Code c is as before, or less: what all steps do to all codes but one.
Shrunk(c) ==
  /\ offers'[c] # None => offers[c] # None /\ offers'[c].host = offers[c].host
  /\ pairs'[c] # None => /\ pairs[c] # None
                         /\ pairs'[c].host = pairs[c].host
                         /\ pairs'[c].client = pairs[c].client
  /\ bonds'[c] = bonds[c]
  /\ c \in issued' <=> c \in issued

\* Such a code keeps its stage or becomes void.
LEMMA ShrunkCode ==
  ASSUME IInv, NEW c \in Code, Shrunk(c)
  PROVE  CodeState(c)' = CodeState(c) \/ Contract!Voided(CodeState(c), CodeState(c)')
<1>1. /\ offers[c] = None \/ pairs[c] = None
      /\ offers[c] # None \/ pairs[c] # None => c \in issued /\ bonds[c] = None
  BY DEF IInv, OnePairingAtATime, Bookkeeping, CodeBook
<1>2. CASE offers'[c] # None
  BY <1>2 DEF Shrunk, CodeState
<1>3. CASE offers'[c] = None /\ pairs'[c] # None
  BY <1>1, <1>3 DEF Shrunk, CodeState
<1>4. CASE offers'[c] = None /\ pairs'[c] = None
  <2>1. CASE offers[c] = None /\ pairs[c] = None
    BY <1>4, <2>1 DEF Shrunk, CodeState
  <2>2. CASE offers[c] # None \/ pairs[c] # None
    <3>1. CodeState(c)' = [stage |-> "void", host |-> None, client |-> None]
      BY <1>1, <1>4, <2>2 DEF Shrunk, CodeState
    <3>2. CodeState(c).stage \in {"offered", "claimed"}
      BY <2>2 DEF CodeState
    <3>3. QED
      BY <3>1, <3>2 DEF Contract!Voided, Contract!Void, Contract!State
  <2>3. QED
    BY <2>1, <2>2
<1>5. QED
  BY <1>2, <1>3, <1>4

\* The relay before listen() is an initial state of the contract.
LEMMA ContractInit == Init => Contract!Init
<1> SUFFICES ASSUME Init PROVE Contract!Init
  OBVIOUS
<1>1. ASSUME NEW c \in Code
      PROVE  CodeState(c) = [stage |-> "fresh", host |-> None, client |-> None]
  BY DEF Init, CodeState
<1>2. QED
  BY <1>1 DEF Contract!Init, Contract!Fresh, Contract!State

\* Offering, claiming and confirming move one code forward.
LEMMA ForwardOffer ==
  ASSUME IInv, NEW s \in Socket, NEW c \in Code, PairOffer(s, c)
  PROVE  /\ Contract!Offered(CodeState(c), CodeState(c)')
         /\ \A d \in Code \ {c} : Shrunk(d)
<1>t. TypeOK
  BY DEF IInv
<1>1. /\ c \notin issued /\ offers[c] = None /\ pairs[c] = None /\ bonds[c] = None
      /\ issued' = issued \cup {c} /\ bonds' = bonds
  BY DEF PairOffer, IInv, Bookkeeping, CodeBook
<1>2. [host |-> s, left |-> Least(OfferTicks, sessions[s].left)] \in Offer
  BY <1>t DEF Offer, Least, Session, TypeOK
<1>3. offers'[c] # None /\ offers'[c].host = s
  BY <1>2, AbsentAssumption DEF PairOffer, OffersWithout
<1>4. CodeState(c) = [stage |-> "fresh", host |-> None, client |-> None]
  BY <1>1 DEF CodeState
<1>5. CodeState(c)' = [stage |-> "offered", host |-> s, client |-> None]
  BY <1>3 DEF CodeState
<1>6. \A d \in Code \ {c} : Shrunk(d)
  BY <1>1 DEF PairOffer, OffersWithout, PairsWithout, Shrunk
<1>7. QED
  BY <1>4, <1>5, <1>6 DEF Contract!Offered, Contract!Fresh, Contract!State

\* pair-claim moves its code from offered to claimed, by another session.
LEMMA ForwardClaim ==
  ASSUME IInv, NEW s \in Socket, NEW c \in Code, PairClaim(s, c)
  PROVE  /\ Contract!Claimed(CodeState(c), CodeState(c)')
         /\ \A d \in Code \ {c} : Shrunk(d)
<1> DEFINE h == offers[c].host
           x == [host |-> h, client |-> s,
                 left |-> ConfirmWait(c), qr |-> offers[c].left]
<1>t. TypeOK
  BY DEF IInv
<1>1. offers[c] \in Offer /\ offers[c] # None /\ h # s
  BY <1>t DEF PairClaim, Claimable, target, TypeOK
<1>2. x \in Pair /\ x.host = h /\ x.client = s
  BY <1>1 DEF Pair, Offer, ConfirmWait, Least
<1>3. offers'[c] = None /\ pairs'[c] = x
  BY <1>t DEF PairClaim, Consumed, OffersWithout, PairsWithout, TypeOK
<1> HIDE DEF x
<1>4. pairs'[c] # None /\ pairs'[c].host = h /\ pairs'[c].client = s
  BY <1>2, <1>3, AbsentAssumption
<1>5. CodeState(c) = [stage |-> "offered", host |-> h, client |-> None]
  BY <1>1 DEF CodeState
<1>6. CodeState(c)' = [stage |-> "claimed", host |-> h, client |-> s]
  BY <1>3, <1>4 DEF CodeState
<1>7. \A d \in Code \ {c} : Shrunk(d)
  BY DEF PairClaim, Consumed, OffersWithout, PairsWithout, Shrunk
<1>8. QED
  BY <1>1, <1>5, <1>6, <1>7 DEF Contract!Claimed, Contract!State

\* pair-confirm moves its code from claimed to paired, with the same parties.
LEMMA ForwardConfirm ==
  ASSUME IInv, NEW s \in Socket, NEW c \in Code, PairConfirm(s, c)
  PROVE  /\ Contract!Paired(CodeState(c), CodeState(c)')
         /\ \A d \in Code \ {c} : Shrunk(d)
<1> DEFINE x == [host |-> pairs[c].host, client |-> s]
<1>t. TypeOK
  BY DEF IInv
<1>1. pairs[c] \in Pair /\ pairs[c] # None /\ pairs[c].client = s /\ offers[c] = None
  BY <1>t DEF PairConfirm, TypeOK, IInv, OnePairingAtATime
<1>2. x \in Bond /\ x.host = pairs[c].host /\ x.client = s
  BY <1>1 DEF Pair, Bond
<1>3. offers'[c] = None /\ pairs'[c] = None /\ bonds'[c] = x
  BY <1>t, <1>1 DEF PairConfirm, TypeOK
<1> HIDE DEF x
<1>4. bonds'[c] # None /\ bonds'[c].host = pairs[c].host /\ bonds'[c].client = s
  BY <1>2, <1>3, AbsentAssumption
<1>5. CodeState(c) = [stage |-> "claimed", host |-> pairs[c].host, client |-> s]
  BY <1>1 DEF CodeState
<1>6. CodeState(c)' = [stage |-> "paired", host |-> pairs[c].host, client |-> s]
  BY <1>3, <1>4 DEF CodeState
<1>7. \A d \in Code \ {c} : Shrunk(d)
  BY <1>t DEF PairConfirm, Shrunk, TypeOK
<1>8. QED
  BY <1>5, <1>6, <1>7 DEF Contract!Paired, Contract!State

\* Every other step only takes away.
LEMMA OtherShrunk ==
  ASSUME IInv, [Next]_vars,
         ~ \E s \in Socket, c \in Code : PairOffer(s, c) \/ PairClaim(s, c) \/ PairConfirm(s, c)
  PROVE  \A c \in Code : Shrunk(c)
<1>t. TypeOK
  BY DEF IInv
<1>0. Quiet => \A c \in Code : Shrunk(c)
  BY DEF Quiet, FewerOffers, FewerPairs, Shrunk
<1>1. CASE Listen \/ Stop
  BY <1>0, <1>1, ClearQuiet DEF Listen, Stop
<1>2. CASE Sweep
  BY <1>0, <1>2, <1>t, SweepQuiet
<1>3. CASE Tick
  BY <1>0, <1>3, <1>t, TickQuiet
<1>4. CASE \E s \in Socket : Step(s)
  <2> PICK s \in Socket : Step(s)
    BY <1>4
  <2>1. CASE \/ Disconnected(s) \/ Reject(s) \/ Auth(s) \/ PairRefused(s)
             \/ \E c \in Code : PairConfirmLate(s, c) \/ PairCancel(s, c)
             \/ \E k \in Key : Response(s, k)
    BY <1>0, <2>1, <1>t, StepQuiet
  <2>2. CASE \E id \in PeerId, v \in Service : RegisterRefused(s, id, v)
    <3>1. Reject(s)
      BY <2>2 DEF RegisterRefused
    <3>2. QED
      BY <1>0, <3>1, <1>t, StepQuiet
  <2>3. CASE Accept(s)
    BY <2>3 DEF Accept, pairingVars, Shrunk
  <2>4. CASE \E a \in Account, d \in 1..(AuthTicks + 1) : AuthAccepted(s, a, d)
    BY <2>4 DEF AuthAccepted, pairingVars, Shrunk
  <2>5. CASE AuthRefused(s)
    BY <2>5 DEF AuthRefused, CloseAll, RemoveFrom, OffersWithout, PairsWithout, Shrunk
  <2>6. CASE \E id \in PeerId, v \in Service, h \in BOOLEAN : Register(s, id, v, h)
    BY <2>6 DEF Register, OffersWithout, PairsWithout, Shrunk
  <2>7. CASE \E id \in PeerId, k \in Key : Request(s, id, k)
    BY <2>7 DEF Request, pairingVars, Shrunk
  <2>8. QED
    BY <2>1, <2>2, <2>3, <2>4, <2>5, <2>6, <2>7 DEF Step
<1>5. CASE UNCHANGED vars
  BY <1>5 DEF vars, Shrunk
<1>6. QED
  BY <1>1, <1>2, <1>3, <1>4, <1>5 DEF Next

\* Every step of the relay is a step of the contract or leaves all codes alone.
LEMMA ContractNext ==
  IInv /\ [Next]_vars => [Contract!Shape /\ Contract!Next]_([c \in Code |-> CodeState(c)])
<1> SUFFICES ASSUME IInv, [Next]_vars PROVE Contract!Shape /\ Contract!Next
  OBVIOUS
<1>1. Contract!Shape
  BY DEF Contract!Shape
<1>2. ASSUME NEW s \in Socket, NEW c \in Code,
             PairOffer(s, c) \/ PairClaim(s, c) \/ PairConfirm(s, c)
      PROVE  Contract!Next
  <2>1. /\ \/ Contract!Offered(CodeState(c), CodeState(c)')
           \/ Contract!Claimed(CodeState(c), CodeState(c)')
           \/ Contract!Paired(CodeState(c), CodeState(c)')
        /\ \A d \in Code \ {c} : Shrunk(d)
    BY <1>2, ForwardOffer, ForwardClaim, ForwardConfirm
  <2>2. \A d \in Code \ {c} :
          CodeState(d)' = CodeState(d) \/ Contract!Voided(CodeState(d), CodeState(d)')
    BY <2>1, ShrunkCode
  <2>3. Contract!Advance(c)
    BY <2>1, <2>2 DEF Contract!Advance
  <2>4. QED
    BY <2>3 DEF Contract!Next
<1>3. CASE ~ \E s \in Socket, c \in Code : PairOffer(s, c) \/ PairClaim(s, c) \/ PairConfirm(s, c)
  <2>1. \A d \in Code :
          CodeState(d)' = CodeState(d) \/ Contract!Voided(CodeState(d), CodeState(d)')
    BY <1>3, OtherShrunk, ShrunkCode
  <2>2. Contract!Lapse
    BY <2>1 DEF Contract!Lapse
  <2>3. QED
    BY <1>1, <2>2 DEF Contract!Next
<1>4. QED
  BY <1>1, <1>2, <1>3

\* The relay implements the pairing contract, for any number of sockets,
\* accounts and codes: a code is claimed at most once, by a session other than
\* its host, pairs exactly those two, and never comes back.
THEOREM PairingImplemented == Spec => ImplementsContract
<1>1. Init => Contract!Init
  BY ContractInit
<1>2. IInv /\ [Next]_vars => [Contract!Shape /\ Contract!Next]_([c \in Code |-> CodeState(c)])
  BY ContractNext
<1>3. QED
  BY <1>1, <1>2, Invariant, PTL DEF Spec, ImplementsContract, Contract!Spec
=============================================================================
