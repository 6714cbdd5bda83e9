-------------------------- MODULE LanPairingProofs --------------------------
(***************************************************************************)
(* Theorems about LanPairing, for any devices, connections and bounds: a   *)
(* code admits one connection, Files are shown only with the consent that  *)
(* the code asks for, and the attempt that the host shows is the current   *)
(* one.                                                                    *)
(*                                                                         *)
(* The rule for Files is enforced where "confirm" is received, and what it *)
(* rests on is elsewhere: the device says "confirm" only after "ready",    *)
(* and "ready" is sent with the list.  Between the two lie both queues, so *)
(* the invariant follows these messages through them.                      *)
(***************************************************************************)
EXTENDS LanPairing, FiniteSetTheorems, TLAPS

\* Some message of q is one of M.
Has(q, M) == \E k \in 1..Len(q) : q[k] \in M

ConfirmMessage == [type : {"confirm"}]
DownMessage == {"verify", "ready", "paired", "error"}

\* The codes: only the newest can be valid, and it has admitted no one.
Codes ==
  /\ code \in 0..MaxOffers /\ offers \in 0..MaxOffers /\ since \in 0..MaxOffers
  /\ target \in [1..MaxOffers -> PeerId \cup {None}]
  /\ took \in [Socket -> 0..MaxOffers]
  /\ \A s \in Socket : took[s] <= offers
  /\ code # 0 => code = offers /\ target[code] = expected /\ \A s \in Socket : took[s] # code

Flags ==
  /\ hosting \in BOOLEAN /\ expired \in BOOLEAN /\ phase \in HostPhase
  /\ expected \in PeerId \cup {None} /\ shown \in Socket \cup {None}

\* The table of sessions.
Sessions ==
  /\ clients \in [Socket -> [id : Device \cup {None}, paired : BOOLEAN, late : BOOLEAN,
                             awaiting : BOOLEAN, known : BOOLEAN]]
  /\ files \in SUBSET Socket /\ approved \in SUBSET Socket
  /\ IsFiniteSet(Known) /\ Cardinality(Known) <= MaxClients

\* A device that dials has a code.
Devices ==
  /\ device \in [Device -> [phase : HostPhase \cup {"connecting"}, sock : Socket \cup {None},
                            code : 0..MaxOffers, late : BOOLEAN, hello : BOOLEAN,
                            left : 0..Addresses, paired : BOOLEAN]]
  /\ \A d \in Device : device[d].sock # None => device[d].code # 0

\* A session has a connection that the host has not given up.
HostEnds ==
  /\ hostEnd \in [Socket -> {"none", "open", "closing", "gone"}]
  /\ \A s \in Known : hostEnd[s] \in {"open", "closing"}

Queues ==
  /\ clientEnd \in [Socket -> {"none", "opening", "open", "gone"}]
  /\ up \in [Socket -> Seq(UpMessage)] /\ down \in [Socket -> Seq(DownMessage)]

\* "ready" and "confirm" travel only for a session that was given the list.
Messages ==
  \A s \in Socket :
    /\ Has(up[s], ConfirmMessage) => s \in files
    /\ Has(down[s], {"ready"}) /\ hostEnd[s] # "gone" => s \in files

\* A session has an id once a code has admitted it.
Named ==
  \A s \in Socket :
    /\ s \in files => clients[s].id # None
    /\ clients[s].id # None => clients[s].known /\ took[s] # 0
    /\ clients[s].awaiting => clients[s].id # None /\ ~clients[s].paired

OneId == \A s, t \in Known : clients[s].id = clients[t].id /\ clients[s].id # None => s = t

IInv ==
  /\ Codes /\ Flags /\ Sessions /\ Devices /\ HostEnds /\ Queues /\ Messages
  /\ Named /\ OneId /\ OneTimeCode /\ AccessIsGranted /\ PendingIsCurrent

-----------------------------------------------------------------------------
(* Queues *)

LEMMA HasEmpty == ASSUME NEW M PROVE ~Has(<<>>, M)
  BY DEF Has

LEMMA HasAppend ==
  ASSUME NEW T, NEW q \in Seq(T), NEW m \in T, NEW M, Has(Append(q, m), M)
  PROVE  Has(q, M) \/ m \in M
<1>1. PICK k \in 1..Len(Append(q, m)) : Append(q, m)[k] \in M
  BY DEF Has
<1>2. CASE k = Len(q) + 1
  BY <1>1, <1>2
<1>3. CASE k # Len(q) + 1
  <2>1. k \in 1..Len(q)
    BY <1>1, <1>3
  <2>2. Append(q, m)[k] = q[k]
    BY <2>1
  <2>3. QED
    BY <1>1, <2>1, <2>2 DEF Has
<1>4. QED
  BY <1>2, <1>3

LEMMA HasTail ==
  ASSUME NEW T, NEW q \in Seq(T), q # <<>>, NEW M
  PROVE  /\ Head(q) \in T /\ Tail(q) \in Seq(T)
         /\ Has(Tail(q), M) => Has(q, M)
         /\ Head(q) \in M => Has(q, M)
<1>1. Len(q) \in Nat /\ Len(q) >= 1 /\ Head(q) = q[1] /\ 1 \in 1..Len(q)
  OBVIOUS
<1>2. Head(q) \in T /\ Tail(q) \in Seq(T)
  OBVIOUS
<1>3. ASSUME Has(Tail(q), M) PROVE Has(q, M)
  <2>1. PICK k \in 1..Len(Tail(q)) : Tail(q)[k] \in M
    BY <1>3 DEF Has
  <2>2. k + 1 \in 1..Len(q) /\ Tail(q)[k] = q[k + 1]
    BY <1>1
  <2>3. QED
    BY <2>1, <2>2 DEF Has
<1>4. Head(q) \in M => Has(q, M)
  BY <1>1 DEF Has
<1>5. QED
  BY <1>2, <1>3, <1>4

LEMMA Types == IInv => TypeOK /\ OneSession
<1> SUFFICES ASSUME IInv PROVE TypeOK /\ OneSession
  OBVIOUS
<1>1. TypeOK
  BY DEF IInv, Codes, Flags, Sessions, Devices, HostEnds, Queues, DownMessage, TypeOK
<1>2. QED
  BY <1>1 DEF IInv, OneId, OneSession

LEMMA InvInit == Init => IInv
<1> SUFFICES ASSUME Init PROVE IInv
  OBVIOUS
<1>1. Codes
  <2>1. 0 \in 0..MaxOffers /\ 0 <= 0
    BY BoundAssumption
  <2>2. QED
    BY <2>1 DEF Init, Codes
<1>2. Flags
  BY DEF Init, Flags, HostPhase
<1>3. Known = {}
  BY DEF Init, Known, NoSession
<1>4. Sessions
  <2>1. IsFiniteSet(Known) /\ Cardinality(Known) <= MaxClients
    BY <1>3, FS_EmptySet, BoundAssumption
  <2>2. QED
    BY <2>1 DEF Init, Sessions, NoSession
<1>5. Devices
  <2>1. 0 \in 0..MaxOffers /\ 0 \in 0..Addresses
    BY BoundAssumption
  <2>2. QED
    BY <2>1 DEF Init, Devices, Idle, HostPhase
<1>6. HostEnds /\ Queues
  BY <1>3 DEF Init, HostEnds, Queues
<1>7. Messages
  BY HasEmpty DEF Init, Messages
<1>8. Named /\ OneId /\ PendingIsCurrent
  BY <1>3 DEF Init, Named, OneId, PendingIsCurrent, NoSession
<1>9. OneTimeCode
  BY DEF Init, OneTimeCode
<1>10. AccessIsGranted
  BY <1>3 DEF Init, AccessIsGranted, NoSession
<1>11. QED
  BY <1>1, <1>2, <1>4, <1>5, <1>6, <1>7, <1>8, <1>9, <1>10 DEF IInv

-----------------------------------------------------------------------------
(* The steps of a device *)

\* A device changes nothing that the host keeps.
LEMMA DeviceKeeps ==
  ASSUME IInv, UNCHANGED <<host, clients, hostEnd, history>>, Devices', Queues', Messages'
  PROVE  IInv'
<1>1. /\ UNCHANGED <<code, offers, since, target, took, expected>>
      /\ UNCHANGED <<hosting, phase, expired, shown, clients, hostEnd, files, approved>>
  BY DEF host, history
<1>2. Codes' /\ OneTimeCode'
  BY <1>1 DEF IInv, Codes, OneTimeCode
<1>3. Known' = Known /\ Unpaired' = Unpaired
  BY <1>1 DEF Known, Unpaired
<1>4. Flags' /\ Sessions' /\ HostEnds'
  BY <1>1, <1>3 DEF IInv, Flags, Sessions, HostEnds
<1>5. Named' /\ OneId'
  BY <1>1, <1>3 DEF IInv, Named, OneId
<1>6. AccessIsGranted'
  BY <1>1, <1>3 DEF IInv, AccessIsGranted
<1>7. PendingIsCurrent'
  BY <1>1, <1>3 DEF IInv, PendingIsCurrent
<1>8. QED
  BY <1>2, <1>4, <1>5, <1>6, <1>7 DEF IInv

\* A device closes a connection: nothing more is read from it.
LEMMA ClosedKeeps ==
  ASSUME IInv, UNCHANGED <<hostEnd, up, files>>,
         clientEnd' \in [Socket -> {"none", "opening", "open", "gone"}],
         NEW s, down' = [t \in Socket |-> IF t = s THEN <<>> ELSE down[t]]
  PROVE  Queues' /\ Messages'
<1>1. <<>> \in Seq(DownMessage)
  OBVIOUS
<1>2. \A t \in Socket : down'[t] = <<>> \/ down'[t] = down[t]
  OBVIOUS
<1>3. Queues'
  BY <1>1 DEF IInv, Queues
<1>4. Messages'
  BY <1>2, HasEmpty DEF IInv, Messages
<1>5. QED
  BY <1>3, <1>4

LEMMA LeaveKeeps ==
  ASSUME IInv, NEW d \in Device, NEW p \in {"idle", "error"}, Leave(d, p)
  PROVE  IInv'
<1>1. /\ device' = [device EXCEPT ![d] = [Idle EXCEPT !.phase = p]]
      /\ UNCHANGED <<host, clients, hostEnd, up, history>>
      /\ clientEnd' = [t \in Socket |-> IF t = device[d].sock THEN "gone" ELSE clientEnd[t]]
      /\ down' = [t \in Socket |-> IF t = device[d].sock THEN <<>> ELSE down[t]]
  BY DEF Leave, Closed
<1>2. clientEnd' \in [Socket -> {"none", "opening", "open", "gone"}]
  BY <1>1 DEF IInv, Queues
<1>3. Queues' /\ Messages'
  BY <1>1, <1>2, ClosedKeeps DEF history
<1>4. Devices'
  <2>1. 0 \in 0..MaxOffers /\ 0 \in 0..Addresses
    BY BoundAssumption
  <2>2. [Idle EXCEPT !.phase = p] \in
          [phase : HostPhase \cup {"connecting"}, sock : Socket \cup {None},
           code : 0..MaxOffers, late : BOOLEAN, hello : BOOLEAN,
           left : 0..Addresses, paired : BOOLEAN]
    BY <2>1 DEF Idle, HostPhase
  <2>3. [Idle EXCEPT !.phase = p].sock = None
    BY DEF Idle
  <2>4. QED
    BY <1>1, <2>2, <2>3 DEF IInv, Devices
<1>5. QED
  BY <1>1, <1>3, <1>4, DeviceKeeps

\* A device with a code and an address left dials it.
LEMMA DialKeeps ==
  ASSUME IInv, NEW d \in Device, NEW s \in Socket,
         NEW r \in [phase : HostPhase \cup {"connecting"}, sock : Socket \cup {None},
                    code : 0..MaxOffers, late : BOOLEAN, hello : BOOLEAN,
                    left : 0..Addresses, paired : BOOLEAN],
         r.code # 0, r.left # 0, Dial(d, r, s)
  PROVE  IInv'
<1>1. /\ device' = [device EXCEPT ![d] = [r EXCEPT !.sock = s, !.hello = FALSE,
                                                    !.left = r.left - 1]]
      /\ UNCHANGED <<host, clients, hostEnd, up, history>>
      /\ down' = [t \in Socket |-> IF t = device[d].sock THEN <<>> ELSE down[t]]
  BY DEF Dial
<1>2. clientEnd' \in [Socket -> {"none", "opening", "open", "gone"}]
  <2>1. clientEnd' = [t \in Socket |-> IF t = s THEN "opening"
                                       ELSE IF t = device[d].sock THEN "gone" ELSE clientEnd[t]]
    BY DEF Dial
  <2>2. QED
    BY <2>1 DEF IInv, Queues
<1>3. Queues' /\ Messages'
  BY <1>1, <1>2, ClosedKeeps DEF history
<1>4. Devices'
  <2>1. r.left - 1 \in 0..Addresses
    BY BoundAssumption
  <2>2. [r EXCEPT !.sock = s, !.hello = FALSE, !.left = r.left - 1] \in
          [phase : HostPhase \cup {"connecting"}, sock : Socket \cup {None},
           code : 0..MaxOffers, late : BOOLEAN, hello : BOOLEAN,
           left : 0..Addresses, paired : BOOLEAN]
    BY <2>1
  <2>3. [r EXCEPT !.sock = s, !.hello = FALSE, !.left = r.left - 1].code # 0
    OBVIOUS
  <2>4. QED
    BY <1>1, <2>2, <2>3 DEF IInv, Devices
<1>5. QED
  BY <1>1, <1>3, <1>4, DeviceKeeps

LEMMA JoinKeeps ==
  ASSUME IInv, NEW d \in Device, NEW k \in 1..MaxOffers, NEW s \in Socket, Join(d, k, s)
  PROVE  IInv'
<1> DEFINE r == [Idle EXCEPT !.phase = "connecting", !.code = k, !.left = Addresses]
<1>1. k \in 0..MaxOffers /\ k # 0 /\ Addresses \in 0..Addresses /\ Addresses # 0
  BY BoundAssumption
<1>2. /\ r \in [phase : HostPhase \cup {"connecting"}, sock : Socket \cup {None},
                code : 0..MaxOffers, late : BOOLEAN, hello : BOOLEAN,
                left : 0..Addresses, paired : BOOLEAN]
      /\ r.code # 0 /\ r.left # 0
  BY <1>1 DEF Idle
<1>3. Dial(d, r, s)
  BY DEF Join
<1> HIDE DEF r
<1>4. QED
  BY <1>2, <1>3, DialKeeps

LEMMA NextAddressKeeps ==
  ASSUME IInv, NEW d \in Device, NextAddress(d)
  PROVE  IInv'
<1>1. CASE device[d].left = 0
  BY <1>1, LeaveKeeps DEF NextAddress
<1>2. CASE device[d].left # 0
  <2>1. PICK s \in Socket : Dial(d, device[d], s)
    BY <1>2 DEF NextAddress
  <2>2. device[d].code # 0
    BY DEF NextAddress, IInv, Devices
  <2>3. device[d] \in [phase : HostPhase \cup {"connecting"}, sock : Socket \cup {None},
                       code : 0..MaxOffers, late : BOOLEAN, hello : BOOLEAN,
                       left : 0..Addresses, paired : BOOLEAN]
    BY DEF IInv, Devices
  <2>4. QED
    BY <1>2, <2>1, <2>2, <2>3, DialKeeps
<1>3. QED
  BY <1>1, <1>2

\* The fields of a device that its messages change.
LEMMA DevicesKept ==
  ASSUME IInv, NEW d \in Device,
         NEW p \in HostPhase, NEW l \in BOOLEAN, NEW h \in BOOLEAN, NEW q \in BOOLEAN,
         device' = [device EXCEPT ![d] = [device[d] EXCEPT !.phase = p, !.late = l,
                                                            !.hello = h, !.paired = q]]
  PROVE  Devices'
<1>1. device[d] \in [phase : HostPhase \cup {"connecting"}, sock : Socket \cup {None},
                     code : 0..MaxOffers, late : BOOLEAN, hello : BOOLEAN,
                     left : 0..Addresses, paired : BOOLEAN]
  BY DEF IInv, Devices
<1>2. QED
  BY <1>1 DEF IInv, Devices

\* A device answers on its connection, unless the host has given it up.
LEMMA SentUp ==
  ASSUME IInv, NEW s \in Socket, NEW m \in UpMessage,
         m \in ConfirmMessage /\ hostEnd[s] # "gone" => s \in files,
         UNCHANGED <<hostEnd, files>>,
         clientEnd' \in [Socket -> {"none", "opening", "open", "gone"}],
         \A t \in Socket : down'[t] \in Seq(DownMessage)
                           /\ (Has(down'[t], {"ready"}) => Has(down[t], {"ready"})),
         down' = [t \in Socket |-> down'[t]],
         up' = [up EXCEPT ![s] = IF hostEnd[s] = "gone" THEN @ ELSE Append(@, m)]
  PROVE  Queues' /\ Messages'
<1>1. up[s] \in Seq(UpMessage) /\ Append(up[s], m) \in Seq(UpMessage)
  BY DEF IInv, Queues
<1>2. up' \in [Socket -> Seq(UpMessage)]
  BY <1>1 DEF IInv, Queues
<1>3. down' \in [Socket -> Seq(DownMessage)]
  OBVIOUS
<1>4. ASSUME NEW t \in Socket, Has(up'[t], ConfirmMessage) PROVE t \in files
  <2>1. CASE t = s /\ hostEnd[s] # "gone"
    <3>1. up'[t] = Append(up[s], m)
      BY <2>1 DEF IInv, Queues
    <3>2. Has(up[s], ConfirmMessage) \/ m \in ConfirmMessage
      BY <1>1, <1>4, <3>1, HasAppend
    <3>3. QED
      BY <2>1, <3>2 DEF IInv, Messages
  <2>2. CASE t # s \/ hostEnd[s] = "gone"
    <3>1. up'[t] = up[t]
      BY <2>2 DEF IInv, Queues
    <3>2. QED
      BY <1>4, <3>1 DEF IInv, Messages
  <2>3. QED
    BY <2>1, <2>2
<1>5. Messages'
  BY <1>4 DEF IInv, Messages
<1>6. QED
  BY <1>2, <1>3, <1>5 DEF Queues

\* The messages that are left after a device has read one.
LEMMA ReadDown ==
  ASSUME IInv, NEW s \in Socket, down[s] # <<>>,
         down' = [down EXCEPT ![s] = Tail(@)]
  PROVE  /\ down' = [t \in Socket |-> down'[t]]
         /\ \A t \in Socket : down'[t] \in Seq(DownMessage)
                              /\ (Has(down'[t], {"ready"}) => Has(down[t], {"ready"}))
         /\ Head(down[s]) = "ready" => Has(down[s], {"ready"})
<1>1. down \in [Socket -> Seq(DownMessage)] /\ down[s] \in Seq(DownMessage)
  BY DEF IInv, Queues
<1>2. /\ Tail(down[s]) \in Seq(DownMessage)
      /\ Has(Tail(down[s]), {"ready"}) => Has(down[s], {"ready"})
      /\ Head(down[s]) \in {"ready"} => Has(down[s], {"ready"})
  BY <1>1, HasTail
<1>3. QED
  BY <1>1, <1>2

LEMMA HelloKeeps ==
  ASSUME IInv, NEW d \in Device, Hello(d)
  PROVE  IInv'
<1>1. CASE Leave(d, "error")
  BY <1>1, LeaveKeeps
<1>2. CASE ~Leave(d, "error")
  <2> DEFINE s == device[d].sock
             m == [type |-> "pair", code |-> device[d].code, id |-> d]
  <2>1. /\ s # None
        /\ clientEnd' = [clientEnd EXCEPT ![s] = "open"]
        /\ device' = [device EXCEPT ![d].hello = TRUE, ![d].phase = "verifying"]
        /\ up' = [up EXCEPT ![s] = IF hostEnd[s] = "gone" THEN @ ELSE Append(@, m)]
        /\ UNCHANGED <<host, clients, hostEnd, down, history>>
    BY <1>2 DEF Hello
  <2>2. s \in Socket
    BY <2>1 DEF IInv, Devices
  <2>3. m \in UpMessage /\ m \notin ConfirmMessage
    <3>1. device[d].code \in 1..MaxOffers
      <4>1. device[d].code \in 0..MaxOffers /\ device[d].code # 0
        BY <2>1 DEF IInv, Devices
      <4>2. QED
        BY <4>1, BoundAssumption
    <3>2. m.type = "pair" /\ m \in [type : {"pair"}, code : 1..MaxOffers, id : Device]
      BY <3>1
    <3>3. \A x \in ConfirmMessage : x.type = "confirm"
      BY DEF ConfirmMessage
    <3>4. QED
      BY <3>2, <3>3 DEF UpMessage
  <2>4. Devices'
    <3>1. /\ device' = [device EXCEPT ![d] =
               [device[d] EXCEPT !.phase = "verifying", !.late = device[d].late,
                                 !.hello = TRUE, !.paired = device[d].paired]]
          /\ device[d].late \in BOOLEAN /\ device[d].paired \in BOOLEAN
      BY <2>1 DEF IInv, Devices
    <3>2. "verifying" \in HostPhase
      BY DEF HostPhase
    <3>3. QED
      BY <3>1, <3>2, DevicesKept
  <2>5. clientEnd' \in [Socket -> {"none", "opening", "open", "gone"}]
    BY <2>1, <2>2 DEF IInv, Queues
  <2>6. /\ down' = [t \in Socket |-> down'[t]]
        /\ \A t \in Socket : down'[t] \in Seq(DownMessage)
                             /\ (Has(down'[t], {"ready"}) => Has(down[t], {"ready"}))
    BY <2>1 DEF IInv, Queues
  <2>7. UNCHANGED <<hostEnd, files>>
    BY <2>1 DEF history
  <2> HIDE DEF m, s
  <2>8. Queues' /\ Messages'
    BY <2>1, <2>2, <2>3, <2>5, <2>6, <2>7, SentUp
  <2>9. QED
    BY <2>1, <2>4, <2>8, DeviceKeeps
<1>3. QED
  BY <1>1, <1>2

\* What a device does with a message it has read, other than an answer.
LEMMA ReadKeeps ==
  ASSUME IInv, NEW d \in Device, NEW m, Said(d, m), Read(d), UNCHANGED up, Devices'
  PROVE  IInv'
<1> DEFINE s == device[d].sock
<1>1. s \in Socket /\ down[s] # <<>>
  BY DEF Said, IInv, Devices
<1>2. /\ down' = [down EXCEPT ![s] = Tail(@)]
      /\ UNCHANGED <<host, clients, hostEnd, clientEnd, history>>
  BY DEF Read
<1> HIDE DEF s
<1>3. /\ down' = [t \in Socket |-> down'[t]]
      /\ \A t \in Socket : down'[t] \in Seq(DownMessage)
                           /\ (Has(down'[t], {"ready"}) => Has(down[t], {"ready"}))
  BY <1>1, <1>2, ReadDown
<1>4. Queues'
  BY <1>2, <1>3 DEF IInv, Queues
<1>5. Messages'
  BY <1>2, <1>3 DEF IInv, Messages, history
<1>6. QED
  BY <1>2, <1>4, <1>5, DeviceKeeps

LEMMA VerifyKeeps ==
  ASSUME IInv, NEW d \in Device, Verify(d)
  PROVE  IInv'
<1>1. /\ device' = [device EXCEPT ![d] =
           [device[d] EXCEPT !.phase = "confirming", !.late = FALSE,
                             !.hello = device[d].hello, !.paired = device[d].paired]]
      /\ device[d].hello \in BOOLEAN /\ device[d].paired \in BOOLEAN
  BY DEF Verify, IInv, Devices
<1>2. "confirming" \in HostPhase
  BY DEF HostPhase
<1>3. Devices'
  BY <1>1, <1>2, DevicesKept
<1>4. QED
  BY <1>3, ReadKeeps DEF Verify

LEMMA PairedKeeps ==
  ASSUME IInv, NEW d \in Device, Paired(d)
  PROVE  IInv'
<1>1. /\ device' = [device EXCEPT ![d] =
           [device[d] EXCEPT !.phase = "paired", !.late = device[d].late,
                             !.hello = device[d].hello, !.paired = TRUE]]
      /\ device[d].hello \in BOOLEAN /\ device[d].late \in BOOLEAN
  BY DEF Paired, IInv, Devices
<1>2. "paired" \in HostPhase
  BY DEF HostPhase
<1>3. Devices'
  BY <1>1, <1>2, DevicesKept
<1>4. QED
  BY <1>3, ReadKeeps DEF Paired

LEMMA ReadyKeeps ==
  ASSUME IInv, NEW d \in Device, Ready(d)
  PROVE  IInv'
<1> DEFINE s == device[d].sock
           m == [type |-> "confirm"]
<1>1. s \in Socket /\ down[s] # <<>> /\ Head(down[s]) = "ready"
  BY DEF Ready, Said, IInv, Devices
<1>2. /\ down' = [down EXCEPT ![s] = Tail(@)]
      /\ UNCHANGED <<host, clients, hostEnd, clientEnd, history>>
      /\ device' = [device EXCEPT ![d].phase = "verifying"]
      /\ up' = [up EXCEPT ![s] = IF hostEnd[s] = "gone" THEN @ ELSE Append(@, m)]
  BY DEF Ready, Read
<1>3. Devices'
  <2>1. /\ device' = [device EXCEPT ![d] =
             [device[d] EXCEPT !.phase = "verifying", !.late = device[d].late,
                               !.hello = device[d].hello, !.paired = device[d].paired]]
        /\ device[d].hello \in BOOLEAN /\ device[d].late \in BOOLEAN
        /\ device[d].paired \in BOOLEAN
    BY <1>2 DEF IInv, Devices
  <2>2. "verifying" \in HostPhase
    BY DEF HostPhase
  <2>3. QED
    BY <2>1, <2>2, DevicesKept
<1>4. m \in UpMessage
  BY DEF UpMessage
<1> HIDE DEF m, s
<1>5. /\ down' = [t \in Socket |-> down'[t]]
      /\ \A t \in Socket : down'[t] \in Seq(DownMessage)
                           /\ (Has(down'[t], {"ready"}) => Has(down[t], {"ready"}))
      /\ Has(down[s], {"ready"})
  BY <1>1, <1>2, ReadDown
<1>6. hostEnd[s] # "gone" => s \in files
  BY <1>1, <1>5 DEF IInv, Messages
<1>7. clientEnd' \in [Socket -> {"none", "opening", "open", "gone"}]
  BY <1>2 DEF IInv, Queues
<1>8. Queues' /\ Messages'
  BY <1>1, <1>2, <1>4, <1>5, <1>6, <1>7, SentUp DEF history
<1>9. QED
  BY <1>2, <1>3, <1>8, DeviceKeeps

LEMMA DeviceTimeKeeps ==
  ASSUME IInv, NEW d \in Device, DeviceTime(d)
  PROVE  IInv'
<1>1. /\ device' = [device EXCEPT ![d].late = TRUE]
      /\ UNCHANGED <<host, clients, hostEnd, clientEnd, up, down, history>>
  BY DEF DeviceTime, net
<1>2. Devices'
  BY <1>1 DEF IInv, Devices
<1>3. Queues' /\ Messages'
  BY <1>1 DEF IInv, Queues, Messages, history
<1>4. QED
  BY <1>1, <1>2, <1>3, DeviceKeeps

LEMMA DeviceStepKeeps ==
  ASSUME IInv, NEW d \in Device, DeviceStep(d)
  PROVE  IInv'
<1>1. ASSUME NEW s \in Socket, NEW k \in 1..MaxOffers, Join(d, k, s) PROVE IInv'
  BY <1>1, JoinKeeps
<1>2. CASE JoinRefused(d) \/ Failed(d) \/ DeviceLost(d) \/ DeviceStop(d) \/ DeviceSweep(d)
  BY <1>2, LeaveKeeps DEF JoinRefused, Failed, DeviceLost, DeviceStop, DeviceSweep
<1>3. CASE NextAddress(d)
  BY <1>3, NextAddressKeeps
<1>4. CASE Hello(d)
  BY <1>4, HelloKeeps
<1>5. CASE Verify(d)
  BY <1>5, VerifyKeeps
<1>6. CASE Ready(d)
  BY <1>6, ReadyKeeps
<1>7. CASE Paired(d)
  BY <1>7, PairedKeeps
<1>8. CASE DeviceTime(d)
  BY <1>8, DeviceTimeKeeps
<1>9. QED
  BY <1>1, <1>2, <1>3, <1>4, <1>5, <1>6, <1>7, <1>8 DEF DeviceStep

-----------------------------------------------------------------------------
(* The host's table: fewer sessions *)

LEMMA FewerKnown ==
  ASSUME Sessions, NEW K \in SUBSET Known
  PROVE  IsFiniteSet(K) /\ Cardinality(K) <= MaxClients
<1>1. IsFiniteSet(Known) /\ Cardinality(Known) <= MaxClients
  BY DEF Sessions
<1>2. IsFiniteSet(K) /\ Cardinality(K) <= Cardinality(Known)
  BY <1>1, FS_Subset
<1>3. Cardinality(K) \in Nat /\ Cardinality(Known) \in Nat
  BY <1>1, <1>2, FS_CardinalityType
<1>4. QED
  BY <1>1, <1>2, <1>3, BoundAssumption

\* The sessions S are gone with their messages, and the others are as before.
LEMMA DropKeeps ==
  ASSUME IInv, NEW S \in SUBSET Socket, Drop(S), UNCHANGED <<device, clientEnd, down, took>>
  PROVE  /\ Sessions' /\ Devices' /\ HostEnds' /\ Queues' /\ Messages'
         /\ Named' /\ OneId' /\ OneTimeCode'
         /\ Known' = Known \ S
         /\ \A s \in Socket \ S : clients'[s] = clients[s]
         /\ files' = files \ S /\ approved' = approved \ S
<1>1. /\ clients' = [s \in Socket |-> IF s \in S THEN NoSession ELSE clients[s]]
      /\ hostEnd' = [s \in Socket |-> IF s \in S THEN "gone" ELSE hostEnd[s]]
      /\ up' = [s \in Socket |-> IF s \in S THEN <<>> ELSE up[s]]
      /\ files' = files \ S /\ approved' = approved \ S
  BY DEF Drop
<1>2. /\ \A s \in Socket \ S : clients'[s] = clients[s]
      /\ \A s \in S : clients'[s] = NoSession
  BY <1>1
<1>3. NoSession.id = None /\ ~NoSession.awaiting /\ ~NoSession.known
  BY DEF NoSession
<1>4. Known' = Known \ S
  BY <1>2, <1>3 DEF Known
<1>5. Sessions'
  <2>1. NoSession \in [id : Device \cup {None}, paired : BOOLEAN, late : BOOLEAN,
                       awaiting : BOOLEAN, known : BOOLEAN]
    BY DEF NoSession
  <2>2. clients' \in [Socket -> [id : Device \cup {None}, paired : BOOLEAN, late : BOOLEAN,
                                awaiting : BOOLEAN, known : BOOLEAN]]
    BY <1>1, <2>1 DEF IInv, Sessions
  <2>3. IsFiniteSet(Known') /\ Cardinality(Known') <= MaxClients
    BY <1>4, FewerKnown DEF IInv
  <2>4. files' \in SUBSET Socket /\ approved' \in SUBSET Socket
    BY <1>1 DEF IInv, Sessions
  <2>5. QED
    BY <2>2, <2>3, <2>4 DEF Sessions
<1>6. Devices'
  BY DEF IInv, Devices
<1>7. HostEnds'
  BY <1>1, <1>4 DEF IInv, HostEnds, Known
<1>8. Queues'
  <2>1. <<>> \in Seq(UpMessage)
    OBVIOUS
  <2>2. up' \in [Socket -> Seq(UpMessage)]
    BY <1>1, <2>1 DEF IInv, Queues
  <2>3. QED
    BY <2>2 DEF IInv, Queues
<1>9. Messages'
  BY <1>1, HasEmpty DEF IInv, Messages
<1>10. Named'
  BY <1>1, <1>2, <1>3 DEF IInv, Named
<1>11. OneId'
  BY <1>2, <1>4 DEF IInv, OneId, Known
<1>12. OneTimeCode'
  BY DEF IInv, OneTimeCode
<1>13. QED
  BY <1>1, <1>2, <1>4, <1>5, <1>6, <1>7, <1>8, <1>9, <1>10, <1>11, <1>12

\* Dropping sessions takes access away and gives none; the codes that admitted
\* the others are bound to the same devices as before.
LEMMA DropAccess ==
  ASSUME IInv, NEW S \in SUBSET Socket, Drop(S), UNCHANGED took,
         \A s \in Socket : took[s] # 0 => target'[took[s]] = target[took[s]]
  PROVE  AccessIsGranted'
<1>1. /\ clients' = [s \in Socket |-> IF s \in S THEN NoSession ELSE clients[s]]
      /\ files' = files \ S /\ approved' = approved \ S
  BY DEF Drop
<1>2. /\ \A s \in Socket \ S : clients'[s] = clients[s]
      /\ \A s \in S : clients'[s] = NoSession
  BY <1>1
<1>3. ~NoSession.paired /\ ~NoSession.known
  BY DEF NoSession
<1>4. \A s \in Socket : clients'[s].paired => s \in files'
  BY <1>1, <1>2, <1>3 DEF IInv, AccessIsGranted
<1>5. files \in SUBSET Socket
  BY DEF IInv, Sessions
<1>6. \A s \in files' : target'[took'[s]] # None => s \in approved'
  <2>1. SUFFICES ASSUME NEW s \in files', target'[took'[s]] # None PROVE s \in approved'
    OBVIOUS
  <2>2. s \in files /\ s \in Socket /\ s \notin S
    BY <1>1, <1>5
  <2>3. took[s] # 0
    BY <2>2 DEF IInv, Named
  <2>4. target[took[s]] # None
    BY <2>1, <2>2, <2>3
  <2>5. QED
    BY <1>1, <2>2, <2>4 DEF IInv, AccessIsGranted
<1>7. \A s \in Known' : clients'[s].id # None => target'[took'[s]] \in {None, clients'[s].id}
  <2>1. SUFFICES ASSUME NEW s \in Known', clients'[s].id # None
                 PROVE  target'[took'[s]] \in {None, clients'[s].id}
    OBVIOUS
  <2>2. s \in Socket /\ s \notin S /\ s \in Known /\ clients'[s] = clients[s]
    BY <1>2, <1>3 DEF Known
  <2>3. took[s] # 0
    BY <2>1, <2>2 DEF IInv, Named
  <2>4. QED
    BY <2>1, <2>2, <2>3 DEF IInv, AccessIsGranted
<1>8. QED
  BY <1>4, <1>6, <1>7 DEF AccessIsGranted

LEMMA ResetKeeps ==
  ASSUME IInv, NEW b \in BOOLEAN, NEW p \in {"idle", "hosting", "error"}, Reset(b, p)
  PROVE  IInv'
<1>1. /\ Drop(Known) /\ hosting' = b /\ phase' = p
      /\ code' = 0 /\ expired' = FALSE /\ expected' = None /\ shown' = None
      /\ since' = offers
      /\ UNCHANGED <<device, clientEnd, down, offers, target, took>>
  BY DEF Reset
<1>2. Known \in SUBSET Socket
  BY DEF Known
<1>3. /\ Sessions' /\ Devices' /\ HostEnds' /\ Queues' /\ Messages'
      /\ Named' /\ OneId' /\ OneTimeCode' /\ Known' = Known \ Known
  BY <1>1, <1>2, DropKeeps
<1>4. Codes'
  BY <1>1, BoundAssumption DEF IInv, Codes
<1>5. Flags'
  BY <1>1 DEF Flags, HostPhase
<1>6. AccessIsGranted'
  BY <1>1, <1>2, DropAccess
<1>7. PendingIsCurrent'
  BY <1>1, <1>3 DEF PendingIsCurrent
<1>8. QED
  BY <1>3, <1>4, <1>5, <1>6, <1>7 DEF IInv

\* Every session that is left is paired.
LEMMA OnlyPaired ==
  ASSUME IInv, Drop(Unpaired), UNCHANGED <<device, clientEnd, down, took>>,
         phase' # "verifying"
  PROVE  PendingIsCurrent'
<1>1. Unpaired \in SUBSET Socket
  BY DEF Unpaired, Known
<1>2. Known' = Known \ Unpaired /\ \A s \in Socket \ Unpaired : clients'[s] = clients[s]
  BY <1>1, DropKeeps
<1>3. \A s \in Known' : s \in Socket /\ clients'[s].paired /\ ~clients'[s].awaiting
  BY <1>2 DEF Unpaired, Known, IInv, Named
<1>4. QED
  BY <1>3 DEF PendingIsCurrent

LEMMA CancelKeeps == ASSUME IInv, Cancel PROVE IInv'
<1>1. /\ Drop(Unpaired) /\ phase' = IF hosting THEN "hosting" ELSE "idle"
      /\ code' = 0 /\ expired' = FALSE /\ expected' = None /\ shown' = None
      /\ UNCHANGED <<hosting, device, clientEnd, down, offers, since, target, took>>
  BY DEF Cancel
<1>2. Unpaired \in SUBSET Socket
  BY DEF Unpaired, Known
<1>3. /\ Sessions' /\ Devices' /\ HostEnds' /\ Queues' /\ Messages'
      /\ Named' /\ OneId' /\ OneTimeCode'
  BY <1>1, <1>2, DropKeeps
<1>4. Codes'
  BY <1>1, BoundAssumption DEF IInv, Codes
<1>5. Flags' /\ phase' # "verifying"
  BY <1>1 DEF IInv, Flags, HostPhase
<1>6. AccessIsGranted'
  BY <1>1, <1>2, DropAccess
<1>7. PendingIsCurrent'
  BY <1>1, <1>5, OnlyPaired
<1>8. QED
  BY <1>3, <1>4, <1>5, <1>6, <1>7 DEF IInv

LEMMA CreateOfferKeeps ==
  ASSUME IInv, NEW d \in PeerId \cup {None}, CreateOffer(d)
  PROVE  IInv'
<1>1. /\ Drop(Unpaired) /\ phase' = "showing" /\ code' = offers + 1 /\ expired' = FALSE
      /\ expected' = d /\ shown' = None
      /\ offers < MaxOffers
      /\ offers' = offers + 1 /\ target' = [target EXCEPT ![offers + 1] = d]
      /\ UNCHANGED <<hosting, device, clientEnd, down, since, took>>
  BY DEF CreateOffer
<1>2. Unpaired \in SUBSET Socket
  BY DEF Unpaired, Known
<1>3. /\ Sessions' /\ Devices' /\ HostEnds' /\ Queues' /\ Messages'
      /\ Named' /\ OneId' /\ OneTimeCode'
  BY <1>1, <1>2, DropKeeps
<1>4. /\ offers \in 0..MaxOffers /\ since \in 0..MaxOffers
      /\ target \in [1..MaxOffers -> PeerId \cup {None}]
      /\ took \in [Socket -> 0..MaxOffers] /\ \A s \in Socket : took[s] <= offers
  BY DEF IInv, Codes
<1>5. offers + 1 \in 1..MaxOffers /\ offers + 1 \in 0..MaxOffers
  BY <1>1, <1>4, BoundAssumption
<1>6. \A s \in Socket : took[s] # offers + 1 /\ took[s] <= offers + 1
  BY <1>4, BoundAssumption
<1>7. target' \in [1..MaxOffers -> PeerId \cup {None}] /\ target'[offers + 1] = d
  BY <1>1, <1>4, <1>5
<1>8. Codes'
  BY <1>1, <1>4, <1>5, <1>6, <1>7 DEF Codes
<1>9. Flags' /\ phase' # "verifying"
  BY <1>1 DEF IInv, Flags, HostPhase
<1>10. \A s \in Socket : took[s] # 0 => target'[took[s]] = target[took[s]]
  <2>1. ASSUME NEW s \in Socket, took[s] # 0 PROVE took[s] \in 1..MaxOffers
    BY <1>4, <2>1, BoundAssumption
  <2>2. QED
    BY <1>1, <1>4, <1>6, <2>1
<1>11. AccessIsGranted'
  BY <1>1, <1>2, <1>10, DropAccess
<1>12. PendingIsCurrent'
  BY <1>1, <1>9, OnlyPaired
<1>13. QED
  BY <1>3, <1>8, <1>9, <1>11, <1>12 DEF IInv

LEMMA HostLostKeeps ==
  ASSUME IInv, NEW s \in Socket, HostLost(s)
  PROVE  IInv'
<1>1. /\ clients[s].known /\ phase' = PhaseAfter(s) /\ Drop({s})
      /\ UNCHANGED <<hosting, code, expired, expected, shown, device, clientEnd, down>>
      /\ UNCHANGED <<offers, since, target, took>>
  BY DEF HostLost
<1>2. /\ Sessions' /\ Devices' /\ HostEnds' /\ Queues' /\ Messages'
      /\ Named' /\ OneId' /\ OneTimeCode'
      /\ Known' = Known \ {s} /\ \A t \in Socket \ {s} : clients'[t] = clients[t]
  BY <1>1, DropKeeps
<1>3. Codes'
  BY <1>1 DEF IInv, Codes
<1>4. phase' \in HostPhase
  BY <1>1 DEF PhaseAfter, IInv, Flags, HostPhase
<1>5. Flags'
  BY <1>1, <1>4 DEF IInv, Flags
<1>6. AccessIsGranted'
  BY <1>1, DropAccess
<1>7. PendingIsCurrent'
  <2>1. \A t \in Known' : t \in Known /\ t \in Socket /\ clients'[t] = clients[t]
    BY <1>2 DEF Known
  <2>2. ASSUME phase' = "verifying" PROVE \E t \in Unpaired' : clients'[t].id # None
    <3>1. phase = "verifying" /\ (clients[s].id = None \/ clients[s].paired)
      BY <1>1, <2>2 DEF PhaseAfter
    <3>2. PICK t \in Unpaired : clients[t].id # None
      BY <3>1 DEF IInv, PendingIsCurrent
    <3>3. t # s /\ t \in Known /\ t \in Socket
      BY <3>1, <3>2 DEF Unpaired, Known
    <3>4. t \in Known' /\ clients'[t] = clients[t]
      BY <1>2, <3>3
    <3>5. QED
      BY <3>2, <3>4 DEF Unpaired
  <2>3. ASSUME NEW t \in Known', clients'[t].awaiting
        PROVE  phase' = "confirming" /\ shown' = t /\ expected' = clients'[t].id
    BY <1>1, <2>1, <2>3 DEF IInv, PendingIsCurrent, PhaseAfter
  <2>4. ASSUME NEW t \in Known', clients'[t].id # None, ~clients'[t].paired
        PROVE  took'[t] = offers' /\ code' = 0
    BY <1>1, <2>1, <2>4 DEF IInv, PendingIsCurrent
  <2>5. QED
    BY <2>2, <2>3, <2>4 DEF PendingIsCurrent
<1>8. QED
  BY <1>2, <1>3, <1>5, <1>6, <1>7 DEF IInv

-----------------------------------------------------------------------------
(* The host's connections and its timer *)

LEMMA CodeTimeKeeps == ASSUME IInv, CodeTime PROVE IInv'
<1>1. /\ expired' = TRUE
      /\ UNCHANGED <<code, offers, since, target, took, expected>>
      /\ UNCHANGED <<hosting, phase, shown, clients, hostEnd, files, approved>>
      /\ UNCHANGED <<device, clientEnd, up, down>>
  BY DEF CodeTime, net, history
<1>2. Codes' /\ OneTimeCode'
  BY <1>1 DEF IInv, Codes, OneTimeCode
<1>3. Known' = Known /\ Unpaired' = Unpaired
  BY <1>1 DEF Known, Unpaired
<1>4. Flags' /\ Sessions' /\ HostEnds' /\ Queues' /\ Devices'
  BY <1>1, <1>3 DEF IInv, Flags, Sessions, HostEnds, Queues, Devices
<1>5. Named' /\ OneId' /\ Messages'
  BY <1>1, <1>3 DEF IInv, Named, OneId, Messages
<1>6. AccessIsGranted' /\ PendingIsCurrent'
  BY <1>1, <1>3 DEF IInv, AccessIsGranted, PendingIsCurrent
<1>7. QED
  BY <1>2, <1>4, <1>5, <1>6 DEF IInv

\* Some deadline passes: nothing else depends on it.
LEMMA SessionTimeKeeps == ASSUME IInv, NEW s \in Socket, SessionTime(s) PROVE IInv'
<1>1. /\ clients' = [clients EXCEPT ![s].late = TRUE]
      /\ UNCHANGED <<code, offers, since, target, took, expected>>
      /\ UNCHANGED <<hosting, expired, phase, shown, hostEnd, files, approved>>
      /\ UNCHANGED <<device, clientEnd, up, down>>
  BY DEF SessionTime, net, history, host
<1>2. clients' \in [Socket -> [id : Device \cup {None}, paired : BOOLEAN, late : BOOLEAN,
                              awaiting : BOOLEAN, known : BOOLEAN]]
  BY <1>1 DEF IInv, Sessions
<1>3. \A t \in Socket : /\ clients'[t].id = clients[t].id
                        /\ clients'[t].paired = clients[t].paired
                        /\ clients'[t].awaiting = clients[t].awaiting
                        /\ clients'[t].known = clients[t].known
  BY <1>1 DEF IInv, Sessions
<1>4. Known' = Known
  BY <1>3 DEF Known
<1>5. Unpaired' = Unpaired
  BY <1>3, <1>4 DEF Unpaired, Known
<1>6. Codes' /\ OneTimeCode'
  BY <1>1 DEF IInv, Codes, OneTimeCode
<1>7. Flags' /\ Sessions' /\ HostEnds' /\ Queues' /\ Devices'
  BY <1>1, <1>2, <1>4 DEF IInv, Flags, Sessions, HostEnds, Queues, Devices
<1>8. Named' /\ OneId' /\ Messages'
  BY <1>1, <1>3, <1>4 DEF IInv, Named, OneId, Messages, Known
<1>9. AccessIsGranted'
  BY <1>1, <1>3, <1>4 DEF IInv, AccessIsGranted, Known
<1>10. PendingIsCurrent'
  BY <1>1, <1>3, <1>4, <1>5 DEF IInv, PendingIsCurrent, Known, Unpaired
<1>11. QED
  BY <1>6, <1>7, <1>8, <1>9, <1>10 DEF IInv

\* A sweep: a code that has expired is cleared, sessions that are late close.
LEMMA HostSweepKeeps == ASSUME IInv, HostSweep PROVE IInv'
<1>1. /\ hostEnd' = [s \in Socket |-> IF Late(s) THEN "closing" ELSE hostEnd[s]]
      /\ UNCHANGED <<hosting, expected, shown, clients, device, clientEnd, up, down>>
      /\ UNCHANGED <<offers, since, target, took, files, approved>>
  BY DEF HostSweep, history
<1>2. \/ code # 0 /\ code' = 0 /\ expired' = FALSE /\ phase' = "error"
      \/ UNCHANGED <<code, expired, phase>>
  BY DEF HostSweep
<1>3. Known' = Known /\ Unpaired' = Unpaired
  BY <1>1 DEF Known, Unpaired
<1>4. code' = 0 \/ code' = code
  BY <1>2
<1>5. Codes'
  <2>1. 0 \in 0..MaxOffers
    BY BoundAssumption
  <2>2. QED
    BY <1>1, <1>4, <2>1 DEF IInv, Codes
<1>6. OneTimeCode' /\ Named' /\ OneId'
  BY <1>1, <1>3 DEF IInv, OneTimeCode, Named, OneId
<1>7. Flags'
  BY <1>1, <1>2 DEF IInv, Flags, HostPhase
<1>8. Sessions' /\ Queues' /\ Devices'
  BY <1>1, <1>3 DEF IInv, Sessions, Queues, Devices
<1>9. HostEnds'
  BY <1>1, <1>3 DEF IInv, HostEnds, Known
<1>10. Messages'
  <2>1. \A s \in Socket : hostEnd'[s] # "gone" => hostEnd[s] # "gone"
    BY <1>1 DEF Late, IInv, HostEnds, Known
  <2>2. QED
    BY <1>1, <2>1 DEF IInv, Messages
<1>11. AccessIsGranted'
  BY <1>1, <1>3 DEF IInv, AccessIsGranted
<1>12. PendingIsCurrent'
  <2>1. \A s \in Known : clients[s].awaiting => s \in Socket /\ clients[s].id # None /\ ~clients[s].paired
    BY DEF Known, IInv, Named
  <2>2. CASE code # 0 /\ code' = 0 /\ phase' = "error"
    BY <1>1, <1>3, <2>1, <2>2 DEF IInv, PendingIsCurrent
  <2>3. CASE UNCHANGED <<code, phase>>
    BY <1>1, <1>3, <2>3 DEF IInv, PendingIsCurrent
  <2>4. QED
    BY <1>2, <2>2, <2>3
<1>13. QED
  BY <1>5, <1>6, <1>7, <1>8, <1>9, <1>10, <1>11, <1>12 DEF IInv

\* One more session, while there is room.
LEMMA OneMore ==
  ASSUME Sessions, NEW s, Room
  PROVE  IsFiniteSet(Known \cup {s}) /\ Cardinality(Known \cup {s}) <= MaxClients
<1>1. IsFiniteSet(Known) /\ Cardinality(Known) \in Nat /\ Cardinality(Known) < MaxClients
  BY FS_CardinalityType DEF Sessions, Room
<1>2. /\ IsFiniteSet(Known \cup {s})
      /\ Cardinality(Known \cup {s}) =
           IF s \in Known THEN Cardinality(Known) ELSE Cardinality(Known) + 1
  BY <1>1, FS_AddElement
<1>3. QED
  BY <1>1, <1>2, BoundAssumption

LEMMA AcceptKeeps == ASSUME IInv, NEW s \in Socket, Accept(s) PROVE IInv'
<1>1. /\ hostEnd[s] = "none"
      /\ UNCHANGED <<host, device, clientEnd, up, down, history>>
      /\ UNCHANGED <<code, offers, since, target, took, expected>>
      /\ UNCHANGED <<hosting, expired, phase, shown, files, approved>>
  BY DEF Accept, host, history
<1>2. s \notin Known
  BY <1>1 DEF IInv, HostEnds
<1>3. Codes' /\ OneTimeCode' /\ Flags' /\ Devices' /\ Queues'
  BY <1>1 DEF IInv, Codes, OneTimeCode, Flags, Devices, Queues
<1>4. CASE Room
  <2>1. /\ clients' = [clients EXCEPT ![s] = NewSession]
        /\ hostEnd' = [hostEnd EXCEPT ![s] = "open"]
    BY <1>4 DEF Accept
  <2>2. /\ NewSession \in [id : Device \cup {None}, paired : BOOLEAN, late : BOOLEAN,
                           awaiting : BOOLEAN, known : BOOLEAN]
        /\ NewSession.id = None /\ ~NewSession.paired /\ ~NewSession.awaiting /\ NewSession.known
    BY DEF NewSession, NoSession
  <2>3. clients[s].id = None
    BY <1>2 DEF IInv, Named, Known
  <2>4. clients'[s] = NewSession /\ \A t \in Socket \ {s} : clients'[t] = clients[t]
    BY <2>1 DEF IInv, Sessions
  <2>5. Known' = Known \cup {s}
    BY <2>2, <2>4 DEF Known
  <2>6. Sessions'
    <3>1. IsFiniteSet(Known') /\ Cardinality(Known') <= MaxClients
      BY <1>4, <2>5, OneMore DEF IInv
    <3>2. clients' \in [Socket -> [id : Device \cup {None}, paired : BOOLEAN, late : BOOLEAN,
                                  awaiting : BOOLEAN, known : BOOLEAN]]
      BY <2>1, <2>2 DEF IInv, Sessions
    <3>3. files' \in SUBSET Socket /\ approved' \in SUBSET Socket
      BY <1>1 DEF IInv, Sessions
    <3>4. QED
      BY <3>1, <3>2, <3>3 DEF Sessions
  <2>7. HostEnds'
    BY <2>1, <2>5 DEF IInv, HostEnds, Known
  <2>8. Messages'
    BY <1>1, <2>1 DEF IInv, Messages, HostEnds
  <2>9. Named'
    BY <1>1, <2>2, <2>3, <2>4 DEF IInv, Named
  <2>10. OneId'
    BY <2>2, <2>4, <2>5 DEF IInv, OneId, Known
  <2>11. AccessIsGranted'
    BY <1>1, <2>2, <2>4, <2>5 DEF IInv, AccessIsGranted, Known
  <2>12. PendingIsCurrent'
    BY <1>1, <1>2, <2>2, <2>4, <2>5 DEF IInv, PendingIsCurrent, Known, Unpaired
  <2>13. QED
    BY <1>3, <2>6, <2>7, <2>8, <2>9, <2>10, <2>11, <2>12 DEF IInv
<1>5. CASE ~Room
  <2>1. hostEnd' = [hostEnd EXCEPT ![s] = "gone"] /\ UNCHANGED clients
    BY <1>5 DEF Accept
  <2>2. Known' = Known /\ Unpaired' = Unpaired
    BY <2>1 DEF Known, Unpaired
  <2>3. Sessions' /\ Named' /\ OneId'
    BY <1>1, <2>1, <2>2 DEF IInv, Sessions, Named, OneId
  <2>4. HostEnds'
    BY <1>2, <2>1, <2>2 DEF IInv, HostEnds, Known
  <2>5. Messages'
    BY <1>1, <2>1 DEF IInv, Messages, HostEnds
  <2>6. AccessIsGranted' /\ PendingIsCurrent'
    BY <1>1, <2>1, <2>2 DEF IInv, AccessIsGranted, PendingIsCurrent
  <2>7. QED
    BY <1>3, <2>3, <2>4, <2>5, <2>6 DEF IInv
<1>6. QED
  BY <1>4, <1>5

-----------------------------------------------------------------------------
(* The host's messages *)

\* The host answers a session; what it has read is gone from the queue, and
\* "ready" goes only with the list of Files.
LEMMA AnswerKeeps ==
  ASSUME IInv, NEW s \in Known, NEW m \in DownMessage, NEW b \in BOOLEAN, Answer(s, m, b),
         Known' = Known, UNCHANGED clientEnd, files \subseteq files',
         m = "ready" => s \in files',
         up' \in [Socket -> Seq(UpMessage)],
         \A t \in Socket : Has(up'[t], ConfirmMessage) => Has(up[t], ConfirmMessage)
  PROVE  HostEnds' /\ Queues' /\ Messages'
<1>1. s \in Socket /\ down[s] \in Seq(DownMessage) /\ hostEnd[s] \in {"open", "closing"}
  BY DEF Known, IInv, Queues, HostEnds
<1>2. HostEnds'
  BY <1>1 DEF Answer, IInv, HostEnds, Known
<1>3. Append(down[s], m) \in Seq(DownMessage)
  BY <1>1
<1>4. Queues'
  BY <1>1, <1>3 DEF Answer, IInv, Queues
<1>5. \A t \in Socket : hostEnd'[t] # "gone" => hostEnd[t] # "gone"
  BY <1>1 DEF Answer, IInv, HostEnds
<1>6. ASSUME NEW t \in Socket, Has(down'[t], {"ready"}), hostEnd'[t] # "gone" PROVE t \in files'
  <2>1. CASE t = s /\ hostEnd[s] = "open"
    <3>1. down'[t] = Append(down[s], m)
      BY <1>1, <2>1 DEF Answer, IInv, Queues
    <3>2. Has(down[s], {"ready"}) \/ m \in {"ready"}
      BY <1>1, <1>6, <3>1, HasAppend
    <3>3. QED
      BY <1>1, <1>5, <1>6, <2>1, <3>2 DEF IInv, Messages
  <2>2. CASE t # s \/ hostEnd[s] # "open"
    <3>1. down'[t] = down[t]
      BY <1>1, <2>2 DEF Answer, IInv, Queues
    <3>2. QED
      BY <1>5, <1>6, <3>1 DEF IInv, Messages
  <2>3. QED
    BY <2>1, <2>2
<1>7. Messages'
  BY <1>6 DEF IInv, Messages
<1>8. QED
  BY <1>2, <1>4, <1>7

\* A message is taken from a session's queue.
LEMMA ReceiveKeeps ==
  ASSUME IInv, NEW s \in Socket, NEW y \in {"pair", "confirm"}, Receive(s, y)
  PROVE  /\ s \in Known /\ Head(up[s]) \in UpMessage /\ Head(up[s]).type = y
         /\ y = "confirm" => s \in files
         /\ y = "pair" => /\ Head(up[s]).code \in 1..MaxOffers
                          /\ Head(up[s]).id \in Device
         /\ up' \in [Socket -> Seq(UpMessage)]
         /\ \A t \in Socket : Has(up'[t], ConfirmMessage) => Has(up[t], ConfirmMessage)
         /\ UNCHANGED <<hosting, expired, expected, device, clientEnd, offers, since, target, approved>>
<1>1. /\ clients[s].known /\ up[s] # <<>> /\ Head(up[s]).type = y
      /\ up' = [up EXCEPT ![s] = Tail(@)]
      /\ UNCHANGED <<hosting, expired, expected, device, clientEnd, offers, since, target, approved>>
  BY DEF Receive
<1>2. up \in [Socket -> Seq(UpMessage)] /\ up[s] \in Seq(UpMessage)
  BY DEF IInv, Queues
<1>3. /\ Head(up[s]) \in UpMessage /\ Tail(up[s]) \in Seq(UpMessage)
      /\ Has(Tail(up[s]), ConfirmMessage) => Has(up[s], ConfirmMessage)
      /\ Head(up[s]) \in ConfirmMessage => Has(up[s], ConfirmMessage)
  BY <1>1, <1>2, HasTail
<1>4. /\ up' \in [Socket -> Seq(UpMessage)]
      /\ \A t \in Socket : Has(up'[t], ConfirmMessage) => Has(up[t], ConfirmMessage)
  BY <1>1, <1>2, <1>3
<1>5. \A m \in UpMessage : /\ m.type = "confirm" => m \in ConfirmMessage
                           /\ m.type = "pair" => m.code \in 1..MaxOffers /\ m.id \in Device
  BY DEF UpMessage, ConfirmMessage
<1>6. y = "confirm" => s \in files
  BY <1>1, <1>3, <1>5 DEF IInv, Messages
<1>7. QED
  BY <1>1, <1>3, <1>4, <1>5, <1>6 DEF Known

LEMMA PairRefusedKeeps == ASSUME IInv, NEW s \in Socket, PairRefused(s) PROVE IInv'
<1>1. /\ Answer(s, "error", TRUE)
      /\ UNCHANGED <<phase, code, shown, clients, took, files>>
  BY DEF PairRefused
<1>2. Receive(s, "pair")
  BY DEF PairRefused
<1>3. /\ s \in Known /\ up' \in [Socket -> Seq(UpMessage)]
      /\ \A t \in Socket : Has(up'[t], ConfirmMessage) => Has(up[t], ConfirmMessage)
      /\ UNCHANGED <<hosting, expired, expected, device, clientEnd, offers, since, target, approved>>
  BY <1>2, ReceiveKeeps
<1>4. Known' = Known /\ Unpaired' = Unpaired
  BY <1>1 DEF Known, Unpaired
<1>5. "error" \in DownMessage /\ TRUE \in BOOLEAN /\ "error" # "ready" /\ files \subseteq files'
  BY <1>1 DEF DownMessage
<1>6. HostEnds' /\ Queues' /\ Messages'
  BY <1>1, <1>3, <1>4, <1>5, AnswerKeeps
<1>7. Codes' /\ OneTimeCode' /\ Flags' /\ Devices' /\ Sessions'
  BY <1>1, <1>3, <1>4 DEF IInv, Codes, OneTimeCode, Flags, Devices, Sessions
<1>8. Named' /\ OneId'
  BY <1>1, <1>4 DEF IInv, Named, OneId
<1>9. AccessIsGranted' /\ PendingIsCurrent'
  BY <1>1, <1>3, <1>4 DEF IInv, AccessIsGranted, PendingIsCurrent
<1>10. QED
  BY <1>6, <1>7, <1>8, <1>9 DEF IInv

\* The session s is admitted: its code, the newest, is used up, and no other
\* attempt is left.
LEMMA AdmitKeeps ==
  ASSUME IInv, NEW s \in Socket, Admit(s), files \subseteq files', files' \subseteq files \cup {s}
  PROVE  /\ Codes' /\ OneTimeCode' /\ Devices' /\ Sessions' /\ Named' /\ OneId'
         /\ Known' = Known /\ s \in Known /\ code' = 0 /\ took'[s] = offers'
         /\ up' \in [Socket -> Seq(UpMessage)]
         /\ \A t \in Socket : Has(up'[t], ConfirmMessage) => Has(up[t], ConfirmMessage)
         /\ UNCHANGED <<hosting, expired, expected, device, clientEnd, offers, since, target, approved>>
         /\ s \notin files /\ clients[s].id = None /\ target[took'[s]] = expected
         /\ clients'[s].id # None /\ expected \in {None, clients'[s].id}
         /\ ~clients'[s].paired /\ clients'[s].awaiting = (expected # None)
         /\ \A t \in Socket \ {s} : /\ clients'[t] = clients[t] /\ took'[t] = took[t]
                                    /\ t \in Known /\ clients[t].id # None => clients[t].paired
<1> DEFINE m == Head(up[s])
<1>1. /\ Receive(s, "pair") /\ clients[s].id = None /\ Matches(m) /\ FreshId(m)
      /\ code' = 0 /\ took' = [took EXCEPT ![s] = code]
      /\ clients' = [clients EXCEPT ![s].id = m.id, ![s].late = FALSE,
                                    ![s].awaiting = (expected # None)]
  BY DEF Admit, CodeAfter
<1>2. /\ s \in Known /\ m.id \in Device
      /\ up' \in [Socket -> Seq(UpMessage)]
      /\ \A t \in Socket : Has(up'[t], ConfirmMessage) => Has(up[t], ConfirmMessage)
      /\ UNCHANGED <<hosting, expired, expected, device, clientEnd, offers, since, target, approved>>
  BY <1>1, ReceiveKeeps
<1>3. code # 0 /\ expected \in {None, m.id} /\ \A t \in Socket : clients[t].id # m.id
  BY <1>1 DEF Matches, FreshId
<1>4. m.id # None
  BY <1>2, NoneAssumption, DeviceAssumption
<1> HIDE DEF m
<1>5. s \notin files
  BY <1>1 DEF IInv, Named
<1>6. clients[s].paired = FALSE
  BY <1>5 DEF IInv, AccessIsGranted, Sessions
<1>7. clients' \in [Socket -> [id : Device \cup {None}, paired : BOOLEAN, late : BOOLEAN,
                              awaiting : BOOLEAN, known : BOOLEAN]]
  <2> DEFINE w == expected # None
  <2>1. clients' = [clients EXCEPT ![s].id = m.id, ![s].late = FALSE, ![s].awaiting = w]
    BY <1>1
  <2>2. w \in BOOLEAN
    OBVIOUS
  <2> HIDE DEF w
  <2>3. QED
    BY <1>2, <2>1, <2>2 DEF IInv, Sessions
<1>8. /\ clients'[s].id = m.id /\ clients'[s].known /\ ~clients'[s].paired
      /\ clients'[s].awaiting = (expected # None)
      /\ \A t \in Socket \ {s} : clients'[t] = clients[t]
  BY <1>1, <1>2, <1>6 DEF IInv, Sessions, Known
<1>9. Known' = Known
  BY <1>2, <1>8 DEF Known
<1>10. Sessions'
  BY <1>2, <1>7, <1>9 DEF IInv, Sessions
<1>11. /\ code = offers /\ target[code] = expected /\ \A t \in Socket : took[t] # code
       /\ took \in [Socket -> 0..MaxOffers] /\ code \in 0..MaxOffers
       /\ \A t \in Socket : took[t] <= offers
  BY <1>3 DEF IInv, Codes
<1>12. took'[s] = code /\ \A t \in Socket \ {s} : took'[t] = took[t]
  BY <1>1, <1>11
<1>13. OneTimeCode'
  BY <1>11, <1>12 DEF IInv, OneTimeCode
<1>14. Codes'
  <2>1. 0 \in 0..MaxOffers /\ code <= code
    BY <1>11, BoundAssumption
  <2>2. took' \in [Socket -> 0..MaxOffers] /\ \A t \in Socket : took'[t] <= offers
    BY <1>1, <1>11, <1>12, <2>1
  <2>3. QED
    BY <1>1, <1>2, <2>1, <2>2 DEF IInv, Codes
<1>15. Named'
  BY <1>3, <1>4, <1>8, <1>12 DEF IInv, Named
<1>16. OneId'
  BY <1>3, <1>8, <1>9 DEF IInv, OneId, Known
<1>17. \A t \in Socket \ {s} : t \in Known /\ clients[t].id # None => clients[t].paired
  BY <1>3 DEF IInv, PendingIsCurrent
<1>18. Devices'
  BY <1>2 DEF IInv, Devices
<1>19. QED
  BY <1>1, <1>2, <1>3, <1>4, <1>5, <1>8, <1>9, <1>10, <1>11, <1>12, <1>13, <1>14, <1>15, <1>16, <1>17, <1>18

LEMMA PairChosenKeeps == ASSUME IInv, NEW s \in Socket, PairChosen(s) PROVE IInv'
<1>1. /\ expected # None /\ Admit(s) /\ phase' = "confirming" /\ shown' = s
      /\ Answer(s, "verify", FALSE) /\ files' = files
  BY DEF PairChosen
<1>2. /\ Codes' /\ OneTimeCode' /\ Devices' /\ Sessions' /\ Named' /\ OneId'
      /\ Known' = Known /\ s \in Known /\ code' = 0 /\ took'[s] = offers'
      /\ up' \in [Socket -> Seq(UpMessage)]
      /\ \A t \in Socket : Has(up'[t], ConfirmMessage) => Has(up[t], ConfirmMessage)
      /\ UNCHANGED <<hosting, expired, expected, device, clientEnd, offers, since, target, approved>>
      /\ s \notin files /\ target[took'[s]] = expected
      /\ clients'[s].id # None /\ expected \in {None, clients'[s].id}
      /\ ~clients'[s].paired /\ clients'[s].awaiting
      /\ \A t \in Socket \ {s} : /\ clients'[t] = clients[t] /\ took'[t] = took[t]
                                 /\ t \in Known /\ clients[t].id # None => clients[t].paired
  BY <1>1, AdmitKeeps
<1>3. Flags'
  BY <1>1, <1>2 DEF IInv, Flags, HostPhase
<1>4. HostEnds' /\ Queues' /\ Messages'
  <2>1. "verify" \in DownMessage /\ FALSE \in BOOLEAN /\ "verify" # "ready"
    BY DEF DownMessage
  <2>2. QED
    BY <1>1, <1>2, <2>1, AnswerKeeps
<1>5. AccessIsGranted'
  <2>1. \A t \in Socket : clients'[t].paired => t \in files
    BY <1>2 DEF IInv, AccessIsGranted
  <2>2. \A t \in files : t \in Socket /\ (target[took'[t]] # None => t \in approved)
    BY <1>2 DEF IInv, AccessIsGranted, Sessions
  <2>3. \A t \in Known : clients'[t].id # None => target[took'[t]] \in {None, clients'[t].id}
    BY <1>2 DEF IInv, AccessIsGranted, Known
  <2>4. QED
    BY <1>1, <1>2, <2>1, <2>2, <2>3 DEF AccessIsGranted
<1>6. PendingIsCurrent'
  <2>1. \A t \in Known : t # s /\ clients'[t].awaiting => FALSE
    BY <1>2 DEF IInv, Named, Known
  <2>2. \A t \in Known : t # s => t \in Socket \ {s}
    BY DEF Known
  <2>3. QED
    BY <1>1, <1>2, <2>1, <2>2 DEF PendingIsCurrent
<1>7. QED
  BY <1>2, <1>3, <1>4, <1>5, <1>6 DEF IInv

LEMMA PairOpenKeeps == ASSUME IInv, NEW s \in Socket, PairOpen(s) PROVE IInv'
<1>1. expected = None /\ Admit(s) /\ shown' = None
  BY DEF PairOpen
<1>2. PICK b \in BOOLEAN, m \in {"ready", "error"} :
        /\ Answer(s, m, b)
        /\ m = "ready" => phase' = "verifying" /\ files' = files \cup {s}
        /\ m = "error" => phase' = "error" /\ files' = files
  <2>1. \/ phase' = "verifying" /\ Answer(s, "ready", FALSE) /\ files' = files \cup {s}
        \/ phase' = "error" /\ Answer(s, "error", TRUE) /\ files' = files
    BY DEF PairOpen
  <2>2. CASE phase' = "verifying" /\ Answer(s, "ready", FALSE) /\ files' = files \cup {s}
    BY <2>2
  <2>3. CASE phase' = "error" /\ Answer(s, "error", TRUE) /\ files' = files
    BY <2>3
  <2>4. QED
    BY <2>1, <2>2, <2>3
<1>3. /\ files \subseteq files' /\ files' \subseteq files \cup {s}
      /\ m = "ready" => s \in files'
      /\ m \in DownMessage /\ phase' \in {"verifying", "error"}
  BY <1>2 DEF DownMessage
<1>4. /\ Codes' /\ OneTimeCode' /\ Devices' /\ Sessions' /\ Named' /\ OneId'
      /\ Known' = Known /\ s \in Known /\ code' = 0 /\ took'[s] = offers'
      /\ up' \in [Socket -> Seq(UpMessage)]
      /\ \A t \in Socket : Has(up'[t], ConfirmMessage) => Has(up[t], ConfirmMessage)
      /\ UNCHANGED <<hosting, expired, expected, device, clientEnd, offers, since, target, approved>>
      /\ s \notin files /\ target[took'[s]] = expected
      /\ clients'[s].id # None
      /\ ~clients'[s].paired /\ ~clients'[s].awaiting
      /\ \A t \in Socket \ {s} : /\ clients'[t] = clients[t] /\ took'[t] = took[t]
                                 /\ t \in Known /\ clients[t].id # None => clients[t].paired
  BY <1>1, <1>3, AdmitKeeps
<1>5. Flags'
  BY <1>1, <1>3, <1>4 DEF IInv, Flags, HostPhase
<1>6. HostEnds' /\ Queues' /\ Messages'
  BY <1>2, <1>3, <1>4, AnswerKeeps
<1>7. AccessIsGranted'
  <2>1. \A t \in Socket : clients'[t].paired => t \in files'
    BY <1>3, <1>4 DEF IInv, AccessIsGranted
  <2>2. \A t \in files : t \in Socket /\ (t # s /\ target[took'[t]] # None => t \in approved)
    BY <1>4 DEF IInv, AccessIsGranted, Sessions
  <2>3. \A t \in files' : target[took'[t]] # None => t \in approved
    BY <1>1, <1>3, <1>4, <2>2
  <2>4. \A t \in Known : clients'[t].id # None => target[took'[t]] \in {None, clients'[t].id}
    BY <1>1, <1>4 DEF IInv, AccessIsGranted, Known
  <2>5. QED
    BY <1>4, <2>1, <2>3, <2>4 DEF AccessIsGranted
<1>8. PendingIsCurrent'
  <2>1. \A t \in Known : clients'[t].awaiting => FALSE
    BY <1>4 DEF IInv, Named, Known
  <2>2. \A t \in Known : t # s => t \in Socket \ {s}
    BY DEF Known
  <2>3. s \in Unpaired' /\ clients'[s].id # None
    BY <1>4 DEF Unpaired
  <2>4. QED
    BY <1>4, <2>1, <2>2, <2>3 DEF PendingIsCurrent
<1>9. QED
  BY <1>4, <1>5, <1>6, <1>7, <1>8 DEF IInv

\* At most one session has been admitted and is not paired.
LEMMA OnePending ==
  ASSUME IInv, NEW s \in Known, NEW t \in Known,
         clients[s].id # None, ~clients[s].paired, clients[t].id # None, ~clients[t].paired
  PROVE  s = t
<1>1. s \in Socket /\ t \in Socket
  BY DEF Known
<1>2. took[s] = offers /\ took[t] = offers
  BY DEF IInv, PendingIsCurrent
<1>3. took[s] # 0
  BY <1>1 DEF IInv, Named
<1>4. QED
  BY <1>1, <1>2, <1>3 DEF IInv, OneTimeCode

LEMMA ConfirmKeeps == ASSUME IInv, NEW s \in Socket, Confirm(s) PROVE IInv'
<1>1. Receive(s, "confirm") /\ UNCHANGED <<code, shown, took, files>>
  BY DEF Confirm
<1>2. /\ s \in Known /\ s \in files /\ up' \in [Socket -> Seq(UpMessage)]
      /\ \A t \in Socket : Has(up'[t], ConfirmMessage) => Has(up[t], ConfirmMessage)
      /\ UNCHANGED <<hosting, expired, expected, device, clientEnd, offers, since, target, approved>>
  BY <1>1, ReceiveKeeps
<1>3. /\ "error" \in DownMessage /\ "paired" \in DownMessage
      /\ "error" # "ready" /\ "paired" # "ready"
      /\ TRUE \in BOOLEAN /\ FALSE \in BOOLEAN /\ files \subseteq files'
  BY <1>1 DEF DownMessage
<1>4. Codes' /\ OneTimeCode' /\ Devices'
  BY <1>1, <1>2 DEF IInv, Codes, OneTimeCode, Devices
<1>5. CASE Confirmable(s)
  <2>1. /\ clients' = [clients EXCEPT ![s].paired = TRUE] /\ phase' = "paired"
        /\ Answer(s, "paired", FALSE)
        /\ clients[s].id # None /\ ~clients[s].paired /\ ~clients[s].awaiting
    BY <1>5 DEF Confirm, Confirmable
  <2>2. clients' \in [Socket -> [id : Device \cup {None}, paired : BOOLEAN, late : BOOLEAN,
                                awaiting : BOOLEAN, known : BOOLEAN]]
    BY <2>1 DEF IInv, Sessions
  <2>3. /\ \A t \in Socket : /\ clients'[t].id = clients[t].id
                             /\ clients'[t].known = clients[t].known
                             /\ clients'[t].awaiting = clients[t].awaiting
        /\ clients'[s].paired
        /\ \A t \in Socket \ {s} : clients'[t] = clients[t]
    BY <2>1 DEF IInv, Sessions
  <2>4. Known' = Known
    BY <2>3 DEF Known
  <2>5. Sessions'
    BY <1>1, <1>2, <2>2, <2>4 DEF IInv, Sessions
  <2>6. Flags'
    BY <1>1, <1>2, <2>1 DEF IInv, Flags, HostPhase
  <2>7. HostEnds' /\ Queues' /\ Messages'
    BY <1>2, <1>3, <2>1, <2>4, AnswerKeeps
  <2>8. Named'
    BY <1>1, <2>1, <2>3 DEF IInv, Named
  <2>9. OneId'
    BY <2>3, <2>4 DEF IInv, OneId, Known
  <2>10. AccessIsGranted'
    BY <1>1, <1>2, <2>3, <2>4 DEF IInv, AccessIsGranted, Known
  <2>11. \A t \in Known : ~clients'[t].awaiting
    <3>1. \A t \in Known : clients[t].awaiting => clients[t].id # None /\ ~clients[t].paired
      BY DEF IInv, Named, Known
    <3>2. \A t \in Known : ~clients[t].awaiting
      BY <1>2, <2>1, <3>1, OnePending
    <3>3. QED
      BY <2>3, <3>2 DEF Known
  <2>12. PendingIsCurrent'
    <3>1. ASSUME NEW t \in Known, clients'[t].id # None, ~clients'[t].paired
          PROVE  took[t] = offers /\ code = 0
      <4>1. t \in Socket \ {s}
        BY <2>3, <3>1 DEF Known
      <4>2. clients'[t] = clients[t]
        BY <2>3, <4>1
      <4>3. QED
        BY <3>1, <4>2 DEF IInv, PendingIsCurrent
    <3>2. QED
      BY <1>1, <1>2, <2>1, <2>4, <2>11, <3>1 DEF PendingIsCurrent
  <2>13. QED
    BY <1>4, <2>5, <2>6, <2>7, <2>8, <2>9, <2>10, <2>12 DEF IInv
<1>6. CASE ~Confirmable(s)
  <2>1. Answer(s, "error", TRUE) /\ UNCHANGED <<clients, phase>>
    BY <1>6 DEF Confirm
  <2>2. Known' = Known /\ Unpaired' = Unpaired
    BY <2>1 DEF Known, Unpaired
  <2>3. HostEnds' /\ Queues' /\ Messages'
    BY <1>2, <1>3, <2>1, <2>2, AnswerKeeps
  <2>4. Flags' /\ Sessions' /\ Named' /\ OneId'
    BY <1>1, <1>2, <2>1, <2>2 DEF IInv, Flags, Sessions, Named, OneId
  <2>5. AccessIsGranted' /\ PendingIsCurrent'
    BY <1>1, <1>2, <2>1, <2>2 DEF IInv, AccessIsGranted, PendingIsCurrent
  <2>6. QED
    BY <1>4, <2>3, <2>4, <2>5 DEF IInv
<1>7. QED
  BY <1>5, <1>6

LEMMA ConfirmDeviceKeeps == ASSUME IInv, NEW s \in Socket, ConfirmDevice(s) PROVE IInv'
<1>1. /\ phase = "confirming" /\ clients[s].awaiting
      /\ clients' = [clients EXCEPT ![s].awaiting = FALSE, ![s].late = FALSE]
      /\ UNCHANGED <<hosting, code, expired, expected, shown, device, clientEnd, up>>
      /\ UNCHANGED <<offers, since, target, took>>
  BY DEF ConfirmDevice, Approvable
<1>2. clients[s].id # None /\ ~clients[s].paired /\ s \in Known
  BY <1>1 DEF IInv, Named, Known
<1>3. clients' \in [Socket -> [id : Device \cup {None}, paired : BOOLEAN, late : BOOLEAN,
                              awaiting : BOOLEAN, known : BOOLEAN]]
  BY <1>1 DEF IInv, Sessions
<1>4. /\ \A t \in Socket : /\ clients'[t].id = clients[t].id
                           /\ clients'[t].known = clients[t].known
                           /\ clients'[t].paired = clients[t].paired
                           /\ clients'[t].awaiting => clients[t].awaiting
      /\ ~clients'[s].awaiting
  BY <1>1 DEF IInv, Sessions
<1>5. Known' = Known
  BY <1>4 DEF Known
<1>6. Unpaired' = Unpaired
  BY <1>4, <1>5 DEF Unpaired, Known
<1>7. Codes' /\ OneTimeCode' /\ Devices'
  BY <1>1 DEF IInv, Codes, OneTimeCode, Devices
<1>8. OneId'
  BY <1>4, <1>5 DEF IInv, OneId, Known
<1>9. \A t \in Known : ~clients'[t].awaiting
  <2>1. \A t \in Known : clients[t].awaiting => clients[t].id # None /\ ~clients[t].paired
    BY DEF IInv, Named, Known
  <2>2. \A t \in Known : clients[t].awaiting => t = s
    BY <1>2, <2>1, OnePending
  <2>3. QED
    BY <1>4, <2>2 DEF Known
<1>10. UNCHANGED phase \/ phase' \in {"error", "verifying"}
  BY DEF ConfirmDevice
<1>11. Flags'
  BY <1>1, <1>10 DEF IInv, Flags, HostPhase
<1>12. PendingIsCurrent'
  <2>1. s \in Unpaired' /\ clients'[s].id # None
    BY <1>2, <1>4, <1>6 DEF Unpaired
  <2>2. ASSUME NEW t \in Known, clients'[t].id # None, ~clients'[t].paired
        PROVE  took[t] = offers /\ code = 0
    <3>1. clients[t].id # None /\ ~clients[t].paired
      BY <1>4, <2>2 DEF Known
    <3>2. QED
      BY <3>1 DEF IInv, PendingIsCurrent
  <2>3. QED
    BY <1>1, <1>5, <1>9, <2>1, <2>2 DEF PendingIsCurrent
<1>13. /\ files \subseteq files' /\ files' \subseteq files \cup {s}
       /\ approved \subseteq approved' /\ approved' \subseteq approved \cup {s}
       /\ s \in files' => s \in files \/ s \in approved'
  BY DEF ConfirmDevice
<1>14. Sessions'
  <2>1. files' \in SUBSET Socket /\ approved' \in SUBSET Socket
    BY <1>13 DEF IInv, Sessions
  <2>2. QED
    BY <1>3, <1>5, <2>1 DEF IInv, Sessions
<1>15. Named'
  BY <1>1, <1>2, <1>4, <1>13 DEF IInv, Named
<1>16. AccessIsGranted'
  <2>1. \A t \in Socket : clients'[t].paired => t \in files'
    BY <1>4, <1>13 DEF IInv, AccessIsGranted
  <2>2. \A t \in files' : target'[took'[t]] # None => t \in approved'
    BY <1>1, <1>13 DEF IInv, AccessIsGranted
  <2>3. \A t \in Known' : clients'[t].id # None => target'[took'[t]] \in {None, clients'[t].id}
    BY <1>1, <1>4, <1>5 DEF IInv, AccessIsGranted, Known
  <2>4. QED
    BY <2>1, <2>2, <2>3 DEF AccessIsGranted
<1>17. HostEnds' /\ Queues' /\ Messages'
  <2>1. /\ up' \in [Socket -> Seq(UpMessage)]
        /\ \A t \in Socket : Has(up'[t], ConfirmMessage) => Has(up[t], ConfirmMessage)
    BY <1>1 DEF IInv, Queues
  <2>2. /\ "error" \in DownMessage /\ "ready" \in DownMessage /\ "error" # "ready"
        /\ TRUE \in BOOLEAN /\ FALSE \in BOOLEAN
    BY DEF DownMessage
  <2>3. CASE hostEnd' = [hostEnd EXCEPT ![s] = "closing"] /\ UNCHANGED <<down, files>>
    <3>1. hostEnd[s] # "gone"
      BY <1>2 DEF IInv, HostEnds
    <3>2. HostEnds'
      BY <1>5, <2>3 DEF IInv, HostEnds, Known
    <3>3. Queues'
      BY <1>1, <2>3 DEF IInv, Queues
    <3>4. Messages'
      BY <1>1, <2>3, <3>1 DEF IInv, Messages, HostEnds
    <3>5. QED
      BY <3>2, <3>3, <3>4
  <2>4. CASE Answer(s, "error", TRUE)
    BY <1>1, <1>2, <1>5, <1>13, <2>1, <2>2, <2>4, AnswerKeeps
  <2>5. CASE Answer(s, "ready", FALSE) /\ s \in files'
    BY <1>1, <1>2, <1>5, <1>13, <2>1, <2>2, <2>5, AnswerKeeps
  <2>6. QED
    BY <2>3, <2>4, <2>5 DEF ConfirmDevice
<1>18. QED
  BY <1>7, <1>8, <1>11, <1>12, <1>14, <1>15, <1>16, <1>17 DEF IInv

-----------------------------------------------------------------------------
(* Theorems *)

LEMMA HostStepKeeps == ASSUME IInv, HostStep PROVE IInv'
<1>1. CASE Stop \/ StartHost
  BY <1>1, ResetKeeps DEF Stop, StartHost
<1>2. CASE Cancel
  BY <1>2, CancelKeeps
<1>3. CASE HostSweep
  BY <1>3, HostSweepKeeps
<1>4. CASE CodeTime
  BY <1>4, CodeTimeKeeps
<1>5. ASSUME NEW d \in PeerId \cup {None}, CreateOffer(d) PROVE IInv'
  BY <1>5, CreateOfferKeeps
<1>6. ASSUME NEW s \in Socket,
             \/ ConfirmDevice(s) \/ Accept(s) \/ HostLost(s) \/ SessionTime(s)
             \/ PairRefused(s) \/ PairChosen(s) \/ PairOpen(s) \/ Confirm(s)
      PROVE  IInv'
  BY <1>6, ConfirmDeviceKeeps, AcceptKeeps, HostLostKeeps, SessionTimeKeeps,
     PairRefusedKeeps, PairChosenKeeps, PairOpenKeeps, ConfirmKeeps
<1>7. QED
  BY <1>1, <1>2, <1>3, <1>4, <1>5, <1>6 DEF HostStep

LEMMA InvNext == IInv /\ [Next]_vars => IInv'
<1> SUFFICES ASSUME IInv, [Next]_vars PROVE IInv'
  OBVIOUS
<1>1. CASE HostStep
  BY <1>1, HostStepKeeps
<1>2. ASSUME NEW d \in Device, DeviceStep(d) PROVE IInv'
  BY <1>2, DeviceStepKeeps
<1>3. CASE UNCHANGED vars
  <2>1. /\ UNCHANGED <<host, clients, hostEnd, history>>
        /\ UNCHANGED <<device, clientEnd, up, down>>
    BY <1>3 DEF vars, net
  <2>2. Devices' /\ Queues' /\ Messages'
    BY <2>1 DEF IInv, Devices, Queues, Messages, history
  <2>3. QED
    BY <2>1, <2>2, DeviceKeeps
<1>4. QED
  BY <1>1, <1>2, <1>3 DEF Next

LEMMA Invariant == Spec => []IInv
  BY InvInit, InvNext, PTL DEF Spec

\* A code admits one connection, however many devices have read it, for it is
\* cleared in the handler that admits the first; a device has one session, and
\* the host keeps to its limit (LanPeer.cpp:192, 203, 261).
THEOREM AdmissionsAreUnique == Spec => []AdmittedOnce
<1>1. IInv => OneTimeCode
  BY DEF IInv
<1>2. IInv => OneSession
  BY Types
<1>3. IInv => AdmittedOnce
  BY <1>1, <1>2 DEF AdmittedOnce
<1>4. QED
  BY <1>3, Invariant, PTL

\* Files are shown only to the device that the code was made for, and with a
\* code for a chosen device only after confirmDevice() (LanPeer.cpp:187-214).
THEOREM FilesNeedConsent == Spec => []AccessIsGranted
<1>1. IInv => AccessIsGranted
  BY DEF IInv
<1>2. QED
  BY <1>1, Invariant, PTL

\* The attempt that the host shows is the one with the newest code
\* (LanPeer.cpp:270-294, 318-323).
THEOREM AttemptIsCurrent == Spec => []PendingIsCurrent
<1>1. IInv => PendingIsCurrent
  BY DEF IInv
<1>2. QED
  BY <1>1, Invariant, PTL
=============================================================================
