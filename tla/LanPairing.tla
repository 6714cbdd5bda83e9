----------------------------- MODULE LanPairing -----------------------------
(***************************************************************************)
(* LanPeer (src/src/LanPeer.cpp): pairing over the local network.  One     *)
(* LanPeer hosts, shows QR codes and admits devices; each device is a      *)
(* LanPeer that joins with a code it has seen.                             *)
(*                                                                         *)
(* A connection is a pair of ends with a queue of messages each way.  It   *)
(* can break at any time, and an end that closes is still read until the   *)
(* other end is gone.  A deadline is a flag that becomes true some time    *)
(* after it was set, so steps come before and after it in every order.     *)
(***************************************************************************)
EXTENDS Integers, FiniteSets, Sequences

CONSTANTS
  Socket,     \* connections, each used once
  PeerId,     \* peer ids that a code can be made for
  Device,     \* those of the devices that join
  None,       \* no device, no socket
  MaxClients, \* 8: sessions of the host
  MaxOffers,  \* bound: codes the host shows
  Addresses,  \* addresses in a QR code
  Signed      \* both sides have a PairingSigner and a PairingVerifier

ASSUME NoneAssumption == None \notin Socket \cup PeerId
ASSUME DeviceAssumption == Device \subseteq PeerId
ASSUME BoundAssumption ==
  /\ MaxClients \in Nat /\ MaxOffers \in Nat /\ Addresses \in Nat \ {0}
  /\ Signed \in BOOLEAN

VARIABLES
  hosting,   \* d->server exists
  phase,     \* the host's phase
  code,      \* number of the code in d->offer and d->qr, 0 if cleared
  expired,   \* offer.expiresAt has passed
  expected,  \* d->expectedPeer
  shown,     \* the connection that the host's verificationCode is about
  clients,   \* the host's session per socket, or NoSession
  device,    \* per device: the fields of its LanPeer
  hostEnd, clientEnd, up, down, \* per socket: its ends and queues
  offers,    \* history: codes shown so far
  since,     \* history: codes shown before this server
  target,    \* history, per code: the device it is bound to
  took,      \* history, per socket: the code that admitted it
  files,     \* history: sessions whose device was given the list of Files
  approved   \* history: sessions that confirmDevice() approved

host == <<hosting, phase, code, expired, expected, shown>>
net == <<hostEnd, clientEnd, up, down>>
history == <<offers, since, target, took, files, approved>>
vars == <<host, clients, device, net, history>>

NoSession == [id |-> None, paired |-> FALSE, late |-> FALSE, awaiting |-> FALSE, known |-> FALSE]

\* A session whose device has not sent "pair".
NewSession == [NoSession EXCEPT !.known = TRUE]

Idle == [phase |-> "idle", sock |-> None, code |-> 0, late |-> FALSE, hello |-> FALSE,
         left |-> 0, paired |-> FALSE]

Known == {s \in Socket : clients[s].known}

Init ==
  /\ hosting = FALSE /\ phase = "idle" /\ code = 0 /\ expired = FALSE
  /\ expected = None /\ shown = None
  /\ clients = [s \in Socket |-> NoSession]
  /\ device = [d \in Device |-> Idle]
  /\ hostEnd = [s \in Socket |-> "none"] /\ clientEnd = [s \in Socket |-> "none"]
  /\ up = [s \in Socket |-> <<>>] /\ down = [s \in Socket |-> <<>>]
  /\ offers = 0 /\ since = 0
  /\ target = [k \in 1..MaxOffers |-> None]
  /\ took = [s \in Socket |-> 0]
  /\ files = {} /\ approved = {}

-----------------------------------------------------------------------------
(* The host: its owner's calls *)

\* The sessions S are disconnected from their handlers, removed and aborted.
Drop(S) ==
  /\ clients' = [s \in Socket |-> IF s \in S THEN NoSession ELSE clients[s]]
  /\ hostEnd' = [s \in Socket |-> IF s \in S THEN "gone" ELSE hostEnd[s]]
  /\ up' = [s \in Socket |-> IF s \in S THEN <<>> ELSE up[s]]
  /\ files' = files \ S /\ approved' = approved \ S

\* stop(), alone or at the start of startHost(), which may fail.
Reset(serving, p) ==
  /\ Drop(Known)
  /\ hosting' = serving /\ phase' = p
  /\ code' = 0 /\ expired' = FALSE /\ expected' = None /\ shown' = None
  /\ since' = offers
  /\ UNCHANGED <<device, clientEnd, down, offers, target, took>>

Stop == hosting /\ Reset(FALSE, "idle")

StartHost == Reset(TRUE, "hosting") \/ Reset(FALSE, "error")

\* Mutant: sessions that wait for approval survive.
UnpairedOnly == {s \in Known : ~clients[s].paired /\ ~clients[s].awaiting}

\* The sessions that cancelPairing() removes.
Unpaired == {s \in Known : ~clients[s].paired}

\* cancelPairing() of the host.
Cancel ==
  /\ Drop(Unpaired)
  /\ phase' = IF hosting THEN "hosting" ELSE "idle"
  /\ code' = 0 /\ expired' = FALSE /\ expected' = None /\ shown' = None
  /\ UNCHANGED <<hosting, device, clientEnd, down, offers, since, target, took>>

\* createOffer() if d is None, else createDeviceOffer(d).
CreateOffer(d) ==
  /\ hosting /\ offers < MaxOffers
  /\ Drop(Unpaired)
  /\ phase' = "showing" /\ code' = offers + 1 /\ expired' = FALSE
  /\ expected' = d /\ shown' = None
  /\ offers' = offers + 1 /\ target' = [target EXCEPT ![offers + 1] = d]
  /\ UNCHANGED <<hosting, device, clientEnd, down, since, took>>

\* The host sends m and perhaps closes; nothing is sent once it is closing.
Answer(s, m, closes) ==
  /\ down' = [down EXCEPT ![s] = IF hostEnd[s] = "open" THEN Append(@, m) ELSE @]
  /\ hostEnd' = [hostEnd EXCEPT ![s] = IF closes THEN "closing" ELSE @]

\* The session that confirmDevice() goes on with.
Approvable(s) == clients[s].awaiting /\ ~clients[s].late

\* confirmDevice() of session s; the list of Files may fail, and so may the
\* signer.
ConfirmDevice(s) ==
  /\ phase = "confirming"
  /\ Approvable(s)
  /\ clients' = [clients EXCEPT ![s].awaiting = FALSE, ![s].late = FALSE]
  /\ \/ /\ Signed
        /\ hostEnd' = [hostEnd EXCEPT ![s] = "closing"]
        /\ UNCHANGED <<phase, down, files, approved>>
     \/ /\ phase' = "error"
        /\ Answer(s, "error", TRUE)
        /\ approved' = approved \cup {s}
        /\ UNCHANGED files
     \/ /\ phase' = "verifying"
        /\ Answer(s, "ready", FALSE)
        /\ approved' = approved \cup {s} /\ files' = files \cup {s}
  /\ UNCHANGED <<hosting, code, expired, expected, shown, device, clientEnd, up>>
  /\ UNCHANGED <<offers, since, target, took>>

-----------------------------------------------------------------------------
(* The host: its sockets and its timer *)

Room == Cardinality(Known) < MaxClients

\* A handshake is complete: the connection becomes a session if there is room.
\* A device only reaches the server that made its code: the port and the
\* certificate are new with every startHost().
Accept(s) ==
  /\ hosting
  /\ clientEnd[s] # "none" /\ hostEnd[s] = "none"
  /\ \E d \in Device : device[d].sock = s /\ device[d].code > since
  /\ IF Room
     THEN /\ clients' = [clients EXCEPT ![s] = NewSession]
          /\ hostEnd' = [hostEnd EXCEPT ![s] = "open"]
     ELSE /\ hostEnd' = [hostEnd EXCEPT ![s] = "gone"]
          /\ UNCHANGED clients
  /\ UNCHANGED <<host, device, clientEnd, up, down, history>>

\* Mutant: a code bound to a device admits every device.
MatchesAny(m) == code # 0 /\ ~expired /\ m.code = code

\* The code of a "pair" message is the one shown, and shown for this device.
Matches(m) == code # 0 /\ ~expired /\ m.code = code /\ expected \in {None, m.id}

FreshId(m) == \A t \in Socket : clients[t].id # m.id

\* Mutant: the code stays valid until it expires.
StaysShown == code

\* The code after a device was admitted.
CodeAfter == 0

Receive(s, type) ==
  /\ clients[s].known /\ up[s] # <<>>
  /\ Head(up[s]).type = type
  /\ up' = [up EXCEPT ![s] = Tail(@)]
  /\ UNCHANGED <<hosting, expired, expected, device, clientEnd, offers, since, target, approved>>

\* "pair" with a code that is not valid, a device that is connected already,
\* or a proof that is refused.
PairRefused(s) ==
  /\ Receive(s, "pair")
  /\ ~Matches(Head(up[s])) \/ ~FreshId(Head(up[s])) \/ Signed
  /\ Answer(s, "error", TRUE)
  /\ UNCHANGED <<phase, code, shown, clients, took, files>>

\* The session and the offer after "pair" has been admitted.
Admit(s) ==
  /\ Receive(s, "pair")
  /\ clients[s].id = None
  /\ Matches(Head(up[s])) /\ FreshId(Head(up[s]))
  /\ code' = CodeAfter
  /\ took' = [took EXCEPT ![s] = code]
  /\ clients' = [clients EXCEPT ![s].id = Head(up[s]).id, ![s].late = FALSE,
                                ![s].awaiting = (expected # None)]

\* "pair" with a code for a chosen device: its user waits for approval.
PairChosen(s) ==
  /\ expected # None
  /\ Admit(s)
  /\ phase' = "confirming" /\ shown' = s
  /\ Answer(s, "verify", FALSE)
  /\ UNCHANGED files

\* "pair" with a code for everyone: the list of Files is sent, or fails.
PairOpen(s) ==
  /\ expected = None
  /\ Admit(s)
  /\ shown' = None
  /\ \/ phase' = "verifying" /\ Answer(s, "ready", FALSE) /\ files' = files \cup {s}
     \/ phase' = "error" /\ Answer(s, "error", TRUE) /\ UNCHANGED files

Confirmable(s) ==
  clients[s].id # None /\ ~clients[s].paired /\ ~clients[s].awaiting /\ ~clients[s].late

\* "confirm" of the device: it is paired, or too late.
Confirm(s) ==
  /\ Receive(s, "confirm")
  /\ IF Confirmable(s)
     THEN /\ clients' = [clients EXCEPT ![s].paired = TRUE]
          /\ phase' = "paired"
          /\ Answer(s, "paired", FALSE)
     ELSE /\ Answer(s, "error", TRUE)
          /\ UNCHANGED <<clients, phase>>
  /\ UNCHANGED <<code, shown, took, files>>

\* The phase when the session of s ends.
PhaseAfter(s) ==
  IF clients[s].id # None /\ ~clients[s].paired /\ phase = "verifying" THEN "error" ELSE phase

\* disconnected() of a session: closed, left by the device, or broken.
HostLost(s) ==
  /\ clients[s].known
  /\ phase' = PhaseAfter(s)
  /\ Drop({s})
  /\ UNCHANGED <<hosting, code, expired, expected, shown, device, clientEnd, down>>
  /\ UNCHANGED <<offers, since, target, took>>

\* Mutant: a device that says nothing may stay.
LateIfNamed(s) == clients[s].id # None /\ ~clients[s].paired /\ clients[s].late

\* The sessions that the sweep closes.
Late(s) == clients[s].known /\ ~clients[s].paired /\ clients[s].late

\* sweep() of the host, when it has something to do.
HostSweep ==
  /\ hosting
  /\ (code # 0 /\ expired) \/ \E s \in Socket : Late(s) /\ hostEnd[s] = "open"
  /\ IF code # 0 /\ expired
     THEN code' = 0 /\ expired' = FALSE /\ phase' = "error"
     ELSE UNCHANGED <<code, expired, phase>>
  /\ hostEnd' = [s \in Socket |-> IF Late(s) THEN "closing" ELSE hostEnd[s]]
  /\ UNCHANGED <<hosting, expected, shown, clients, device, clientEnd, up, down, history>>

\* The code's lifetime passes.
CodeTime ==
  /\ code # 0 /\ ~expired
  /\ expired' = TRUE
  /\ UNCHANGED <<hosting, phase, code, expected, shown, clients, device, net, history>>

\* The deadline of a session passes.
SessionTime(s) ==
  /\ s \in Unpaired /\ ~clients[s].late
  /\ clients' = [clients EXCEPT ![s].late = TRUE]
  /\ UNCHANGED <<host, device, net, history>>

-----------------------------------------------------------------------------
(* A device *)

Closed(s) ==
  /\ clientEnd' = [t \in Socket |-> IF t = s THEN "gone" ELSE clientEnd[t]]
  /\ down' = [t \in Socket |-> IF t = s THEN <<>> ELSE down[t]]

\* fail(), or stop() and cancelPairing() with another phase.
Leave(d, p) ==
  /\ device' = [device EXCEPT ![d] = [Idle EXCEPT !.phase = p]]
  /\ Closed(device[d].sock)
  /\ UNCHANGED <<host, clients, hostEnd, up, history>>

\* openAddress() with an address left: the old socket is given up.
Dial(d, r, s) ==
  /\ clientEnd[s] = "none"
  /\ device' = [device EXCEPT ![d] = [r EXCEPT !.sock = s, !.hello = FALSE, !.left = r.left - 1]]
  /\ clientEnd' = [t \in Socket |-> IF t = s THEN "opening"
                                   ELSE IF t = device[d].sock THEN "gone" ELSE clientEnd[t]]
  /\ down' = [t \in Socket |-> IF t = device[d].sock THEN <<>> ELSE down[t]]
  /\ UNCHANGED <<host, clients, hostEnd, up, history>>

\* join() with a code shown so far that has not expired; earlier codes may
\* have been cancelled, used or replaced before they expire.
Join(d, k, s) ==
  /\ k \in 1..offers
  /\ k = code => ~expired
  /\ Dial(d, [Idle EXCEPT !.phase = "connecting", !.code = k, !.left = Addresses], s)

\* join() with text that is not a current code.
JoinRefused(d) == Leave(d, "error")

\* The attempt fails before the hello, or takes four seconds.
NextAddress(d) ==
  /\ device[d].sock # None /\ ~device[d].hello
  /\ IF device[d].left = 0 THEN Leave(d, "error") ELSE \E s \in Socket : Dial(d, device[d], s)

\* connected(): "pair" is sent, unless the account cannot sign.
Hello(d) ==
  LET s == device[d].sock IN
  /\ s # None /\ clientEnd[s] = "opening" /\ hostEnd[s] # "none"
  /\ \/ Signed /\ Leave(d, "error")
     \/ /\ clientEnd' = [clientEnd EXCEPT ![s] = "open"]
        /\ device' = [device EXCEPT ![d].hello = TRUE, ![d].phase = "verifying"]
        /\ up' = [up EXCEPT ![s] = IF hostEnd[s] = "gone" THEN @
                 ELSE Append(@, [type |-> "pair", code |-> device[d].code, id |-> d])]
        /\ UNCHANGED <<host, clients, hostEnd, down, history>>

\* "ready" is expected in these phases.
ReadyWhen(d) == device[d].phase \in {"verifying", "confirming"}

Said(d, m) ==
  /\ device[d].sock # None
  /\ clientEnd[device[d].sock] = "open"
  /\ down[device[d].sock] # <<>> /\ Head(down[device[d].sock]) = m

Read(d) ==
  /\ down' = [down EXCEPT ![device[d].sock] = Tail(@)]
  /\ UNCHANGED <<host, clients, hostEnd, clientEnd, history>>

\* "verify": the user compares the codes.
Verify(d) ==
  /\ Said(d, "verify") /\ device[d].phase = "verifying"
  /\ Read(d)
  /\ device' = [device EXCEPT ![d].phase = "confirming", ![d].late = FALSE]
  /\ UNCHANGED up

\* "ready": the device confirms.
Ready(d) ==
  /\ Said(d, "ready") /\ ReadyWhen(d)
  /\ Read(d)
  /\ device' = [device EXCEPT ![d].phase = "verifying"]
  /\ up' = [up EXCEPT ![device[d].sock] =
              IF hostEnd[device[d].sock] = "gone" THEN @ ELSE Append(@, [type |-> "confirm"])]

\* "paired".
Paired(d) ==
  /\ Said(d, "paired") /\ device[d].phase = "verifying"
  /\ Read(d)
  /\ device' = [device EXCEPT ![d].phase = "paired", ![d].paired = TRUE]
  /\ UNCHANGED up

\* An error, a proof that is refused, or a message out of turn.
Failed(d) ==
  /\ \/ Said(d, "error")
     \/ Signed /\ (Said(d, "verify") \/ Said(d, "ready"))
     \/ Said(d, "verify") /\ device[d].phase # "verifying"
     \/ Said(d, "ready") /\ ~ReadyWhen(d)
     \/ Said(d, "paired") /\ device[d].phase # "verifying"
  /\ Leave(d, "error")

\* disconnected(), or errorOccurred() after the hello.
DeviceLost(d) == device[d].sock # None /\ Leave(d, "error")

\* stop(), or cancelPairing() before the device is paired.
DeviceStop(d) == device[d].phase # "idle" /\ Leave(d, "idle")

\* The sweep gives up.
TimedOut(d) == device[d].sock # None /\ ~device[d].paired /\ device[d].late

DeviceSweep(d) == TimedOut(d) /\ Leave(d, "error")

DeviceTime(d) ==
  /\ device[d].sock # None /\ ~device[d].paired /\ ~device[d].late
  /\ device' = [device EXCEPT ![d].late = TRUE]
  /\ UNCHANGED <<host, clients, net, history>>

-----------------------------------------------------------------------------
HostStep ==
  \/ Stop \/ StartHost \/ Cancel \/ HostSweep \/ CodeTime
  \/ \E d \in PeerId \cup {None} : CreateOffer(d)
  \/ \E s \in Socket : \/ ConfirmDevice(s) \/ Accept(s) \/ HostLost(s) \/ SessionTime(s)
                       \/ PairRefused(s) \/ PairChosen(s) \/ PairOpen(s) \/ Confirm(s)

DeviceStep(d) ==
  \/ \E s \in Socket, k \in 1..MaxOffers : Join(d, k, s)
  \/ JoinRefused(d) \/ NextAddress(d) \/ Hello(d)
  \/ Verify(d) \/ Ready(d) \/ Paired(d) \/ Failed(d)
  \/ DeviceLost(d) \/ DeviceStop(d) \/ DeviceSweep(d) \/ DeviceTime(d)

Next == HostStep \/ \E d \in Device : DeviceStep(d)

Spec == Init /\ [][Next]_vars

\* Time passes: some deadline that is running comes to its end.
Time == CodeTime \/ (\E s \in Socket : SessionTime(s)) \/ (\E d \in Device : DeviceTime(d))

\* Time passes, both event loops serve their timers, and a closing connection
\* ends: WebSocket::close() gives it one second.  Nothing is assumed of the
\* network, of the users or of the other side.
Fairness ==
  /\ WF_vars(Time) /\ WF_vars(HostSweep)
  /\ WF_vars(\E s \in Socket : hostEnd[s] = "closing" /\ HostLost(s))
  /\ \A d \in Device : WF_vars(DeviceSweep(d))

FairSpec == Spec /\ Fairness

-----------------------------------------------------------------------------
(* Properties *)

UpMessage == [type : {"pair"}, code : 1..MaxOffers, id : Device] \cup [type : {"confirm"}]

HostPhase == {"idle", "hosting", "showing", "verifying", "confirming", "paired", "error"}

\* Every variable has its type, and the host keeps to its number of sessions
\* (LanPeer.cpp:261).
TypeOK ==
  /\ hosting \in BOOLEAN /\ expired \in BOOLEAN /\ phase \in HostPhase
  /\ code \in 0..MaxOffers /\ offers \in 0..MaxOffers /\ since \in 0..MaxOffers
  /\ expected \in PeerId \cup {None} /\ shown \in Socket \cup {None}
  /\ clients \in [Socket -> [id : Device \cup {None}, paired : BOOLEAN, late : BOOLEAN,
                             awaiting : BOOLEAN, known : BOOLEAN]]
  /\ device \in [Device -> [phase : HostPhase \cup {"connecting"}, sock : Socket \cup {None},
                            code : 0..MaxOffers, late : BOOLEAN, hello : BOOLEAN,
                            left : 0..Addresses, paired : BOOLEAN]]
  /\ hostEnd \in [Socket -> {"none", "open", "closing", "gone"}]
  /\ clientEnd \in [Socket -> {"none", "opening", "open", "gone"}]
  /\ up \in [Socket -> Seq(UpMessage)]
  /\ down \in [Socket -> Seq({"verify", "ready", "paired", "error"})]
  /\ target \in [1..MaxOffers -> PeerId \cup {None}]
  /\ took \in [Socket -> 0..MaxOffers]
  /\ files \in SUBSET Socket /\ approved \in SUBSET Socket
  /\ Cardinality(Known) <= MaxClients

\* A code admits one connection, though several devices have read it and send
\* it at once (LanPeer.cpp:203).
OneTimeCode ==
  \A s, t \in Socket : took[s] # 0 /\ took[s] = took[t] => s = t

\* Files are shown only to the device that the code was made for, and with a
\* code for a chosen device only after confirmDevice(); a paired device has
\* seen them (LanPeer.cpp:187-212, 214, 319-334).
AccessIsGranted ==
  /\ \A s \in Socket : clients[s].paired => s \in files
  /\ \A s \in files : target[took[s]] # None => s \in approved
  /\ \A s \in Known : clients[s].id # None => target[took[s]] \in {None, clients[s].id}

\* A device that is not yet paired was admitted with the newest code, and that
\* code is used up: a new code or cancelPairing() ends every earlier attempt.
\* While one waits for confirmDevice(), the verification code that the host
\* shows is its own, and the host shows "verifying" only while a device is
\* there (LanPeer.cpp:201-205, 270, 280, 294, 318-323).
PendingIsCurrent ==
  /\ \A s \in Known :
       /\ clients[s].id # None /\ ~clients[s].paired => took[s] = offers /\ code = 0
       /\ clients[s].awaiting => phase = "confirming" /\ shown = s /\ expected = clients[s].id
  /\ phase = "verifying" => \E s \in Unpaired : clients[s].id # None

\* Every variable has its type, and a device has one session, though it may
\* join again while the host has not noticed the end of its last connection
\* (LanPeer.cpp:192).
OneSession ==
  /\ TypeOK
  /\ \A s, t \in Known : clients[s].id = clients[t].id /\ clients[s].id # None => s = t

\* An admission is unique for its code and for its device, whichever "pair" the
\* host handles first (LanPeer.cpp:192, 203).
AdmittedOnce == OneTimeCode /\ OneSession

\* An attempt comes to an end on both sides, even if the other side or a user
\* says nothing: join() succeeds or fails, and the places of the host that
\* silent or abandoned connections hold become free (LanPeer.cpp:231-235, 261).
PairingsEnd ==
  /\ \A d \in Device :
       (device[d].phase \in {"connecting", "verifying", "confirming"}) ~>
         (device[d].phase \in {"idle", "paired", "error"})
  /\ (Cardinality(Unpaired) = MaxClients) ~> (Cardinality(Unpaired) < MaxClients)

\* The host does not stay in "confirming": README.md says that confirmation
\* waits for at most 60 seconds.  The handler of disconnected() looks at the
\* phase "verifying" only (LanPeer.cpp:270).
ConfirmingEnds == (phase = "confirming") ~> (phase # "confirming")
=============================================================================
