# iiWebServer: a TLA+ verification of its protocols and job managers

This directory models the C++ library in `src/` (iiWebServer): a relay for
devices of one account, the peers that use it, direct pairing over the local
network, the files a host shares, and the objects that move files with libcurl and
rclone. TLC checks the models on small instances; TLAPS proves their safety properties,
all of them, for every value of the constants. Line numbers refer to the
files under `src/`.

## The system

| Part | State | Operations | Interacts with |
| --- | --- | --- | --- |
| `RelayServer` (src/RelayServer.cpp) | sessions, QR offers, pairings waiting for confirmation, routes | accept, auth, register, pair-offer/claim/confirm/cancel, connect, request, response, sweep every 500 ms, listen, stop | `WebSocketServer`, an authenticator callback that answers later |
| `Peer`, client side (src/Peer.cpp) | relay connection, requests, direct links, connection attempts | start, stop, request, reconnect after 1 s doubling to 30 s, sweep every 100 ms | relay, other peers; signals to the owner, who may call back |
| `Peer`, host side (src/Peer.cpp) | at most 64 incoming links and 128 tickets | start, stop, tickets from the relay, hello and requests of devices, the same sweep | relay, `WebSocketServer`, devices |
| `LanPeer` (src/LanPeer.cpp) | host: offer, phase, sessions; device: phase, socket, at most 32 requests | startHost, createOffer, createDeviceOffer, confirmDevice, cancelPairing, join, request, stop, sweep every 250 ms | another `LanPeer` over TLS, the user, a request handler such as `FileShare` |
| `WebSocket` (src/NetworkTransport.cpp) | connection state, addresses left, generation, one deadline | open, close, abort, send, destroy; resolver, stream and timer callbacks | iiNetwork, a shared resolver thread |
| `WebSocketServer` | at most 64 handshakes and pending connections | listen, accept, nextPendingConnection, destroy | iiNetwork listener; owned by relay, `Peer` and `LanPeer` |
| `SessionAuthenticator` | at most 64 HTTP requests | authenticate | account server |
| `FileTransfer` (src/Transfer.cpp) | at most 4 jobs, each with a thread | start, cancel, destroy; worker callbacks of libcurl | libcurl, the file system |
| `StorageBridge` (src/StorageBridge.cpp) | at most 4 rclone processes | start, cancel, destroy; process and timer signals | QProcess |
| `FileProtocolServer` (src/StorageBridge.cpp) | one child, the flag `stopping` | start, stop, destroy; process and timer signals | QProcess |
| `FileShare`, `WindowsFileShare.h` | root directory identity | list, stat, read, write, mkdir | the file system, other writers |
| `HttpServer` | routes, middleware | configure, listen, shutdown | iiNetwork |
| `BinaryFrame`, `PairingLink`, `LanLink`, `Protocol.h` | none | encode, decode, validate | - |

What is hard here:

- *Callbacks out of order.* An authentication, a DNS answer, a process end or a
  worker's result arrives after the object that asked has closed, restarted or
  been destroyed.
- *Two tables that must agree.* Offers, pairings and routes of the relay name
  sessions that may re-register, lose their principal or leave.
- *Deadlines that only a periodic sweep enforces*, so a late message and the
  sweep race.
- *Fallback.* A request of `Peer` moves from link to link and to the relay and
  must neither be sent twice nor be forgotten.
- *Re-entrance.* Qt signals are synchronous: a slot may stop, restart or destroy
  the object in the middle of a handler.
- *Threads* in `FileTransfer`, whose destructor waits for workers that post to
  the thread that waits.
- *A file system shared with other programs.* A request of `FileShare` is a series
  of system calls; an entry, the root or a file may be replaced or written between
  any two of them, and the process or the power may fail there.
- *One secret over two channels.* The relay announces a ticket to host and device
  separately, so that it is shown early, late, twice, or after the relay was lost.

`PROJECT.json` lists the single places under `hazards`, with the properties that
would notice if they went wrong.

## Modules

| Module | Models | Run modules |
| --- | --- | --- |
| `RelayServer` | `RelayServer.cpp` | `MCRelayServer` |
| `PairingContract` | what the relay promises about QR codes, without sessions, time or messages | refined by `RelayServer` |
| `RelayServerProofs` | theorems about `RelayServer` | - |
| `JobContract` | what every table of jobs promises its owner, without threads, processes, connections or time | refined by `PeerClient`, `LanFiles`, `FileTransfer` and `StorageBridge` |
| `PeerClient` | the client side of `Peer.cpp` | `MCPeerClient` |
| `PeerClientProofs` | theorems about `PeerClient` | - |
| `PeerHost` | the host side of `Peer.cpp` with its `WebSocketServer` | `MCPeerHost` |
| `PeerHostProofs` | theorems about `PeerHost` | - |
| `LanPairing` | the pairing of `LanPeer.cpp`: one host and several devices with the connections between them | `MCLanPairing` |
| `LanPairingProofs` | theorems about `LanPairing` | - |
| `FileShare` | `FileShare.cpp` and `WindowsFileShare.h` | extended by `LanFiles` |
| `LanFiles` | the request table of `LanPeer.cpp`, composed with `FileShare` as the host's handler | `MCLanFiles` |
| `WebSocket` | the client side of `NetworkTransport.cpp` | `MCWebSocket` |
| `WebSocketProofs` | theorems about `WebSocket` | - |
| `FileTransfer` | `Transfer.cpp` | `MCFileTransfer` |
| `FileTransferProofs` | theorems about `FileTransfer` | - |
| `StorageBridge` | `StorageBridge` | `MCStorageBridge` |
| `StorageBridgeProofs` | theorems about `StorageBridge` | - |
| `FileProtocolServer` | `FileProtocolServer` | `MCFileProtocolServer` |
| `FileServingProofs` | theorems about the two file servers: `FileShare` with `LanFiles`, and `FileProtocolServer` | - |

`TypeOK` is checked as a conjunct of one invariant of its module where no run or
theorem names it by itself.

Variables keep the names of the members they stand for, and actions those of the
handlers or messages. Definitions marked `Mutant` are plausible mistakes; they
are not used by any specification and serve to show that a property can fail.

### RelayServer

`sessions`, `offers`, `pairs` and `routes` are the four tables. A handler runs to
its end, so each message is one action. A socket that has been closed stays in
the table and can deliver what was under way until `disconnected`, as in the
code. Deadlines are countdowns in ticks; `Tick` lowers them all, and a deadline
at 0 has passed. `Sweep` is an action of its own and may come much later. The
answer of the authenticator (`AuthAccepted`, `AuthRefused`) comes at any time
after `Auth`, or never. Messages sent by the relay change nothing in it and are
left out; an output that overflows ends the socket in a later `Disconnected` step.
The exception is noted as a hazard: inside one handler the code goes on with a
session that an overflow has just removed.

A closed session that is still in the table can authenticate again with messages
of the same batch. `UniquePeer` and `RouteScope` therefore speak of open sockets.

### PairingContract

A code is unused, offered, claimed, confirmed or discarded. The refinement maps
offered to an entry of `offers`, claimed to one of `pairs`, and confirmed to the
peers that were told `paired`. The contract says that each code is issued once,
claimed once and confirmed once, by the client that claimed it.

### JobContract

An id is new, running, refused, reported or void. A call that starts a job makes its id
running, while fewer than `Limit` are, or refused; a later step reports it, once; the end
of the object makes void whatever was not reported. Where `AtOnce` is TRUE, which is only
the case of `StorageBridge` with `Immediate`, a call may also accept a job and report its
failure in one step. Four classes keep such a table, with
four ways to come to an end: a thread that posts its result (`FileTransfer`), a process
that a timer kills (`StorageBridge`), a message that a sweep gives up (`LanFiles`), and a
message that moves from transport to transport (`PeerClient`). The operator `JobStage`
of each says at which stage its variables put an id, from the table, the calls refused and
the history of reports; a second report, or a table that keeps a job it has reported, has
no stage in the contract. The two peers outlive the model, so that `open` stays TRUE
there: `stop()` reports what is under way and leaves the object as it was.

### PeerClient

A request is with the relay, on a link, waiting for a connection attempt, or not
yet started (`request()` starts it in a queued call). `RequestRefused` is a call that
the early returns of `request()` answer. `nextLocal` walks the URLs
of a host. `sent` counts the connections a request was written to. The constant
`Midway` decides whether a re-entrant call (`stop()` in the owner's slot of
`completed()`, or a send that overflows and so ends its connection at once) may strike
while a loop over the requests still has keys to visit.

### PeerHost

Each socket has a place: in the server's handshakes, a link of the `Peer`, or gone.
`Accept` and `Adopt` are the two limits, `Hello` takes a ticket, `Refuse` is every
message that ends a link. Closing a link does not end it at once: what the device
had sent is still handled, so a ticket can be shown on a connection that is being
closed. `Late` and `Expire` are the passing of the two deadlines, `Sweep` their
effect. `session`, `born` and `opened` are history: the relay session in which a
ticket was announced, and the sockets it authenticated. Tickets are random in the
code and hence announced once in the model.

### LanPairing

One host and the devices, with a queue of messages each way on every connection.
Both sides can leave, and the network can break, at any step. Deadlines are
flags that become true some time after they were set, which allows more orders
than real time does. Devices behave as the code's own client side does. Codes
are numbered; `took`, `files` and `approved` record which code admitted a
connection, who was shown Files, and whom `confirmDevice()` approved. `Signed`
adds the account proofs, which may fail at each place where they are made or
checked.

### FileShare and LanFiles

`FileShare` is a tree of directories and files with one request in progress (`op`),
which advances by one system call a step: the root is opened and compared with the
identity that the constructor stored, the path is walked name by name without
following links, then the operation proper runs. `platform` is chosen in `Init`:
both builds are modelled. Unix works relative to the directory it has open; Windows
resolves absolute paths again for every call (`Absolute`, `Folder`), following what
links there are, with nothing but the share modes that pin the parents of a
path while they are open. `Confined` speaks of the directory in which the last calls
work, on both. `Others` is what another program can do between two steps:
put a node or a link at a name, swap the root, write a file. `Restart` ends the
process, with or without loss of power; data not synced may be lost then. `seen`
records which contents a version stood for, `litter` the temporary files of
requests that were cut off or failed to remove them (nobody looks at the result of
`unlinkat`), `within` what was below the root at any time since the constructor ran.

Assumed of the environment: one `write()` of another program is atomic and changes
the modification time; other programs leave the temporary files alone. The
directory is not synced, so that a finished file may have lost its name after a
loss of power; the model keeps names, and says that the content under a name is
whole.

The README.md of the repository (line 154) still says that requests are rejected on
Windows. The code handles them (`WindowsFileShare.h`), and the model follows the
code. Since this is a statement about a feature and not about a behaviour, no run
is made of it.

`LanFiles` puts the device and the connection around it. The device asks, gives up
after its timeout, loses the connection and pairs again, while the host's event loop
is busy in the handler. Ids are drawn once. The owner of the device does not call
back into it from `completed()` (see Not modelled).

### WebSocket

One `WebSocket` object whose `open()` is called several times. Every attempt has
its own resolver answer, queued redial and stream callbacks, which may come after
the attempt was replaced. iiNetwork's stream and session are the environment. `batch`
is the rest of the read that `receive()` works through, signal by signal, and `reader`
the object whose read it is: between two of its events the owner's slots may do anything.

### FileTransfer, StorageBridge, FileProtocolServer

The definitions of `FileProtocolServer` that every module has begin with `FP`, because one
module of proofs extends it together with `LanFiles`.

The owner's thread and each worker are processes; `posted` is the owner's event
queue. libcurl is the environment: it calls the read, write, seek and progress
callbacks in any order that it allows, ends at some time, and calls `progressData`
before it ends with success. Content is a count
of bytes with a flag for each change that a hash would notice. A source with a limit may
also grow by a piece after `perform()` has compared its size (`Grown`); libcurl then
sends all of it, and only `progressData` can still refuse (`Over`). QProcess starts a
child or fails to, later reports its end, and a killed child ends some time after
`kill()`. A failure to start can be reported in a later turn of the event loop
(`FailedToStart`: the child could not execute the program) or inside `QProcess::start`
(`StartFails`, with the constant `Immediate`: no pipe or process, or Windows), and then the owner
of a `StorageBridge` receives `finished` before `start()` has returned the id: a step `Fail`
of `JobContract`. The run takes `Immediate` to be TRUE, so that both reports occur. In
`FileProtocolServer` the second one is `Start` followed at once by `FailedToStart`. For the
rest the Unix build is modelled: on Windows a child that cannot be bound to its job object
is killed at once.

## Runs

Every passing run explores its whole state space.

| Run | Question | Bounds |
| --- | --- | --- |
| `relay_pairing` | Can QR pairing join the wrong peers or use a code twice, and do the tables agree while everything expires? | 3 sockets, 3 peer ids, 2 codes, 1 account; a code lives 1 tick, a confirmation would wait 2; `OneInTransit`: one session at a time is being verified or closed |
| `relay_live` | Can two sessions have one name, can a route join the wrong ones, and does every offer, pairing, route and unauthorised session end? | 2 sockets, 2 peer ids, 1 account, 1 code, 1 route |
| `peer_client` | Is every request sent at most once and completed exactly once, and is the table one of `JobContract`? | 2 requests to 1 host with 2 URLs, 3 links |
| `peer_reentrant` | The same with a slot that stops the peer (violated) | 2 requests |
| `peer_host` | Does a ticket open one connection, does trust end with the relay session, do places come back? | 3 sockets for 1 handshake and 2 links, 2 tickets for 1 slot, 2 relay sessions |
| `lan_pairing` | Do Files go to the right device only, do codes work once, do attempts end on both sides? | 1 device with 2 addresses that joins twice, while the host shows 2 codes for it or for another device; 2 connections, with proofs |
| `lan_confirming` | Does the wait for approval end? (violated) | 1 device |
| `lan_files` | Do requests stay below the root, are downloads one content and writes whole, is each request reported once, as `JobContract` says? | 4 directories, 2 files, 2 temporary files, 2 requests for 1 place of the table, 2 events from outside; a file of 3 blocks, chunks of 2 |
| `websocket` | Stale callbacks, addresses in turn, one deadline for all | 3 opens, 2 addresses, 2 ticks |
| `transfer` | One report per start, a file replaced only by a verified success, no thread without owner, a destructor that returns, the contract of jobs? | 3 starts for 2 threads: a checked upload or download of 2 pieces, a download above its limit, an upload at its limit that may grow |
| `storage_bridge` | Is success real, every process owned, every job reported, also when a child fails to start, the contract of jobs? | 2 starts for 1 place, output limit of 2 pieces |
| `protocol_server` | Can an old child disturb a new one, does stop() stop a deaf one? | 3 children |

Why the bounds are enough: each property relates at most two sessions, requests,
jobs or children and the objects that they name. Where a third party can interfere
with two (pairing at the relay, links of a peer, children that follow
each other, attempts of a socket) the instance has three; jobs of the bridge share
nothing but their table, so two of them for one place meet every case. Two requests
to the share give a download of two chunks or a write followed by another request;
two events from outside put a link and take it away again, or change a file twice.
The tables of `PeerHost`, `LanFiles`, `FileTransfer` and `StorageBridge` have fewer
places than candidates, so that a full table refuses; the tables of the relay, the
peer client and the LAN host can be filled but have no candidate left over, and their
refusals are guards that change nothing. Deadlines of one and two ticks give every order of two expiries. The relay's runs have a
single account; that pairings and routes stay in their account is proved for any
number of them (below). Uuids of transfers are numbered in the order in which they
are drawn. Symmetry is used for sets whose members are interchangeable, and only in
runs without liveness properties. `CHECK_DEADLOCK FALSE` is set where the object may
be destroyed or has nothing left to do; the relay, the peer and the LAN host run for
ever.

### Fairness

- Relay, LAN host and devices, both sides of the peer: time passes, the periodic
  timer is served, and a socket that was closed ends within its second
  (`WebSocket::close` starts a timer for it). In `PeerHost` a handshake ends by its
  deadline, one way or the other. Nothing is assumed of peers, devices, users, the
  network or the authenticator.
- `WebSocket`: the owner's event loop serves timers between reads, hence strong
  fairness for the deadline and queued calls, which a stream of other events could
  disable and enable again. Nothing is assumed of the resolver and the network.
- `FileTransfer`: workers and the owner's loop run, and libcurl ends every
  transfer (it is given a timeout).
- `StorageBridge`, `FileProtocolServer`: the event loop runs, starting a process
  succeeds or fails, and a killed process dies. A process that is not killed may
  run for ever.
- `LanFiles` has safety properties only: other programs, the device and the power
  owe it nothing, and the handler has no loop that waits.

### Findings

- `peer_reentrant`: docs/Network.md:17 says that callbacks check their state again
  because requests and stops may re-enter. The sweep of `Peer` (Peer.cpp:235) does
  not: a slot of `completed()` that calls `stop()` lets the loop go on over keys
  that are gone, `requests[id]` inserts them again, and they are completed a second
  time.
- `lan_confirming`: README.md:56 says that confirmation waits for at most 60
  seconds. If the device leaves or is closed by the sweep while the host is in
  `confirming`, the handler (LanPeer.cpp:270) changes only the phase `verifying`;
  the host keeps showing the code until its owner cancels.

## Proofs

`RelayServerProofs` proves, for any sets of sockets, accounts, peers, services,
codes and routes and any limits and lifetimes:

| Theorem | States |
| --- | --- |
| `Invariant` | the inductive invariant `IInv` |
| `TablesSound` | `Sound`: the type invariant and the agreement of the four tables, with every deadline in its range |
| `OnePairing` | a session takes part in one pairing |
| `PairingsInScope` | a pairing joins a host and a client of one account and service |
| `PeersUnique` | one open session per peer of an account and service |
| `RoutesInScope` | routes join sessions of one account and service |
| `PairingImplemented` | the relay implements `PairingContract` |

Assumptions: `NoneAssumption` (the absent value is none of the others) and
`LimitAssumption` (limits and lifetimes are natural numbers, those of principals,
offers, confirmations and windows not zero).

None of the safety properties is inductive alone. That a claim makes no second
pairing needs that the claimed offer's host is in no pairing, which is in
`Bookkeeping`; that a pairing stays in scope needs that nothing changes the account
or role of a session that is mentioned in a table, which needs again that
`Bookkeeping` describes which sessions may be mentioned. `IInv` is their
conjunction with `TypeOK`.

The proof of `IInv` separates two kinds of step. A *quiet* step only takes entries
away, lowers deadlines and leaves the identity of the sessions that remain alone
(disconnection, cancellation, the sweep, ticks, stop, responses): one lemma,
`QuietPreserves`, covers them all. Each step that creates something (accept,
authentication, registration, offer, claim, confirm, request) has a lemma of its
own. The refinement is proved the same way: every step is an offer, claim or
confirmation of one code, or only discards codes.

`PeerHostProofs` proves, for any sets of sockets and tickets and any limits:

| Theorem | States |
| --- | --- |
| `SocketsOwned` | `SocketsAreOwned`: handshakes, links and tickets keep to their limits, and none is left when the `Peer` does not run |
| `TrustEnds` | `TrustIsCurrent`: every ticket and authenticated link is of the current relay session |
| `TicketsOnce` | `TicketOpensOnce`: a ticket authenticates one connection |

Assumptions: `TicketAssumption` (the absent ticket is not a ticket) and
`LimitAssumption` (limits are natural numbers). The invariant has three parts.
`Places` is about sockets and tables alone and adds their finiteness, without which
`Cardinality` says nothing. `Trust` adds that only links are authenticated, so that
ending the links ends all trust. `Once` adds that a ticket not yet announced is
unused; its induction step needs `Trust`, which says that what is in the table was
announced.

`PeerClientProofs` proves, for any sets of requests, hosts and links and any limits:

| Theorem | States |
| --- | --- |
| `TransmittedOnce` | `NeverReplayed`: a request is transmitted at most once |
| `RelayRedialled` | `Redials`: a running peer without relay is about to dial it, unless it was refused |
| `ChainsAreSingle` | `OneChain`: a host that is being connected has one chain of attempts, any other none |
| `RequestsHaveAnOwner` | `NobodyForgotten`: a request is completed once, and until then somebody answers for it |
| `JobsImplemented` | `ImplementsJobs`: the table of requests implements `JobContract` |

Assumptions: `NoneAssumption`, `AbsentAssumption` (the absent value is none of the
records) and `LimitAssumption` (limits are natural numbers, the two timeouts not zero).
`RequestsHaveAnOwner` and `JobsImplemented` assume in addition that no re-entrant call
strikes in the middle of a loop (`~Midway`): without that they are false, as
`peer_reentrant` shows. The other three hold with `Midway` too, and the same invariant proves all four. `ChainAt` is the
part that makes it inductive: an unanswered question, an unauthenticated link and a
queued attempt exclude each other; a host that is being connected has no link over which
requests could go, so that no request bypasses those that wait; and a queued attempt of
a host that is no longer being connected exists only without a connection to the relay,
so that it cannot start a second chain. `PlayedAt` makes `NeverReplayed` inductive:
what was transmitted has a transport or is over, and `remote` and `local` send only what
has none.

`LanPairingProofs` proves, for any devices, connections and bounds, with and without
account proofs:

| Theorem | States |
| --- | --- |
| `AdmissionsAreUnique` | `AdmittedOnce`: a code admits one connection, a device has one session, the host keeps to its limit |
| `FilesNeedConsent` | `AccessIsGranted`: Files only for the device that was meant, after the approval that the code asks for |
| `AttemptIsCurrent` | `PendingIsCurrent`: the attempt that the host shows is the one with the newest code |

Assumptions: the absent value is no connection and no peer, devices are peers, and a QR
code has an address (the code refuses to make or read one without: LanPeer.cpp:22, 248).
`Messages` is the part that no handler mentions: a `confirm` on its way to the host, or
a `ready` on its way to a device, belongs to a session that was given the list. Together
with `Codes` (a valid code is the newest and has admitted nobody) and `Named` (a session
has an id only through a code) it carries the proof of `FilesNeedConsent`.

`FileServingProofs` proves of `LanFiles`, for any tree of directories, any blocks, any number of requests,
of places in the table and of changes by other programs, on both platforms:

| Theorem | States |
| --- | --- |
| `RequestsAreConfined` | `Confined`: a request stays below the root |
| `UploadsAreWhole` | `WritesAreWhole`: what a write publishes is whole; whose the temporary files are |
| `NoNameTakenOver` | `NothingReplaced`: no step of the share changes a name that exists (action property) |
| `DownloadIsConsistent` | `DownloadIsOneContent`: types, and chunks of one version are a prefix of one content |
| `JobsImplemented` | `ImplementsJobs`: the device's table of requests implements `JobContract` |

Assumptions: directories, files and files to come are disjoint and hold neither the link
nor the absent value; the first tree has names for directories, files and links only;
requests are of the five operations; and a block written by another program is none of
those that are uploaded (`PayloadAssumption`), which is how the model tells whose content
it sees. Paths have at most two names, as in `Path`: the theorems cover the root, a
directory in it and what is in that directory. The invariant says of each kind of state
what another program cannot change. `Closed` says that whatever can be reached from the
root is in `within`, so that a descriptor opened there stays there; `Walk` adds that
Windows keeps the parents in place; `Versions` and `Contents` say that a version stands
for one content and that a named file is published and synced; `Temporary` that an upload
in progress has no name and holds a prefix of the blocks; `Reading` that the blocks read so
far are those of the version, unless the modification time tells. `Table`, `Requests`,
`Replies` and `Download` follow an id from the device's table through the host's handler
and back.

`FileTransferProofs` proves, for any transfers, requests and limits:

| Theorem | States |
| --- | --- |
| `SuccessVerified` | `SuccessIsVerified`: a success has the checksum and keeps to the limit, and a download replaces its file exactly then |
| `TransfersReportedOnce` | `ReportedOnce`: one report, not while the thread runs, and no progress after it |
| `JobsImplemented` | `ImplementsJobs`: the transfers implement `JobContract` |

Assumptions: ids are numbers, the absent value is none of them and no request, limits are
natural numbers, and the requests that a caller may make are of the type `Request`. The
invariant says for each stage of a thread where its id is (`OwnedAt`), what has been
counted (`CountedAt`) and what is decided (`ResultAt`: in particular that no success is
decided for a source that has outgrown its limit); `Events` says that the event of the
end is the last one of its id in the queue, which is what makes a late progress impossible.

`StorageBridgeProofs` proves, for any jobs and limits:

| Theorem | States |
| --- | --- |
| `SuccessReal` | `SuccessIsReal`: success is exit code 0 of a process that was neither cancelled, late nor too talkative |
| `ProcessesOwned` | `ProcessesAreOwned`: a process that was not reported belongs to a job in the table |
| `JobsImplemented` | `ImplementsJobs`: the jobs of rclone implement `JobContract` |

`FileServingProofs` proves of `FileProtocolServer`, for any children:

| Theorem | States |
| --- | --- |
| `ChildIsOwned` | `OneChild`: one child at a time, and only one that was asked to stop is killed |
| `FailuresReported` | `FailuresAreReal`: `failed()` for the ends nobody asked for and no others |

Assumptions: limits are natural numbers; the absent child is no child. All three
theorems hold with and without `Immediate`. The bridge needs
`Life`, the states of a job between its start and its report, in which alone its fields
change. The protocol server needs `FlagIsCurrent`: the one flag `stopping` always speaks of
the current child.

`WebSocketProofs` proves, for any number of `open()` calls and of addresses and any times:

| Theorem | States |
| --- | --- |
| `SignalsOrdered` | `SignalsInOrder`: one `disconnected` per `open()` that ended or was replaced; messages between `connected` and `disconnected` only |
| `OneHandshake` | `HandshakeBounded`: no more than one handshake time in the state connecting, and a tick per address |
| `NoAddressSkipped` | `EveryAddressTried`: a socket that gives up has seen each address fail, once |

Assumptions: `LimitAssumption` (there may be an address, and neither time is zero). Three
parts make these inductive. `OneDriver` says that an object that is connecting is driven
by one thing: the task of `open()`, the resolver, the task of `retry()` or an attached
stream. Hence `Counted`: the addresses that were tried have failed, but the one whose
stream is attached, and what is left of the deadline makes up for the time that has passed.
`Reading` says that a read whose object has not ended begins with the upgrade exactly
while the object is connecting, so that the events after a slot's `close()`, `abort()` or
`open()` find no codec and no message precedes `connected`. The proof has one lemma for
each way in which handlers end: an object that ends (`InvRelease`), an address that failed
(`InvRetry`), an address that is dialled (`InvDial`), and a task that finds its object
replaced (`InvDropped`).

The four theorems `JobsImplemented` say that one abstract specification describes the four
tables. Each shows that `Init` maps to the contract's and that a step is an `Accept`, a `Fail`, a
`Refuse`, a `Report` of some set of ids, the `Close` of a destructor, or changes no stage.
The set matters: a lost connection, a stop or a sweep reports many requests in one step.
A `Report` never takes an id that the same step made known, which is the contract's
"later". What each proof adds to the invariant is where an id can be: in `FileTransfer`,
that no id leaves the table without its report (`NoneForgotten`), which needs the event
that waits in the owner's queue; in `PeerClient`, that whatever step takes a request from
the table also counts its completion (`CompletesSome`), through each of the fallbacks.

Only model-checked:

- Liveness (`EntriesEnd`, `RequestsEnd`, `PairingsEnd`, `AttemptsEnd`,
  `TransfersEnd`, `EveryStartIsReported`, `StopStops`, `PlacesComeBack`): fairness and `ENABLED` are out of the prover's reach.
- The two violated properties, which are false.

## Not modelled

- TLS, framing, HTTP and name resolution inside iiNetwork; JSON syntax; the contents
  of messages that no handler decides on.
- `SessionAuthenticator`: at most 64 HTTP requests, each with one callback and a
  timeout inside iiNetwork. The relay's model has the answer as an event of its own
  that may come late or never, which is all that the relay can see of it.
- `HttpServer` forwards to iiNetwork's server and router and keeps no state.
- `BinaryFrame`, `PairingLink`, `LanLink`: codecs between two layouts of the same data,
  without state or order of events.
- `LanIdentity` (key generation), the command-line tools (they read a configuration,
  construct one of the objects above and run the event loop), the build, the nginx
  example, `helloWorld`.
- The options that `Transfer.cpp` and `StorageBridge.cpp` pass to libcurl and rclone:
  data without control; the validation appears as a nondeterministic refusal.
- The relay together with a `Peer` that restarts before the relay has noticed the end
  of its first connection. The two halves are modelled: the relay refuses with
  `duplicate_peer` (`RelayServer`), and an error from the relay ends redialling
  (`PeerClient`). That the end is final is the design of the code.
- A slot of the device's `completed()` that calls `stop()` during the sweep of
  `LanPeer`: the hazard that `peer_reentrant` shows for `Peer`.
- Which names `relative()` admits, the pages of a directory listing, base64.
- Overflow of an output inside a handler of the relay (see the hazards); `open()`
  nested in the slot of the `disconnected` that another `open()` emits, which no
  caller in the repository does.

## Plan

1. Done: relay with contract and proofs; both sides of the peer, the host side with
   proofs; LAN pairing; the file requests of a paired device with `FileShare`;
   WebSocket client and server; transfers; storage bridge; protocol server.
2. Done: theorems for every safety property of every module.
3. Done: the contract of jobs, implemented by the transfers, the bridge and the request
   tables of `Peer` and `LanPeer`, checked and proved.
4. Left: the composition of relay and peers for the quick restart; a slot of `completed()`
   that re-enters `LanPeer` in its sweep; outputs that overflow inside a handler of the
   relay.
