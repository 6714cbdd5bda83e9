------------------------------ MODULE LanFiles ------------------------------
(***************************************************************************)
(* The requests of a paired device to the Files of its host: the request   *)
(* table of LanPeer (src/src/LanPeer.cpp), the connection, and a host      *)
(* whose RequestHandler is a FileShare.                                    *)
(*                                                                         *)
(* The host's event loop is blocked while FileShare handles a request; the *)
(* device's is not: it sends, times out, loses the connection and pairs    *)
(* again meanwhile.  LanPairing models the pairing itself.                 *)
(***************************************************************************)
EXTENDS FileShare, FiniteSets

CONSTANTS
  Request,     \* the requests the device makes: [op, path]
  MaxPending,  \* 32: requests in the table
  MaxRequests  \* bound: calls of request()

ASSUME PendingAssumption == MaxPending \in Nat /\ MaxRequests \in Nat
ASSUME RequestAssumption ==
  Request \subseteq [op : {"list", "stat", "read", "mkdir", "write"}, path : Path]

Id == 1..MaxRequests

VARIABLES
  paired,   \* d->clientPaired of the device
  session,  \* the host has a paired session for the device
  table,    \* d->requests of the device
  queued,   \* the queued calls that send a request
  refused,  \* ids whose queued call reports not_connected_or_busy
  up, down, \* messages to the host and to the device
  serving,  \* the id that the host is handling, or 0
  issued,   \* calls of request() so far
  ends,     \* history, per id: completed() signals
  got       \* history: what the device has put together of a download

deviceVars == <<paired, table, queued, refused, issued, ends, got>>
vars == <<shareVars, deviceVars, session, up, down, serving>>

Nothing == [version |-> <<>>, bytes |-> <<>>, eof |-> FALSE]

Init ==
  /\ ShareInit
  /\ paired = TRUE /\ session = TRUE
  /\ table = {} /\ queued = {} /\ refused = {}
  /\ up = <<>> /\ down = <<>> /\ serving = 0
  /\ issued = 0 /\ ends = [i \in Id |-> 0] /\ got = Nothing

-----------------------------------------------------------------------------
(* The device *)

\* A read starts a download, or goes on with the version of its first chunk;
\* or it asks for what is beyond the end.
Details(r) ==
  IF r.op # "read" THEN {[offset |-> 0, want |-> <<>>]}
  ELSE {[offset |-> 0, want |-> <<>>], [offset |-> 9, want |-> <<>>],
        [offset |-> Len(got.bytes), want |-> got.version]}

Room == Cardinality(table) < MaxPending

\* request()
Ask(r, x) ==
  LET id == issued + 1
      call == [id |-> id, op |-> r.op, path |-> r.path, offset |-> x.offset, want |-> x.want]
  IN
  /\ id \in Id
  /\ issued' = id
  /\ IF paired /\ Room
     THEN table' = table \cup {id} /\ queued' = queued \cup {call} /\ UNCHANGED refused
     ELSE refused' = refused \cup {id} /\ UNCHANGED <<table, queued>>
  /\ UNCHANGED <<shareVars, paired, ends, got, session, up, down, serving>>

\* completed() of the requests S.
Complete(S) == ends' = [i \in Id |-> IF i \in S THEN ends[i] + 1 ELSE ends[i]]

Refuse(id) ==
  /\ refused' = refused \ {id}
  /\ Complete({id})
  /\ UNCHANGED <<shareVars, paired, table, queued, issued, got, session, up, down, serving>>

\* fail() and stop(): the socket is dropped and every request is reported.
Leave ==
  /\ paired' = FALSE
  /\ table' = {}
  /\ Complete(table)
  /\ down' = <<>>
  /\ UNCHANGED <<service, refused, issued, got, session, up, serving>>

\* The connection breaks or ends, an invalid message comes, or the owner
\* calls stop().
Lost == paired /\ Change /\ Leave /\ UNCHANGED queued

\* The queued call of request(): nothing if the request is gone; send() may
\* find the connection closed, which fails the session.
Send(q) ==
  /\ queued' = queued \ {q}
  /\ \/ /\ q.id \notin table
        /\ UNCHANGED <<shareVars, paired, table, refused, issued, ends, got, session, up, down, serving>>
     \/ /\ q.id \in table
        /\ up' = IF session THEN Append(up, q) ELSE up
        /\ UNCHANGED <<shareVars, paired, table, refused, issued, ends, got, session, down, serving>>
     \/ /\ q.id \in table /\ ~session
        /\ Leave /\ UNCHANGED changes

\* What the device has after the reply r to a read.
Collected(r) ==
  IF r.offset = 0 THEN [version |-> r.version, bytes |-> r.bytes, eof |-> r.eof]
  ELSE IF r.offset = Len(got.bytes) /\ r.version = got.version
  THEN [version |-> r.version, bytes |-> got.bytes \o r.bytes, eof |-> r.eof]
  ELSE got

\* Mutant: an answer counts though its request is gone.
AnyAnswer(id) == TRUE

\* requests.remove() finds the request.
Awaited(id) == id \in table

\* A response arrives at the device.
Response ==
  /\ paired /\ down # <<>>
  /\ down' = Tail(down)
  /\ LET id == Head(down).id r == Head(down).result IN
       IF Awaited(id)
       THEN /\ table' = table \ {id}
            /\ Complete({id})
            /\ got' = IF "bytes" \in DOMAIN r THEN Collected(r) ELSE got
       ELSE UNCHANGED <<table, ends, got>>
  /\ UNCHANGED <<shareVars, paired, queued, refused, issued, session, up, serving>>

\* sweep(): the requests S, whose 15 seconds have passed, are reported.
Sweep(S) ==
  /\ S # {} /\ Change
  /\ table' = table \ S
  /\ Complete(S)
  /\ UNCHANGED <<service, paired, queued, refused, issued, got, session, up, down, serving>>

\* The device pairs again; the host refuses it while it has its old session.
PairAgain ==
  /\ ~paired /\ ~session
  /\ paired' = TRUE /\ session' = TRUE
  /\ UNCHANGED <<shareVars, table, queued, refused, issued, ends, got, up, down, serving>>

-----------------------------------------------------------------------------
(* The host *)

\* The host receives a request and calls the handler.
Serve ==
  /\ session /\ up # <<>>
  /\ Begin(Head(up))
  /\ serving' = Head(up).id /\ up' = Tail(up)
  /\ UNCHANGED <<deviceVars, session, down>>

Work == ShareStep /\ UNCHANGED <<deviceVars, session, up, down, serving>>

\* The handler returns and the response is sent; nobody reads it if the
\* device left.
Answer ==
  /\ op.pc = "done"
  /\ op' = NoOp /\ serving' = 0
  /\ down' = IF paired THEN Append(down, [id |-> serving, result |-> op.result]) ELSE down
  /\ UNCHANGED <<platform, disk, root, changes, seen, litter, within, deviceVars, session, up>>

\* The session ends at the host, which notices it between two requests.
HostLost ==
  /\ session /\ serving = 0
  /\ Change \/ (~paired /\ UNCHANGED changes)
  /\ session' = FALSE /\ up' = <<>>
  /\ UNCHANGED <<service, deviceVars, down, serving>>

HostRestart ==
  /\ \E power \in BOOLEAN : Restart(power)
  /\ session' = FALSE /\ up' = <<>> /\ serving' = 0
  /\ UNCHANGED <<deviceVars, down>>

Elsewhere == Others /\ UNCHANGED <<deviceVars, session, up, down, serving>>

Next ==
  \/ \E r \in Request : \E x \in Details(r) : Ask(r, x)
  \/ \E id \in refused : Refuse(id)
  \/ \E q \in queued : Send(q)
  \/ \E S \in SUBSET table : Sweep(S)
  \/ Lost \/ Response \/ PairAgain
  \/ Serve \/ Work \/ Answer \/ HostLost \/ HostRestart \/ Elsewhere

Spec == Init /\ [][Next]_vars

-----------------------------------------------------------------------------
(* Properties *)

\* Every variable has its type.
TypeOK ==
  /\ platform \in {"unix", "windows"}
  /\ rootAt \in Dir \cup {Link} /\ root \in Dir \cup {None}
  /\ entry \in [Dir -> [Name -> Node \cup {Link, None}]]
  /\ hidden \subseteq Dir \X Fresh /\ synced \subseteq File \cup Fresh
  /\ op.pc \in {"idle", "root", "walk", "read", "write", "link", "unlink", "done"}
  /\ paired \in BOOLEAN /\ session \in BOOLEAN
  /\ issued \in 0..MaxRequests /\ table \subseteq 1..issued /\ refused \subseteq 1..issued
  /\ \A q \in queued : q.id \in 1..issued
  /\ serving \in 0..MaxRequests

\* Every variable has its type, and what a device puts together of chunks with
\* one version is the content the file had at one moment, though other programs
\* write it before, between and during the reads; with eof it is all of it
\* (FileShare.cpp:107-121).
DownloadIsOneContent ==
  /\ TypeOK
  /\ got # Nothing => \E s \in seen :
       /\ s[1] = got.version
       /\ got.bytes = SubSeq(s[2], 1, Len(got.bytes))
       /\ got.eof => got.bytes = s[2]

\* The stage of a request, as JobContract counts it.
JobStage(id) ==
  IF ends[id] = 1 THEN "reported"
  ELSE IF ends[id] # 0 THEN "repeated"
  ELSE IF id \in table THEN "running"
  ELSE IF id \in refused THEN "refused"
  ELSE IF id > issued THEN "new" ELSE "forgotten"

Jobs == INSTANCE JobContract
          WITH Job <- Id, Limit <- MaxPending, AtOnce <- FALSE, open <- TRUE, job <- [id \in Id |-> JobStage(id)]

\* Each request() is accepted while the table has room, or refused, and is
\* reported once and later, by its answer, its timeout or the end of the
\* connection, whichever is first (LanPeer.cpp:115-116, 176-177, 236, 304-305,
\* 356-367).
ImplementsJobs == Jobs!Spec
=============================================================================
