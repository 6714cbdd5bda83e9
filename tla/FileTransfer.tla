---------------------------- MODULE FileTransfer ----------------------------
(***************************************************************************)
(* FileTransfer (src/src/Transfer.cpp): up to four transfers, each on a    *)
(* thread of its own that runs perform(), an owner thread that starts,     *)
(* cancels and reports them, and a destructor that cancels and joins them. *)
(*                                                                         *)
(* libcurl is the environment: it moves the data in pieces of any size,    *)
(* may rewind an upload, and ends with success, an error or its timeout.   *)
(* Data is a number of bytes and whether it is what the checksum expects;  *)
(* a local file may change while it is being read, and grow before that.   *)
(* The only variable that two threads share is cancelled, an atomic_bool;  *)
(* events go from a worker to the owner through the owner's event queue.   *)
(***************************************************************************)
EXTENDS Integers, Sequences, FiniteSets

CONSTANTS
  Id,      \* uuids of transfers, never used twice: numbered as start() draws them
  None,    \* no transfer
  MaxJobs, \* 4
  MaxSize, \* bound: bytes of a file, and largest size limit of a request
  Requests \* bound: per id, the requests that the application may make

ASSUME IdAssumption == Id \subseteq Nat /\ None \notin Id

ASSUME LimitAssumption == {MaxJobs, MaxSize} \subseteq Nat

\* What perform looks at of a TransferRequest, and the file that it moves:
\* size bytes, good while they are what the expected checksum says.  A list is
\* moved like a download.
Request == [op: {"download", "upload"}, expects: BOOLEAN,
            maximum: 0..MaxSize, size: 0..MaxSize]

ASSUME RequestAssumption == Requests \in [Id -> SUBSET Request] /\ None \notin Request

VARIABLES
  alive,     \* "yes", "dying" while the destructor waits, "no"
  jobs,      \* the job table of the owner thread
  refused,   \* ids whose queued "finished" reports an error of start()
  pc,        \* per id: where its thread is
  request,   \* per id: its Request, None before start()
  good,      \* per id: whether the source still is what the checksum says
  cancelled, \* per id: the atomic flag
  at,        \* per id: position in the source
  bytes,     \* per id: io.bytes
  clean,     \* per id: whether the bytes hashed so far were good
  code,      \* per id: "ok", or "failed": an error of libcurl, its timeout, the limit
  result,    \* per id: "" or the outcome in job->result
  posted,    \* events in the owner's queue
  committed, \* downloads that have replaced their local file
  finished,  \* history: finished signals per id
  stray      \* history: a progress signal came after its finished

shared == <<alive, jobs, refused, posted, finished, stray>>
work == <<request, good, at, bytes, clean, code, result, committed>>

vars == <<shared, work, pc, cancelled>>

Stages == {"idle", "open", "hash", "move", "decide", "commit", "exit", "joined"}

Init ==
  /\ alive = "yes" /\ jobs = {} /\ refused = {} /\ posted = <<>>
  /\ pc = [i \in Id |-> "idle"]
  /\ request = [i \in Id |-> None]
  /\ good = [i \in Id |-> TRUE]
  /\ cancelled = [i \in Id |-> FALSE]
  /\ at = [i \in Id |-> 0]
  /\ bytes = [i \in Id |-> 0]
  /\ clean = [i \in Id |-> TRUE]
  /\ code = [i \in Id |-> "ok"]
  /\ result = [i \in Id |-> ""]
  /\ committed = {}
  /\ finished = [i \in Id |-> 0]
  /\ stray = FALSE

\* The next uuid that start() draws.
Fresh(i) ==
  /\ request[i] = None
  /\ \A j \in Id : j < i => request[j] # None

uploading(i) == request[i].op = "upload"

-----------------------------------------------------------------------------
(* The owner thread *)

\* Mutant: a job whose thread has ended does not count, though its end is
\* still to be delivered.
FullOfThreads == Cardinality({i \in jobs : pc[i] # "exit"}) >= MaxJobs

Full == Cardinality(jobs) >= MaxJobs

\* start(): a thread for r, whose source is what its checksum says if g.
Start(i, r, g) ==
  /\ alive = "yes"
  /\ Fresh(i)
  /\ ~Full
  /\ ~g => r.expects
  /\ jobs' = jobs \cup {i}
  /\ request' = [request EXCEPT ![i] = r]
  /\ good' = [good EXCEPT ![i] = g]
  /\ pc' = [pc EXCEPT ![i] = "open"]
  /\ UNCHANGED <<alive, refused, posted, finished, stray, cancelled>>
  /\ UNCHANGED <<at, bytes, clean, code, result, committed>>

\* A request that validate() or a full table refuses.
Refuse(i, r) ==
  /\ alive = "yes"
  /\ Fresh(i)
  /\ request' = [request EXCEPT ![i] = r]
  /\ refused' = refused \cup {i}
  /\ UNCHANGED <<alive, jobs, posted, finished, stray, pc, cancelled>>
  /\ UNCHANGED <<good, at, bytes, clean, code, result, committed>>

Refused(i) ==
  /\ alive = "yes"
  /\ i \in refused
  /\ refused' = refused \ {i}
  /\ finished' = [finished EXCEPT ![i] = @ + 1]
  /\ UNCHANGED <<alive, jobs, posted, stray, pc, cancelled>> /\ UNCHANGED work

\* cancel(id) of a job in the table.
Cancel(i) ==
  /\ alive = "yes"
  /\ i \in jobs
  /\ cancelled' = [cancelled EXCEPT ![i] = TRUE]
  /\ UNCHANGED pc /\ UNCHANGED shared /\ UNCHANGED work

\* The threads of jobs in J have been joined and their Job objects are gone.
Deleted(J) ==
  /\ pc' = [i \in Id |-> IF i \in J THEN "joined" ELSE pc[i]]
  /\ cancelled' = [i \in Id |-> cancelled[i] /\ i \notin J]
  /\ good' = [i \in Id |-> good[i] \/ i \in J]
  /\ at' = [i \in Id |-> IF i \in J THEN 0 ELSE at[i]]
  /\ bytes' = [i \in Id |-> IF i \in J THEN 0 ELSE bytes[i]]
  /\ clean' = [i \in Id |-> clean[i] \/ i \in J]
  /\ code' = [i \in Id |-> IF i \in J THEN "ok" ELSE code[i]]
  /\ result' = [i \in Id |-> IF i \in J THEN "" ELSE result[i]]
  /\ UNCHANGED <<request, committed>>

\* The owner takes the next event of its queue: a progress, or the end of a
\* thread, which removes the job and reports it.
Deliver ==
  /\ alive = "yes"
  /\ posted # <<>>
  /\ posted' = Tail(posted)
  /\ LET i == Head(posted).id
     IN IF Head(posted).what = "progress"
        THEN /\ stray' = (stray \/ finished[i] > 0)
             /\ UNCHANGED <<jobs, finished, pc, cancelled>> /\ UNCHANGED work
        ELSE /\ jobs' = jobs \ {i}
             /\ finished' = [finished EXCEPT ![i] = @ + 1]
             /\ Deleted({i})
             /\ UNCHANGED stray
  /\ UNCHANGED <<alive, refused>>

\* Mutant: the destructor waits until the owner has removed the job.
AwaitRemoval == jobs = {}

\* What the destructor waits for.
Await == \A i \in jobs : pc[i] = "exit"

\* The destructor: every thread is told to end and waited for; what is queued
\* for the object is dropped.
Destroy ==
  /\ alive = "yes"
  /\ alive' = "dying"
  /\ cancelled' = [i \in Id |-> cancelled[i] \/ i \in jobs]
  /\ UNCHANGED <<jobs, refused, posted, finished, stray, pc>> /\ UNCHANGED work

Destroyed ==
  /\ alive = "dying"
  /\ Await
  /\ alive' = "no"
  /\ posted' = <<>> /\ refused' = {} /\ jobs' = {}
  /\ Deleted(jobs)
  /\ UNCHANGED <<finished, stray>>

-----------------------------------------------------------------------------
(* A worker thread: perform() *)

Goto(i, stage) == pc' = [pc EXCEPT ![i] = stage]

\* Mutant: the end of a thread overtakes its progress.
PostAhead(i, what) == <<[what |-> what, id |-> i]>> \o posted

\* An event for the owner: a progress, or the finished signal of a thread that
\* has ended.
Post(i, what) == Append(posted, [what |-> what, id |-> i])

\* perform() returns, at an early error or at its end, and so does the thread;
\* its locals are gone, but for what the result says of the bytes.
Outcome(i, x) ==
  /\ result' = [result EXCEPT ![i] = x]
  /\ Goto(i, "exit")
  /\ good' = [good EXCEPT ![i] = TRUE]
  /\ at' = [at EXCEPT ![i] = 0]
  /\ code' = [code EXCEPT ![i] = "ok"]
  /\ posted' = Post(i, "finished")

\* An upload that is larger than its limit.
Over(i) == uploading(i) /\ request[i].maximum # 0 /\ request[i].size > request[i].maximum

\* Another program may extend the file of an upload between the check of its
\* size and CURLOPT_INFILESIZE_LARGE.  Without a checksum only a limit can tell;
\* with one this is a Modify.
Grown(i) ==
  IF uploading(i) /\ ~request[i].expects /\ request[i].maximum # 0 /\ request[i].size < MaxSize
  THEN {[request EXCEPT ![i].size = @ + 1]} ELSE {}

\* The local file is opened; an upload above its limit fails here.
Open(i) ==
  /\ pc[i] = "open"
  /\ \/ Outcome(i, "failed") /\ UNCHANGED request
     \/ /\ ~Over(i)
        /\ Goto(i, IF uploading(i) /\ request[i].expects THEN "hash" ELSE "move")
        /\ request' \in {request} \cup Grown(i)
        /\ UNCHANGED <<result, good, at, code, posted>>
  /\ UNCHANGED <<alive, jobs, refused, finished, stray, cancelled>>
  /\ UNCHANGED <<bytes, clean, committed>>

\* The checksum of an upload is compared before any byte is sent.
Hash(i) ==
  /\ pc[i] = "hash"
  /\ IF cancelled[i] THEN Outcome(i, "cancelled")
     ELSE IF ~good[i] THEN Outcome(i, "failed")
     ELSE Goto(i, "move") /\ UNCHANGED <<result, good, at, code, posted>>
  /\ UNCHANGED <<alive, jobs, refused, finished, stray, cancelled>>
  /\ UNCHANGED <<request, bytes, clean, committed>>

\* Another program changes the file that is being read, which only a request
\* with a checksum can tell.
Modify(i) ==
  /\ pc[i] \in {"open", "hash", "move"}
  /\ good[i] /\ request[i].expects
  /\ good' = [good EXCEPT ![i] = FALSE]
  /\ UNCHANGED <<request, at, bytes, clean, code, result, committed, pc, cancelled>>
  /\ UNCHANGED shared

\* writeData accepts n more bytes; readData never refuses.
Fits(i, n) ==
  uploading(i) \/ request[i].maximum = 0 \/ n <= request[i].maximum - bytes[i]

\* One callback of libcurl: n bytes are hashed and passed on.
Move(i, n) ==
  /\ pc[i] = "move"
  /\ ~cancelled[i]
  /\ at[i] + n <= request[i].size
  /\ IF Fits(i, n)
     THEN /\ at' = [at EXCEPT ![i] = @ + n]
          /\ bytes' = [bytes EXCEPT ![i] = @ + n]
          /\ clean' = [clean EXCEPT ![i] = @ /\ good[i]]
          /\ UNCHANGED <<code, pc>>
     ELSE /\ code' = [code EXCEPT ![i] = "failed"]
          /\ Goto(i, "decide")
          /\ UNCHANGED <<at, bytes, clean>>
  /\ UNCHANGED <<request, good, result, committed, cancelled>> /\ UNCHANGED shared

\* seekData: libcurl sends an upload again from its first byte.
Rewound(i) ==
  /\ bytes' = [bytes EXCEPT ![i] = 0]
  /\ clean' = [clean EXCEPT ![i] = TRUE]

Seek(i) ==
  /\ pc[i] = "move"
  /\ uploading(i)
  /\ at[i] > 0
  /\ at' = [at EXCEPT ![i] = 0]
  /\ Rewound(i)
  /\ UNCHANGED <<request, good, code, result, committed, pc, cancelled>>
  /\ UNCHANGED shared

\* progressData, which fails above the limit: at most one progress is queued for
\* a transfer (a bound: the code posts one every 100 ms).
Progress(i) ==
  /\ pc[i] = "move"
  /\ ~cancelled[i] /\ ~Over(i)
  /\ \A k \in 1..Len(posted) : posted[k].id # i
  /\ posted' = Post(i, "progress")
  /\ UNCHANGED <<alive, jobs, refused, finished, stray, pc, cancelled>> /\ UNCHANGED work

\* libcurl is done, failed or out of time, or the loop sees the flag.  libcurl
\* calls progressData before it ends with success.
Moved(i, x) ==
  /\ pc[i] = "move"
  /\ code' = [code EXCEPT ![i] = IF cancelled[i] \/ Over(i) THEN "failed" ELSE x]
  /\ Goto(i, "decide")
  /\ UNCHANGED <<request, good, at, bytes, clean, result, committed, cancelled>>
  /\ UNCHANGED shared

\* Mutant: only uploads are verified.
VerifiedUploads(i) == ~uploading(i) \/ (clean[i] /\ bytes[i] = request[i].size)

\* The hash of what was moved is the expected one.
Verified(i) == clean[i] /\ bytes[i] = request[i].size

\* The verdict of perform(), which reads the flag once more.
Verdict(i) ==
  IF cancelled[i] THEN "cancelled"
  ELSE IF code[i] # "ok" THEN "failed"
  ELSE IF request[i].expects /\ ~Verified(i) THEN "failed"
  ELSE IF uploading(i) THEN "ok" ELSE "commit"

Decide(i) ==
  /\ pc[i] = "decide"
  /\ IF Verdict(i) = "commit"
     THEN Goto(i, "commit") /\ UNCHANGED <<result, good, at, code, posted>>
     ELSE Outcome(i, Verdict(i))
  /\ UNCHANGED <<alive, jobs, refused, finished, stray, cancelled>>
  /\ UNCHANGED <<request, bytes, clean, committed>>

Reported(ok) == IF ok THEN "ok" ELSE "failed"

\* SaveFile::commit replaces the file as a whole, or fails and leaves it.
Commit(i) ==
  /\ pc[i] = "commit"
  /\ \E ok \in BOOLEAN :
       /\ Outcome(i, Reported(ok))
       /\ committed' = IF ok THEN committed \cup {i} ELSE committed
  /\ UNCHANGED <<alive, jobs, refused, finished, stray, cancelled>>
  /\ UNCHANGED <<request, bytes, clean>>

-----------------------------------------------------------------------------
Worker(i) ==
  \/ Open(i)
  \/ Hash(i)
  \/ \E n \in 1..MaxSize : Move(i, n)
  \/ Seek(i)
  \/ Progress(i)
  \/ \E x \in {"ok", "failed"} : Moved(i, x)
  \/ Decide(i)
  \/ Commit(i)

Next ==
  \/ \E i \in Id :
       \/ \E r \in Requests[i], g \in BOOLEAN : Start(i, r, g)
       \/ \E r \in Requests[i] : Refuse(i, r)
       \/ Refused(i)
       \/ Cancel(i)
       \/ Modify(i)
       \/ Worker(i)
  \/ Deliver \/ Destroy \/ Destroyed

Spec == Init /\ [][Next]_vars

\* Threads and the owner's event loop run, and libcurl's timeout, which start()
\* requires to be positive, ends every transfer.
Fairness ==
  /\ WF_vars(Deliver) /\ WF_vars(Destroyed)
  /\ \A i \in Id :
       /\ WF_vars(Refused(i))
       /\ WF_vars(Open(i) \/ Hash(i) \/ Decide(i) \/ Commit(i))
       /\ WF_vars(\E x \in {"ok", "failed"} : Moved(i, x))

FairSpec == Spec /\ Fairness

-----------------------------------------------------------------------------
(* Properties *)

\* Every variable has its type; in particular bytes never counts more than
\* one pass over the source, also when an upload is rewound (Transfer.cpp:117).
TypeOK ==
  /\ alive \in {"yes", "dying", "no"}
  /\ jobs \in SUBSET Id /\ refused \in SUBSET Id /\ committed \in SUBSET Id
  /\ pc \in [Id -> Stages]
  /\ request \in [Id -> Request \cup {None}]
  /\ good \in [Id -> BOOLEAN] /\ cancelled \in [Id -> BOOLEAN] /\ clean \in [Id -> BOOLEAN]
  /\ at \in [Id -> 0..MaxSize] /\ bytes \in [Id -> 0..MaxSize]
  /\ code \in [Id -> {"ok", "failed"}]
  /\ result \in [Id -> {"", "ok", "failed", "cancelled"}]
  /\ posted \in Seq([what: {"progress", "finished"}, id: Id])
  /\ finished \in [Id -> 0..2] /\ stray \in BOOLEAN

\* A transfer that reports success has moved exactly the expected content when
\* a checksum was given, although the file may have changed after the check
\* and the upload may have been rewound, and stayed within its size limit,
\* although the file may have grown after that check; and a download replaces
\* its local file exactly if it reports success, at whatever moment it was
\* cancelled (Transfer.cpp:96, 117, 124, 143, 251-261).
SuccessIsVerified ==
  \A i \in Id :
    /\ result[i] = "ok" =>
         /\ request[i].expects => clean[i] /\ bytes[i] = request[i].size
         /\ request[i].maximum # 0 => bytes[i] <= request[i].maximum
    /\ pc[i] # "joined" => (i \in committed <=> result[i] = "ok" /\ ~uploading(i))

\* Every id is reported at most once, never while its thread runs or after the
\* destructor has begun, and no progress follows.  A thread runs exactly as
\* long as its job is in the table, which keeps to its limit: none is abandoned
\* and none is joined twice (Transfer.h:56, "completes asynchronously once";
\* Transfer.cpp:273-278, 334, 347-352).
ReportedOnce ==
  /\ TypeOK
  /\ ~stray
  /\ \A i \in Id : finished[i] <= 1
  /\ \A i \in Id : finished[i] = 1 => i \notin jobs \cup refused
  /\ Cardinality(jobs) <= MaxJobs
  /\ \A i \in Id : i \in jobs <=> pc[i] \notin {"idle", "joined"}

\* Every start() is answered by finished, unless the object is destroyed
\* first, and then the destructor returns: every thread it waits for ends,
\* though it posts to the thread that waits (Transfer.h:56, Transfer.cpp:272-279).
TransfersEnd ==
  /\ \A i \in Id : request[i] # None ~> (finished[i] = 1 \/ alive # "yes")
  /\ alive = "dying" ~> alive = "no"

\* The stage of a job, as JobContract counts it.
JobStage(i) ==
  IF finished[i] = 1 THEN "reported"
  ELSE IF finished[i] # 0 THEN "repeated"
  ELSE IF alive # "yes" THEN "void"
  ELSE IF i \in jobs THEN "running"
  ELSE IF i \in refused THEN "refused"
  ELSE IF request[i] = None THEN "new" ELSE "forgotten"

Jobs == INSTANCE JobContract
          WITH Job <- Id, Limit <- MaxJobs, AtOnce <- FALSE,
               open <- (alive = "yes"), job <- [i \in Id |-> JobStage(i)]

\* Each start() is accepted while the table has room, or refused, and is
\* reported once and later by its own thread's end; from the first step of the
\* destructor on nothing is (Transfer.cpp:272-279, 334-337, 347-352).
ImplementsJobs == Jobs!Spec
=============================================================================
