------------------------- MODULE FileTransferProofs -------------------------
(***************************************************************************)
(* Theorems about FileTransfer, for any number of transfers, any requests  *)
(* and any limit of the job table: a reported success has been verified    *)
(* and is what the local file shows, and every transfer is reported once.  *)
(*                                                                         *)
(* The owner and the workers meet only in the event queue and in the flag, *)
(* so the invariant says where a job can be for every stage of its thread, *)
(* and that the event of its end is the last one that it has queued.       *)
(***************************************************************************)
EXTENDS FileTransfer, FiniteSetTheorems, SequenceTheorems, TLAPS

Event == [what : {"progress", "finished"}, id : Id]

Types ==
  /\ alive \in {"yes", "dying", "no"}
  /\ jobs \in SUBSET Id /\ refused \in SUBSET Id /\ committed \in SUBSET Id
  /\ pc \in [Id -> Stages]
  /\ request \in [Id -> Request \cup {None}]
  /\ good \in [Id -> BOOLEAN] /\ cancelled \in [Id -> BOOLEAN] /\ clean \in [Id -> BOOLEAN]
  /\ code \in [Id -> {"ok", "failed"}]
  /\ result \in [Id -> {"", "ok", "failed", "cancelled"}]
  /\ posted \in Seq(Event)
  /\ finished \in [Id -> {0, 1}] /\ stray = FALSE
  /\ IsFiniteSet(jobs) /\ Cardinality(jobs) <= MaxJobs

\* Where id i is: not drawn, refused, a job with a thread, or over.
OwnedAt(i) ==
  /\ i \in jobs <=> pc[i] \notin {"idle", "joined"}
  /\ request[i] = None => pc[i] = "idle" /\ i \notin refused /\ finished[i] = 0
  /\ i \in refused => pc[i] = "idle" /\ finished[i] = 0
  /\ i \in jobs => finished[i] = 0

\* The bytes that were counted are the ones of one pass, within the limit if the
\* source is.
CountedAt(i) ==
  /\ at[i] \in 0..MaxSize /\ bytes[i] \in 0..MaxSize
  /\ pc[i] \in {"idle", "open", "hash", "joined"} => bytes[i] = 0 /\ at[i] = 0
  /\ pc[i] = "move" => at[i] = bytes[i]
  /\ i \in jobs /\ request[i].maximum # 0 /\ ~Over(i) => bytes[i] <= request[i].maximum

\* A result is there once the thread has ended, and the file is replaced in the
\* step that makes it a success.
ResultAt(i) ==
  /\ pc[i] # "exit" => result[i] = ""
  /\ (pc[i] = "decide" /\ code[i] = "ok") \/ result[i] = "ok" => ~Over(i)
  /\ pc[i] \notin {"exit", "joined"} => i \notin committed
  /\ (pc[i] = "commit" \/ result[i] = "ok") /\ request[i].expects => Verified(i)
  /\ pc[i] = "commit" => ~uploading(i)
  /\ pc[i] = "exit" => (i \in committed <=> result[i] = "ok" /\ ~uploading(i))

JobAt(i) == OwnedAt(i) /\ CountedAt(i) /\ ResultAt(i)

\* An event is of a job; the one of its end is the last.
Events ==
  \A k \in DOMAIN posted :
    /\ posted[k].id \in jobs
    /\ posted[k].what = "finished" =>
         /\ pc[posted[k].id] = "exit"
         /\ \A j \in DOMAIN posted : posted[j].id = posted[k].id => j <= k

IInv ==
  /\ Types /\ Events
  /\ at \in [Id -> Int] /\ bytes \in [Id -> Int]
  /\ \A i \in Id : JobAt(i)

-----------------------------------------------------------------------------
(* What a step leaves alone *)

\* The step does not touch id j.
Same(j) ==
  /\ pc'[j] = pc[j] /\ request'[j] = request[j] /\ finished'[j] = finished[j]
  /\ at'[j] = at[j] /\ bytes'[j] = bytes[j] /\ clean'[j] = clean[j] /\ result'[j] = result[j]
  /\ code'[j] = code[j]
  /\ j \in jobs' <=> j \in jobs
  /\ j \in refused' <=> j \in refused
  /\ j \in committed' <=> j \in committed

LEMMA SameKeeps == ASSUME NEW j \in Id, JobAt(j), Same(j) PROVE JobAt(j)'
<1>1. OwnedAt(j)'
  BY DEF JobAt, Same, OwnedAt
<1>2. CountedAt(j)'
  BY DEF JobAt, Same, CountedAt, uploading, Over
<1>3. ResultAt(j)'
  BY DEF JobAt, Same, ResultAt, uploading, Verified, Over
<1>4. QED
  BY <1>1, <1>2, <1>3 DEF JobAt

LEMMA JobsHaveRequests ==
  ASSUME IInv, NEW i \in jobs
  PROVE  i \in Id /\ request[i] \in Request /\ finished[i] = 0 /\ i \notin refused
  BY DEF IInv, Types, JobAt, OwnedAt

\* No event of a job whose thread has not ended is the one of its end.
LEMMA NotPosting ==
  ASSUME Types, Events, NEW i \in Id, pc[i] # "exit", UNCHANGED <<posted, jobs>>,
         \A j \in Id : j # i => pc'[j] = pc[j]
  PROVE  Events'
<1>1. \A k \in DOMAIN posted : posted[k] \in Event
  <2>1. posted \in Seq(Event)
    BY DEF Types
  <2>2. QED
    BY <2>1, LenProperties
<1>2. \A k \in DOMAIN posted : posted[k].id \in Id
  BY <1>1 DEF Event
<1>3. QED
  BY <1>2 DEF Events

\* The worker of i queues an event.
LEMMA Posting ==
  ASSUME Types, Events, NEW i \in jobs, NEW w \in {"progress", "finished"}, pc[i] # "exit",
         posted' = Post(i, w), UNCHANGED jobs,
         \A j \in Id : j # i => pc'[j] = pc[j],
         w = "finished" => pc'[i] = "exit"
  PROVE  posted' \in Seq(Event) /\ Events'
<1> DEFINE e == [what |-> w, id |-> i]
           n == Len(posted)
<1>1. posted \in Seq(Event) /\ e \in Event /\ i \in Id
  BY DEF Types, Event
<1>2. /\ posted' \in Seq(Event) /\ n \in Nat
      /\ DOMAIN posted' = 1..n + 1 /\ DOMAIN posted = 1..n
      /\ \A k \in 1..n : posted'[k] = posted[k] /\ posted[k] \in Event
      /\ posted'[n + 1] = e
  BY <1>1, AppendProperties, LenProperties DEF Post
<1> HIDE DEF n
<1>3. \A k \in 1..n : posted[k].id \in Id
  BY <1>2 DEF Event
<1>4. /\ \A k \in 1..n + 1 : k \in 1..n \/ k = n + 1
      /\ \A k \in 1..n + 1 : k <= n + 1
      /\ n + 1 \in 1..n + 1
  BY <1>2
<1>5. ASSUME NEW k \in 1..n
      PROVE  /\ posted'[k].id \in jobs
             /\ posted'[k].what = "finished" =>
                  /\ pc'[posted'[k].id] = "exit"
                  /\ \A j \in 1..n + 1 : posted'[j].id = posted'[k].id => j <= k
  <2>1. posted'[k] = posted[k] /\ posted[k].id \in jobs /\ posted[k].id \in Id
    BY <1>2, <1>3 DEF Events
  <2>2. ASSUME posted[k].what = "finished"
        PROVE  /\ pc'[posted[k].id] = "exit"
               /\ \A j \in 1..n + 1 : posted'[j].id = posted[k].id => j <= k
    <3>1. /\ pc[posted[k].id] = "exit"
          /\ \A j \in 1..n : posted[j].id = posted[k].id => j <= k
      BY <1>2, <2>2 DEF Events
    <3>2. posted[k].id # i
      BY <3>1
    <3>3. posted'[n + 1].id = i
      BY <1>2
    <3>4. QED
      BY <1>2, <1>4, <2>1, <3>1, <3>2, <3>3
  <2>3. QED
    BY <2>1, <2>2
<1>6. /\ posted'[n + 1].id \in jobs
      /\ posted'[n + 1].what = "finished" => pc'[posted'[n + 1].id] = "exit"
  BY <1>2
<1>7. QED
  BY <1>2, <1>4, <1>5, <1>6 DEF Events

LEMMA InvInit == Init => IInv
<1> SUFFICES ASSUME Init PROVE IInv
  OBVIOUS
<1>1. Types
  <2>1. IsFiniteSet({}) /\ Cardinality({}) = 0 /\ 0 <= MaxJobs
    BY FS_EmptySet, LimitAssumption
  <2>2. <<>> \in Seq(Event)
    OBVIOUS
  <2>3. QED
    BY <2>1, <2>2 DEF Init, Types, Stages
<1>2. Events
  <2>1. DOMAIN <<>> = {}
    OBVIOUS
  <2>2. QED
    BY <2>1 DEF Init, Events
<1>3. 0 \in 0..MaxSize
  BY LimitAssumption
<1>4. ASSUME NEW i \in Id PROVE JobAt(i)
  <2>1. OwnedAt(i)
    BY DEF Init, OwnedAt
  <2>2. CountedAt(i)
    BY <1>3 DEF Init, CountedAt
  <2>3. ResultAt(i)
    BY DEF Init, ResultAt
  <2>4. QED
    BY <2>1, <2>2, <2>3 DEF JobAt
<1>5. at \in [Id -> Int] /\ bytes \in [Id -> Int]
  <2>1. at = [i \in Id |-> 0] /\ bytes = [i \in Id |-> 0]
    BY DEF Init
  <2>2. 0 \in Int
    OBVIOUS
  <2>3. QED
    BY <2>1, <2>2
<1>6. QED
  BY <1>1, <1>2, <1>4, <1>5 DEF IInv

-----------------------------------------------------------------------------
(* The worker of i *)

\* A step of the worker of i: the tables of the owner stay as they are.
LEMMA WorkerKeeps ==
  ASSUME IInv, NEW i \in jobs, UNCHANGED <<alive, jobs, refused, finished, stray, cancelled>>,
         UNCHANGED request \/ request'[i] \in Request, Types', Events', at' \in [Id -> Int], bytes' \in [Id -> Int],
         \A j \in Id : j # i => Same(j), CountedAt(i)', ResultAt(i)',
         pc'[i] \notin {"idle", "joined"}
  PROVE  IInv'
<1>1. i \in Id /\ JobAt(i) /\ request'[i] # None
  BY JobsHaveRequests, RequestAssumption DEF IInv
<1>2. OwnedAt(i)'
  BY <1>1 DEF JobAt, OwnedAt
<1>3. JobAt(i)'
  BY <1>2 DEF JobAt
<1>4. \A j \in Id : JobAt(j)'
  BY <1>3, SameKeeps DEF IInv
<1>5. QED
  BY <1>4 DEF IInv

\* perform() returns x.
LEMMA OutcomeKeeps ==
  ASSUME IInv, NEW i \in jobs, pc[i] # "exit", NEW x \in {"ok", "failed", "cancelled"},
         Outcome(i, x), UNCHANGED <<alive, jobs, refused, finished, stray, cancelled>>,
         UNCHANGED <<request, bytes, clean>>,
         committed' = IF x = "ok" /\ ~uploading(i) THEN committed \cup {i} ELSE committed,
         x = "ok" => ~Over(i) /\ (request[i].expects => Verified(i))
  PROVE  IInv'
<1>1. /\ result' = [result EXCEPT ![i] = x] /\ pc' = [pc EXCEPT ![i] = "exit"]
      /\ good' = [good EXCEPT ![i] = TRUE] /\ at' = [at EXCEPT ![i] = 0]
      /\ code' = [code EXCEPT ![i] = "ok"] /\ posted' = Post(i, "finished")
  BY DEF Outcome, Goto
<1>2. i \in Id /\ JobAt(i) /\ request[i] \in Request
  BY JobsHaveRequests DEF IInv
<1>3. /\ pc \in [Id -> Stages] /\ result \in [Id -> {"", "ok", "failed", "cancelled"}] /\ at \in [Id -> Int]
      /\ code \in [Id -> {"ok", "failed"}]
  BY DEF IInv, Types
<1>4. /\ pc'[i] = "exit" /\ result'[i] = x /\ at'[i] = 0
      /\ \A j \in Id : j # i => /\ pc'[j] = pc[j] /\ result'[j] = result[j] /\ at'[j] = at[j]
                                /\ code'[j] = code[j]
  BY <1>1, <1>2, <1>3
<1>5. posted' \in Seq(Event) /\ Events'
  BY <1>1, <1>4, Posting DEF IInv
<1>6. Types'
  <2>1. pc' \in [Id -> Stages] /\ result' \in [Id -> {"", "ok", "failed", "cancelled"}]
    BY <1>1, <1>3 DEF Stages
  <2>2. good' \in [Id -> BOOLEAN] /\ code' \in [Id -> {"ok", "failed"}]
    BY <1>1 DEF IInv, Types
  <2>3. committed' \in SUBSET Id
    BY <1>2 DEF IInv, Types
  <2>4. QED
    BY <1>5, <2>1, <2>2, <2>3 DEF IInv, Types
<1>7. \A j \in Id : j # i => Same(j)
  BY <1>4 DEF Same
<1>8. CountedAt(i)'
  <2>1. 0 \in 0..MaxSize
    BY LimitAssumption
  <2>2. QED
    BY <1>2, <1>4, <2>1 DEF JobAt, CountedAt, Over, uploading
<1>9. ResultAt(i)'
  <2>1. /\ i \notin committed /\ uploading(i)' = uploading(i) /\ Verified(i)' = Verified(i)
        /\ Over(i)' = Over(i)
    BY <1>2 DEF JobAt, OwnedAt, ResultAt, uploading, Verified, Over
  <2>2. i \in committed' <=> x = "ok" /\ ~uploading(i)
    BY <2>1
  <2>3. QED
    BY <1>4, <2>1, <2>2 DEF ResultAt
<1>10. at' \in [Id -> Int] /\ bytes' \in [Id -> Int]
  <2>1. at' = [at EXCEPT ![i] = 0] /\ at \in [Id -> Int]
    BY <1>1, <1>3
  <2>2. 0 \in Int
    OBVIOUS
  <2>3. at' \in [Id -> Int]
    BY <2>1, <2>2
  <2>4. QED
    BY <2>3 DEF IInv
<1>11. QED
  BY <1>4, <1>5, <1>6, <1>7, <1>8, <1>9, <1>10, WorkerKeeps

\* The worker of i goes on to stage, with what it has counted.
LEMMA GotoKeeps ==
  ASSUME IInv, NEW i \in jobs, pc[i] # "exit", NEW stage \in {"hash", "move", "decide", "commit"},
         Goto(i, stage), NEW x \in {"ok", "failed"}, code' = [code EXCEPT ![i] = x],
         UNCHANGED <<alive, jobs, refused, finished, stray, cancelled, posted>>,
         UNCHANGED <<request, good, at, bytes, clean, result, committed>>,
         stage = "hash" => bytes[i] = 0 /\ at[i] = 0,
         stage = "move" => at[i] = bytes[i],
         stage = "decide" /\ x = "ok" => ~Over(i),
         stage = "commit" => ~uploading(i) /\ (request[i].expects => Verified(i))
  PROVE  IInv'
<1>1. /\ i \in Id /\ JobAt(i) /\ pc \in [Id -> Stages] /\ pc' = [pc EXCEPT ![i] = stage]
      /\ code \in [Id -> {"ok", "failed"}]
  BY JobsHaveRequests DEF IInv, Types, Goto
<1>2. /\ pc'[i] = stage /\ code'[i] = x
      /\ \A j \in Id : j # i => pc'[j] = pc[j] /\ code'[j] = code[j]
  BY <1>1
<1>3. Types'
  <2>1. pc' \in [Id -> Stages] /\ code' \in [Id -> {"ok", "failed"}]
    BY <1>1 DEF Stages
  <2>2. QED
    BY <2>1 DEF IInv, Types
<1>4. Events'
  BY <1>1, <1>2, NotPosting DEF IInv
<1>5. \A j \in Id : j # i => Same(j)
  BY <1>2 DEF Same
<1>6. uploading(i)' = uploading(i) /\ Verified(i)' = Verified(i) /\ Over(i)' = Over(i)
  BY DEF uploading, Verified, Over
<1>7. CountedAt(i)'
  BY <1>1, <1>2, <1>6 DEF JobAt, CountedAt
<1>8. ResultAt(i)'
  <2>1. result[i] = "" /\ i \notin committed
    BY <1>1 DEF JobAt, OwnedAt, ResultAt
  <2>2. QED
    BY <1>2, <1>6, <2>1 DEF ResultAt
<1>9. QED
  BY <1>2, <1>3, <1>4, <1>5, <1>7, <1>8, WorkerKeeps DEF IInv

\* The requests after the growth of a source: its own is still one.
LEMMA GrownFacts ==
  ASSUME IInv, NEW i \in jobs, NEW r \in Grown(i)
  PROVE  /\ r \in [Id -> Request \cup {None}] /\ r[i] \in Request /\ r[i].op = request[i].op
         /\ r[i].maximum = request[i].maximum /\ ~r[i].expects
         /\ \A j \in Id : j # i => r[j] = request[j]
<1> DEFINE q == [request[i] EXCEPT !.size = @ + 1]
<1>1. i \in Id /\ request[i] \in Request /\ request \in [Id -> Request \cup {None}]
  BY JobsHaveRequests DEF IInv, Types
<1>2. r = [request EXCEPT ![i] = q] /\ request[i].size < MaxSize /\ ~request[i].expects
  BY DEF Grown
<1>3. request[i].size + 1 \in 0..MaxSize
  BY <1>1, <1>2, LimitAssumption DEF Request
<1>4. /\ q \in Request /\ q.op = request[i].op /\ q.maximum = request[i].maximum
      /\ q.expects = request[i].expects
  BY <1>1, <1>3 DEF Request
<1> HIDE DEF q
<1>5. QED
  BY <1>1, <1>2, <1>4

\* The source of i grows while it is opened.
LEMMA GrowthKeeps ==
  ASSUME IInv, NEW i \in jobs, pc[i] = "open", Goto(i, "move"), request' \in Grown(i),
         UNCHANGED <<alive, jobs, refused, finished, stray, cancelled, posted>>,
         UNCHANGED <<good, at, bytes, clean, code, result, committed>>
  PROVE  IInv'
<1>1. /\ request' \in [Id -> Request \cup {None}] /\ request'[i] \in Request
      /\ ~request'[i].expects /\ \A j \in Id : j # i => request'[j] = request[j]
  BY GrownFacts
<1>2. i \in Id /\ JobAt(i) /\ pc \in [Id -> Stages] /\ pc' = [pc EXCEPT ![i] = "move"]
  BY JobsHaveRequests DEF IInv, Types, Goto
<1>3. pc'[i] = "move" /\ \A j \in Id : j # i => pc'[j] = pc[j]
  BY <1>2
<1>4. Types'
  <2>1. pc' \in [Id -> Stages]
    BY <1>2 DEF Stages
  <2>2. QED
    BY <1>1, <2>1 DEF IInv, Types
<1>5. Events'
  BY <1>2, <1>3, NotPosting DEF IInv
<1>6. \A j \in Id : j # i => Same(j)
  BY <1>1, <1>3 DEF Same
<1>7. CountedAt(i)'
  <2>1. at[i] \in 0..MaxSize /\ bytes[i] = 0 /\ at[i] = 0
    BY <1>2 DEF JobAt, CountedAt
  <2>2. request'[i].maximum \in Nat
    BY <1>1, LimitAssumption DEF Request
  <2>3. 0 <= request'[i].maximum
    BY <2>2
  <2>4. QED
    BY <1>2, <1>3, <2>1, <2>3 DEF CountedAt
<1>8. ResultAt(i)'
  <2>1. result[i] = "" /\ i \notin committed
    BY <1>2 DEF JobAt, ResultAt
  <2>2. QED
    BY <1>3, <2>1 DEF ResultAt
<1>9. QED
  BY <1>1, <1>3, <1>4, <1>5, <1>6, <1>7, <1>8, WorkerKeeps DEF IInv

LEMMA OpenKeeps == ASSUME IInv, NEW i \in jobs, Open(i) PROVE IInv'
<1>1. /\ pc[i] = "open" /\ UNCHANGED <<alive, jobs, refused, finished, stray, cancelled>>
      /\ UNCHANGED <<bytes, clean, committed>>
  BY DEF Open
<1>2. i \in Id /\ JobAt(i) /\ request[i] \in Request
  BY JobsHaveRequests DEF IInv
<1>3. CASE Outcome(i, "failed") /\ UNCHANGED request
  BY <1>1, <1>3, OutcomeKeeps
<1>4. CASE /\ Goto(i, IF uploading(i) /\ request[i].expects THEN "hash" ELSE "move")
           /\ request' \in {request} \cup Grown(i)
           /\ UNCHANGED <<result, good, at, code, posted>>
  <2> DEFINE stage == IF uploading(i) /\ request[i].expects THEN "hash" ELSE "move"
  <2>1. stage \in {"hash", "move"} /\ Goto(i, stage)
    BY <1>4
  <2>2. request' \in Grown(i) => stage = "move"
    BY DEF Grown
  <2> HIDE DEF stage
  <2>3. bytes[i] = 0 /\ at[i] = 0
    BY <1>1, <1>2 DEF JobAt, CountedAt
  <2>4. code[i] \in {"ok", "failed"} /\ code' = [code EXCEPT ![i] = code[i]]
    BY <1>2, <1>4 DEF IInv, Types
  <2>5. CASE UNCHANGED request
    BY <1>1, <1>4, <2>1, <2>3, <2>4, <2>5, GotoKeeps
  <2>6. CASE request' \in Grown(i)
    BY <1>1, <1>4, <2>1, <2>2, <2>6, GrowthKeeps
  <2>7. QED
    BY <1>4, <2>5, <2>6
<1>5. QED
  BY <1>3, <1>4 DEF Open

LEMMA HashKeeps == ASSUME IInv, NEW i \in jobs, Hash(i) PROVE IInv'
<1>1. /\ pc[i] = "hash" /\ UNCHANGED <<alive, jobs, refused, finished, stray, cancelled>>
      /\ UNCHANGED <<request, bytes, clean, committed>>
  BY DEF Hash
<1>2. i \in Id /\ JobAt(i)
  BY JobsHaveRequests DEF IInv
<1>3. CASE Outcome(i, "failed") \/ Outcome(i, "cancelled")
  BY <1>1, <1>3, OutcomeKeeps
<1>4. CASE Goto(i, "move") /\ UNCHANGED <<result, good, at, code, posted>>
  <2>1. bytes[i] = 0 /\ at[i] = 0
    BY <1>1, <1>2 DEF JobAt, CountedAt
  <2>2. code[i] \in {"ok", "failed"} /\ code' = [code EXCEPT ![i] = code[i]]
    BY <1>2, <1>4 DEF IInv, Types
  <2>3. QED
    BY <1>1, <1>4, <2>1, <2>2, GotoKeeps
<1>5. QED
  BY <1>3, <1>4 DEF Hash

\* The counts and the hash of i change while it moves data.
LEMMA CountKeeps ==
  ASSUME IInv, NEW i \in jobs, pc[i] = "move", NEW c \in 0..MaxSize,
         at' = [at EXCEPT ![i] = c], bytes' = [bytes EXCEPT ![i] = c],
         clean' \in [Id -> BOOLEAN], \A j \in Id : j # i => clean'[j] = clean[j],
         request[i].maximum # 0 /\ ~Over(i) => c <= request[i].maximum,
         UNCHANGED <<request, good, code, result, committed, pc, cancelled>>, UNCHANGED shared
  PROVE  IInv'
<1>1. i \in Id /\ JobAt(i) /\ at \in [Id -> Int] /\ bytes \in [Id -> Int] /\ c \in Int
  BY JobsHaveRequests DEF IInv
<1>2. UNCHANGED <<alive, jobs, refused, posted, finished, stray>>
  BY DEF shared
<1>3. /\ at' \in [Id -> Int] /\ bytes' \in [Id -> Int]
      /\ at'[i] = c /\ bytes'[i] = c
      /\ \A j \in Id : j # i => at'[j] = at[j] /\ bytes'[j] = bytes[j]
  BY <1>1
<1>4. Types' /\ Events'
  BY <1>2 DEF IInv, Types, Events
<1>5. \A j \in Id : j # i => Same(j)
  BY <1>2, <1>3 DEF Same
<1>6. CountedAt(i)'
  BY <1>1, <1>3 DEF JobAt, CountedAt, uploading, Over
<1>7. ResultAt(i)'
  BY <1>1 DEF JobAt, ResultAt, uploading, Over
<1>8. QED
  BY <1>2, <1>3, <1>4, <1>5, <1>6, <1>7, WorkerKeeps

LEMMA MoveArith ==
  ASSUME NEW b \in 0..MaxSize, NEW n \in 1..MaxSize, NEW s \in 0..MaxSize, NEW m \in 0..MaxSize,
         b + n <= s
  PROVE  /\ b + n \in 0..MaxSize
         /\ ~(s > m) => b + n <= m
         /\ n <= m - b => b + n <= m
  BY LimitAssumption

LEMMA MoveKeeps == ASSUME IInv, NEW i \in jobs, NEW n \in 1..MaxSize, Move(i, n) PROVE IInv'
<1>1. /\ pc[i] = "move" /\ at[i] + n <= request[i].size
      /\ UNCHANGED <<request, good, result, committed, cancelled>> /\ UNCHANGED shared
  BY DEF Move
<1>2. i \in Id /\ JobAt(i) /\ request[i] \in Request
  BY JobsHaveRequests DEF IInv
<1>3. at[i] = bytes[i] /\ bytes[i] \in 0..MaxSize
  BY <1>1, <1>2 DEF JobAt, CountedAt
<1>4. request[i].size \in 0..MaxSize /\ request[i].maximum \in 0..MaxSize
  BY <1>2 DEF Request
<1>5. CASE Fits(i, n)
  <2> DEFINE c == bytes[i] + n
  <2>1. /\ at' = [at EXCEPT ![i] = @ + n] /\ bytes' = [bytes EXCEPT ![i] = @ + n]
        /\ clean' = [clean EXCEPT ![i] = @ /\ good[i]] /\ UNCHANGED <<code, pc>>
    BY <1>5 DEF Move
  <2>2. at' = [at EXCEPT ![i] = c] /\ bytes' = [bytes EXCEPT ![i] = c]
    BY <1>2, <1>3, <2>1 DEF IInv
  <2>3. c \in 0..MaxSize
    BY <1>1, <1>3, <1>4, MoveArith
  <2>4. request[i].maximum # 0 /\ ~Over(i) => c <= request[i].maximum
    <3>1. CASE uploading(i)
      <4>1. request[i].maximum # 0 /\ ~Over(i) => ~(request[i].size > request[i].maximum)
        BY <3>1 DEF Over
      <4>2. QED
        BY <1>1, <1>3, <1>4, <4>1, MoveArith
    <3>2. CASE request[i].maximum # 0 /\ n <= request[i].maximum - bytes[i]
      BY <1>1, <1>3, <1>4, <3>2, MoveArith
    <3>3. QED
      BY <1>5, <3>1, <3>2 DEF Fits
  <2> DEFINE w == clean[i] /\ good[i]
  <2>5. w \in BOOLEAN /\ clean \in [Id -> BOOLEAN] /\ clean' = [clean EXCEPT ![i] = w]
    BY <1>2, <2>1 DEF IInv, Types
  <2> HIDE DEF w, c
  <2>6. clean' \in [Id -> BOOLEAN] /\ \A j \in Id : j # i => clean'[j] = clean[j]
    BY <1>2, <2>5
  <2>7. QED
    BY <1>1, <2>1, <2>2, <2>3, <2>4, <2>6, CountKeeps
<1>6. CASE ~Fits(i, n)
  <2>1. code' = [code EXCEPT ![i] = "failed"] /\ Goto(i, "decide") /\ UNCHANGED <<at, bytes, clean>>
    BY <1>6 DEF Move
  <2>2. UNCHANGED <<alive, jobs, refused, finished, stray, posted>>
    BY <1>1 DEF shared
  <2>3. QED
    BY <1>1, <2>1, <2>2, GotoKeeps
<1>7. QED
  BY <1>5, <1>6

LEMMA SeekKeeps == ASSUME IInv, NEW i \in jobs, Seek(i) PROVE IInv'
<1>1. /\ pc[i] = "move" /\ at' = [at EXCEPT ![i] = 0] /\ bytes' = [bytes EXCEPT ![i] = 0]
      /\ clean' = [clean EXCEPT ![i] = TRUE]
      /\ UNCHANGED <<request, good, code, result, committed, pc, cancelled>> /\ UNCHANGED shared
  BY DEF Seek, Rewound
<1>2. i \in Id /\ request[i] \in Request
  BY JobsHaveRequests
<1>3. request[i].maximum \in 0..MaxSize
  BY <1>2 DEF Request
<1>4. 0 \in 0..MaxSize /\ (request[i].maximum # 0 => 0 <= request[i].maximum)
  BY <1>3, LimitAssumption
<1>5. clean' \in [Id -> BOOLEAN] /\ \A j \in Id : j # i => clean'[j] = clean[j]
  BY <1>1, <1>2 DEF IInv, Types
<1>6. QED
  BY <1>1, <1>4, <1>5, CountKeeps

LEMMA ProgressKeeps == ASSUME IInv, NEW i \in jobs, Progress(i) PROVE IInv'
<1>1. /\ pc[i] = "move" /\ posted' = Post(i, "progress")
      /\ UNCHANGED <<alive, jobs, refused, finished, stray, pc, cancelled>> /\ UNCHANGED work
  BY DEF Progress
<1>2. UNCHANGED <<request, good, at, bytes, clean, code, result, committed>>
  BY <1>1 DEF work
<1>3. posted' \in Seq(Event) /\ Events'
  BY <1>1, Posting DEF IInv
<1>4. Types'
  BY <1>1, <1>2, <1>3 DEF IInv, Types
<1>5. \A j \in Id : Same(j)
  BY <1>1, <1>2 DEF Same
<1>6. \A j \in Id : JobAt(j)'
  BY <1>5, SameKeeps DEF IInv
<1>7. QED
  BY <1>2, <1>3, <1>4, <1>6 DEF IInv

LEMMA MovedKeeps ==
  ASSUME IInv, NEW i \in jobs, NEW x \in {"ok", "failed"}, Moved(i, x) PROVE IInv'
<1> DEFINE y == IF cancelled[i] \/ Over(i) THEN "failed" ELSE x
<1>1. /\ pc[i] = "move" /\ code' = [code EXCEPT ![i] = y]
      /\ Goto(i, "decide")
      /\ UNCHANGED <<request, good, at, bytes, clean, result, committed, cancelled>>
      /\ UNCHANGED <<alive, jobs, refused, finished, stray, posted>>
  BY DEF Moved, shared
<1>2. y \in {"ok", "failed"} /\ (y = "ok" => ~Over(i))
  OBVIOUS
<1> HIDE DEF y
<1>3. QED
  BY <1>1, <1>2, GotoKeeps

LEMMA DecideKeeps == ASSUME IInv, NEW i \in jobs, Decide(i) PROVE IInv'
<1>1. /\ pc[i] = "decide" /\ UNCHANGED <<alive, jobs, refused, finished, stray, cancelled>>
      /\ UNCHANGED <<request, bytes, clean, committed>>
  BY DEF Decide
<1>2. /\ Verdict(i) \in {"ok", "failed", "cancelled", "commit"}
      /\ Verdict(i) \in {"ok", "commit"} => code[i] = "ok" /\ (request[i].expects => Verified(i))
      /\ Verdict(i) = "ok" => uploading(i)
      /\ Verdict(i) = "commit" => ~uploading(i)
  BY DEF Verdict
<1>6. i \in Id /\ JobAt(i) /\ code \in [Id -> {"ok", "failed"}]
  BY JobsHaveRequests DEF IInv, Types
<1>7. Verdict(i) = "ok" => ~Over(i)
  BY <1>1, <1>2, <1>6 DEF JobAt, ResultAt
<1>3. CASE Verdict(i) = "commit"
  <2>1. Goto(i, "commit") /\ UNCHANGED <<result, good, at, code, posted>>
    BY <1>3 DEF Decide
  <2>2. code[i] \in {"ok", "failed"} /\ code' = [code EXCEPT ![i] = code[i]]
    BY <1>6, <2>1
  <2>3. QED
    BY <1>1, <1>2, <1>3, <2>1, <2>2, GotoKeeps
<1>4. CASE Verdict(i) # "commit"
  <2>1. Outcome(i, Verdict(i))
    BY <1>4 DEF Decide
  <2>2. QED
    BY <1>1, <1>2, <1>4, <1>7, <2>1, OutcomeKeeps
<1>5. QED
  BY <1>3, <1>4

LEMMA CommitKeeps == ASSUME IInv, NEW i \in jobs, Commit(i) PROVE IInv'
<1>1. /\ pc[i] = "commit" /\ UNCHANGED <<alive, jobs, refused, finished, stray, cancelled>>
      /\ UNCHANGED <<request, bytes, clean>>
  BY DEF Commit
<1>2. PICK ok \in BOOLEAN : /\ Outcome(i, Reported(ok))
                            /\ committed' = IF ok THEN committed \cup {i} ELSE committed
  BY DEF Commit
<1>3. ~uploading(i) /\ ~Over(i) /\ (request[i].expects => Verified(i))
  BY <1>1, JobsHaveRequests DEF IInv, JobAt, ResultAt, Over
<1>4. Reported(ok) \in {"ok", "failed"} /\ (Reported(ok) = "ok" <=> ok)
  BY DEF Reported
<1>5. QED
  BY <1>1, <1>2, <1>3, <1>4, OutcomeKeeps

\* The file that is read changes, or the job is told to end: nothing else does.
LEMMA FlagsKeep ==
  ASSUME IInv, good' \in [Id -> BOOLEAN], cancelled' \in [Id -> BOOLEAN], alive' \in {"yes", "dying", "no"},
         UNCHANGED <<jobs, refused, posted, finished, stray, pc>>,
         UNCHANGED <<request, at, bytes, clean, code, result, committed>>
  PROVE  IInv'
<1>1. Types' /\ Events'
  BY DEF IInv, Types, Events
<1>2. \A j \in Id : Same(j)
  BY DEF Same
<1>3. \A j \in Id : JobAt(j)'
  BY <1>2, SameKeeps DEF IInv
<1>4. QED
  BY <1>1, <1>3 DEF IInv

LEMMA ModifyKeeps == ASSUME IInv, NEW i \in Id, Modify(i) PROVE IInv'
<1>1. /\ good' = [good EXCEPT ![i] = FALSE]
      /\ UNCHANGED <<alive, jobs, refused, posted, finished, stray, pc, cancelled>>
      /\ UNCHANGED <<request, at, bytes, clean, code, result, committed>>
  BY DEF Modify, shared
<1>2. good' \in [Id -> BOOLEAN] /\ cancelled' \in [Id -> BOOLEAN] /\ alive' \in {"yes", "dying", "no"}
  BY <1>1 DEF IInv, Types
<1>3. QED
  BY <1>1, <1>2, FlagsKeep

LEMMA CancelKeeps == ASSUME IInv, NEW i \in Id, Cancel(i) PROVE IInv'
<1>1. /\ cancelled' = [cancelled EXCEPT ![i] = TRUE]
      /\ UNCHANGED <<alive, jobs, refused, posted, finished, stray, pc>>
      /\ UNCHANGED <<request, good, at, bytes, clean, code, result, committed>>
  BY DEF Cancel, shared, work
<1>2. good' \in [Id -> BOOLEAN] /\ cancelled' \in [Id -> BOOLEAN] /\ alive' \in {"yes", "dying", "no"}
  BY <1>1 DEF IInv, Types
<1>3. QED
  BY <1>1, <1>2, FlagsKeep

LEMMA DestroyKeeps == ASSUME IInv, Destroy PROVE IInv'
<1>1. /\ alive' = "dying" /\ cancelled' = [i \in Id |-> cancelled[i] \/ i \in jobs]
      /\ UNCHANGED <<jobs, refused, posted, finished, stray, pc>>
      /\ UNCHANGED <<request, good, at, bytes, clean, code, result, committed>>
  BY DEF Destroy, work
<1>2. good' \in [Id -> BOOLEAN] /\ alive' \in {"yes", "dying", "no"}
  BY <1>1 DEF IInv, Types
<1>3. cancelled' \in [Id -> BOOLEAN]
  <2>1. \A i \in Id : (cancelled[i] \/ i \in jobs) \in BOOLEAN
    OBVIOUS
  <2>2. QED
    BY <1>1, <2>1, Zenon
<1>4. QED
  BY <1>1, <1>2, <1>3, FlagsKeep

-----------------------------------------------------------------------------
(* The owner *)

LEMMA StartKeeps ==
  ASSUME IInv, NEW i \in Id, NEW r \in Requests[i], NEW g \in BOOLEAN, Start(i, r, g) PROVE IInv'
<1>1. /\ Fresh(i) /\ ~Full /\ jobs' = jobs \cup {i} /\ request' = [request EXCEPT ![i] = r]
      /\ good' = [good EXCEPT ![i] = g] /\ pc' = [pc EXCEPT ![i] = "open"]
      /\ UNCHANGED <<alive, refused, posted, finished, stray, cancelled>>
      /\ UNCHANGED <<at, bytes, clean, code, result, committed>>
  BY DEF Start
<1>2. JobAt(i) /\ request[i] = None /\ r \in Request /\ r # None
  BY <1>1, RequestAssumption DEF IInv, Fresh
<1>3. pc[i] = "idle" /\ i \notin refused /\ finished[i] = 0 /\ i \notin jobs
  BY <1>2 DEF JobAt, OwnedAt
<1>4. pc \in [Id -> Stages] /\ request \in [Id -> Request \cup {None}]
  BY DEF IInv, Types
<1>5. /\ pc'[i] = "open" /\ request'[i] = r
      /\ \A j \in Id : j # i => pc'[j] = pc[j] /\ request'[j] = request[j]
  BY <1>1, <1>4
<1>6. Types'
  <2>1. IsFiniteSet(jobs') /\ Cardinality(jobs') = Cardinality(jobs) + 1
    BY <1>1, <1>3, FS_AddElement DEF IInv, Types
  <2>2. Cardinality(jobs') <= MaxJobs
    <3>1. Cardinality(jobs) \in Nat
      BY FS_CardinalityType DEF IInv, Types
    <3>2. QED
      BY <1>1, <2>1, <3>1, LimitAssumption DEF Full
  <2>3. pc' \in [Id -> Stages] /\ request' \in [Id -> Request \cup {None}] /\ good' \in [Id -> BOOLEAN]
    BY <1>1, <1>2 DEF IInv, Types, Stages
  <2>4. QED
    BY <1>1, <2>1, <2>2, <2>3 DEF IInv, Types
<1>7. Events'
  <2>1. \A k \in DOMAIN posted : posted[k].id \in jobs /\ posted[k].id \in Id /\ posted[k].id # i
    BY <1>3 DEF IInv, Types, Events
  <2>2. QED
    BY <1>1, <1>5, <2>1 DEF IInv, Events
<1>8. ASSUME NEW j \in Id, j # i PROVE JobAt(j)'
  <2>1. Same(j)
    BY <1>1, <1>5, <1>8 DEF Same
  <2>2. QED
    BY <2>1, SameKeeps DEF IInv
<1>9. JobAt(i)'
  <2>1. OwnedAt(i)'
    BY <1>1, <1>2, <1>3, <1>5 DEF OwnedAt
  <2>2. CountedAt(i)'
    <3>1. bytes[i] = 0 /\ at[i] = 0
      BY <1>2, <1>3 DEF JobAt, CountedAt
    <3>2. r.maximum \in 0..MaxSize
      BY <1>2 DEF Request
    <3>3. 0 \in 0..MaxSize /\ 0 <= r.maximum
      BY <3>2, LimitAssumption
    <3>4. QED
      BY <1>1, <1>5, <3>1, <3>3 DEF CountedAt
  <2>3. ResultAt(i)'
    <3>1. result[i] = "" /\ i \notin committed
      BY <1>2, <1>3 DEF JobAt, ResultAt
    <3>2. QED
      BY <1>1, <1>5, <3>1 DEF ResultAt
  <2>4. QED
    BY <2>1, <2>2, <2>3 DEF JobAt
<1>10. QED
  BY <1>1, <1>6, <1>7, <1>8, <1>9 DEF IInv

LEMMA RefuseKeeps ==
  ASSUME IInv, NEW i \in Id, NEW r \in Requests[i], Refuse(i, r) PROVE IInv'
<1>1. /\ Fresh(i) /\ request' = [request EXCEPT ![i] = r] /\ refused' = refused \cup {i}
      /\ UNCHANGED <<alive, jobs, posted, finished, stray, pc, cancelled>>
      /\ UNCHANGED <<good, at, bytes, clean, code, result, committed>>
  BY DEF Refuse
<1>2. JobAt(i) /\ request[i] = None /\ r \in Request /\ r # None
  BY <1>1, RequestAssumption DEF IInv, Fresh
<1>3. pc[i] = "idle" /\ finished[i] = 0 /\ i \notin jobs
  BY <1>2 DEF JobAt, OwnedAt
<1>4. /\ request' \in [Id -> Request \cup {None}] /\ request'[i] = r
      /\ \A j \in Id : j # i => request'[j] = request[j]
  BY <1>1, <1>2 DEF IInv, Types
<1>5. Types' /\ Events'
  <2>1. refused' \in SUBSET Id
    BY <1>1 DEF IInv, Types
  <2>2. QED
    BY <1>1, <1>4, <2>1 DEF IInv, Types, Events
<1>6. ASSUME NEW j \in Id, j # i PROVE JobAt(j)'
  <2>1. Same(j)
    BY <1>1, <1>4, <1>6 DEF Same
  <2>2. QED
    BY <2>1, SameKeeps DEF IInv
<1>7. JobAt(i)'
  <2>1. OwnedAt(i)'
    BY <1>1, <1>2, <1>3, <1>4 DEF OwnedAt
  <2>2. CountedAt(i)'
    BY <1>1, <1>2, <1>3 DEF JobAt, CountedAt
  <2>3. ResultAt(i)'
    BY <1>1, <1>2, <1>3 DEF JobAt, ResultAt
  <2>4. QED
    BY <2>1, <2>2, <2>3 DEF JobAt
<1>8. QED
  BY <1>1, <1>5, <1>6, <1>7 DEF IInv

LEMMA RefusedKeeps == ASSUME IInv, NEW i \in Id, Refused(i) PROVE IInv'
<1>1. /\ i \in refused /\ refused' = refused \ {i} /\ finished' = [finished EXCEPT ![i] = @ + 1]
      /\ UNCHANGED <<alive, jobs, posted, stray, pc, cancelled>>
      /\ UNCHANGED <<request, good, at, bytes, clean, code, result, committed>>
  BY DEF Refused, work
<1>2. JobAt(i) /\ pc[i] = "idle" /\ finished[i] = 0 /\ request[i] # None /\ i \notin jobs
  BY <1>1 DEF IInv, JobAt, OwnedAt
<1>3. /\ finished' \in [Id -> {0, 1}]
      /\ \A j \in Id : j # i => finished'[j] = finished[j]
  <2>1. finished \in [Id -> {0, 1}]
    BY DEF IInv, Types
  <2>2. QED
    BY <1>1, <1>2, <2>1
<1>4. Types' /\ Events'
  <2>1. refused' \in SUBSET Id
    BY <1>1 DEF IInv, Types
  <2>2. QED
    BY <1>1, <1>3, <2>1 DEF IInv, Types, Events
<1>5. ASSUME NEW j \in Id, j # i PROVE JobAt(j)'
  <2>1. Same(j)
    BY <1>1, <1>3, <1>5 DEF Same
  <2>2. QED
    BY <2>1, SameKeeps DEF IInv
<1>6. JobAt(i)'
  <2>1. OwnedAt(i)'
    BY <1>1, <1>2 DEF OwnedAt
  <2>2. CountedAt(i)'
    BY <1>1, <1>2 DEF JobAt, CountedAt, uploading, Over
  <2>3. ResultAt(i)'
    BY <1>1, <1>2 DEF JobAt, ResultAt, uploading, Verified, Over
  <2>4. QED
    BY <2>1, <2>2, <2>3 DEF JobAt
<1>7. QED
  BY <1>1, <1>4, <1>5, <1>6 DEF IInv

\* The jobs of J are over.
LEMMA DeletedKeeps ==
  ASSUME IInv, NEW J, J \subseteq jobs, Deleted(J), jobs' = jobs \ J, refused' \subseteq refused,
         alive' \in {"yes", "dying", "no"}, UNCHANGED stray,
         finished' \in [Id -> {0, 1}], \A j \in Id \ J : finished'[j] = finished[j],
         posted' \in Seq(Event), Events'
  PROVE  IInv'
<1>1. /\ pc' = [i \in Id |-> IF i \in J THEN "joined" ELSE pc[i]]
      /\ cancelled' = [i \in Id |-> cancelled[i] /\ i \notin J]
      /\ good' = [i \in Id |-> good[i] \/ i \in J]
      /\ at' = [i \in Id |-> IF i \in J THEN 0 ELSE at[i]]
      /\ bytes' = [i \in Id |-> IF i \in J THEN 0 ELSE bytes[i]]
      /\ clean' = [i \in Id |-> clean[i] \/ i \in J]
      /\ code' = [i \in Id |-> IF i \in J THEN "ok" ELSE code[i]]
      /\ result' = [i \in Id |-> IF i \in J THEN "" ELSE result[i]]
      /\ UNCHANGED <<request, committed>>
  BY DEF Deleted
<1>2. cancelled' \in [Id -> BOOLEAN] /\ good' \in [Id -> BOOLEAN] /\ clean' \in [Id -> BOOLEAN]
  <2>1. /\ \A i \in Id : (cancelled[i] /\ i \notin J) \in BOOLEAN
        /\ \A i \in Id : (good[i] \/ i \in J) \in BOOLEAN
        /\ \A i \in Id : (clean[i] \/ i \in J) \in BOOLEAN
    OBVIOUS
  <2>2. cancelled' \in [Id -> BOOLEAN]
    BY <1>1, <2>1, Zenon
  <2>3. good' \in [Id -> BOOLEAN]
    BY <1>1, <2>1, Zenon
  <2>4. clean' \in [Id -> BOOLEAN]
    BY <1>1, <2>1, Zenon
  <2>5. QED
    BY <2>2, <2>3, <2>4
<1>3. Types'
  <2>1. IsFiniteSet(jobs') /\ Cardinality(jobs') <= Cardinality(jobs)
    BY FS_Subset DEF IInv, Types
  <2>2. Cardinality(jobs') <= MaxJobs
    <3>1. Cardinality(jobs) \in Nat /\ Cardinality(jobs') \in Nat
      BY <2>1, FS_CardinalityType DEF IInv, Types
    <3>2. Cardinality(jobs) <= MaxJobs /\ MaxJobs \in Nat
      BY LimitAssumption DEF IInv, Types
    <3>3. QED
      BY <2>1, <3>1, <3>2
  <2>3. pc' \in [Id -> Stages]
    BY <1>1 DEF IInv, Types, Stages
  <2>4. code' \in [Id -> {"ok", "failed"}] /\ result' \in [Id -> {"", "ok", "failed", "cancelled"}]
    BY <1>1 DEF IInv, Types
  <2>5. jobs' \in SUBSET Id /\ refused' \in SUBSET Id
    BY DEF IInv, Types
  <2>6. QED
    BY <1>1, <1>2, <2>1, <2>2, <2>3, <2>4, <2>5 DEF IInv, Types
<1>4. at' \in [Id -> Int] /\ bytes' \in [Id -> Int]
  <2>1. 0 \in Int
    OBVIOUS
  <2>2. at \in [Id -> Int] /\ bytes \in [Id -> Int]
    BY DEF IInv
  <2>3. QED
    BY <1>1, <2>1, <2>2
<1>5. ASSUME NEW j \in Id \ J PROVE JobAt(j)'
  <2>1. /\ pc'[j] = pc[j] /\ request'[j] = request[j] /\ finished'[j] = finished[j]
        /\ at'[j] = at[j] /\ bytes'[j] = bytes[j] /\ result'[j] = result[j]
        /\ code'[j] = code[j]
    BY <1>1
  <2>2. JobAt(j) /\ (clean'[j] = clean[j])
    <3>1. clean[j] \in BOOLEAN /\ clean'[j] = (clean[j] \/ j \in J)
      BY <1>1 DEF IInv, Types
    <3>2. QED
      BY <3>1 DEF IInv
  <2>3. OwnedAt(j)'
    BY <2>1, <2>2 DEF JobAt, OwnedAt
  <2>4. CountedAt(j)'
    BY <2>1, <2>2 DEF JobAt, CountedAt, uploading, Over
  <2>5. ResultAt(j)'
    BY <1>1, <2>1, <2>2 DEF JobAt, ResultAt, uploading, Verified, Over
  <2>6. QED
    BY <2>3, <2>4, <2>5 DEF JobAt
<1>6. ASSUME NEW j \in J PROVE JobAt(j)'
  <2>1. j \in Id /\ request[j] \in Request /\ j \notin refused
    BY JobsHaveRequests
  <2>2. request[j] # None
    BY <2>1, RequestAssumption
  <2>3. pc'[j] = "joined" /\ at'[j] = 0 /\ bytes'[j] = 0 /\ result'[j] = "" /\ j \notin jobs'
    BY <1>1, <2>1
  <2>4. OwnedAt(j)'
    BY <1>1, <2>1, <2>2, <2>3 DEF OwnedAt
  <2>5. CountedAt(j)'
    <3>1. 0 \in 0..MaxSize
      BY LimitAssumption
    <3>2. QED
      BY <2>3, <3>1 DEF CountedAt
  <2>6. ResultAt(j)'
    BY <2>3 DEF ResultAt
  <2>7. QED
    BY <2>4, <2>5, <2>6 DEF JobAt
<1>7. \A j \in Id : JobAt(j)'
  BY <1>5, <1>6
<1>8. QED
  BY <1>3, <1>4, <1>7 DEF IInv

LEMMA TailFacts ==
  ASSUME NEW S, NEW q \in Seq(S), q # <<>>
  PROVE  /\ Tail(q) \in Seq(S) /\ Head(q) = q[1] /\ 1 \in DOMAIN q
         /\ \A k \in DOMAIN Tail(q) : k + 1 \in DOMAIN q /\ Tail(q)[k] = q[k + 1] /\ k \in Nat
<1>1. /\ Tail(q) \in Seq(S) /\ Len(Tail(q)) = Len(q) - 1 /\ Len(q) \in Nat /\ Len(q) # 0
      /\ \A k \in 1..Len(Tail(q)) : Tail(q)[k] = q[k + 1]
  BY HeadTailProperties, EmptySeq
<1>2. DOMAIN q = 1..Len(q) /\ DOMAIN Tail(q) = 1..Len(Tail(q))
  BY <1>1, LenProperties
<1>3. QED
  BY <1>1, <1>2

\* The rest of the queue has the same property.
LEMMA TailEvents ==
  ASSUME Types, posted # <<>>, NEW k \in DOMAIN Tail(posted), Events
  PROVE  /\ Tail(posted)[k] \in Event /\ Tail(posted)[k].id \in jobs
         /\ Tail(posted)[k].what = "finished" =>
              /\ pc[Tail(posted)[k].id] = "exit"
              /\ \A j \in DOMAIN Tail(posted) : Tail(posted)[j].id = Tail(posted)[k].id => j <= k
<1> DEFINE q == Tail(posted)
<1>1. posted \in Seq(Event)
  BY DEF Types
<1>2. \A j \in DOMAIN q : j + 1 \in DOMAIN posted /\ q[j] = posted[j + 1] /\ j \in Nat
  BY <1>1, TailFacts
<1> HIDE DEF q
<1>3. k \in DOMAIN q
  BY DEF q
<1>4. q[k] = posted[k + 1] /\ k + 1 \in DOMAIN posted /\ posted[k + 1] \in Event
  BY <1>1, <1>2, <1>3, LenProperties
<1>5. q[k].id \in jobs /\ (q[k].what = "finished" => pc[q[k].id] = "exit")
  BY <1>4 DEF Events
<1>6. ASSUME q[k].what = "finished", NEW j \in DOMAIN q, q[j].id = q[k].id
      PROVE  j <= k
  <2>1. j + 1 <= k + 1
    BY <1>2, <1>4, <1>6 DEF Events
  <2>2. QED
    BY <1>2, <1>3, <2>1
<1>7. QED
  BY <1>4, <1>5, <1>6 DEF q

LEMMA DeliverKeeps == ASSUME IInv, Deliver PROVE IInv'
<1> DEFINE i == Head(posted).id
<1>1. posted # <<>> /\ posted' = Tail(posted) /\ UNCHANGED <<alive, refused>> /\ alive = "yes"
  BY DEF Deliver
<1>2. posted \in Seq(Event)
  BY DEF IInv, Types
<1>3. /\ Tail(posted) \in Seq(Event) /\ Head(posted) = posted[1] /\ 1 \in DOMAIN posted
      /\ \A k \in DOMAIN Tail(posted) : k + 1 \in DOMAIN posted /\ Tail(posted)[k] = posted[k + 1]
                                        /\ k \in Nat
  BY <1>1, <1>2, TailFacts
<1>4. i \in jobs /\ i \in Id /\ finished[i] = 0
  <2>1. posted[1].id \in jobs
    BY <1>3 DEF IInv, Events
  <2>2. QED
    BY <1>3, <2>1, JobsHaveRequests
<1>5. \A k \in DOMAIN posted' :
        /\ posted'[k] \in Event /\ posted'[k].id \in jobs
        /\ posted'[k].what = "finished" =>
             /\ pc[posted'[k].id] = "exit"
             /\ \A j \in DOMAIN posted' : posted'[j].id = posted'[k].id => j <= k
  BY <1>1, TailEvents DEF IInv
<1>6. CASE Head(posted).what = "progress"
  <2>1. /\ stray' = (stray \/ finished[i] > 0) /\ UNCHANGED <<jobs, finished, pc, cancelled>>
        /\ UNCHANGED <<request, good, at, bytes, clean, code, result, committed>>
    BY <1>6 DEF Deliver, work
  <2>2. stray' = FALSE
    <3>1. ~(0 > 0)
      OBVIOUS
    <3>2. QED
      BY <1>4, <2>1, <3>1 DEF IInv, Types
  <2>3. Types' /\ Events'
    BY <1>1, <1>3, <1>5, <2>1, <2>2 DEF IInv, Types, Events
  <2>4. \A j \in Id : Same(j)
    BY <1>1, <2>1 DEF Same
  <2>5. \A j \in Id : JobAt(j)'
    BY <2>4, SameKeeps DEF IInv
  <2>6. QED
    BY <2>1, <2>3, <2>5 DEF IInv
<1>7. CASE Head(posted).what # "progress"
  <2>1. /\ jobs' = jobs \ {i} /\ finished' = [finished EXCEPT ![i] = @ + 1] /\ Deleted({i})
        /\ UNCHANGED stray
    BY <1>7 DEF Deliver
  <2>2. Head(posted).what = "finished"
    <3>1. Head(posted) \in Event
      BY <1>2, <1>3, LenProperties
    <3>2. QED
      BY <1>7, <3>1 DEF Event
  <2>3. \A k \in DOMAIN posted' : posted'[k].id # i
    <3>1. SUFFICES ASSUME NEW k \in DOMAIN posted', posted'[k].id = i PROVE FALSE
      OBVIOUS
    <3>2. k + 1 \in DOMAIN posted /\ posted[k + 1].id = posted[1].id /\ k \in DOMAIN Tail(posted)
      BY <1>1, <1>3, <3>1
    <3>3. k + 1 <= 1
      BY <1>3, <2>2, <3>2 DEF IInv, Events
    <3>4. k \in 1..Len(Tail(posted)) /\ Len(Tail(posted)) \in Nat
      BY <1>3, <3>2, LenProperties
    <3>5. QED
      BY <3>3, <3>4
  <2> HIDE DEF i
  <2>4. Events'
    <3>1. /\ pc' = [x \in Id |-> IF x \in {i} THEN "joined" ELSE pc[x]]
      BY <2>1 DEF Deleted
    <3>2. \A x \in Id : x # i => pc'[x] = pc[x]
      BY <3>1
    <3>3. \A k \in DOMAIN posted' : posted'[k].id \in Id
      BY <1>5 DEF Event
    <3>4. QED
      BY <1>5, <2>1, <2>3, <3>2, <3>3 DEF Events
  <2>5. finished' \in [Id -> {0, 1}] /\ \A j \in Id \ {i} : finished'[j] = finished[j]
    <3>1. finished \in [Id -> {0, 1}]
      BY DEF IInv, Types
    <3>2. QED
      BY <1>4, <2>1, <3>1
  <2>6. QED
    BY <1>1, <1>3, <1>4, <2>1, <2>4, <2>5, DeletedKeeps
<1>8. QED
  BY <1>6, <1>7

LEMMA DestroyedKeeps == ASSUME IInv, Destroyed PROVE IInv'
<1>1. /\ alive' = "no" /\ posted' = <<>> /\ refused' = {} /\ jobs' = {} /\ Deleted(jobs)
      /\ UNCHANGED <<finished, stray>>
  BY DEF Destroyed
<1>2. posted' \in Seq(Event) /\ Events'
  <2>1. <<>> \in Seq(Event) /\ DOMAIN <<>> = {}
    OBVIOUS
  <2>2. QED
    BY <1>1, <2>1 DEF Events
<1>3. finished \in [Id -> {0, 1}] /\ jobs' = jobs \ jobs
  BY <1>1 DEF IInv, Types
<1>4. QED
  BY <1>1, <1>2, <1>3, DeletedKeeps

-----------------------------------------------------------------------------
(* Every step *)

LEMMA WorkerStepKeeps == ASSUME IInv, NEW i \in Id, Worker(i) PROVE IInv'
<1>1. i \in jobs
  <2>1. pc[i] \in {"open", "hash", "move", "decide", "commit"}
    BY DEF Worker, Open, Hash, Move, Seek, Progress, Moved, Decide, Commit
  <2>2. QED
    BY <2>1 DEF IInv, JobAt, OwnedAt
<1>2. ASSUME NEW n \in 1..MaxSize, Move(i, n) PROVE IInv'
  BY <1>1, <1>2, MoveKeeps
<1>3. ASSUME NEW x \in {"ok", "failed"}, Moved(i, x) PROVE IInv'
  BY <1>1, <1>3, MovedKeeps
<1>4. CASE Open(i) \/ Hash(i) \/ Seek(i) \/ Progress(i) \/ Decide(i) \/ Commit(i)
  BY <1>1, <1>4, OpenKeeps, HashKeeps, SeekKeeps, ProgressKeeps, DecideKeeps, CommitKeeps
<1>5. QED
  BY <1>2, <1>3, <1>4 DEF Worker

LEMMA InvNext == IInv /\ [Next]_vars => IInv'
<1> SUFFICES ASSUME IInv, [Next]_vars PROVE IInv'
  OBVIOUS
<1>1. ASSUME NEW i \in Id, NEW r \in Requests[i], NEW g \in BOOLEAN, Start(i, r, g) PROVE IInv'
  BY <1>1, StartKeeps
<1>2. ASSUME NEW i \in Id, NEW r \in Requests[i], Refuse(i, r) PROVE IInv'
  BY <1>2, RefuseKeeps
<1>3. ASSUME NEW i \in Id, Refused(i) \/ Cancel(i) \/ Modify(i) \/ Worker(i) PROVE IInv'
  BY <1>3, RefusedKeeps, CancelKeeps, ModifyKeeps, WorkerStepKeeps
<1>4. CASE Deliver \/ Destroy \/ Destroyed
  BY <1>4, DeliverKeeps, DestroyKeeps, DestroyedKeeps
<1>5. CASE UNCHANGED vars
  <2>1. /\ UNCHANGED <<alive, jobs, refused, posted, finished, stray, pc, cancelled>>
        /\ UNCHANGED <<request, good, at, bytes, clean, code, result, committed>>
    BY <1>5 DEF vars, shared, work
  <2>2. alive \in {"yes", "dying", "no"} /\ good \in [Id -> BOOLEAN] /\ cancelled \in [Id -> BOOLEAN]
    BY DEF IInv, Types
  <2>3. QED
    BY <2>1, <2>2, FlagsKeep
<1>6. QED
  BY <1>1, <1>2, <1>3, <1>4, <1>5 DEF Next

LEMMA Invariant == Spec => []IInv
  BY InvInit, InvNext, PTL DEF Spec

\* A transfer that reports success has moved what its checksum says, within its
\* limit, whatever libcurl rewound and another program changed or extended; and
\* a download has replaced its file exactly then (Transfer.cpp:96, 117, 124, 143,
\* 251-261).
THEOREM SuccessVerified == Spec => []SuccessIsVerified
<1>1. ASSUME IInv PROVE SuccessIsVerified
  <2>1. SUFFICES ASSUME NEW i \in Id
                 PROVE  /\ result[i] = "ok" =>
                             /\ request[i].expects => clean[i] /\ bytes[i] = request[i].size
                             /\ request[i].maximum # 0 => bytes[i] <= request[i].maximum
                        /\ pc[i] # "joined" => (i \in committed <=> result[i] = "ok" /\ ~uploading(i))
    BY DEF SuccessIsVerified
  <2>2. JobAt(i)
    BY <1>1 DEF IInv
  <2>3. result[i] = "ok" => pc[i] = "exit" /\ i \in jobs
    BY <2>2 DEF JobAt, ResultAt, OwnedAt
  <2>4. result[i] = "ok" /\ request[i].expects => clean[i] /\ bytes[i] = request[i].size
    BY <2>2 DEF JobAt, ResultAt, Verified
  <2>5. result[i] = "ok" /\ request[i].maximum # 0 => bytes[i] <= request[i].maximum
    BY <2>2, <2>3 DEF JobAt, CountedAt, ResultAt
  <2>6. pc[i] # "joined" => (i \in committed <=> result[i] = "ok" /\ ~uploading(i))
    BY <2>2 DEF JobAt, ResultAt
  <2>7. QED
    BY <2>4, <2>5, <2>6
<1>2. QED
  BY <1>1, Invariant, PTL

\* Every id is reported at most once, never while its thread runs, and no
\* progress follows; a thread runs exactly as long as its job is in the table
\* (Transfer.h:56, Transfer.cpp:273-278, 334, 347-352).
THEOREM TransfersReportedOnce == Spec => []ReportedOnce
<1>1. ASSUME IInv PROVE ReportedOnce
  <2>1. TypeOK
    <3>1. finished \in [Id -> 0..2]
      <4>1. \A x \in {0, 1} : x \in 0..2
        OBVIOUS
      <4>2. finished \in [Id -> {0, 1}]
        BY <1>1 DEF IInv, Types
      <4>3. QED
        BY <4>1, <4>2
    <3>2. at \in [Id -> 0..MaxSize] /\ bytes \in [Id -> 0..MaxSize]
      <4>1. \A i \in Id : at[i] \in 0..MaxSize /\ bytes[i] \in 0..MaxSize
        BY <1>1 DEF IInv, JobAt, CountedAt
      <4>2. at \in [Id -> Int] /\ bytes \in [Id -> Int]
        BY <1>1 DEF IInv
      <4>3. QED
        BY <4>1, <4>2
    <3>3. QED
      BY <1>1, <3>1, <3>2 DEF IInv, Types, Event, TypeOK
  <2>2. \A i \in Id : finished[i] <= 1
    <3>1. finished \in [Id -> {0, 1}]
      BY <1>1 DEF IInv, Types
    <3>2. \A x \in {0, 1} : x <= 1
      OBVIOUS
    <3>3. QED
      BY <3>1, <3>2
  <2>3. \A i \in Id : finished[i] = 1 => i \notin jobs \cup refused
    BY <1>1 DEF IInv, JobAt, OwnedAt
  <2>4. \A i \in Id : i \in jobs <=> pc[i] \notin {"idle", "joined"}
    BY <1>1 DEF IInv, JobAt, OwnedAt
  <2>5. ~stray /\ Cardinality(jobs) <= MaxJobs
    BY <1>1 DEF IInv, Types
  <2>6. QED
    BY <2>1, <2>2, <2>3, <2>4, <2>5 DEF ReportedOnce
<1>2. QED
  BY <1>1, Invariant, PTL

-----------------------------------------------------------------------------
(* The contract of jobs *)

\* No start() is forgotten while the object exists: what start() returned is in
\* the table, is a queued error, or was reported.
NoneForgotten == \A i \in Id : JobStage(i) # "forgotten"

\* What the contract counts as under way is the table.
LEMMA RunningJobs ==
  ASSUME IInv, alive = "yes" PROVE Jobs!In({"running"}) = jobs
<1>1. \A i \in Id : JobStage(i) = "running" <=> i \in jobs
  <2> TAKE i \in Id
  <2>1. CASE i \in jobs
    <3>1. finished[i] = 0
      BY <2>1, JobsHaveRequests
    <3>2. QED
      BY <2>1, <3>1 DEF JobStage
  <2>2. CASE i \notin jobs
    BY <2>2 DEF JobStage
  <2>3. QED
    BY <2>1, <2>2
<1>2. jobs \subseteq Id
  BY DEF IInv, Types
<1>3. QED
  BY <1>1, <1>2 DEF Jobs!In

LEMMA ContractMove ==
  ASSUME NEW S, NEW stage,
         \A i \in Id : JobStage(i)' = IF i \in S THEN stage ELSE JobStage(i)
  PROVE  Jobs!Move(S, stage)
  BY DEF Jobs!Move

\* A step that reports transfer i and touches no other.
LEMMA ContractReport ==
  ASSUME IInv, NEW i \in Id, i \in jobs \cup refused, alive = "yes", UNCHANGED <<alive, request>>,
         finished' = [finished EXCEPT ![i] = finished[i] + 1],
         \A k \in Id \ {i} : (k \in jobs' <=> k \in jobs) /\ (k \in refused' <=> k \in refused)
  PROVE  Jobs!Next
<1>1. finished[i] = 0 /\ finished \in [Id -> {0, 1}]
  BY DEF IInv, Types, JobAt, OwnedAt
<1>2. JobStage(i) \in {"running", "refused"}
  BY <1>1 DEF JobStage
<1>3. finished'[i] = 1 /\ \A k \in Id \ {i} : finished'[k] = finished[k]
  BY <1>1
<1>4. \A k \in Id : JobStage(k)' = IF k \in {i} THEN "reported" ELSE JobStage(k)
  BY <1>3 DEF JobStage
<1>5. Jobs!Move({i}, "reported")
  BY <1>4, ContractMove
<1>6. {i} \subseteq Jobs!In({"running", "refused"})
  BY <1>2 DEF Jobs!In
<1>7. Jobs!Report({i})
  BY <1>5, <1>6 DEF Jobs!Report
<1>8. QED
  BY <1>7 DEF Jobs!Next

LEMMA ContractInit == Init => Jobs!Init /\ NoneForgotten
<1> SUFFICES ASSUME Init PROVE Jobs!Init /\ NoneForgotten
  OBVIOUS
<1>1. /\ alive = "yes" /\ jobs = {} /\ refused = {}
      /\ \A i \in Id : finished[i] = 0 /\ request[i] = None
  BY DEF Init
<1>2. \A i \in Id : JobStage(i) = "new"
  BY <1>1 DEF JobStage
<1>3. QED
  BY <1>1, <1>2 DEF Jobs!Init, NoneForgotten

\* start() draws an id, and accepts or refuses the request.
LEMMA ContractStart ==
  ASSUME IInv, NEW i \in Id, NEW r \in Requests[i], NEW g \in BOOLEAN,
         Start(i, r, g) \/ Refuse(i, r)
  PROVE  Jobs!Next
<1>1. /\ alive = "yes" /\ request[i] = None
      /\ UNCHANGED <<alive, finished>> /\ request' = [request EXCEPT ![i] = r]
  BY DEF Start, Refuse, Fresh
<1>2. /\ finished[i] = 0 /\ i \notin jobs \cup refused
      /\ request \in [Id -> Request \cup {None}]
  BY <1>1 DEF IInv, Types, JobAt, OwnedAt
<1>3. \A k \in Id \ {i} : request'[k] = request[k]
  BY <1>1, <1>2
<1>4. JobStage(i) = "new" /\ i \in Jobs!In({"new"})
  BY <1>1, <1>2 DEF JobStage, Jobs!In
<1>5. CASE Start(i, r, g)
  <2>1. jobs' = jobs \cup {i} /\ UNCHANGED refused /\ ~Full
    BY <1>5 DEF Start
  <2>2. JobStage(i)' = "running"
    BY <1>1, <1>2, <2>1 DEF JobStage
  <2>3. \A k \in Id : JobStage(k)' = IF k \in {i} THEN "running" ELSE JobStage(k)
    BY <1>1, <1>3, <2>1, <2>2 DEF JobStage
  <2>4. Cardinality(Jobs!In({"running"})) < MaxJobs
    <3>1. Cardinality(jobs) \in Nat /\ MaxJobs \in Nat
      BY FS_CardinalityType, LimitAssumption DEF IInv, Types
    <3>2. Cardinality(jobs) < MaxJobs
      BY <2>1, <3>1 DEF Full
    <3>3. QED
      BY <1>1, <3>2, RunningJobs
  <2>5. Jobs!Move({i}, "running")
    BY <2>3, ContractMove
  <2>6. (alive = "yes") /\ (alive' = "yes")
    BY <1>1
  <2>7. Jobs!Accept(i)
    BY <1>4, <2>4, <2>5, <2>6 DEF Jobs!Accept, Jobs!Room, Jobs!Cardinality, Cardinality
  <2>8. QED
    BY <2>7 DEF Jobs!Next
<1>6. CASE Refuse(i, r)
  <2>1. refused' = refused \cup {i} /\ UNCHANGED jobs
    BY <1>6 DEF Refuse
  <2>2. JobStage(i)' = "refused"
    BY <1>1, <1>2, <2>1 DEF JobStage
  <2>3. \A k \in Id : JobStage(k)' = IF k \in {i} THEN "refused" ELSE JobStage(k)
    BY <1>1, <1>3, <2>1, <2>2 DEF JobStage
  <2>4. Jobs!Refuse(i)
    BY <1>1, <1>4, <2>3, ContractMove DEF Jobs!Refuse
  <2>5. QED
    BY <2>4 DEF Jobs!Next
<1>7. QED
  BY <1>5, <1>6

\* The owner takes an event: the end of a thread is the report of its transfer.
LEMMA ContractDeliver ==
  ASSUME IInv, Deliver
  PROVE  Jobs!Next \/ UNCHANGED <<alive, jobs, refused, finished, request>>
<1> DEFINE i == Head(posted).id
<1>1. alive = "yes" /\ UNCHANGED <<alive, refused>> /\ posted # <<>>
  BY DEF Deliver
<1>2. CASE Head(posted).what = "progress"
  BY <1>1, <1>2 DEF Deliver, work
<1>3. CASE Head(posted).what # "progress"
  <2>1. posted \in Seq(Event)
    BY DEF IInv, Types
  <2>2. Head(posted) = posted[1] /\ 1 \in DOMAIN posted
    BY <1>1, <2>1, TailFacts
  <2>3. i \in jobs
    BY <2>2 DEF IInv, Events
  <2>4. i \in Id
    BY <2>3, JobsHaveRequests
  <2>5. /\ jobs' = jobs \ {i} /\ finished' = [finished EXCEPT ![i] = finished[i] + 1]
        /\ Deleted({i})
    BY <1>3 DEF Deliver
  <2>6. UNCHANGED request
    BY <2>5 DEF Deleted
  <2> HIDE DEF i
  <2>7. QED
    BY <1>1, <2>3, <2>4, <2>5, <2>6, ContractReport
<1>4. QED
  BY <1>2, <1>3

\* The first step of the destructor is the end of the contract.
LEMMA ContractClose ==
  ASSUME IInv, NoneForgotten, Destroy
  PROVE  Jobs!Next
<1>1. alive = "yes" /\ alive' = "dying" /\ UNCHANGED <<jobs, refused, finished, request>>
  BY DEF Destroy, work
<1>2. \A i \in Id : finished[i] \in {0, 1}
  BY DEF IInv, Types
<1>3. \A i \in Id : finished[i] = 1 => JobStage(i) = "reported" /\ JobStage(i)' = "reported"
  BY <1>1 DEF JobStage
<1>4. \A i \in Id : finished[i] = 0 =>
        JobStage(i) \in {"new", "running", "refused"} /\ JobStage(i)' = "void"
  BY <1>1 DEF JobStage, NoneForgotten
<1>5. \A i \in Id : i \in Jobs!In({"new", "running", "refused"}) <=> finished[i] = 0
  BY <1>2, <1>3, <1>4 DEF Jobs!In
<1>6. \A i \in Id : JobStage(i)' =
        IF i \in Jobs!In({"new", "running", "refused"}) THEN "void" ELSE JobStage(i)
  BY <1>2, <1>3, <1>4, <1>5
<1>7. Jobs!Close
  BY <1>1, <1>6, ContractMove DEF Jobs!Close
<1>8. QED
  BY <1>7 DEF Jobs!Next

\* The rest of the destructor changes no stage.
LEMMA ContractDestroyed ==
  ASSUME Destroyed
  PROVE  UNCHANGED <<alive = "yes", [i \in Id |-> JobStage(i)]>>
<1>1. alive = "dying" /\ alive' = "no" /\ UNCHANGED finished
  BY DEF Destroyed
<1>2. \A i \in Id : JobStage(i)' = JobStage(i)
  BY <1>1 DEF JobStage
<1>3. QED
  BY <1>1, <1>2

\* Every step is a step of the contract, or leaves all stages alone.
LEMMA ContractNext ==
  IInv /\ NoneForgotten /\ [Next]_vars
    => [Jobs!Next]_(<<alive = "yes", [i \in Id |-> JobStage(i)]>>)
<1> SUFFICES ASSUME IInv, NoneForgotten, [Next]_vars
             PROVE  Jobs!Next \/ UNCHANGED <<alive = "yes", [i \in Id |-> JobStage(i)]>>
  OBVIOUS
<1>0. ASSUME UNCHANGED <<alive, jobs, refused, finished>>,
             \A i \in Id : request'[i] = None <=> request[i] = None
      PROVE  UNCHANGED <<alive = "yes", [i \in Id |-> JobStage(i)]>>
  <2>1. \A i \in Id : JobStage(i)' = JobStage(i)
    BY <1>0 DEF JobStage
  <2>2. QED
    BY <1>0, <2>1
<1>1. ASSUME NEW i \in Id, NEW r \in Requests[i], NEW g \in BOOLEAN, Start(i, r, g) PROVE Jobs!Next
  BY <1>1, ContractStart
<1>2. ASSUME NEW i \in Id, NEW r \in Requests[i], Refuse(i, r) PROVE Jobs!Next
  BY <1>2, ContractStart
<1>3. ASSUME NEW i \in Id, Refused(i) PROVE Jobs!Next
  <2>1. /\ alive = "yes" /\ i \in refused /\ refused' = refused \ {i} /\ UNCHANGED <<alive, jobs, request>>
        /\ finished' = [finished EXCEPT ![i] = finished[i] + 1]
    BY <1>3 DEF Refused, work
  <2>2. QED
    BY <2>1, ContractReport
<1>4. ASSUME NEW i \in Id, Cancel(i) \/ Modify(i) \/ Worker(i)
      PROVE  UNCHANGED <<alive = "yes", [j \in Id |-> JobStage(j)]>>
  <2>1. /\ UNCHANGED <<alive, jobs, refused, finished>>
        /\ UNCHANGED request \/ (pc[i] = "open" /\ request' \in Grown(i))
    BY <1>4 DEF Cancel, Modify, Worker, Open, Hash, Move, Seek, Progress, Moved, Decide, Commit,
                shared, work
  <2>2. CASE UNCHANGED request
    BY <1>0, <2>1, <2>2
  <2>3. CASE pc[i] = "open" /\ request' \in Grown(i)
    <3>1. i \in jobs
      BY <2>3 DEF IInv, JobAt, OwnedAt
    <3>2. request[i] # None /\ request'[i] # None /\ \A j \in Id : j # i => request'[j] = request[j]
      BY <2>3, <3>1, GrownFacts, JobsHaveRequests, RequestAssumption
    <3>3. QED
      BY <1>0, <2>1, <3>2
  <2>4. QED
    BY <2>1, <2>2, <2>3
<1>5. CASE Deliver
  BY <1>0, <1>5, ContractDeliver
<1>6. CASE Destroy \/ Destroyed
  BY <1>6, ContractClose, ContractDestroyed
<1>7. CASE UNCHANGED vars
  BY <1>0, <1>7 DEF vars, shared, work
<1>8. QED
  BY <1>0, <1>1, <1>2, <1>3, <1>4, <1>5, <1>6, <1>7 DEF Next

\* The contract itself forgets nothing.
LEMMA ContractForgetsNone ==
  NoneForgotten /\ [Jobs!Next]_(<<alive = "yes", [i \in Id |-> JobStage(i)]>>) => NoneForgotten'
<1> SUFFICES ASSUME NoneForgotten, [Jobs!Next]_(<<alive = "yes", [i \in Id |-> JobStage(i)]>>)
             PROVE  NoneForgotten'
  OBVIOUS
<1>1. CASE Jobs!Next
  <2>1. PICK stage \in {"running", "refused", "reported", "void"} : \E S : Jobs!Move(S, stage)
    <3>1. \A j : Jobs!Accept(j) => \E S : Jobs!Move(S, "running")
      BY DEF Jobs!Accept
    <3>5. \A j : ~Jobs!Fail(j)
      BY DEF Jobs!Fail
    <3>2. \A j : Jobs!Refuse(j) => \E S : Jobs!Move(S, "refused")
      BY DEF Jobs!Refuse
    <3>3. \A R : Jobs!Report(R) => \E S : Jobs!Move(S, "reported")
      BY DEF Jobs!Report
    <3>4. Jobs!Close => \E S : Jobs!Move(S, "void")
      BY DEF Jobs!Close
    <3>6. QED
      BY <1>1, <3>1, <3>2, <3>3, <3>4, <3>5 DEF Jobs!Next
  <2>2. PICK S : Jobs!Move(S, stage)
    BY <2>1
  <2>3. \A i \in Id : JobStage(i)' = IF i \in S THEN stage ELSE JobStage(i)
    BY <2>2 DEF Jobs!Move
  <2>4. QED
    BY <2>3 DEF NoneForgotten
<1>2. CASE UNCHANGED <<alive = "yes", [i \in Id |-> JobStage(i)]>>
  <2>1. \A i \in Id : JobStage(i)' = JobStage(i)
    BY <1>2
  <2>2. QED
    BY <2>1 DEF NoneForgotten
<1>3. QED
  BY <1>1, <1>2

\* FileTransfer implements the contract of jobs, for any number of transfers and
\* any interleaving of their threads with the owner: every start() is accepted
\* with room in the table or refused, is reported once in a later step, and
\* never once the destructor has begun.
THEOREM JobsImplemented == Spec => ImplementsJobs
<1>1. Init => Jobs!Init /\ NoneForgotten
  BY ContractInit
<1>2. IInv /\ NoneForgotten /\ [Next]_vars
        => [Jobs!Next]_(<<alive = "yes", [i \in Id |-> JobStage(i)]>>)
  BY ContractNext
<1>3. NoneForgotten /\ [Jobs!Next]_(<<alive = "yes", [i \in Id |-> JobStage(i)]>>) => NoneForgotten'
  BY ContractForgetsNone
<1>4. QED
  BY <1>1, <1>2, <1>3, Invariant, PTL DEF Spec, ImplementsJobs, Jobs!Spec
=============================================================================
