---------------------------- MODULE StorageBridge ----------------------------
(***************************************************************************)
(* StorageBridge (src/src/StorageBridge.cpp): up to four rclone processes, *)
(* each with a timeout, whose end is reported by one finished signal.      *)
(*                                                                         *)
(* The process and QProcess are the environment: a child starts or fails   *)
(* to start, writes, exits, or dies some time after kill(), and QProcess   *)
(* reports the end in a later step.  So a cancellation and the timeout can *)
(* come between the end of a child and its report.  Only a failure to      *)
(* start may be reported inside the call: see Immediate.                   *)
(***************************************************************************)
EXTENDS Integers, FiniteSets

CONSTANTS
  Id,        \* uuids of jobs, never used twice
  MaxJobs,   \* 4
  MaxOutput, \* 16 MiB, in pieces of output
  Immediate  \* QProcess::start may emit errorOccurred itself (no pipe, no fork)

ASSUME LimitAssumption == MaxJobs \in Nat /\ MaxOutput \in Nat

VARIABLES
  alive,     \* the StorageBridge exists
  jobs,      \* the job table
  refused,   \* ids whose queued "finished" reports an error of start()
  child,     \* per id: the state of its process
  exit,      \* per id: "" or how the process ended
  killed,    \* per id: kill() was called
  timer,     \* per id: the timeout is running
  json,      \* per id: the output is collected and parsed
  output,    \* per id: pieces collected
  failure, cancelled, completed, \* per id: the fields of BridgeJob
  result,    \* per id: "" or the reported outcome
  finished   \* history: finished signals per id

jobVars == <<child, exit, killed, timer, json, output, failure, cancelled, completed, result, finished>>

vars == <<alive, jobs, refused, jobVars>>

Init ==
  /\ alive = TRUE /\ jobs = {} /\ refused = {}
  /\ child = [i \in Id |-> "none"]
  /\ exit = [i \in Id |-> ""]
  /\ killed = [i \in Id |-> FALSE]
  /\ timer = [i \in Id |-> FALSE]
  /\ json = [i \in Id |-> FALSE]
  /\ output = [i \in Id |-> 0]
  /\ failure = [i \in Id |-> ""]
  /\ cancelled = [i \in Id |-> FALSE]
  /\ completed = [i \in Id |-> FALSE]
  /\ result = [i \in Id |-> ""]
  /\ finished = [i \in Id |-> 0]

Unused(i) == alive /\ i \notin jobs \cup refused /\ finished[i] = 0

-----------------------------------------------------------------------------
(* The owner *)

\* Mutant: one process too many.
FullLater == Cardinality(jobs) > MaxJobs

Full == Cardinality(jobs) >= MaxJobs

\* start() of an operation whose result is JSON if j.
Start(i, j) ==
  /\ Unused(i)
  /\ ~Full
  /\ jobs' = jobs \cup {i}
  /\ child' = [child EXCEPT ![i] = "starting"]
  /\ json' = [json EXCEPT ![i] = j]
  /\ timer' = [timer EXCEPT ![i] = TRUE]
  /\ UNCHANGED <<alive, refused, exit, killed, output, failure, cancelled, completed, result, finished>>

\* Mutant: the error of start() is reported before start() returns.
RefuseAtOnce(i) ==
  /\ Unused(i)
  /\ finished' = [finished EXCEPT ![i] = @ + 1]
  /\ UNCHANGED <<alive, jobs, refused, child, exit, killed, timer, json, output>>
  /\ UNCHANGED <<failure, cancelled, completed, result>>

\* A request that the validation or a full table refuses.
Refuse(i) ==
  /\ Unused(i)
  /\ refused' = refused \cup {i}
  /\ UNCHANGED <<alive, jobs>> /\ UNCHANGED jobVars

Refused(i) ==
  /\ alive
  /\ i \in refused
  /\ refused' = refused \ {i}
  /\ finished' = [finished EXCEPT ![i] = @ + 1]
  /\ UNCHANGED <<alive, jobs, child, exit, killed, timer, json, output>>
  /\ UNCHANGED <<failure, cancelled, completed, result>>

\* kill() reaches a process that has not ended.
Kill(i) == killed' = [killed EXCEPT ![i] = @ \/ child[i] \in {"starting", "running"}]

Cancel(i) ==
  /\ alive
  /\ i \in jobs
  /\ cancelled' = [cancelled EXCEPT ![i] = TRUE]
  /\ Kill(i)
  /\ UNCHANGED <<alive, jobs, refused, child, exit, timer, json, output, failure, completed, result, finished>>

\* Mutant: the timeout leaves the process running.
NoKill(i) == UNCHANGED killed

\* What the timeout does to the process.
TimeoutKills(i) == Kill(i)

Timeout(i) ==
  /\ alive
  /\ timer[i]
  /\ timer' = [timer EXCEPT ![i] = FALSE]
  /\ failure' = [failure EXCEPT ![i] = "timeout"]
  /\ TimeoutKills(i)
  /\ UNCHANGED <<alive, jobs, refused, child, exit, json, output, cancelled, completed, result, finished>>

\* Mutant: a process that was killed for its timeout counts as its exit code.
OutcomeByExit(i, f, parses) ==
  IF exit[i] # "ok" THEN "backend_failed"
  ELSE IF json[i] /\ ~parses THEN "invalid_backend_response" ELSE "ok"

\* The outcome that finish() reports when the failure is f.
Outcome(i, f, parses) ==
  IF cancelled[i] THEN "cancelled"
  ELSE IF f # "" THEN f
  ELSE IF exit[i] # "ok" THEN "backend_failed"
  ELSE IF json[i] /\ ~parses THEN "invalid_backend_response" ELSE "ok"

\* finish() acts on the first end only.
First(i) == ~completed[i]

\* finish(): once per job.
Finish(i, f) ==
  /\ failure' = [failure EXCEPT ![i] = f]
  /\ IF First(i)
     THEN /\ completed' = [completed EXCEPT ![i] = TRUE]
          /\ timer' = [timer EXCEPT ![i] = FALSE]
          /\ \E parses \in BOOLEAN : result' = [result EXCEPT ![i] = Outcome(i, f, parses)]
          /\ jobs' = jobs \ {i}
          /\ finished' = [finished EXCEPT ![i] = @ + 1]
     ELSE UNCHANGED <<completed, timer, result, jobs, finished>>
  /\ UNCHANGED <<alive, refused, exit, killed, json, output, cancelled>>

\* QProcess reports that the child could not be started.
FailedToStart(i) ==
  /\ alive
  /\ child[i] = "starting"
  /\ child' = [child EXCEPT ![i] = "reported"]
  /\ Finish(i, "backend_start_failed")

\* start() whose process->start() fails at once: finish() has run before start()
\* returns the id.  The timer that start() starts afterwards is a child of the
\* QProcess and is deleted with it in the same turn of the event loop.
StartFails(i) ==
  /\ Immediate
  /\ Unused(i)
  /\ ~Full
  /\ child' = [child EXCEPT ![i] = "reported"]
  /\ Finish(i, "backend_start_failed")

\* QProcess reports the end of the child.
Finished(i) ==
  /\ alive
  /\ child[i] = "ended"
  /\ child' = [child EXCEPT ![i] = "reported"]
  /\ Finish(i, failure[i])

TooMuch(i, n) == output[i] + n > MaxOutput

\* Output of a child: collected up to the limit, then the child is killed.
Output(i, n) ==
  /\ alive
  /\ child[i] \in {"running", "ended"}
  /\ json[i]
  /\ IF TooMuch(i, n)
     THEN /\ failure' = [failure EXCEPT ![i] = "result_size_limit_exceeded"]
          /\ Kill(i)
          /\ UNCHANGED output
     ELSE /\ output' = [output EXCEPT ![i] = @ + n]
          /\ UNCHANGED <<failure, killed>>
  /\ UNCHANGED <<alive, jobs, refused, child, exit, timer, json, cancelled, completed, result, finished>>

\* The destructor: the signals are disconnected, every child is killed and
\* waited for, up to three seconds each.
Destroy ==
  /\ alive
  /\ alive' = FALSE
  /\ child' = [i \in Id |-> IF i \in jobs THEN "reported" ELSE child[i]]
  /\ jobs' = {} /\ refused' = {}
  /\ timer' = [i \in Id |-> FALSE]
  /\ UNCHANGED <<exit, killed, json, output, failure, cancelled, completed, result, finished>>

-----------------------------------------------------------------------------
(* The processes *)

Started(i) ==
  /\ child[i] = "starting"
  /\ child' = [child EXCEPT ![i] = "running"]
  /\ UNCHANGED <<alive, jobs, refused, exit, killed, timer, json, output>>
  /\ UNCHANGED <<failure, cancelled, completed, result, finished>>

\* The child exits, or crashes by itself or because it was killed.
Ended(i, x) ==
  /\ child[i] = "running"
  /\ child' = [child EXCEPT ![i] = "ended"]
  /\ exit' = [exit EXCEPT ![i] = x]
  /\ UNCHANGED <<alive, jobs, refused, killed, timer, json, output>>
  /\ UNCHANGED <<failure, cancelled, completed, result, finished>>

-----------------------------------------------------------------------------
Step(i) ==
  \/ \E j \in BOOLEAN : Start(i, j)
  \/ Refuse(i) \/ Refused(i)
  \/ Cancel(i) \/ Timeout(i)
  \/ StartFails(i) \/ FailedToStart(i) \/ Finished(i)
  \/ \E n \in 1..2 : Output(i, n)
  \/ Started(i)
  \/ \E x \in {"ok", "error", "crash"} : Ended(i, x)

Next == Destroy \/ \E i \in Id : Step(i)

Spec == Init /\ [][Next]_vars

\* The owner's event loop runs, fork and exec come to an end, and a killed
\* process dies.  Nothing is assumed of a child that is not killed.
Fairness ==
  \A i \in Id :
    /\ WF_vars(Refused(i)) /\ WF_vars(Timeout(i)) /\ WF_vars(Finished(i))
    /\ WF_vars(Started(i) \/ FailedToStart(i))
    /\ WF_vars(killed[i] /\ Ended(i, "crash"))

FairSpec == Spec /\ Fairness

-----------------------------------------------------------------------------
(* Properties *)

\* Every variable has its type; in particular the collected output stays
\* within its limit (StorageBridge.cpp:284-287), and no job is reported twice
\* (StorageBridge.cpp:262).
TypeOK ==
  /\ alive \in BOOLEAN
  /\ jobs \in SUBSET Id /\ refused \in SUBSET Id
  /\ child \in [Id -> {"none", "starting", "running", "ended", "reported"}]
  /\ exit \in [Id -> {"", "ok", "error", "crash"}]
  /\ killed \in [Id -> BOOLEAN] /\ timer \in [Id -> BOOLEAN] /\ json \in [Id -> BOOLEAN]
  /\ cancelled \in [Id -> BOOLEAN] /\ completed \in [Id -> BOOLEAN]
  /\ output \in [Id -> 0..MaxOutput]
  /\ failure \in [Id -> {"", "timeout", "backend_start_failed", "result_size_limit_exceeded"}]
  /\ result \in [Id -> {"", "ok", "cancelled", "timeout", "backend_failed", "backend_start_failed",
                        "result_size_limit_exceeded", "invalid_backend_response"}]
  /\ finished \in [Id -> {0, 1}]

\* Success means that the process ended by itself with exit code 0, and that
\* neither a cancellation, nor the timeout, nor the output limit came first,
\* also when they come between the end of the process and its report
\* (StorageBridge.cpp:266-276).
SuccessIsReal ==
  \A i \in Id : result[i] = "ok" =>
    exit[i] = "ok" /\ ~cancelled[i] /\ failure[i] = ""

\* A process that has not been reported belongs to a job in the table, at most
\* MaxJobs of them, and to an object that still exists: none outlives its job
\* or the destructor, and a job without process does not block the table
\* (StorageBridge.cpp:215-222, 232, 277, 295).
ProcessesAreOwned ==
  /\ TypeOK
  /\ Cardinality(jobs) <= MaxJobs
  /\ \A i \in Id : i \in jobs <=> child[i] \in {"starting", "running", "ended"}
  /\ \A i \in Id : timer[i] => i \in jobs
  /\ jobs # {} => alive

\* Every start() is reported, even for a process that would never end by
\* itself, unless the object is destroyed first (StorageBridge.cpp:294).
EveryStartIsReported ==
  \A i \in Id : (i \in jobs \cup refused) ~> (finished[i] = 1 \/ ~alive)

\* The stage of a job, as JobContract counts it.
JobStage(i) ==
  IF finished[i] = 1 THEN "reported"
  ELSE IF finished[i] # 0 THEN "repeated"
  ELSE IF ~alive THEN "void"
  ELSE IF i \in jobs THEN "running"
  ELSE IF i \in refused THEN "refused" ELSE "new"

Jobs == INSTANCE JobContract
          WITH Job <- Id, Limit <- MaxJobs, AtOnce <- Immediate, open <- alive, job <- [i \in Id |-> JobStage(i)]

\* Each start() is accepted while the table has room, or refused, and is
\* reported once and later, however the timeout, cancel(), the limit and the end
\* of the process meet; after the destructor nothing is.  Only a failure to start
\* may be reported inside the call, and only where Immediate
\* (StorageBridge.cpp:215-222, 232, 262-279, 295, 299).
ImplementsJobs == Jobs!Spec
=============================================================================
