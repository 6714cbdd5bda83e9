------------------------- MODULE FileProtocolServer -------------------------
(***************************************************************************)
(* FileProtocolServer (src/src/StorageBridge.cpp): one child process that  *)
(* serves a standard protocol.  stop() asks it to terminate and kills it   *)
(* two seconds later; an end nobody asked for is reported as a failure.    *)
(*                                                                         *)
(* Several children live one after the other, and the two-second timer of  *)
(* one can still run when the next is started.  The owner may start the    *)
(* next child in the slot of failed(), in the middle of the handler.       *)
(***************************************************************************)
EXTENDS Integers

CONSTANTS
  Child, \* the QProcess objects, one per successful start()
  NoProcess   \* no process

ASSUME NoProcessAssumption == NoProcess \notin Child

VARIABLES
  alive,     \* the FileProtocolServer exists
  process,   \* d->process
  stopping,  \* d->stopping
  error,     \* d->error
  state,     \* per child: the process behind the QProcess
  asked,     \* per child: terminate() was called
  killed,    \* per child: kill() was called
  timer,     \* per child: the timer of stop() is running
  failed,    \* history, per child: "" or the error of its failed() signal
  stopped    \* history: stopped() signals per child

fpVars == <<alive, process, stopping, error, state, asked, killed, timer, failed, stopped>>

FPInit ==
  /\ alive = TRUE /\ process = NoProcess /\ stopping = FALSE /\ error = ""
  /\ state = [c \in Child |-> "none"]
  /\ asked = [c \in Child |-> FALSE]
  /\ killed = [c \in Child |-> FALSE]
  /\ timer = [c \in Child |-> FALSE]
  /\ failed = [c \in Child |-> ""]
  /\ stopped = [c \in Child |-> 0]

-----------------------------------------------------------------------------
(* The owner *)

\* No child: start() may go on to the validation.
Idle == process = NoProcess

\* Mutant: the flag of the previous stop() survives.
StillStopping == stopping

\* d->stopping after a successful start().
StoppingAtStart == FALSE

\* start() of valid options with the QProcess c.
Start(c) ==
  /\ alive /\ Idle
  /\ state[c] = "none"
  /\ error' = ""
  /\ stopping' = StoppingAtStart
  /\ process' = c
  /\ state' = [state EXCEPT ![c] = "starting"]
  /\ UNCHANGED <<alive, asked, killed, timer, failed, stopped>>

\* start() while a child runs, or with options that validateServer refuses.
StartRefused ==
  /\ alive
  /\ error' = IF process # NoProcess THEN "already_running" ELSE "invalid"
  /\ UNCHANGED <<alive, process, stopping, state, asked, killed, timer, failed, stopped>>

\* Mutant: nothing follows terminate().
NoTimer(c) == UNCHANGED timer

\* The two-second timer of stop(), whose context is the process.
Arm(c) == timer' = [timer EXCEPT ![c] = TRUE]

Stop ==
  /\ alive
  /\ process # NoProcess
  /\ stopping' = TRUE
  /\ asked' = [asked EXCEPT ![process] = TRUE]
  /\ Arm(process)
  /\ UNCHANGED <<alive, process, error, state, killed, failed, stopped>>

\* Mutant: the timer kills whatever child is current.
CurrentVictim(c) == process

\* The child that the timer of c kills.
Victim(c) == c

\* The timer of stop(): QProcess::state() is not NotRunning until the end of
\* the child has been reported.
KillTimer(c) ==
  /\ alive
  /\ timer[c]
  /\ timer' = [timer EXCEPT ![c] = FALSE]
  /\ killed' = [v \in Child |->
                  killed[v] \/ (v = Victim(c) /\ state[v] \in {"starting", "running", "ended"})]
  /\ UNCHANGED <<alive, process, stopping, error, state, asked, failed, stopped>>

\* The destructor: disconnected, killed and waited for.
Destroy ==
  /\ alive
  /\ alive' = FALSE
  /\ process' = NoProcess
  /\ state' = [c \in Child |-> IF c = process THEN "reported" ELSE state[c]]
  /\ timer' = [c \in Child |-> FALSE]
  /\ UNCHANGED <<stopping, error, asked, killed, failed, stopped>>

\* failed() and stopped() of child c, in this order, with the error e.  The
\* slot of failed() may call start() with the QProcess n.
Report(c, e, fails, n) ==
  /\ failed' = [failed EXCEPT ![c] = IF fails THEN e ELSE @]
  /\ stopped' = [stopped EXCEPT ![c] = @ + 1]
  /\ IF n = NoProcess
     THEN /\ process' = NoProcess
          /\ error' = IF fails THEN e ELSE error
          /\ stopping' = stopping
          /\ state' = [state EXCEPT ![c] = "reported"]
     ELSE /\ fails
          /\ state[n] = "none"
          /\ process' = n
          /\ error' = ""
          /\ stopping' = StoppingAtStart
          /\ state' = [state EXCEPT ![c] = "reported", ![n] = "starting"]
  /\ UNCHANGED <<alive, asked, killed, timer>>

\* QProcess::finished of child c.
Finished(c, n) ==
  /\ alive
  /\ state[c] = "ended"
  /\ Report(c, "server_exited", ~stopping, n)

\* QProcess::errorOccurred(FailedToStart) of child c.  When process->start() emits
\* it itself, this step follows Start at once: start() does nothing after it.
FailedToStart(c, n) ==
  /\ alive
  /\ state[c] = "starting"
  /\ Report(c, "backend_start_failed", TRUE, n)

\* deleteLater() of a reported child: its timer goes with it.
Deleted(c) ==
  /\ state[c] = "reported"
  /\ timer[c]
  /\ timer' = [timer EXCEPT ![c] = FALSE]
  /\ UNCHANGED <<alive, process, stopping, error, state, asked, killed, failed, stopped>>

-----------------------------------------------------------------------------
(* The processes *)

Started(c) ==
  /\ state[c] = "starting"
  /\ state' = [state EXCEPT ![c] = "running"]
  /\ UNCHANGED <<alive, process, stopping, error, asked, killed, timer, failed, stopped>>

\* A child ends by itself, on terminate() if it listens, or on kill().
Ended(c) ==
  /\ state[c] = "running"
  /\ state' = [state EXCEPT ![c] = "ended"]
  /\ UNCHANGED <<alive, process, stopping, error, asked, killed, timer, failed, stopped>>

-----------------------------------------------------------------------------
Step(c) ==
  \/ Start(c) \/ KillTimer(c) \/ Deleted(c)
  \/ Started(c) \/ Ended(c)
  \/ \E n \in Child \cup {NoProcess} : Finished(c, n) \/ FailedToStart(c, n)

FPNext == StartRefused \/ Stop \/ Destroy \/ \E c \in Child : Step(c)

FPSpec == FPInit /\ [][FPNext]_fpVars

\* The event loop runs, exec comes to an end, and a killed process dies.
\* Nothing is assumed of a process that is only asked to terminate.
Fairness ==
  \A c \in Child :
    /\ WF_fpVars(KillTimer(c))
    /\ WF_fpVars(\E n \in Child \cup {NoProcess} : Finished(c, n))
    /\ WF_fpVars(Started(c) \/ \E n \in Child \cup {NoProcess} : FailedToStart(c, n))
    /\ WF_fpVars(killed[c] /\ Ended(c))

FairSpec == FPSpec /\ Fairness

-----------------------------------------------------------------------------
(* Properties *)

\* Every variable has its type; stopped() is emitted at most once per child.
FPTypeOK ==
  /\ alive \in BOOLEAN /\ stopping \in BOOLEAN
  /\ process \in Child \cup {NoProcess}
  /\ error \in {"", "already_running", "invalid", "server_exited", "backend_start_failed"}
  /\ state \in [Child -> {"none", "starting", "running", "ended", "reported"}]
  /\ asked \in [Child -> BOOLEAN] /\ killed \in [Child -> BOOLEAN] /\ timer \in [Child -> BOOLEAN]
  /\ failed \in [Child -> {"", "server_exited", "backend_start_failed"}]
  /\ stopped \in [Child -> {0, 1}]

Unreported(c) == state[c] \in {"starting", "running", "ended"}

\* The object owns one child: a process that is not reported is d->process,
\* though children follow each other and one may be started in the slot that
\* reports another.  Only a child that was asked to terminate is killed: the
\* timer of a stop() never reaches the child of a later start()
\* (StorageBridge.cpp:323, 371, 377, 390-392).
OneChild ==
  /\ FPTypeOK
  /\ process # NoProcess => alive
  /\ \A c \in Child : Unreported(c) <=> c = process
  /\ \A c \in Child : killed[c] => asked[c]

\* failed() tells the ends that stop() asked for from the others: a child is
\* reported as exited only if nobody stopped it, and every child that ended
\* without a stop() is reported as failed (StorageBridge.cpp:326, 372, 389).
FailuresAreReal ==
  \A c \in Child :
    /\ failed[c] = "server_exited" => ~asked[c]
    /\ stopped[c] = 1 /\ ~asked[c] => failed[c] # ""

\* After stop() the child ends and stopped() is emitted, even if the child
\* ignores the request, unless the object is destroyed
\* (StorageBridge.cpp:387-393).
StopStops == \A c \in Child : asked[c] ~> (stopped[c] = 1 \/ ~alive)
=============================================================================
