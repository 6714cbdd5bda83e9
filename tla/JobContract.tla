----------------------------- MODULE JobContract -----------------------------
(***************************************************************************)
(* What every table of jobs in this library promises its owner, without    *)
(* threads, processes, connections or time: a job is accepted or refused,  *)
(* at most Limit are under way, and each is reported once, in a later step *)
(* than the call that started it; the end of the object makes the rest     *)
(* void, and nothing is reported after it.  A table that is AtOnce may     *)
(* also accept a job and report its failure inside the call.               *)
(*                                                                         *)
(* FileTransfer, StorageBridge, LanFiles and PeerClient implement this     *)
(* specification, each for a table of its own.                             *)
(***************************************************************************)
EXTENDS Integers, FiniteSets

CONSTANTS
  Job,   \* ids of jobs, never used twice
  Limit, \* jobs under way at the same time
  AtOnce \* a job may fail before the call that starts it returns

VARIABLES
  open, \* the object exists and is not being destroyed
  job   \* per id: "new", "running", "refused", "reported" or "void"

Init == open = TRUE /\ job = [j \in Job |-> "new"]

In(stages) == {j \in Job : job[j] \in stages}

Move(S, stage) == job' = [j \in Job |-> IF j \in S THEN stage ELSE job[j]]

Room(j) ==
  /\ open /\ open' = open
  /\ j \in In({"new"})
  /\ Cardinality(In({"running"})) < Limit

Accept(j) == Room(j) /\ Move({j}, "running")

Fail(j) == AtOnce /\ Room(j) /\ Move({j}, "reported")

Refuse(j) ==
  /\ open /\ open' = open
  /\ j \in In({"new"})
  /\ Move({j}, "refused")

\* One step may report many jobs: an answer, a sweep, a lost connection.
Report(S) ==
  /\ open /\ open' = open
  /\ S \subseteq In({"running", "refused"})
  /\ Move(S, "reported")

Close ==
  /\ open /\ open' = FALSE
  /\ Move(In({"new", "running", "refused"}), "void")

Next ==
  \/ \E j \in Job : Accept(j) \/ Fail(j) \/ Refuse(j)
  \/ \E S \in SUBSET Job : Report(S)
  \/ Close

Spec == Init /\ [][Next]_<<open, job>>
=============================================================================
