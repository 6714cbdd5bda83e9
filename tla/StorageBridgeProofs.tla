------------------------ MODULE StorageBridgeProofs ------------------------
(***************************************************************************)
(* Theorems about StorageBridge, for any jobs and limits: every process    *)
(* that has not been reported belongs to a job in the table, and a         *)
(* reported success is one.                                                *)
(*                                                                         *)
(* A cancellation, the timeout and the output limit can come between the   *)
(* end of a process and its report, and both the failure to start and the  *)
(* end of a process call finish().  What keeps them apart is the life of a *)
(* job: the fields that a report depends on change only while the job is   *)
(* in the table, and the report takes it out.                              *)
(***************************************************************************)
EXTENDS StorageBridge, FiniteSetTheorems, TLAPS

Running == {"starting", "running", "ended"}

\* The stages of an id: waiting with an error of start(), in the table, or
\* reported; a verdict exists only after the report.
Life ==
  \A i \in Id :
    /\ i \in jobs => i \notin refused /\ finished[i] = 0
    /\ i \in refused => child[i] = "none" /\ finished[i] = 0
    /\ completed[i] => child[i] = "reported"
    /\ result[i] # "" => child[i] = "reported"
    /\ child[i] = "reported" /\ alive => finished[i] = 1

\* The table is finite and within its limit.
Bounded == IsFiniteSet(jobs) /\ Cardinality(jobs) <= MaxJobs

\* The table and the processes agree.
Owned ==
  /\ \A i \in Id : i \in jobs <=> child[i] \in Running
  /\ \A i \in Id : timer[i] => i \in jobs
  /\ jobs # {} => alive

IInv == TypeOK /\ Bounded /\ Owned /\ Life /\ SuccessIsReal

-----------------------------------------------------------------------------
(* The table *)

\* A job is added to a table that is not full.
LEMMA Added ==
  ASSUME Bounded, ~Full, NEW i, jobs' = jobs \cup {i}
  PROVE  Bounded'
<1>1. Cardinality(jobs) \in Nat /\ Cardinality(jobs) < MaxJobs
  BY FS_CardinalityType, LimitAssumption DEF Bounded, Full
<1>2. /\ IsFiniteSet(jobs')
      /\ Cardinality(jobs') = IF i \in jobs THEN Cardinality(jobs) ELSE Cardinality(jobs) + 1
  BY FS_AddElement DEF Bounded
<1>3. QED
  BY <1>1, <1>2, LimitAssumption DEF Bounded

\* Jobs are removed from the table, or it stays as it is.
LEMMA Removed ==
  ASSUME Bounded, jobs' \subseteq jobs
  PROVE  Bounded'
<1>1. IsFiniteSet(jobs') /\ Cardinality(jobs') <= Cardinality(jobs)
  BY FS_Subset DEF Bounded
<1>2. Cardinality(jobs) \in Nat /\ Cardinality(jobs') \in Nat
  BY <1>1, FS_CardinalityType DEF Bounded
<1>3. QED
  BY <1>1, <1>2, LimitAssumption DEF Bounded

LEMMA InvInit == Init => IInv
<1> SUFFICES ASSUME Init PROVE IInv
  OBVIOUS
<1>1. TypeOK
  <2>1. output \in [Id -> 0..MaxOutput]
    <3>1. 0 \in 0..MaxOutput
      BY LimitAssumption
    <3>2. output = [i \in Id |-> 0]
      BY DEF Init
    <3>3. QED
      BY <3>1, <3>2
  <2>2. finished \in [Id -> {0, 1}]
    BY DEF Init
  <2>3. QED
    BY <2>1, <2>2 DEF Init, TypeOK
<1>2. Bounded
  <2>1. jobs = {}
    BY DEF Init
  <2>2. IsFiniteSet({}) /\ Cardinality({}) = 0
    BY FS_EmptySet
  <2>3. QED
    BY <2>1, <2>2, LimitAssumption DEF Bounded
<1>3. Owned
  BY DEF Init, Owned, Running
<1>4. Life /\ SuccessIsReal
  BY DEF Init, Life, SuccessIsReal
<1>5. QED
  BY <1>1, <1>2, <1>3, <1>4 DEF IInv

-----------------------------------------------------------------------------
(* The steps *)

\* The first report of a job makes one.
LEMMA FirstReport == 0 + 1 = 1
  OBVIOUS

\* An id that start() may draw has no process yet.
LEMMA UnusedIsNew ==
  ASSUME TypeOK, Owned, Life, NEW i \in Id, Unused(i)
  PROVE  child[i] = "none"
<1>1. child[i] \notin Running
  BY DEF Owned, Unused
<1>2. child[i] # "reported"
  <2>1. 0 # 1
    OBVIOUS
  <2>2. finished[i] = 0 /\ alive
    BY DEF Unused
  <2>3. child[i] = "reported" /\ alive => finished[i] = 1
    BY DEF Life
  <2>4. QED
    BY <2>1, <2>2, <2>3
<1>3. QED
  BY <1>1, <1>2 DEF TypeOK, Running

\* A job that is in the table, or that fails before it is seen there, has had no
\* report.
LEMMA Unreported ==
  ASSUME IInv, NEW i \in Id, child[i] \in Running \/ Unused(i)
  PROVE  ~completed[i] /\ i \notin refused /\ finished[i] = 0
<1>1. CASE child[i] \in Running
  BY <1>1 DEF IInv, Owned, Life, Running
<1>2. CASE Unused(i)
  <2>1. child[i] = "none"
    BY <1>2, UnusedIsNew DEF IInv
  <2>2. QED
    BY <1>2, <2>1 DEF IInv, Life, Unused
<1>3. QED
  BY <1>1, <1>2

\* finish() of a job: the first and only report.
LEMMA FinishKeeps ==
  ASSUME IInv, NEW i \in Id, alive, child[i] \in Running \/ Unused(i),
         NEW f \in {"", "timeout", "backend_start_failed", "result_size_limit_exceeded"},
         child' = [child EXCEPT ![i] = "reported"], Finish(i, f)
  PROVE  IInv'
<1>1. /\ ~completed[i] /\ i \notin refused
      /\ TypeOK /\ Bounded /\ Owned /\ Life /\ SuccessIsReal
  BY Unreported DEF IInv
<1>2. finished[i] = 0
  BY Unreported
<1>3. /\ failure' = [failure EXCEPT ![i] = f]
      /\ completed' = [completed EXCEPT ![i] = TRUE]
      /\ timer' = [timer EXCEPT ![i] = FALSE]
      /\ jobs' = jobs \ {i}
      /\ UNCHANGED <<alive, refused, exit, killed, json, output, cancelled>>
  BY <1>1 DEF Finish, First
<1>4. finished' = [finished EXCEPT ![i] = 1]
  <2>1. finished' = [finished EXCEPT ![i] = finished[i] + 1]
    BY <1>1 DEF Finish, First
  <2>2. QED
    BY <1>2, <2>1, FirstReport
<1>5. PICK parses \in BOOLEAN : result' = [result EXCEPT ![i] = Outcome(i, f, parses)]
  BY <1>1 DEF Finish, First
<1>6. Outcome(i, f, parses) = "ok" => exit[i] = "ok" /\ ~cancelled[i] /\ f = ""
  BY DEF Outcome
<1>7. TypeOK'
  <2>1. Outcome(i, f, parses) \in {"ok", "cancelled", "timeout", "backend_failed",
          "backend_start_failed", "result_size_limit_exceeded", "invalid_backend_response"}
    BY DEF Outcome
  <2>2. QED
    BY <1>1, <1>3, <1>4, <1>5, <2>1 DEF TypeOK
<1>8. Bounded'
  BY <1>1, <1>3, Removed
<1>9. Owned'
  BY <1>1, <1>3 DEF Owned, TypeOK, Running
<1>10. Life'
  BY <1>1, <1>3, <1>4, <1>5 DEF Life, TypeOK
<1>11. SuccessIsReal'
  BY <1>1, <1>3, <1>5, <1>6 DEF SuccessIsReal, TypeOK
<1>12. QED
  BY <1>7, <1>8, <1>9, <1>10, <1>11 DEF IInv

\* A step of the owner or of a process that touches the fields of one job in
\* the table, before its report.
LEMMA JobKeeps ==
  ASSUME IInv, NEW i \in jobs, TypeOK',
         UNCHANGED <<alive, jobs, refused, completed, result, finished>>,
         \A j \in Id \ {i} : /\ child'[j] = child[j] /\ exit'[j] = exit[j]
                             /\ cancelled'[j] = cancelled[j] /\ failure'[j] = failure[j],
         \A j \in Id : timer'[j] => timer[j],
         child'[i] \in Running
  PROVE  IInv'
<1>1. i \in Id /\ child[i] \in Running
  BY DEF IInv, TypeOK, Owned
<1>2. child[i] # "reported" /\ child'[i] # "reported" /\ child'[i] # "none"
  BY <1>1 DEF Running
<1>3. Bounded' /\ Owned'
  BY <1>1, Removed DEF IInv, Owned
<1>4. Life'
  BY <1>1, <1>2 DEF IInv, Life
<1>5. result[i] = ""
  BY <1>1, <1>2 DEF IInv, Life
<1>6. SuccessIsReal'
  BY <1>1, <1>5 DEF IInv, SuccessIsReal
<1>7. QED
  BY <1>3, <1>4, <1>6 DEF IInv

LEMMA InvNext == IInv /\ [Next]_vars => IInv'
<1> SUFFICES ASSUME IInv, [Next]_vars PROVE IInv'
  OBVIOUS
<1>t. TypeOK /\ Bounded /\ Owned /\ Life /\ SuccessIsReal
  BY DEF IInv
<1>1. CASE Destroy
  <2>1. TypeOK'
    BY <1>1, <1>t DEF Destroy, TypeOK
  <2>2. Bounded'
    BY <1>1, <1>t, Removed DEF Destroy
  <2>3. Owned'
    BY <1>1, <1>t DEF Destroy, Owned, Running, TypeOK
  <2>4. Life'
    BY <1>1, <1>t DEF Destroy, Life, TypeOK
  <2>5. SuccessIsReal'
    BY <1>1, <1>t DEF Destroy, SuccessIsReal
  <2>6. QED
    BY <2>1, <2>2, <2>3, <2>4, <2>5 DEF IInv
<1>2. ASSUME NEW i \in Id, NEW j \in BOOLEAN, Start(i, j) PROVE IInv'
  <2>1. child[i] = "none"
    BY <1>2, <1>t, UnusedIsNew DEF Start
  <2>2. TypeOK'
    BY <1>2, <1>t DEF Start, TypeOK
  <2>3. Bounded'
    BY <1>2, <1>t, Added DEF Start
  <2>4. Owned'
    BY <1>2, <1>t DEF Start, Unused, Owned, Running, TypeOK
  <2>5. Life'
    BY <1>2, <1>t, <2>1 DEF Start, Unused, Life, TypeOK
  <2>6. SuccessIsReal'
    BY <1>2, <1>t DEF Start, SuccessIsReal
  <2>7. QED
    BY <2>2, <2>3, <2>4, <2>5, <2>6 DEF IInv
<1>3. ASSUME NEW i \in Id, Refuse(i) PROVE IInv'
  <2>1. child[i] = "none"
    BY <1>3, <1>t, UnusedIsNew DEF Refuse
  <2>2. TypeOK' /\ Bounded' /\ Owned' /\ SuccessIsReal'
    BY <1>3, <1>t, Removed DEF Refuse, jobVars, TypeOK, Owned, SuccessIsReal
  <2>3. Life'
    BY <1>3, <1>t, <2>1 DEF Refuse, Unused, jobVars, Life
  <2>4. QED
    BY <2>2, <2>3 DEF IInv
<1>4. ASSUME NEW i \in Id, Refused(i) PROVE IInv'
  <2>1. i \in refused /\ i \notin jobs /\ child[i] = "none"
    BY <1>4, <1>t DEF Refused, Life
  <2>2. finished[i] = 0
    BY <2>1, <1>t DEF Life
  <2>3. finished' = [finished EXCEPT ![i] = 1]
    <3>1. finished' = [finished EXCEPT ![i] = finished[i] + 1]
      BY <1>4 DEF Refused
    <3>2. finished[i] + 1 = 1
      BY <2>2
    <3>3. QED
      BY <3>1, <3>2
  <2>4. TypeOK' /\ Bounded' /\ Owned' /\ SuccessIsReal'
    BY <1>4, <1>t, <2>3, Removed DEF Refused, TypeOK, Owned, SuccessIsReal
  <2>5. finished'[i] = 1 /\ \A k \in Id : k # i => finished'[k] = finished[k]
    BY <1>t, <2>3 DEF TypeOK
  <2>6. Life'
    BY <1>4, <1>t, <2>1, <2>5 DEF Refused, Life
  <2>7. QED
    BY <2>4, <2>6 DEF IInv
<1>5. ASSUME NEW i \in Id, Cancel(i) PROVE IInv'
  <2>1. TypeOK'
    BY <1>5, <1>t DEF Cancel, Kill, TypeOK
  <2>2. QED
    BY <1>5, <1>t, <2>1, JobKeeps DEF Cancel, Owned, TypeOK
<1>6. ASSUME NEW i \in Id, Timeout(i) PROVE IInv'
  <2>1. TypeOK' /\ i \in jobs
    BY <1>6, <1>t DEF Timeout, TimeoutKills, Kill, TypeOK, Owned
  <2>2. QED
    BY <1>6, <1>t, <2>1, JobKeeps DEF Timeout, Owned, TypeOK
<1>7. ASSUME NEW i \in Id, FailedToStart(i) PROVE IInv'
  BY <1>7, FinishKeeps DEF FailedToStart, Running
<1>f. ASSUME NEW i \in Id, StartFails(i) PROVE IInv'
  BY <1>f, FinishKeeps DEF StartFails, Unused
<1>8. ASSUME NEW i \in Id, Finished(i) PROVE IInv'
  BY <1>8, <1>t, FinishKeeps DEF Finished, Running, TypeOK
<1>9. ASSUME NEW i \in Id, NEW n \in 1..2, Output(i, n) PROVE IInv'
  <2>1. i \in jobs
    BY <1>9, <1>t DEF Output, Owned, Running
  <2>2. TypeOK'
    <3>1. CASE TooMuch(i, n)
      BY <1>9, <1>t, <3>1 DEF Output, Kill, TypeOK
    <3>2. CASE ~TooMuch(i, n)
      <4>1. output[i] + n \in 0..MaxOutput
        <5>1. output[i] \in 0..MaxOutput
          BY <1>t DEF TypeOK
        <5>2. QED
          BY <3>2, <5>1, LimitAssumption DEF TooMuch
      <4>2. QED
        BY <1>9, <1>t, <3>2, <4>1 DEF Output, TypeOK
    <3>3. QED
      BY <3>1, <3>2
  <2>3. \A j \in Id \ {i} : failure'[j] = failure[j]
    BY <1>9, <1>t DEF Output, TypeOK
  <2>4. QED
    BY <1>9, <1>t, <2>1, <2>2, <2>3, JobKeeps DEF Output, Running
<1>10. ASSUME NEW i \in Id, Started(i) PROVE IInv'
  <2>1. TypeOK' /\ i \in jobs
    BY <1>10, <1>t DEF Started, TypeOK, Owned, Running
  <2>2. /\ child'[i] \in Running
        /\ \A j \in Id \ {i} : child'[j] = child[j]
    BY <1>10, <1>t DEF Started, Running, TypeOK
  <2>3. QED
    BY <1>10, <2>1, <2>2, JobKeeps DEF Started
<1>11. ASSUME NEW i \in Id, NEW x \in {"ok", "error", "crash"}, Ended(i, x) PROVE IInv'
  <2>1. TypeOK' /\ i \in jobs
    BY <1>11, <1>t DEF Ended, TypeOK, Owned, Running
  <2>2. /\ child'[i] \in Running
        /\ \A j \in Id \ {i} : child'[j] = child[j] /\ exit'[j] = exit[j]
    BY <1>11, <1>t DEF Ended, Running, TypeOK
  <2>3. QED
    BY <1>11, <2>1, <2>2, JobKeeps DEF Ended
<1>12. CASE UNCHANGED vars
  BY <1>12, <1>t, Removed DEF vars, jobVars, IInv, TypeOK, Owned, Life, SuccessIsReal
<1>13. QED
  BY <1>1, <1>2, <1>3, <1>4, <1>5, <1>6, <1>7, <1>f, <1>8, <1>9, <1>10, <1>11, <1>12 DEF Next, Step

LEMMA Invariant == Spec => []IInv
  BY InvInit, InvNext, PTL DEF Spec

-----------------------------------------------------------------------------
\* A reported success is the exit code 0 of a process that nobody cancelled,
\* that was in time and that kept to the output limit, however these race with
\* its end.
THEOREM SuccessReal == Spec => []SuccessIsReal
<1>1. IInv => SuccessIsReal
  BY DEF IInv
<1>2. QED
  BY Invariant, <1>1, PTL

\* Every process that was not reported belongs to a job in the table of an
\* object that exists, and the table keeps to its limit.
THEOREM ProcessesOwned == Spec => []ProcessesAreOwned
<1>1. IInv => ProcessesAreOwned
  BY DEF IInv, ProcessesAreOwned, Bounded, Owned, Running
<1>2. QED
  BY Invariant, <1>1, PTL

-----------------------------------------------------------------------------
(* The contract of jobs *)

\* What the contract counts as under way is the table.
LEMMA RunningJobs ==
  ASSUME IInv PROVE Jobs!In({"running"}) = jobs
<1>1. \A i \in Id : JobStage(i) = "running" <=> i \in jobs
  <2> TAKE i \in Id
  <2>1. CASE i \in jobs
    <3>1. finished[i] = 0 /\ alive
      BY <2>1 DEF IInv, Life, Owned
    <3>2. QED
      BY <2>1, <3>1 DEF JobStage
  <2>2. CASE i \notin jobs
    BY <2>2 DEF JobStage
  <2>3. QED
    BY <2>1, <2>2
<1>2. jobs \subseteq Id
  BY DEF IInv, TypeOK
<1>3. QED
  BY <1>1, <1>2 DEF Jobs!In

LEMMA ContractMove ==
  ASSUME NEW S, NEW stage,
         \A i \in Id : JobStage(i)' = IF i \in S THEN stage ELSE JobStage(i)
  PROVE  Jobs!Move(S, stage)
  BY DEF Jobs!Move

\* start() of an id that is new, while the table has room.
LEMMA ContractRoom ==
  ASSUME IInv, NEW i \in Id, alive, UNCHANGED alive, ~Full,
         finished[i] = 0, i \notin jobs \cup refused
  PROVE  Jobs!Room(i)
<1>1. i \in Jobs!In({"new"})
  BY DEF JobStage, Jobs!In
<1>2. Cardinality(jobs) \in Nat
  BY FS_CardinalityType DEF IInv, Bounded
<1>3. Cardinality(jobs) < MaxJobs
  BY <1>2, LimitAssumption DEF Full
<1>4. Cardinality(Jobs!In({"running"})) < MaxJobs
  BY <1>3, RunningJobs
<1>5. alive /\ alive' = alive
  OBVIOUS
<1>6. QED
  BY <1>1, <1>4, <1>5 DEF Jobs!Room, Jobs!Cardinality, Cardinality

\* A step that reports job i and touches no other.
LEMMA ContractReport ==
  ASSUME IInv, NEW i \in Id, i \in jobs \cup refused, alive, UNCHANGED alive,
         finished' = [finished EXCEPT ![i] = 1],
         \A k \in Id \ {i} : (k \in jobs' <=> k \in jobs) /\ (k \in refused' <=> k \in refused)
  PROVE  Jobs!Next
<1>1. finished[i] = 0 /\ finished \in [Id -> {0, 1}]
  BY DEF IInv, Life, TypeOK
<1>2. JobStage(i) \in {"running", "refused"}
  BY <1>1 DEF JobStage
<1>3. finished'[i] = 1 /\ \A k \in Id \ {i} : finished'[k] = finished[k]
  BY <1>1
<1>4. \A k \in Id : JobStage(k)' = IF k \in {i} THEN "reported" ELSE JobStage(k)
  BY <1>3 DEF JobStage
<1>5. Jobs!Move({i}, "reported")
  BY <1>4, ContractMove
<1>6. {i} \subseteq Jobs!In({"running", "refused"})
  BY <1>2 DEF Jobs!In
<1>7. Jobs!Report({i})
  BY <1>5, <1>6 DEF Jobs!Report
<1>8. QED
  BY <1>7 DEF Jobs!Next

\* finish() of a job whose process has not been reported.
LEMMA ContractFinish ==
  ASSUME IInv, NEW i \in Id, alive, child[i] \in Running, NEW f, Finish(i, f)
  PROVE  Jobs!Next
<1>1. i \in jobs /\ ~completed[i]
  BY DEF IInv, Owned, Life, Running
<1>2. finished[i] = 0
  BY <1>1 DEF IInv, Life
<1>3. finished' = [finished EXCEPT ![i] = 1]
  <2>1. finished' = [finished EXCEPT ![i] = finished[i] + 1]
    BY <1>1 DEF Finish, First
  <2>2. QED
    BY <1>2, <2>1, FirstReport
<1>4. jobs' = jobs \ {i} /\ UNCHANGED <<alive, refused>>
  BY <1>1 DEF Finish, First
<1>5. QED
  BY <1>1, <1>3, <1>4, ContractReport

LEMMA ContractInit == Init => Jobs!Init
<1> SUFFICES ASSUME Init PROVE Jobs!Init
  OBVIOUS
<1>1. alive = TRUE /\ jobs = {} /\ refused = {} /\ \A i \in Id : finished[i] = 0
  BY DEF Init
<1>2. \A i \in Id : JobStage(i) = "new"
  BY <1>1 DEF JobStage
<1>3. QED
  BY <1>1, <1>2 DEF Jobs!Init

\* Every step is a step of the contract, or leaves all stages alone.
LEMMA ContractNext ==
  IInv /\ [Next]_vars => [Jobs!Next]_(<<alive, [i \in Id |-> JobStage(i)]>>)
<1> SUFFICES ASSUME IInv, [Next]_vars
             PROVE  Jobs!Next \/ UNCHANGED <<alive, [i \in Id |-> JobStage(i)]>>
  OBVIOUS
<1>0. ASSUME UNCHANGED <<alive, jobs, refused, finished>>
      PROVE  UNCHANGED <<alive, [i \in Id |-> JobStage(i)]>>
  BY <1>0 DEF JobStage
<1>1. CASE Destroy
  <2>1. \A i \in Id : finished[i] \in {0, 1} /\ finished'[i] = finished[i]
    BY <1>1 DEF IInv, TypeOK, Destroy
  <2>2. alive /\ alive' = FALSE
    BY <1>1 DEF Destroy
  <2>3. \A i \in Id : finished[i] = 1 => JobStage(i) = "reported" /\ JobStage(i)' = "reported"
    BY <2>1 DEF JobStage
  <2>4. \A i \in Id : finished[i] = 0 =>
          JobStage(i) \in {"new", "running", "refused"} /\ JobStage(i)' = "void"
    BY <2>1, <2>2 DEF JobStage
  <2>5. \A i \in Id : i \in Jobs!In({"new", "running", "refused"}) <=> finished[i] = 0
    BY <2>1, <2>3, <2>4 DEF Jobs!In
  <2>6. \A i \in Id : JobStage(i)' =
          IF i \in Jobs!In({"new", "running", "refused"}) THEN "void" ELSE JobStage(i)
    BY <2>1, <2>3, <2>4, <2>5
  <2>7. Jobs!Close
    BY <2>2, <2>6, ContractMove DEF Jobs!Close
  <2>8. QED
    BY <2>7 DEF Jobs!Next
<1>2. ASSUME NEW i \in Id, NEW j \in BOOLEAN, Start(i, j) PROVE Jobs!Next
  <2>1. alive /\ UNCHANGED <<alive, refused, finished>> /\ jobs' = jobs \cup {i}
    BY <1>2 DEF Start, Unused
  <2>2. finished[i] = 0 /\ i \notin jobs \cup refused /\ ~Full
    BY <1>2 DEF Start, Unused
  <2>3. JobStage(i)' = "running"
    BY <2>1, <2>2 DEF JobStage
  <2>4. \A k \in Id : JobStage(k)' = IF k \in {i} THEN "running" ELSE JobStage(k)
    BY <2>1, <2>3 DEF JobStage
  <2>5. Jobs!Accept(i)
    BY <2>1, <2>2, <2>4, ContractRoom, ContractMove DEF Jobs!Accept
  <2>6. QED
    BY <2>5 DEF Jobs!Next
<1>10. ASSUME NEW i \in Id, StartFails(i) PROVE Jobs!Next
  <2>1. /\ alive /\ finished[i] = 0 /\ i \notin jobs \cup refused /\ ~Full /\ Immediate
        /\ ~completed[i]
    <3>1. alive /\ finished[i] = 0 /\ i \notin jobs \cup refused /\ ~Full /\ Immediate
      BY <1>10 DEF StartFails, Unused
    <3>2. finished[i] # 1
      BY <3>1
    <3>3. ~completed[i]
      BY <3>1, <3>2 DEF IInv, Life
    <3>4. QED
      BY <3>1, <3>3
  <2>2. finished' = [finished EXCEPT ![i] = 1]
    <3>1. finished' = [finished EXCEPT ![i] = finished[i] + 1]
      BY <1>10, <2>1 DEF StartFails, Finish, First
    <3>2. QED
      BY <2>1, <3>1, FirstReport
  <2>3. jobs' = jobs \ {i} /\ UNCHANGED <<alive, refused>>
    BY <1>10, <2>1 DEF StartFails, Finish, First
  <2>4. finished'[i] = 1 /\ \A k \in Id \ {i} : finished'[k] = finished[k]
    BY <2>2 DEF IInv, TypeOK
  <2>5. \A k \in Id : JobStage(k)' = IF k \in {i} THEN "reported" ELSE JobStage(k)
    BY <2>3, <2>4 DEF JobStage
  <2>6. Jobs!Fail(i)
    BY <2>1, <2>3, <2>5, ContractRoom, ContractMove DEF Jobs!Fail
  <2>7. QED
    BY <2>6 DEF Jobs!Next
<1>3. ASSUME NEW i \in Id, Refuse(i) PROVE Jobs!Next
  <2>1. alive /\ UNCHANGED <<alive, jobs, finished>> /\ refused' = refused \cup {i}
    BY <1>3 DEF Refuse, Unused, jobVars
  <2>2. finished[i] = 0 /\ i \notin jobs \cup refused
    BY <1>3 DEF Refuse, Unused
  <2>3. JobStage(i) = "new" /\ JobStage(i)' = "refused"
    BY <2>1, <2>2 DEF JobStage
  <2>4. \A k \in Id : JobStage(k)' = IF k \in {i} THEN "refused" ELSE JobStage(k)
    BY <2>1, <2>3 DEF JobStage
  <2>5. Jobs!Refuse(i)
    BY <2>1, <2>3, <2>4, ContractMove DEF Jobs!Refuse, Jobs!In
  <2>6. QED
    BY <2>5 DEF Jobs!Next
<1>4. ASSUME NEW i \in Id, Refused(i) PROVE Jobs!Next
  <2>1. finished[i] = 0 /\ i \in refused /\ alive
    BY <1>4 DEF Refused, IInv, Life
  <2>2. finished' = [finished EXCEPT ![i] = 1]
    <3>1. finished' = [finished EXCEPT ![i] = finished[i] + 1]
      BY <1>4 DEF Refused
    <3>2. QED
      BY <2>1, <3>1, FirstReport
  <2>3. refused' = refused \ {i} /\ UNCHANGED <<alive, jobs>>
    BY <1>4 DEF Refused
  <2>4. QED
    BY <2>1, <2>2, <2>3, ContractReport
<1>5. ASSUME NEW i \in Id, FailedToStart(i) PROVE Jobs!Next
  BY <1>5, ContractFinish DEF FailedToStart, Running
<1>6. ASSUME NEW i \in Id, Finished(i) PROVE Jobs!Next
  BY <1>6, ContractFinish DEF Finished, Running
<1>7. ASSUME NEW i \in Id,
             \/ Cancel(i) \/ Timeout(i) \/ Started(i)
             \/ \E n \in 1..2 : Output(i, n)
             \/ \E x \in {"ok", "error", "crash"} : Ended(i, x)
      PROVE  UNCHANGED <<alive, [k \in Id |-> JobStage(k)]>>
  BY <1>0, <1>7 DEF Cancel, Timeout, Started, Output, Ended
<1>8. CASE UNCHANGED vars
  BY <1>0, <1>8 DEF vars, jobVars
<1>9. QED
  BY <1>1, <1>2, <1>3, <1>4, <1>5, <1>6, <1>7, <1>8, <1>10 DEF Next, Step

\* StorageBridge implements the contract of jobs, for any ids and limits: every
\* start() is accepted with room in the table or refused, is reported once, in a
\* later step but for a failure inside start() where QProcess reports one, and
\* never after the destructor.
THEOREM JobsImplemented == Spec => ImplementsJobs
<1>1. Init => Jobs!Init
  BY ContractInit
<1>2. IInv /\ [Next]_vars => [Jobs!Next]_(<<alive, [i \in Id |-> JobStage(i)]>>)
  BY ContractNext
<1>3. QED
  BY <1>1, <1>2, Invariant, PTL DEF Spec, ImplementsJobs, Jobs!Spec
=============================================================================
