------------------------- MODULE DurableRunsProofs -------------------------
(***************************************************************************)
(* Proofs about DurableRuns, for any number of runs, slots and streams.    *)
(* They rest on ConstantsAssumption, FirstDispatch on ~SetupRaises too.    *)
(* Five inductive invariants carry them: TypeOK; FenceInv, that no         *)
(* promotion overtakes a read; StagedInv, that a run past its source has   *)
(* its whole selection staged; SettledInv, that a slot which records the   *)
(* end of a job has seen its run stop; and DispatchInv, that nothing can   *)
(* fail the job of a run before the run was started.                       *)
(***************************************************************************)
EXTENDS DurableRuns, TLAPS

USE DEF runVars, stateVars, workerVars

\* States in which a worker slot has a run.
AtWork == Pc \ {"idle", "dead"}

\* What a slot has read before it reads anything is well typed.
LEMMA UnreadType == Unread \in [Stream -> StateRow]
  BY DEF Unread, NoState, StateRow

\* So is what it remembers before a claim.
LEMMA NoTaskType == NoTask \in Task
  BY DEF NoTask, Task, JobType

\* A requeued job row is well typed.
LEMMA QueuedJobType == ASSUME NEW t \in JobType PROVE QueuedJob(t) \in JobRow
  BY ConstantsAssumption DEF QueuedJob, JobRow

\* A slot inside _process_job has a run.
LEMMA WorkerHasRun ==
  ASSUME TypeOK, NEW w \in Worker, pc[w] \notin {"idle", "dead"}
  PROVE  wrun[w] \in Run
  BY DEF TypeOK, WorkerTypeOK

\* Moving on inside _process_job keeps the slot well typed.
LEMMA GotoType ==
  ASSUME TypeOK, NEW w \in Worker, NEW next \in AtWork, pc[w] \in AtWork,
         Goto(w, next), wrun' = wrun, task' \in [Worker -> Task]
  PROVE  WorkerTypeOK'
  BY UnreadType DEF TypeOK, WorkerTypeOK, Goto, AtWork, Pc

\* So does the return of execute_run_job ...
LEMMA ReturnedType ==
  ASSUME TypeOK, NEW w \in Worker, NEW status, pc[w] \in AtWork, Returned(w, status)
  PROVE  WorkerTypeOK'
<1>1. task' \in [Worker -> Task]
  BY DEF Returned, TypeOK, WorkerTypeOK, Task
<1>2. "finalize" \in AtWork
  BY DEF AtWork, Pc
<1> QED
  BY <1>1, <1>2, GotoType DEF Returned

\* ... an exception out of it ...
LEMMA RaisedType ==
  ASSUME TypeOK, NEW w \in Worker, pc[w] \in AtWork, Raised(w)
  PROVE  WorkerTypeOK'
<1>1. task' \in [Worker -> Task]
  BY DEF Raised, TypeOK, WorkerTypeOK, Task
<1>2. "markfail" \in AtWork
  BY DEF AtWork, Pc
<1> QED
  BY <1>1, <1>2, GotoType DEF Raised

\* ... and going back to the claim loop.
LEMMA BecomeIdleType ==
  ASSUME TypeOK, NEW w \in Worker, BecomeIdle(w)
  PROVE  WorkerTypeOK'
  BY UnreadType, NoTaskType, ConstantsAssumption DEF TypeOK, WorkerTypeOK, BecomeIdle, Pc

\* Committing a run_nodes row keeps the node rows well typed.
LEMMA CommitNodeRowType ==
  ASSUME TypeOK, NEW w \in Worker, NEW n \in NodeId, NEW status \in NodeRow,
         pc[w] \in AtWork, CommitNodeRow(w, n, status)
  PROVE  nodes' \in [Run -> [NodeId -> NodeRow]]
<1>1. wrun[w] \in Run
  BY WorkerHasRun DEF AtWork
<1>2. nodes \in [Run -> [NodeId -> NodeRow]]
  BY DEF TypeOK, StateTypeOK
<1>3. [nodes[wrun[w]] EXCEPT ![n] = status] \in [NodeId -> NodeRow]
  BY <1>1, <1>2
<1>4. CASE nodes' = [nodes EXCEPT ![wrun[w]] = [nodes[wrun[w]] EXCEPT ![n] = status]]
  BY <1>1, <1>2, <1>3, <1>4
<1>5. CASE UNCHANGED nodes
  BY <1>2, <1>5
<1> QED
  BY <1>4, <1>5 DEF CommitNodeRow

\* The initial state is well typed.
LEMMA TypeInit == Init => TypeOK
<1> SUFFICES ASSUME Init PROVE TypeOK
  OBVIOUS
<1>1. RunTypeOK
  BY ConstantsAssumption DEF Init, RunTypeOK, RunStatus, NoJob, JobRow, JobType
<1>2. StateTypeOK
  BY DEF Init, StateTypeOK, NodeRow, NoCand, CandRow, NoState, StateRow
<1>3. WorkerTypeOK
  BY UnreadType, NoTaskType, ConstantsAssumption DEF Init, WorkerTypeOK, Pc
<1> QED
  BY <1>1, <1>2, <1>3 DEF TypeOK

\* Requests, recovery and the clock leave the worker slots alone.
LEMMA TypeRequests ==
  ASSUME TypeOK, NEW r \in Run, Request(r) \/ Tick(r) \/ RecoverOrphanedRuns
  PROVE  TypeOK'
<1>1. WorkerTypeOK'
  BY DEF TypeOK, WorkerTypeOK, Request, CreateRun, CancelRun, PauseRun, ResumeRun,
         RetryFailedRun, Tick, RecoverOrphanedRuns
<1>2. job' \in [Run -> JobRow]
  <2> USE DEF TypeOK, RunTypeOK
  <2>1. \A t \in JobType : QueuedJob(t) \in JobRow
    BY QueuedJobType
  <2>2. \A q \in Run : job[q].type \in JobType
    BY DEF JobRow
  <2>3. ASSUME NEW streams \in SUBSET Stream, CreateRun(r, streams) PROVE job' \in [Run -> JobRow]
    BY <2>1, <2>3 DEF CreateRun, JobType
  <2>4. CASE CancelRun(r) \/ PauseRun(r)
    BY <2>4 DEF CancelRun, PauseRun
  <2>5. CASE ResumeRun(r)
    BY <2>1, <2>2, <2>5 DEF ResumeRun
  <2>6. CASE RetryFailedRun(r)
    BY <2>1, <2>6 DEF RetryFailedRun, JobType
  <2>7. CASE Tick(r)
    BY <2>7, ConstantsAssumption DEF Tick, JobRow
  <2>8. CASE RecoverOrphanedRuns
    BY <2>1, <2>8 DEF RecoverOrphanedRuns, JobType
  <2> QED
    BY <2>3, <2>4, <2>5, <2>6, <2>7, <2>8 DEF Request
<1>3. runStatus' \in [Run -> RunStatus] /\ selected' \in [Run -> SUBSET Stream]
  BY DEF TypeOK, RunTypeOK, Request, CreateRun, CancelRun, PauseRun, ResumeRun,
         RetryFailedRun, Tick, RecoverOrphanedRuns, RunStatus, Terminal
<1>4. StateTypeOK'
  <2>1. [s \in Stream |-> NoCand] \in [Stream -> CandRow]
    BY DEF NoCand, CandRow
  <2> QED
    BY <2>1 DEF TypeOK, StateTypeOK, Request, CreateRun, CancelRun, PauseRun, ResumeRun,
                RetryFailedRun, Tick, RecoverOrphanedRuns
<1> QED
  BY <1>1, <1>2, <1>3, <1>4 DEF TypeOK, RunTypeOK

\* Steps of a worker that write neither the runs nor their state.
LEMMA TypeQuietSteps ==
  ASSUME TypeOK, NEW w \in Worker,
         \/ LoadJobLost(w) \/ LoadJob(w) \/ StopNoticed(w) \/ SourceRead(w)
         \/ SourceLeaseLost(w) \/ CompletionSkipped(w) \/ CompletionDeclined(w)
         \/ CompletionRejected(w) \/ FailRunLeaseLost(w) \/ HeartbeatLost(w)
         \/ StepRaises(w) \/ HandlerRaises(w) \/ Interrupt(w) \/ Crash(w)
  PROVE  TypeOK'
<1>1. UNCHANGED <<runVars, stateVars>>
  BY DEF LoadJobLost, LoadJob, StopNoticed, SourceRead, SourceLeaseLost, CompletionSkipped,
         CompletionDeclined, CompletionRejected, FailRunLeaseLost, HeartbeatLost,
         StepRaises, HandlerRaises, Interrupt, Crash
<1>2. WorkerTypeOK'
  <2> USE DEF AtWork, Pc
  <2>1. CASE LoadJobLost(w) \/ HandlerRaises(w)
    BY <2>1, BecomeIdleType DEF LoadJobLost, HandlerRaises
  <2>2. CASE LoadJob(w)
    <3>1. CASE Returned(w, runStatus[wrun[w]])
      BY <2>2, <3>1, ReturnedType DEF LoadJob
    <3>2. CASE Goto(w, "start") /\ task' = [task EXCEPT ![w].mode = job[wrun[w]].type] /\ UNCHANGED wrun
      <4>1. wrun[w] \in Run
        BY <2>2, WorkerHasRun DEF LoadJob
      <4>2. task' \in [Worker -> Task]
        BY <3>2, <4>1, ZenonT(40) DEF TypeOK, RunTypeOK, WorkerTypeOK, Task, JobRow
      <4> QED
        BY <2>2, <3>2, <4>2, GotoType DEF LoadJob
    <3> QED
      BY <2>2, <3>1, <3>2 DEF LoadJob
  <2>3. CASE StopNoticed(w) \/ CompletionSkipped(w) \/ CompletionDeclined(w)
    BY <2>3, ReturnedType DEF StopNoticed, CompletionSkipped, CompletionDeclined
  <2>4. CASE SourceRead(w)
    BY <2>4 DEF SourceRead, TypeOK, WorkerTypeOK, StateTypeOK
  <2>5. CASE SourceLeaseLost(w) \/ CompletionRejected(w) \/ FailRunLeaseLost(w) \/ StepRaises(w)
    BY <2>5, RaisedType DEF SourceLeaseLost, CompletionRejected, FailRunLeaseLost,
                            StepRaises, Processing
  <2>6. CASE HeartbeatLost(w) \/ Interrupt(w)
    <3>1. CASE BecomeIdle(w)
      BY <3>1, BecomeIdleType
    <3>2. CASE Goto(w, "releasing") /\ UNCHANGED <<wrun, task>>
      <4>1. task' \in [Worker -> Task]
        BY <3>2 DEF TypeOK, WorkerTypeOK
      <4> QED
        BY <2>6, <3>2, <4>1, GotoType DEF HeartbeatLost, Interrupt, Processing
    <3> QED
      BY <2>6, <3>1, <3>2 DEF HeartbeatLost, Interrupt, Interrupted
  <2>7. CASE Crash(w)
    BY <2>7, UnreadType, NoTaskType, ConstantsAssumption DEF Crash, TypeOK, WorkerTypeOK
  <2> QED
    BY <2>1, <2>2, <2>3, <2>4, <2>5, <2>6, <2>7
<1> QED
  BY <1>1, <1>2 DEF TypeOK, RunTypeOK, StateTypeOK

\* Steps of the queue and of a worker that write job rows only.
LEMMA TypeJobSteps ==
  ASSUME TypeOK, NEW w \in Worker,
         \/ \E r \in Run : Claim(w, r)
         \/ Heartbeat(w) \/ FinalizeRunJob(w) \/ ReleaseRunJob(w)
  PROVE  TypeOK'
<1>1. /\ runStatus' = runStatus /\ selected' = selected
      /\ UNCHANGED stateVars
  BY DEF Claim, Heartbeat, FinalizeRunJob, ReleaseRunJob
<1>2. job' \in [Run -> JobRow] /\ WorkerTypeOK'
  <2> USE DEF TypeOK, RunTypeOK
  <2>1. ASSUME NEW r \in Run, Claim(w, r) PROVE job' \in [Run -> JobRow] /\ WorkerTypeOK'
    <3>1. job' \in [Run -> JobRow]
      <4>1. LeasedJob(w, job[r].type) \in JobRow
        BY ConstantsAssumption DEF JobRow, LeasedJob
      <4> QED
        BY <2>1, <4>1 DEF Claim
    <3>2. ASSUME NEW v \in Worker PROVE task'[v] \in Task
      BY <2>1 DEF Claim, NoTask, Task, JobType, WorkerTypeOK
    <3>3. task' \in [Worker -> Task]
      BY <2>1, <3>2 DEF Claim
    <3> QED
      BY <2>1, <3>1, <3>3, ConstantsAssumption DEF Claim, WorkerTypeOK, Pc
  <2>2. CASE Heartbeat(w)
    <3>1. wrun[w] \in Run
      BY <2>2, WorkerHasRun DEF Heartbeat, Processing
    <3>2. [job[wrun[w]] EXCEPT !.ttl = LeaseTTL] \in JobRow
      BY <3>1, ConstantsAssumption DEF JobRow
    <3>3. job' \in [Run -> JobRow]
      BY <2>2, <3>1, <3>2 DEF Heartbeat
    <3>4. WorkerTypeOK'
      BY <2>2 DEF Heartbeat, WorkerTypeOK
    <3> QED
      BY <3>3, <3>4
  <2>3. CASE FinalizeRunJob(w)
    <3>1. wrun[w] \in Run
      BY <2>3, WorkerHasRun DEF FinalizeRunJob
    <3>2. QueuedJob(job[wrun[w]].type) \in JobRow
      BY <3>1, QueuedJobType DEF JobRow
    <3>3. FinishedJob(w, wrun[w]) \in JobRow
      BY <3>1, ConstantsAssumption DEF FinishedJob, JobRow
    <3>4. FinalizedJob(w, wrun[w]) \in JobRow
      BY <3>1, <3>2, <3>3 DEF FinalizedJob
    <3>5. job' \in [Run -> JobRow]
      BY <2>3, <3>1, <3>4 DEF FinalizeRunJob
    <3> QED
      BY <2>3, <3>5, BecomeIdleType DEF FinalizeRunJob
  <2>4. CASE ReleaseRunJob(w)
    <3>1. wrun[w] \in Run
      BY <2>4, WorkerHasRun DEF ReleaseRunJob
    <3>2. QueuedJob(job[wrun[w]].type) \in JobRow
      BY <3>1, QueuedJobType DEF JobRow
    <3> QED
      BY <2>4, <3>1, <3>2, BecomeIdleType DEF ReleaseRunJob
  <2> QED
    BY <2>1, <2>2, <2>3, <2>4
<1> QED
  BY <1>1, <1>2 DEF TypeOK, RunTypeOK, StateTypeOK

\* Steps of a worker that write a run, its node rows or its source state.
LEMMA TypeRunSteps ==
  ASSUME TypeOK, NEW w \in Worker,
         \/ StartRun(w) \/ SourceDone(w) \/ SinkDone(w) \/ CompleteRun(w) \/ FailRun(w)
         \/ MarkRunFailedIfOwned(w) \/ SetupFails(w) \/ SourceFails(w) \/ SinkFails(w)
  PROVE  TypeOK'
<1> USE DEF AtWork, Pc
<1>1. pc[w] \in AtWork /\ wrun[w] \in Run
  BY WorkerHasRun DEF StartRun, SourceDone, SinkDone, CompleteRun, FailRun,
     MarkRunFailedIfOwned, SetupFails, SourceFails, SinkFails
<1>2. RunTypeOK'
  BY <1>1 DEF TypeOK, RunTypeOK, StartRun, SourceDone, SinkDone, CompleteRun, FailRun,
     FailedStatus, MarkRunFailedIfOwned, SetupFails, SourceFails, SinkFails, NodeFailed, RunStatus, Terminal
<1>3. task \in [Worker -> Task] /\ nodes \in [Run -> [NodeId -> NodeRow]]
  BY DEF TypeOK, WorkerTypeOK, StateTypeOK
<1>4. "completed" \in NodeRow /\ "failed" \in NodeRow /\ "source" \in NodeId /\ "sink" \in NodeId
  BY DEF NodeRow, NodeId
<1>5. ASSUME NEW n \in NodeId, NodeFailed(w, n) PROVE StateTypeOK' /\ WorkerTypeOK'
  <2>1. nodes' \in [Run -> [NodeId -> NodeRow]]
    BY <1>1, <1>3, <1>4, <1>5, CommitNodeRowType DEF NodeFailed
  <2>2. task' \in [Worker -> Task]
    BY <1>3, <1>5 DEF NodeFailed, Task
  <2> QED
    BY <1>1, <1>5, <2>1, <2>2, GotoType DEF NodeFailed, TypeOK, StateTypeOK
<1>6. CASE StartRun(w)
  <2>1. StateTypeOK'
    BY <1>6 DEF StartRun, TypeOK, StateTypeOK
  <2>2. CASE \E status : Returned(w, status)
    BY <1>1, <1>2, <2>1, <2>2, ReturnedType DEF TypeOK
  <2>3. CASE /\ \E p \in {"source", "sink"} : Goto(w, p)
             /\ task' = [task EXCEPT ![w].mode = IF FailedNodes(wrun[w]) = {} THEN "full" ELSE @]
             /\ UNCHANGED wrun
    <3>1. task' \in [Worker -> Task]
      BY <1>3, <2>3 DEF Task, JobType
    <3> QED
      BY <1>1, <1>2, <2>1, <2>3, <3>1, GotoType DEF TypeOK
  <2> QED
    BY <1>2, <1>6, <2>1, <2>2, <2>3 DEF StartRun, TypeOK
<1>7. CASE SourceDone(w)
  <2>1. nodes' \in [Run -> [NodeId -> NodeRow]]
    BY <1>1, <1>4, <1>7, CommitNodeRowType DEF SourceDone
  <2>2. ASSUME NEW s \in Stream PROVE StagedCandidate(w, s) \in CandRow
    BY DEF StagedCandidate, NoCand, CandRow, TypeOK, StateTypeOK, WorkerTypeOK, StateRow
  <2>3. [s \in Stream |-> IF s \in ConfiguredStreams(w) THEN StagedCandidate(w, s)
                          ELSE cand[wrun[w]][s]] \in [Stream -> CandRow]
    BY <1>1, <2>2 DEF TypeOK, StateTypeOK
  <2>4. cand' \in [Run -> [Stream -> CandRow]]
    BY <1>1, <1>7, <2>3 DEF SourceDone, TypeOK, StateTypeOK
  <2>5. WorkerTypeOK'
    BY <1>1, <1>3, <1>7, GotoType DEF SourceDone
  <2> QED
    BY <1>2, <1>7, <2>1, <2>4, <2>5 DEF SourceDone, TypeOK, StateTypeOK
<1>8. CASE SinkDone(w)
  <2>1. nodes' \in [Run -> [NodeId -> NodeRow]]
    BY <1>1, <1>4, <1>8, CommitNodeRowType DEF SinkDone
  <2>2. WorkerTypeOK'
    BY <1>1, <1>3, <1>8, GotoType DEF SinkDone
  <2> QED
    BY <1>2, <1>8, <2>1, <2>2 DEF SinkDone, TypeOK, StateTypeOK
<1>9. CASE CompleteRun(w)
  <2>1. ASSUME NEW s \in Stream PROVE Promoted(wrun[w], s) \in StateRow
    BY <1>1 DEF Promoted, TypeOK, StateTypeOK, StateRow
  <2>2. [s \in Stream |-> NoCand] \in [Stream -> CandRow]
    BY DEF NoCand, CandRow
  <2>3. StateTypeOK'
    BY <1>1, <1>9, <2>1, <2>2 DEF CompleteRun, TypeOK, StateTypeOK
  <2>4. WorkerTypeOK'
    BY <1>1, <1>9, ReturnedType DEF CompleteRun
  <2> QED
    BY <1>2, <2>3, <2>4 DEF TypeOK
<1>10. CASE FailRun(w)
  <2>1. nodes' \in [Run -> [NodeId -> NodeRow]]
    <3>1. task[w].failed \in NodeId \cup {"none"}
      BY <1>3 DEF Task
    <3> QED
      BY <1>1, <1>3, <1>4, <1>10, <3>1, CommitNodeRowType DEF FailRun
  <2>2. WorkerTypeOK'
    BY <1>1, <1>10, ReturnedType DEF FailRun
  <2> QED
    BY <1>2, <1>10, <2>1, <2>2 DEF FailRun, TypeOK, StateTypeOK
<1>11. CASE MarkRunFailedIfOwned(w)
  <2>1. WorkerTypeOK'
    BY <1>1, <1>3, <1>11, GotoType DEF MarkRunFailedIfOwned
  <2> QED
    BY <1>2, <1>11, <2>1 DEF MarkRunFailedIfOwned, TypeOK, StateTypeOK
<1>12. CASE SetupFails(w)
  <2>1. task' \in [Worker -> Task]
    BY <1>3, <1>12 DEF SetupFails, Task
  <2>2. WorkerTypeOK'
    BY <1>1, <1>12, <2>1, GotoType DEF SetupFails
  <2> QED
    BY <1>2, <1>12, <2>2 DEF SetupFails, TypeOK, StateTypeOK
<1>13. CASE SourceFails(w) \/ SinkFails(w)
  BY <1>2, <1>4, <1>5, <1>13 DEF SourceFails, SinkFails, TypeOK
<1> QED
  BY <1>6, <1>7, <1>8, <1>9, <1>10, <1>11, <1>12, <1>13

\* Every step keeps the types.
LEMMA TypeNext == TypeOK /\ [Next]_vars => TypeOK'
<1> SUFFICES ASSUME TypeOK, [Next]_vars PROVE TypeOK'
  OBVIOUS
<1>1. CASE UNCHANGED vars
  BY <1>1 DEF vars, TypeOK, RunTypeOK, StateTypeOK, WorkerTypeOK
<1>2. ASSUME NEW r \in Run, Request(r) \/ Tick(r) PROVE TypeOK'
  BY <1>2, TypeRequests
<1>3. CASE RecoverOrphanedRuns
  <2>1. PICK r \in Run : TRUE
    BY <1>3 DEF RecoverOrphanedRuns, OrphanedRuns
  <2> QED
    BY <1>3, TypeRequests
<1>4. ASSUME NEW w \in Worker,
             (\E r \in Run : Claim(w, r)) \/ Heartbeat(w) \/ WorkerStep(w) \/ Fault(w)
      PROVE  TypeOK'
  BY <1>4, TypeQuietSteps, TypeJobSteps, TypeRunSteps DEF WorkerStep, Fault
<1> QED
  BY <1>1, <1>2, <1>3, <1>4 DEF Next

\* Every reachable state is well typed, and a slot has a run exactly while it is
\* inside _process_job.
THEOREM TypeCorrect == Spec => []TypeOK
  BY TypeInit, TypeNext, PTL DEF Spec

-----------------------------------------------------------------------------
(* Terminal runs *)

\* No step takes a run out of a terminal status: every writer of runs.status
\* looks at the status it locked.
LEMMA TerminalStep ==
  ASSUME TypeOK, [Next]_vars, NEW q \in Run, runStatus[q] \in Terminal
  PROVE  runStatus'[q] = runStatus[q]
<1>1. runStatus \in [Run -> RunStatus]
  BY DEF TypeOK, RunTypeOK
<1>2. CASE UNCHANGED runStatus
  BY <1>2
<1>3. ASSUME NEW r \in Run, Request(r) PROVE runStatus'[q] = runStatus[q]
  BY <1>1, <1>3 DEF Request, CreateRun, InactiveFailedRuns, CancelRun, PauseRun, ResumeRun,
     RetryFailedRun, CanTransition, ValidTransitions, Terminal
<1>4. CASE RecoverOrphanedRuns
  BY <1>1, <1>4 DEF RecoverOrphanedRuns, OrphanedRuns, Terminal
<1>5. ASSUME NEW w \in Worker,
             StartRun(w) \/ CompleteRun(w) \/ FailRun(w) \/ MarkRunFailedIfOwned(w)
      PROVE  runStatus'[q] = runStatus[q]
  <2>1. wrun[w] \in Run
    BY <1>5, WorkerHasRun DEF StartRun, CompleteRun, FailRun, MarkRunFailedIfOwned
  <2> QED
    BY <1>1, <1>5, <2>1 DEF StartRun, Startable, CompleteRun, FailRun, FailedStatus,
       MarkRunFailedIfOwned, Terminal
<1> QED
  BY <1>2, <1>3, <1>4, <1>5 DEF Next, vars, Tick, Claim, Heartbeat, WorkerStep, Fault,
     LoadJobLost, LoadJob, StopNoticed, SourceRead, SourceLeaseLost, SourceDone, SinkDone,
     CompletionSkipped, CompletionDeclined, CompletionRejected, FailRunLeaseLost,
     FinalizeRunJob, HeartbeatLost, ReleaseRunJob, SetupFails, SourceFails, SinkFails, NodeFailed,
     StepRaises, HandlerRaises, Interrupt, Crash

\* Cancellation, completion and supersession are final, whatever late failure,
\* completion, resume or retry follows.
THEOREM TerminalFinal == Spec => TerminalIsFinal
<1>1. TypeOK /\ [Next]_vars
        => [\A r \in Run : runStatus[r] \in Terminal => runStatus'[r] = runStatus[r]]_vars
  BY TerminalStep
<1> QED
  BY <1>1, TypeCorrect, PTL DEF Spec, TerminalIsFinal

-----------------------------------------------------------------------------
(* Candidates and committed state *)

\* Of all steps only the completion of a run writes committed source state.
LEMMA OnlyCompletionCommits ==
  ASSUME [Next]_vars, committed' # committed
  PROVE  \E w \in Worker : CompleteRun(w)
  BY ZenonT(40) DEF Next, vars, Request, CreateRun, CancelRun, PauseRun, ResumeRun, RetryFailedRun,
     RecoverOrphanedRuns, Tick, Claim, Heartbeat, WorkerStep, Fault,
     LoadJobLost, LoadJob, StartRun, StopNoticed, SourceRead, SourceLeaseLost, SourceDone,
     SinkDone, CompletionSkipped, CompletionDeclined, CompletionRejected, FailRun,
     FailRunLeaseLost, MarkRunFailedIfOwned, FinalizeRunJob, HeartbeatLost, ReleaseRunJob,
     SetupFails, SourceFails, SinkFails, NodeFailed, StepRaises, HandlerRaises, Interrupt, Crash

\* A completion completes its run and promotes exactly the staged streams.
LEMMA CompletionEffect ==
  ASSUME TypeOK, NEW w \in Worker, CompleteRun(w)
  PROVE  /\ wrun[w] \in Run
         /\ runStatus[wrun[w]] = "running"
         /\ runStatus' = [runStatus EXCEPT ![wrun[w]] = "completed"]
         /\ \A s \in Stream : committed'[s] = IF s \in StagedStreams(wrun[w])
                                              THEN Promoted(wrun[w], s) ELSE committed[s]
  BY WorkerHasRun DEF CompleteRun

\* Committed state keeps stemming from completed runs: completed is final, and a
\* promotion names the run it completes.
LEMMA CommittedStep ==
  ASSUME TypeOK, CommittedByCompletedRuns, [Next]_vars
  PROVE  CommittedByCompletedRuns'
<1> SUFFICES ASSUME NEW s \in Stream, committed'[s].val # None
             PROVE  runStatus'[committed'[s].val] = "completed"
  BY DEF CommittedByCompletedRuns
<1>1. runStatus \in [Run -> RunStatus] /\ committed \in [Stream -> StateRow]
  BY DEF TypeOK, RunTypeOK, StateTypeOK
<1>2. ASSUME committed'[s] = committed[s] PROVE runStatus'[committed'[s].val] = "completed"
  <2>1. committed[s].val \in Run
    BY <1>1, <1>2 DEF StateRow
  <2>2. runStatus[committed[s].val] = "completed"
    BY <1>2 DEF CommittedByCompletedRuns
  <2> QED
    BY <1>2, <2>1, <2>2, TerminalStep DEF Terminal
<1>3. CASE committed'[s] # committed[s]
  <2>1. PICK w \in Worker : CompleteRun(w)
    BY <1>3, OnlyCompletionCommits
  <2>2. committed'[s] = Promoted(wrun[w], s)
    BY <1>3, <2>1, CompletionEffect
  <2>3. committed'[s].val = wrun[w]
    BY <2>2 DEF Promoted
  <2> QED
    BY <1>1, <2>1, <2>3, CompletionEffect
<1> QED
  BY <1>2, <1>3

\* Visible source state always stems from a completed run: nothing staged by a
\* run that failed, was cancelled, paused or lost its worker is ever readable.
THEOREM CommittedFromCompleted == Spec => []CommittedByCompletedRuns
<1>1. Init => CommittedByCompletedRuns
  BY DEF Init, CommittedByCompletedRuns, NoState
<1>2. TypeOK /\ CommittedByCompletedRuns /\ [Next]_vars => CommittedByCompletedRuns'
  BY CommittedStep
<1> QED
  BY <1>1, <1>2, TypeCorrect, PTL DEF Spec

\* Of all steps only these write candidates.
LEMMA CandidateWriters ==
  ASSUME [Next]_vars, cand' # cand
  PROVE  \/ \E r \in Run : CancelRun(r) \/ \E streams \in SUBSET Stream : CreateRun(r, streams)
         \/ \E w \in Worker : SourceDone(w) \/ CompleteRun(w)
  BY DEF Next, vars, Request, PauseRun, ResumeRun, RetryFailedRun,
     RecoverOrphanedRuns, Tick, Claim, Heartbeat, WorkerStep, Fault,
     LoadJobLost, LoadJob, StartRun, StopNoticed, SourceRead, SourceLeaseLost,
     SinkDone, CompletionSkipped, CompletionDeclined, CompletionRejected, FailRun,
     FailRunLeaseLost, MarkRunFailedIfOwned, FinalizeRunJob, HeartbeatLost, ReleaseRunJob,
     SetupFails, SourceFails, SinkFails, NodeFailed, StepRaises, HandlerRaises, Interrupt, Crash

\* The step that makes a run terminal also drops its candidates.
LEMMA TerminalDrops ==
  ASSUME TypeOK, [Next]_vars, NEW q \in Run,
         runStatus[q] \notin Terminal, runStatus'[q] \in Terminal
  PROVE  cand'[q] = [s \in Stream |-> NoCand]
<1>1. runStatus \in [Run -> RunStatus] /\ cand \in [Run -> [Stream -> CandRow]]
  BY DEF TypeOK, RunTypeOK, StateTypeOK
<1>2. CASE UNCHANGED runStatus
  BY <1>2
<1>3. ASSUME NEW r \in Run, NEW streams \in SUBSET Stream, CreateRun(r, streams)
      PROVE  cand'[q] = [s \in Stream |-> NoCand]
  <2>1. q # r
    BY <1>1, <1>3 DEF CreateRun, Terminal
  <2>2. q \in InactiveFailedRuns
    BY <1>1, <1>3, <2>1 DEF CreateRun
  <2> QED
    BY <1>3, <2>2 DEF CreateRun
<1>4. ASSUME NEW r \in Run, CancelRun(r) PROVE cand'[q] = [s \in Stream |-> NoCand]
  <2>1. q = r
    BY <1>1, <1>4 DEF CancelRun
  <2> QED
    BY <1>1, <1>4, <2>1 DEF CancelRun
<1>5. ASSUME NEW r \in Run, PauseRun(r) \/ ResumeRun(r) \/ RetryFailedRun(r) PROVE FALSE
  BY <1>1, <1>5 DEF PauseRun, ResumeRun, RetryFailedRun, Terminal
<1>6. CASE RecoverOrphanedRuns
  BY <1>1, <1>6 DEF RecoverOrphanedRuns, Terminal
<1>7. ASSUME NEW w \in Worker, StartRun(w) \/ FailRun(w) \/ MarkRunFailedIfOwned(w) PROVE FALSE
  <2>1. wrun[w] \in Run
    BY <1>7, WorkerHasRun DEF StartRun, FailRun, MarkRunFailedIfOwned
  <2> QED
    BY <1>1, <1>7, <2>1 DEF StartRun, FailRun, FailedStatus, MarkRunFailedIfOwned, Terminal
<1>8. ASSUME NEW w \in Worker, CompleteRun(w) PROVE cand'[q] = [s \in Stream |-> NoCand]
  <2>1. q = wrun[w]
    BY <1>1, <1>8, CompletionEffect
  <2> QED
    BY <1>1, <1>8, <2>1 DEF CompleteRun
<1> QED
  BY <1>2, <1>3, <1>4, <1>5, <1>6, <1>7, <1>8 DEF Next, vars, Request, Tick, Claim, Heartbeat,
     WorkerStep, Fault, LoadJobLost, LoadJob, StopNoticed, SourceRead, SourceLeaseLost,
     SourceDone, SinkDone, CompletionSkipped, CompletionDeclined, CompletionRejected,
     FailRunLeaseLost, FinalizeRunJob, HeartbeatLost, ReleaseRunJob, SetupFails, SourceFails, SinkFails,
     NodeFailed, StepRaises, HandlerRaises, Interrupt, Crash

\* Terminal runs stay without candidates: staging needs a running run.
LEMMA TerminalCandidatesStep ==
  ASSUME TypeOK, TerminalRunsHoldNoCandidates, [Next]_vars
  PROVE  TerminalRunsHoldNoCandidates'
<1> SUFFICES ASSUME NEW q \in Run, runStatus'[q] \in Terminal
             PROVE  \A s \in Stream : cand'[q][s].op = "none"
  BY DEF TerminalRunsHoldNoCandidates, StagedStreams
<1>1. CASE runStatus[q] \notin Terminal
  BY <1>1, TerminalDrops DEF NoCand
<1>2. CASE runStatus[q] \in Terminal
  <2>1. \A s \in Stream : cand[q][s].op = "none"
    BY <1>2 DEF TerminalRunsHoldNoCandidates, StagedStreams
  <2>2. cand \in [Run -> [Stream -> CandRow]]
    BY DEF TypeOK, StateTypeOK
  <2>3. CASE cand' = cand
    BY <2>1, <2>3
  <2>4. ASSUME NEW r \in Run, CancelRun(r) \/ \E streams \in SUBSET Stream : CreateRun(r, streams)
        PROVE  \A s \in Stream : cand'[q][s].op = "none"
    BY <2>1, <2>2, <2>4 DEF CancelRun, CreateRun, NoCand
  <2>5. ASSUME NEW w \in Worker, CompleteRun(w)
        PROVE  \A s \in Stream : cand'[q][s].op = "none"
    BY <2>1, <2>2, <2>5 DEF CompleteRun, NoCand
  <2>6. ASSUME NEW w \in Worker, SourceDone(w)
        PROVE  \A s \in Stream : cand'[q][s].op = "none"
    <3>1. wrun[w] \in Run
      BY <2>6, WorkerHasRun DEF SourceDone
    <3>2. CASE wrun[w] # q
      BY <2>1, <2>2, <2>6, <3>1, <3>2 DEF SourceDone
    <3>3. CASE wrun[w] = q
      <4>1. ConfiguredStreams(w) = {}
        BY <1>2, <2>6, <3>3 DEF SourceDone, MayStage, Terminal
      <4> QED
        BY <2>1, <2>2, <2>6, <3>1, <3>3, <4>1 DEF SourceDone
    <3> QED
      BY <3>2, <3>3
  <2> QED
    BY <2>3, <2>4, <2>5, <2>6, CandidateWriters
<1> QED
  BY <1>1, <1>2

\* A run that is completed, cancelled or superseded holds no candidates, however
\* late a worker that still has it comes to stage or to complete.
THEOREM TerminalEmpty == Spec => []TerminalRunsHoldNoCandidates
<1>1. Init => TerminalRunsHoldNoCandidates
  BY DEF Init, TerminalRunsHoldNoCandidates, StagedStreams, NoCand
<1>2. TypeOK /\ TerminalRunsHoldNoCandidates /\ [Next]_vars => TerminalRunsHoldNoCandidates'
  BY TerminalCandidatesStep
<1> QED
  BY <1>1, <1>2, TypeCorrect, PTL DEF Spec

-----------------------------------------------------------------------------
(* The fences: no promotion overtakes a read *)

\* What the advisory fences guarantee: at most one slot is inside a source read of
\* the graph, and what it has read is still what is committed.
ReadersSeeCommitted == \A w \in Worker : pc[w] = "reading" => snap[w] = committed
OneReader == \A v, w \in Worker : pc[v] = "reading" /\ pc[w] = "reading" => v = w

\* Inductive: base and read of a candidate agree because staging writes the base
\* from the committed row and the read from the snapshot.
FenceInv == ReadersSeeCommitted /\ OneReader /\ CandidateBaseIsWhatWasRead

\* A slot enters a read through SourceRead only, and keeps its snapshot there.
LEMMA ReadingStep ==
  ASSUME TypeOK, [Next]_vars, NEW v \in Worker, pc'[v] = "reading"
  PROVE  (pc[v] = "reading" /\ snap'[v] = snap[v]) \/ SourceRead(v)
<1>1. pc \in [Worker -> Pc] /\ snap \in [Worker -> [Stream -> StateRow]]
  BY DEF TypeOK, WorkerTypeOK
<1>2. CASE UNCHANGED <<pc, snap>>
  BY <1>2
<1>3. ASSUME NEW w \in Worker, NEW next \in Pc \ {"reading"}, Goto(w, next)
      PROVE  pc[v] = "reading" /\ snap'[v] = snap[v]
  BY <1>1, <1>3 DEF Goto
<1>4. ASSUME NEW w \in Worker, BecomeIdle(w) \/ Crash(w)
      PROVE  pc[v] = "reading" /\ snap'[v] = snap[v]
  BY <1>1, <1>4 DEF BecomeIdle, Crash
<1>5. ASSUME NEW w \in Worker, (\E r \in Run : Claim(w, r)) \/ SourceRead(w)
      PROVE  (pc[v] = "reading" /\ snap'[v] = snap[v]) \/ SourceRead(v)
  BY <1>1, <1>5 DEF Claim, SourceRead
<1>6. ASSUME NEW w \in Worker, Raised(w) \/ \E status : Returned(w, status)
      PROVE  pc[v] = "reading" /\ snap'[v] = snap[v]
  BY <1>3, <1>6 DEF Raised, Returned, Pc
<1>7. ASSUME NEW w \in Worker, Fault(w)
      PROVE  pc[v] = "reading" /\ snap'[v] = snap[v]
  <2>1. CASE SetupFails(w) \/ SourceFails(w) \/ SinkFails(w)
    BY <1>3, <2>1 DEF SetupFails, SourceFails, SinkFails, NodeFailed, Pc
  <2>2. CASE StepRaises(w)
    BY <1>6, <2>2 DEF StepRaises
  <2>3. CASE HandlerRaises(w) \/ Crash(w)
    BY <1>4, <2>3 DEF HandlerRaises
  <2>4. CASE Interrupt(w)
    BY <1>3, <1>4, <2>4 DEF Interrupt, Interrupted, Pc
  <2> QED
    BY <1>7, <2>1, <2>2, <2>3, <2>4 DEF Fault
<1>8. ASSUME NEW w \in Worker, WorkerStep(w)
      PROVE  (pc[v] = "reading" /\ snap'[v] = snap[v]) \/ SourceRead(v)
  <2>1. CASE LoadJobLost(w) \/ FinalizeRunJob(w) \/ ReleaseRunJob(w)
    BY <1>4, <2>1 DEF LoadJobLost, FinalizeRunJob, ReleaseRunJob
  <2>2. CASE LoadJob(w)
    BY <1>3, <1>6, <2>2 DEF LoadJob, Pc
  <2>3. CASE StartRun(w)
    BY <1>3, <1>6, <2>3 DEF StartRun, Pc
  <2>4. CASE StopNoticed(w) \/ CompleteRun(w) \/ CompletionSkipped(w) \/ CompletionDeclined(w)
             \/ FailRun(w)
    BY <1>6, <2>4 DEF StopNoticed, CompleteRun, CompletionSkipped, CompletionDeclined, FailRun
  <2>5. CASE SourceLeaseLost(w) \/ CompletionRejected(w) \/ FailRunLeaseLost(w)
    BY <1>6, <2>5 DEF SourceLeaseLost, CompletionRejected, FailRunLeaseLost
  <2>6. CASE SourceDone(w) \/ SinkDone(w) \/ MarkRunFailedIfOwned(w)
    BY <1>3, <2>6 DEF SourceDone, SinkDone, MarkRunFailedIfOwned, Pc
  <2>7. CASE HeartbeatLost(w)
    BY <1>3, <1>4, <2>7 DEF HeartbeatLost, Interrupted, Pc
  <2> QED
    BY <1>5, <1>8, <2>1, <2>2, <2>3, <2>4, <2>5, <2>6, <2>7 DEF WorkerStep
<1> QED
  BY <1>2, <1>5, <1>7, <1>8 DEF Next, vars, Request, CreateRun, CancelRun, PauseRun, ResumeRun,
     RetryFailedRun, RecoverOrphanedRuns, Tick, Heartbeat

\* Every step keeps the fences' guarantee.
LEMMA FenceStep == ASSUME TypeOK, FenceInv, [Next]_vars PROVE FenceInv'
<1>1. /\ pc \in [Worker -> Pc] /\ snap \in [Worker -> [Stream -> StateRow]]
      /\ committed \in [Stream -> StateRow] /\ cand \in [Run -> [Stream -> CandRow]]
  BY DEF TypeOK, WorkerTypeOK, StateTypeOK
<1>2. OneReader'
  <2> SUFFICES ASSUME NEW v \in Worker, NEW w \in Worker,
                      pc'[v] = "reading", pc'[w] = "reading", v # w
               PROVE  FALSE
    BY DEF OneReader
  <2>1. ASSUME NEW x \in Worker, NEW y \in Worker, x # y, SourceRead(x), pc'[y] = "reading"
        PROVE  FALSE
    BY <1>1, <2>1 DEF SourceRead, ScopeFenceFree
  <2> QED
    BY <2>1, ReadingStep DEF FenceInv, OneReader
<1>3. ReadersSeeCommitted'
  <2> SUFFICES ASSUME NEW v \in Worker, pc'[v] = "reading" PROVE snap'[v] = committed'
    BY DEF ReadersSeeCommitted
  <2>1. CASE SourceRead(v)
    BY <1>1, <2>1 DEF SourceRead
  <2>2. CASE pc[v] = "reading" /\ snap'[v] = snap[v]
    <3>1. CASE committed' = committed
      BY <2>2, <3>1 DEF FenceInv, ReadersSeeCommitted
    <3>2. CASE committed' # committed
      <4>1. PICK w \in Worker : CompleteRun(w)
        BY <3>2, OnlyCompletionCommits
      <4>2. v # w
        BY <2>2, <4>1 DEF CompleteRun
      <4>3. StagedStreams(wrun[w]) = {}
        BY <2>2, <4>1, <4>2 DEF CompleteRun, CompletionFencesFree, ScopeFenceFree
      <4>4. committed' = [s \in Stream |-> committed[s]]
        BY <4>1, <4>3 DEF CompleteRun
      <4> QED
        BY <1>1, <3>2, <4>4
    <3> QED
      BY <3>1, <3>2
  <2> QED
    BY <2>1, <2>2, ReadingStep
<1>4. CandidateBaseIsWhatWasRead'
  <2> SUFFICES ASSUME NEW r \in Run, NEW s \in Stream PROVE cand'[r][s].base = cand'[r][s].read
    BY DEF CandidateBaseIsWhatWasRead
  <2>1. cand[r][s].base = cand[r][s].read
    BY DEF FenceInv, CandidateBaseIsWhatWasRead
  <2>2. CASE cand' = cand
    BY <2>1, <2>2
  <2>3. ASSUME NEW q \in Run, CancelRun(q) \/ \E streams \in SUBSET Stream : CreateRun(q, streams)
        PROVE  cand'[r][s].base = cand'[r][s].read
    BY <1>1, <2>1, <2>3 DEF CancelRun, CreateRun, NoCand
  <2>4. ASSUME NEW w \in Worker, CompleteRun(w) PROVE cand'[r][s].base = cand'[r][s].read
    BY <1>1, <2>1, <2>4 DEF CompleteRun, NoCand
  <2>5. ASSUME NEW w \in Worker, SourceDone(w) PROVE cand'[r][s].base = cand'[r][s].read
    <3>1. snap[w] = committed
      BY <2>5 DEF SourceDone, FenceInv, ReadersSeeCommitted
    <3>2. StagedCandidate(w, s).base = StagedCandidate(w, s).read
      BY <3>1 DEF StagedCandidate, NoCand
    <3>3. cand'[r][s] \in {cand[r][s], StagedCandidate(w, s)}
      BY <1>1, <2>5 DEF SourceDone
    <3> QED
      BY <2>1, <3>2, <3>3
  <2> QED
    BY <2>2, <2>3, <2>4, <2>5, CandidateWriters
<1> QED
  BY <1>2, <1>3, <1>4 DEF FenceInv

\* The fences hold in every reachable state.
LEMMA FenceCorrect == Spec => []FenceInv
<1>1. Init => FenceInv
  BY DEF Init, FenceInv, ReadersSeeCommitted, OneReader, CandidateBaseIsWhatWasRead, NoCand
<1>2. TypeOK /\ FenceInv /\ [Next]_vars => FenceInv'
  BY FenceStep
<1> QED
  BY <1>1, <1>2, TypeCorrect, PTL DEF Spec

\* The base a candidate carries is the revision its source read, for any number
\* of concurrent runs: no promotion of the scope slips into a read.
THEOREM BaseIsRead == Spec => []CandidateBaseIsWhatWasRead
  BY FenceCorrect, PTL DEF FenceInv

\* Committed state moves one revision at a time, with a completing run whose
\* source had read the revision it replaces: no concurrent run is overwritten.
THEOREM LostUpdateFree == Spec => NoLostUpdate
<1> DEFINE Moved(s) ==
       committed'[s] # committed[s] =>
          /\ committed'[s].rev = committed[s].rev + 1
          /\ \E r \in Run : /\ runStatus[r] # "completed" /\ runStatus'[r] = "completed"
                            /\ cand[r][s].op # "none"
                            /\ cand[r][s].read = committed[s].rev
<1>1. ASSUME TypeOK, FenceInv, [Next]_vars, NEW s \in Stream PROVE Moved(s)
  <2> SUFFICES ASSUME committed'[s] # committed[s]
               PROVE  /\ committed'[s].rev = committed[s].rev + 1
                      /\ \E r \in Run : /\ runStatus[r] # "completed" /\ runStatus'[r] = "completed"
                                        /\ cand[r][s].op # "none"
                                        /\ cand[r][s].read = committed[s].rev
    OBVIOUS
  <2>1. PICK w \in Worker : CompleteRun(w)
    BY <1>1, OnlyCompletionCommits
  <2>2. /\ wrun[w] \in Run /\ s \in StagedStreams(wrun[w])
        /\ committed'[s] = Promoted(wrun[w], s)
        /\ runStatus[wrun[w]] = "running" /\ runStatus'[wrun[w]] = "completed"
    BY <1>1, <2>1, CompletionEffect DEF TypeOK, RunTypeOK
  <2>3. cand[wrun[w]][s].base = committed[s].rev
    BY <2>1, <2>2 DEF CompleteRun, Stale
  <2>4. cand[wrun[w]][s].read = committed[s].rev /\ cand[wrun[w]][s].op # "none"
    BY <1>1, <2>2, <2>3 DEF FenceInv, CandidateBaseIsWhatWasRead, StagedStreams
  <2>5. committed'[s].rev = committed[s].rev + 1
    BY <2>2 DEF Promoted
  <2> QED
    BY <2>2, <2>4, <2>5
<1>2. TypeOK /\ FenceInv /\ [Next]_vars => [\A s \in Stream : Moved(s)]_vars
  BY <1>1
<1> QED
  BY <1>2, TypeCorrect, FenceCorrect, PTL DEF Spec, NoLostUpdate

-----------------------------------------------------------------------------
(* Acknowledgement: a run past its source has staged its whole selection *)

\* Every stream the run's graph version selects is staged for saving.
StagedAll(r) == \A s \in selected[r] : cand[r][s].op = "save"

\* The slot is past the source node, or failing the run because of the sink.
AtSink(w) ==
    \/ pc[w] \in {"sink", "complete"}
    \/ pc[w] = "failrun" /\ task[w].failed = "sink"

\* Some execution of the run has got past the source node.
PastSource(r) ==
    \/ nodes[r]["source"] = "completed"
    \/ nodes[r]["sink"] # "none"
    \/ \E w \in Worker : wrun[w] = r /\ AtSink(w)

Untouched(r) ==
    /\ \A n \in NodeId : nodes[r][n] = "none"
    /\ \A w \in Worker : wrun[w] # r

\* Inductive: a retry enters at the sink only if the sink has a failed row, which
\* some slot wrote that had come through the source; and CreateRun changes the
\* selection of a run nobody has touched.
StagedInv ==
    \A r \in Run :
        /\ runStatus[r] = "absent" => Untouched(r)
        /\ PastSource(r) /\ runStatus[r] \notin Terminal => StagedAll(r)

\* Nobody but these steps moves a slot, its run or the task it remembers.
LEMMA WorkerFrame ==
  ASSUME TypeOK, NEW w \in Worker, WorkerStep(w) \/ Fault(w), NEW v \in Worker, v # w
  PROVE  pc'[v] = pc[v] /\ wrun'[v] = wrun[v] /\ task'[v] = task[v]
<1>1. /\ pc \in [Worker -> Pc] /\ wrun \in [Worker -> Run \cup {None}]
      /\ task \in [Worker -> Task]
  BY DEF TypeOK, WorkerTypeOK
<1>2. CASE Raised(w) \/ BecomeIdle(w) \/ Crash(w)
  BY <1>1, <1>2 DEF Raised, BecomeIdle, Crash, Goto
<1>3. CASE \E status : Returned(w, status)
  BY <1>1, <1>3 DEF Returned, Goto
<1>5. CASE /\ \E next \in Pc : pc' = [pc EXCEPT ![w] = next]
           /\ wrun' = wrun /\ task' = task
  BY <1>1, <1>5
<1>6. CASE LoadJob(w)
  BY <1>1, <1>3, <1>6 DEF LoadJob, Goto
<1>7. CASE StartRun(w)
  BY <1>1, <1>3, <1>7 DEF StartRun, Goto
<1>8. CASE SetupFails(w) \/ SourceFails(w) \/ SinkFails(w)
  BY <1>1, <1>8 DEF SetupFails, SourceFails, SinkFails, NodeFailed, Goto
<1>9. CASE SourceRead(w) \/ SourceDone(w) \/ SinkDone(w) \/ MarkRunFailedIfOwned(w)
  BY <1>1, <1>5, <1>9 DEF SourceRead, SourceDone, SinkDone, MarkRunFailedIfOwned, Goto, Pc
<1>10. CASE HeartbeatLost(w) \/ Interrupt(w)
  BY <1>2, <1>5, <1>10 DEF HeartbeatLost, Interrupt, Interrupted, Goto, Pc
<1> QED
  BY <1>2, <1>3, <1>6, <1>7, <1>8, <1>9, <1>10 DEF WorkerStep, Fault, LoadJobLost, StopNoticed,
     SourceLeaseLost, CompleteRun, CompletionSkipped, CompletionDeclined, CompletionRejected,
     FailRun, FailRunLeaseLost, FinalizeRunJob, ReleaseRunJob, StepRaises, HandlerRaises

\* A slot keeps its run or becomes idle or dead.
LEMMA WorkerKeepsRun ==
  ASSUME TypeOK, NEW w \in Worker, WorkerStep(w) \/ Fault(w)
  PROVE  wrun'[w] \in {wrun[w], None}
<1>1. wrun \in [Worker -> Run \cup {None}]
  BY DEF TypeOK, WorkerTypeOK
<1> QED
  BY <1>1 DEF WorkerStep, Fault, LoadJobLost, LoadJob, StartRun, StopNoticed, SourceRead,
     SourceLeaseLost, SourceDone, SinkDone, CompleteRun, CompletionSkipped, CompletionDeclined,
     CompletionRejected, FailRun, FailRunLeaseLost, MarkRunFailedIfOwned, FinalizeRunJob,
     HeartbeatLost, ReleaseRunJob, SetupFails, SourceFails, SinkFails, NodeFailed, StepRaises, HandlerRaises,
     Interrupt, Crash, Interrupted, BecomeIdle, Raised, Returned

\* A slot comes to the sink through the source, or by a retry of a failed sink.
LEMMA AtSinkStep ==
  ASSUME TypeOK, NEW w \in Worker, WorkerStep(w) \/ Fault(w), AtSink(w)'
  PROVE  AtSink(w) \/ SourceDone(w) \/ nodes[wrun[w]]["sink"] # "none"
<1>1. /\ pc \in [Worker -> Pc] /\ task \in [Worker -> Task]
  BY DEF TypeOK, WorkerTypeOK
<1>2. pc'[w] \in {"sink", "complete", "failrun"}
  BY DEF AtSink
<1>3. ~BecomeIdle(w) /\ ~Crash(w) /\ ~Raised(w) /\ ~(\E status : Returned(w, status))
  BY <1>1, <1>2 DEF BecomeIdle, Crash, Raised, Returned, Goto
<1>4. ASSUME NEW next \in Pc, Goto(w, next) PROVE pc'[w] = next
  BY <1>1, <1>4 DEF Goto
<1>5. CASE StartRun(w)
  <2>1. Plan(w, wrun[w]) # NodeId
    <3>1. pc'[w] \in {"source", "sink"} /\ ("source" \in Plan(w, wrun[w]) => pc'[w] = "source")
      BY <1>3, <1>4, <1>5 DEF StartRun, Pc
    <3> QED
      BY <1>2, <3>1 DEF NodeId
  <2>2. FailedNodes(wrun[w]) = {"sink"}
    BY <2>1 DEF Plan
  <2> QED
    BY <2>2 DEF FailedNodes
<1>6. CASE SinkDone(w) \/ SinkFails(w)
  BY <1>6 DEF SinkDone, SinkFails, AtSink
<1>7. CASE SourceFails(w) \/ SetupFails(w)
  <2>1. pc'[w] = "failrun"
    BY <1>4, <1>7 DEF SourceFails, SetupFails, NodeFailed, Pc
  <2>2. task'[w].failed # "sink"
    BY <1>1, <1>7 DEF SourceFails, SetupFails, NodeFailed, Task
  <2> QED
    BY <2>1, <2>2 DEF AtSink
<1>8. CASE LoadJob(w)
  BY <1>2, <1>3, <1>4, <1>8 DEF LoadJob, Pc
<1>9. CASE SourceRead(w)
  BY <1>1, <1>2, <1>9 DEF SourceRead
<1>10. CASE MarkRunFailedIfOwned(w) \/ HeartbeatLost(w) \/ Interrupt(w)
  BY <1>2, <1>3, <1>4, <1>10 DEF MarkRunFailedIfOwned, HeartbeatLost, Interrupt, Interrupted, Pc
<1> QED
  BY <1>3, <1>5, <1>6, <1>7, <1>8, <1>9, <1>10 DEF WorkerStep, Fault, LoadJobLost, StopNoticed,
     SourceLeaseLost, CompleteRun, CompletionSkipped, CompletionDeclined, CompletionRejected,
     FailRun, FailRunLeaseLost, FinalizeRunJob, ReleaseRunJob, StepRaises, HandlerRaises

\* A slot writes rows of its own run only: the sink's when it is at the sink, and
\* a completed source row only when the source is done.
LEMMA NodeRowStep ==
  ASSUME TypeOK, NEW w \in Worker, WorkerStep(w) \/ Fault(w), NEW q \in Run, nodes' # nodes
  PROVE  /\ wrun[w] # q => nodes'[q] = nodes[q]
         /\ nodes'[q]["sink"] # nodes[q]["sink"] => AtSink(w)
         /\ nodes'[q]["source"] \in {nodes[q]["source"], "failed"} \/ SourceDone(w)
<1>1. nodes \in [Run -> [NodeId -> NodeRow]]
  BY DEF TypeOK, StateTypeOK
<1>2. ASSUME NEW n \in NodeId, NEW status \in NodeRow, CommitNodeRow(w, n, status)
      PROVE  /\ wrun[w] # q => nodes'[q] = nodes[q]
             /\ nodes'[q][n] \in {nodes[q][n], status}
             /\ \A m \in NodeId \ {n} : nodes'[q][m] = nodes[q][m]
  BY <1>1, <1>2 DEF CommitNodeRow
<1>3. "source" \in NodeId /\ "sink" \in NodeId /\ "failed" \in NodeRow /\ "completed" \in NodeRow
  BY DEF NodeId, NodeRow
<1>4. CASE SourceDone(w)
  BY <1>2, <1>3, <1>4 DEF SourceDone
<1>5. CASE SinkDone(w)
  BY <1>2, <1>3, <1>5 DEF SinkDone, AtSink
<1>6. CASE SourceFails(w)
  BY <1>2, <1>3, <1>6 DEF SourceFails, NodeFailed
<1>7. CASE SinkFails(w)
  BY <1>2, <1>3, <1>7 DEF SinkFails, NodeFailed, AtSink
<1>8. CASE FailRun(w)
  <2>1. task[w].failed \in NodeId /\ CommitNodeRow(w, task[w].failed, "failed") /\ pc[w] = "failrun"
    BY <1>8 DEF FailRun, TypeOK, WorkerTypeOK, Task
  <2> QED
    BY <1>2, <1>3, <2>1 DEF AtSink
<1> QED
  BY <1>4, <1>5, <1>6, <1>7, <1>8 DEF WorkerStep, Fault, SetupFails, LoadJobLost, LoadJob, StartRun,
     StopNoticed, SourceRead, SourceLeaseLost, CompleteRun, CompletionSkipped,
     CompletionDeclined, CompletionRejected, FailRunLeaseLost, MarkRunFailedIfOwned,
     FinalizeRunJob, HeartbeatLost, ReleaseRunJob, StepRaises, HandlerRaises, Interrupt, Crash

\* A run gets past its source only by a step that has just staged its selection.
LEMMA PastSourceStep ==
  ASSUME TypeOK, [Next]_vars, NEW q \in Run, PastSource(q)', ~PastSource(q)
  PROVE  \E w \in Worker : SourceDone(w) /\ wrun[w] = q
<1>1. ASSUME NEW w \in Worker, WorkerStep(w) \/ Fault(w)
      PROVE  SourceDone(w) /\ wrun[w] = q
  <2>1. wrun[w] = q
    <3> SUFFICES ASSUME wrun[w] # q PROVE FALSE
      OBVIOUS
    <3>1. nodes'[q] = nodes[q]
      BY <1>1, NodeRowStep
    <3>2. ASSUME NEW v \in Worker, wrun'[v] = q PROVE v # w
      BY <1>1, <3>2, WorkerKeepsRun, ConstantsAssumption
    <3>3. ASSUME NEW v \in Worker, wrun'[v] = q, AtSink(v)' PROVE wrun[v] = q /\ AtSink(v)
      BY <1>1, <3>2, <3>3, WorkerFrame DEF AtSink
    <3> QED
      BY <3>1, <3>3 DEF PastSource
  <2>2. SourceDone(w)
    <3> SUFFICES ASSUME ~SourceDone(w) PROVE FALSE
      OBVIOUS
    <3>1. nodes[q]["source"] # "completed" /\ nodes[q]["sink"] = "none" /\ ~AtSink(w)
      BY <2>1 DEF PastSource
    <3>2. nodes'[q]["source"] # "completed" /\ nodes'[q]["sink"] = "none"
      BY <1>1, <3>1, NodeRowStep
    <3>3. ~AtSink(w)'
      BY <1>1, <2>1, <3>1, AtSinkStep
    <3>4. ASSUME NEW v \in Worker, wrun'[v] = q, AtSink(v)' PROVE wrun[v] = q /\ AtSink(v)
      BY <1>1, <3>3, <3>4, WorkerFrame DEF AtSink
    <3> QED
      BY <3>2, <3>4 DEF PastSource
  <2> QED
    BY <2>1, <2>2
<1>2. ASSUME NEW w \in Worker, NEW r \in Run, Claim(w, r) PROVE FALSE
  <2>1. ASSUME NEW v \in Worker, wrun'[v] = q, AtSink(v)' PROVE wrun[v] = q /\ AtSink(v)
    <3>1. v # w
      BY <1>2, <2>1 DEF Claim, AtSink, TypeOK, WorkerTypeOK
    <3>2. pc'[v] = pc[v] /\ wrun'[v] = wrun[v]
      BY <1>2, <3>1 DEF Claim, TypeOK, WorkerTypeOK
    <3>3. task'[v].failed = task[v].failed
      BY <1>2, <3>1 DEF Claim, TypeOK, WorkerTypeOK, Task
    <3> QED
      BY <2>1, <3>2, <3>3 DEF AtSink
  <2>2. nodes' = nodes
    BY <1>2 DEF Claim
  <2> QED
    BY <2>1, <2>2 DEF PastSource
<1>3. ASSUME UNCHANGED <<nodes, pc, wrun, task>> PROVE FALSE
  BY <1>3 DEF PastSource, AtSink
<1> QED
  BY <1>1, <1>2, <1>3 DEF Next, vars, Request, CreateRun, CancelRun, PauseRun, ResumeRun,
     RetryFailedRun, RecoverOrphanedRuns, Tick, Heartbeat

\* A run that does not exist yet has not been touched, and only CreateRun makes
\* it exist.
LEMMA AbsentStep ==
  ASSUME TypeOK, StagedInv, [Next]_vars, NEW q \in Run, runStatus'[q] = "absent"
  PROVE  runStatus[q] = "absent" /\ Untouched(q)'
<1>1. /\ runStatus \in [Run -> RunStatus] /\ nodes \in [Run -> [NodeId -> NodeRow]]
      /\ wrun \in [Worker -> Run \cup {None}]
  BY DEF TypeOK, RunTypeOK, StateTypeOK, WorkerTypeOK
<1>2. ASSUME NEW r \in Run, Request(r) \/ RecoverOrphanedRuns \/ Tick(r)
      PROVE  runStatus[q] = "absent" /\ UNCHANGED <<nodes, wrun>>
  BY <1>1, <1>2 DEF Request, CreateRun, CancelRun, PauseRun, ResumeRun, RetryFailedRun,
     RecoverOrphanedRuns, Tick
<1>3. ASSUME NEW w \in Worker, NEW r \in Run, Claim(w, r)
      PROVE  runStatus[q] = "absent" /\ Untouched(q)'
  <2>1. runStatus[q] = "absent" /\ q # r /\ nodes' = nodes
    BY <1>3 DEF Claim, Claimable
  <2>2. \A v \in Worker : wrun'[v] # q
    BY <1>1, <1>3, <2>1 DEF Claim, StagedInv, Untouched
  <2> QED
    BY <2>1, <2>2 DEF StagedInv, Untouched
<1>4. ASSUME NEW w \in Worker, WorkerStep(w) \/ Fault(w)
      PROVE  runStatus[q] = "absent" /\ Untouched(q)'
  <2>1. runStatus[q] = "absent"
    <3>1. CASE StartRun(w) \/ CompleteRun(w) \/ FailRun(w) \/ MarkRunFailedIfOwned(w)
      BY <1>1, <3>1 DEF StartRun, CompleteRun, FailRun, FailedStatus, MarkRunFailedIfOwned
    <3> QED
      BY <1>4, <3>1 DEF WorkerStep, Fault, LoadJobLost, LoadJob, StopNoticed, SourceRead,
         SourceLeaseLost, SourceDone, SinkDone, CompletionSkipped, CompletionDeclined,
         CompletionRejected, FailRunLeaseLost, FinalizeRunJob, HeartbeatLost, ReleaseRunJob,
         SetupFails, SourceFails, SinkFails, NodeFailed, StepRaises, HandlerRaises, Interrupt, Crash
  <2>2. Untouched(q)
    BY <2>1 DEF StagedInv
  <2>3. nodes'[q] = nodes[q]
    BY <1>4, <2>2, NodeRowStep DEF Untouched
  <2>4. ASSUME NEW v \in Worker PROVE wrun'[v] # q
    BY <1>4, <2>2, WorkerFrame, WorkerKeepsRun, ConstantsAssumption DEF Untouched
  <2> QED
    BY <2>1, <2>2, <2>3, <2>4 DEF Untouched
<1>5. ASSUME UNCHANGED <<runStatus, nodes, wrun>>
      PROVE  runStatus[q] = "absent" /\ Untouched(q)'
  BY <1>5 DEF StagedInv, Untouched
<1> QED
  BY <1>2, <1>3, <1>4, <1>5 DEF Next, vars, Heartbeat, StagedInv, Untouched

\* The source stages every selected stream.
LEMMA SourceStagesAll ==
  ASSUME TypeOK, NEW w \in Worker, SourceDone(w)
  PROVE  StagedAll(wrun[w])'
<1>1. wrun[w] \in Run /\ wrun' = wrun /\ selected' = selected
  BY WorkerHasRun DEF SourceDone
<1>2. cand \in [Run -> [Stream -> CandRow]] /\ selected[wrun[w]] \subseteq Stream
  BY <1>1 DEF TypeOK, StateTypeOK, RunTypeOK
<1>3. ASSUME NEW s \in selected[wrun[w]] PROVE cand'[wrun[w]][s].op = "save"
  <2>1. s \in ConfiguredStreams(w) /\ s \in Stream
    BY <1>2 DEF ConfiguredStreams
  <2>2. cand'[wrun[w]][s] = StagedCandidate(w, s)
    BY <1>1, <1>2, <2>1 DEF SourceDone
  <2> QED
    BY <2>2 DEF StagedCandidate
<1> QED
  BY <1>1, <1>3 DEF StagedAll

\* What an existing run has staged stays staged until the run is terminal.
LEMMA StagedKept ==
  ASSUME TypeOK, [Next]_vars, NEW q \in Run, StagedAll(q),
         runStatus[q] # "absent", runStatus'[q] \notin Terminal
  PROVE  StagedAll(q)'
<1>1. /\ runStatus \in [Run -> RunStatus] /\ cand \in [Run -> [Stream -> CandRow]]
      /\ selected \in [Run -> SUBSET Stream]
  BY DEF TypeOK, RunTypeOK, StateTypeOK
<1>2. selected'[q] = selected[q]
  BY <1>1, ZenonT(40) DEF Next, vars, Request, CreateRun, CancelRun, PauseRun, ResumeRun, RetryFailedRun,
     RecoverOrphanedRuns, Tick, Claim, Heartbeat, WorkerStep, Fault, LoadJobLost, LoadJob,
     StartRun, StopNoticed, SourceRead, SourceLeaseLost, SourceDone, SinkDone, CompleteRun,
     CompletionSkipped, CompletionDeclined, CompletionRejected, FailRun, FailRunLeaseLost,
     MarkRunFailedIfOwned, FinalizeRunJob, HeartbeatLost, ReleaseRunJob, SetupFails, SourceFails, SinkFails,
     NodeFailed, StepRaises, HandlerRaises, Interrupt, Crash
<1>3. CASE cand'[q] = cand[q]
  BY <1>2, <1>3 DEF StagedAll
<1>4. ASSUME NEW r \in Run, NEW streams \in SUBSET Stream, CreateRun(r, streams)
      PROVE  cand'[q] = cand[q]
  <2>1. q \notin InactiveFailedRuns
    BY <1>1, <1>4 DEF CreateRun, InactiveFailedRuns, Terminal
  <2> QED
    BY <1>1, <1>4, <2>1 DEF CreateRun
<1>5. ASSUME NEW r \in Run, CancelRun(r) PROVE cand'[q] = cand[q]
  BY <1>1, <1>5 DEF CancelRun, Terminal
<1>6. ASSUME NEW w \in Worker, CompleteRun(w) PROVE cand'[q] = cand[q]
  <2>1. wrun[w] # q
    BY <1>1, <1>6, CompletionEffect DEF Terminal
  <2> QED
    BY <1>1, <1>6, <2>1 DEF CompleteRun
<1>7. ASSUME NEW w \in Worker, SourceDone(w) PROVE StagedAll(q)'
  <2>1. CASE wrun[w] # q
    BY <1>1, <1>3, <1>7, <2>1 DEF SourceDone
  <2>2. CASE wrun[w] = q
    <3>1. wrun' = wrun
      BY <1>7 DEF SourceDone
    <3> QED
      BY <1>7, <2>2, <3>1, SourceStagesAll DEF StagedAll
  <2> QED
    BY <2>1, <2>2
<1> QED
  BY <1>3, <1>4, <1>5, <1>6, <1>7, CandidateWriters

\* Every step keeps the staging invariant.
LEMMA StagedStep == ASSUME TypeOK, StagedInv, [Next]_vars PROVE StagedInv'
<1> SUFFICES ASSUME NEW q \in Run
             PROVE  /\ runStatus'[q] = "absent" => Untouched(q)'
                    /\ PastSource(q)' /\ runStatus'[q] \notin Terminal => StagedAll(q)'
  BY DEF StagedInv
<1>1. runStatus'[q] = "absent" => Untouched(q)'
  BY AbsentStep
<1>2. ASSUME PastSource(q)', runStatus'[q] \notin Terminal PROVE StagedAll(q)'
  <2>1. CASE ~PastSource(q)
    <3>1. PICK w \in Worker : SourceDone(w) /\ wrun[w] = q
      BY <1>2, <2>1, PastSourceStep
    <3>2. wrun' = wrun
      BY <3>1 DEF SourceDone
    <3> QED
      BY <3>1, <3>2, SourceStagesAll DEF StagedAll
  <2>2. CASE PastSource(q)
    <3>1. runStatus[q] \notin Terminal
      BY <1>2, TerminalStep
    <3>2. runStatus[q] # "absent"
      BY <2>2 DEF StagedInv, Untouched, PastSource, NodeId
    <3> QED
      BY <1>2, <2>2, <3>1, <3>2, StagedKept DEF StagedInv
  <2> QED
    BY <2>1, <2>2
<1> QED
  BY <1>1, <1>2

\* The staging invariant holds in every reachable state.
LEMMA StagedCorrect == Spec => []StagedInv
<1>1. Init => StagedInv
  <2> SUFFICES ASSUME Init, NEW r \in Run PROVE Untouched(r) /\ ~PastSource(r)
    BY DEF StagedInv
  <2>1. \A n \in NodeId : nodes[r][n] = "none"
    BY DEF Init
  <2>2. \A w \in Worker : wrun[w] # r
    BY ConstantsAssumption DEF Init
  <2> QED
    BY <2>1, <2>2 DEF Untouched, PastSource, NodeId
<1>2. TypeOK /\ StagedInv /\ [Next]_vars => StagedInv'
  BY StagedStep
<1> QED
  BY <1>1, <1>2, TypeCorrect, PTL DEF Spec

\* What a completed source node staged stays staged until its run is terminal,
\* through pauses, lost leases, crashes and retries.
THEOREM SourceStaysStaged == Spec => []CompletedSourceStaysStaged
<1>1. StagedInv => CompletedSourceStaysStaged
  BY DEF StagedInv, CompletedSourceStaysStaged, PastSource, StagedAll
<1> QED
  BY <1>1, StagedCorrect, PTL

\* A run becomes completed only by its worker's completion transaction.
LEMMA OnlyCompletionCompletes ==
  ASSUME TypeOK, [Next]_vars, NEW q \in Run,
         runStatus[q] # "completed", runStatus'[q] = "completed"
  PROVE  \E w \in Worker : CompleteRun(w) /\ wrun[w] = q
<1>1. runStatus \in [Run -> RunStatus]
  BY DEF TypeOK, RunTypeOK
<1>2. ASSUME NEW r \in Run, Request(r) PROVE FALSE
  BY <1>1, <1>2 DEF Request, CreateRun, CancelRun, PauseRun, ResumeRun, RetryFailedRun
<1>3. ~RecoverOrphanedRuns
  BY <1>1 DEF RecoverOrphanedRuns
<1>4. ASSUME NEW w \in Worker, StartRun(w) \/ FailRun(w) \/ MarkRunFailedIfOwned(w) PROVE FALSE
  BY <1>1, <1>4 DEF StartRun, FailRun, FailedStatus, MarkRunFailedIfOwned
<1>5. ASSUME NEW w \in Worker, CompleteRun(w) PROVE wrun[w] = q
  BY <1>1, <1>5 DEF CompleteRun
<1> QED
  BY <1>2, <1>3, <1>4, <1>5 DEF Next, vars, Tick, Claim, Heartbeat, WorkerStep, Fault,
     LoadJobLost, LoadJob, StopNoticed, SourceRead, SourceLeaseLost, SourceDone, SinkDone,
     CompletionSkipped, CompletionDeclined, CompletionRejected, FailRunLeaseLost,
     FinalizeRunJob, HeartbeatLost, ReleaseRunJob, SetupFails, SourceFails, SinkFails, NodeFailed,
     StepRaises, HandlerRaises, Interrupt, Crash

\* A run that completes acknowledges every stream its graph version selects, also
\* when the execution that completes it is a retry that skipped the source.
THEOREM SelectionAcknowledged == Spec => CompletionAcknowledgesSelection
<1>1. ASSUME TypeOK, StagedInv, [Next]_vars, NEW r \in Run,
             runStatus[r] # "completed", runStatus'[r] = "completed", NEW s \in selected[r]
      PROVE  committed'[s].val = r
  <2>1. PICK w \in Worker : CompleteRun(w) /\ wrun[w] = r
    BY <1>1, OnlyCompletionCompletes
  <2>2. PastSource(r) /\ runStatus[r] \notin Terminal
    BY <2>1 DEF PastSource, AtSink, CompleteRun, Terminal
  <2>3. s \in Stream /\ cand[r][s].op = "save"
    BY <1>1, <2>2 DEF StagedInv, StagedAll, TypeOK, RunTypeOK
  <2>4. committed'[s] = Promoted(r, s)
    BY <1>1, <2>1, <2>3, CompletionEffect DEF StagedStreams
  <2> QED
    BY <2>3, <2>4 DEF Promoted
<1>2. TypeOK /\ StagedInv /\ [Next]_vars
        => [\A r \in Run : runStatus[r] # "completed" /\ runStatus'[r] = "completed"
                             => \A s \in selected[r] : committed'[s].val = r]_vars
  BY <1>1
<1> QED
  BY <1>2, TypeCorrect, StagedCorrect, PTL DEF Spec, CompletionAcknowledgesSelection

-----------------------------------------------------------------------------
(* Leases *)

\* Of all steps only these write a job.
LEMMA JobWriters ==
  ASSUME [Next]_vars, job' # job
  PROVE  \/ \E r \in Run : Request(r) \/ Tick(r)
         \/ RecoverOrphanedRuns
         \/ \E w \in Worker : \/ \E r \in Run : Claim(w, r)
                              \/ Heartbeat(w) \/ FinalizeRunJob(w) \/ ReleaseRunJob(w)
  BY DEF Next, vars, WorkerStep, Fault, LoadJobLost, LoadJob, StartRun, StopNoticed, SourceRead,
     SourceLeaseLost, SourceDone, SinkDone, CompleteRun, CompletionSkipped, CompletionDeclined,
     CompletionRejected, FailRun, FailRunLeaseLost, MarkRunFailedIfOwned, HeartbeatLost,
     SetupFails, SourceFails, SinkFails, NodeFailed, StepRaises, HandlerRaises, Interrupt, Crash

\* A job that leaves an unexpired lease was released or finalized by the slot it
\* was leased to, or queued again by a request that also changed the run.
LEMMA LeaseStep ==
  ASSUME TypeOK, [Next]_vars, NEW q \in Run, NEW v \in Worker,
         ValidLease(v, q), ~ValidLease(v, q)'
  PROVE  \/ job'[q].status = "leased" /\ job'[q].owner = v
         \/ wrun[v] = q /\ pc[v] \in {"finalize", "releasing"} /\ pc'[v] = "idle"
         \/ job'[q].status = "queued" /\ runStatus'[q] # runStatus[q]
<1>1. /\ job \in [Run -> JobRow] /\ runStatus \in [Run -> RunStatus]
      /\ pc \in [Worker -> Pc] /\ wrun \in [Worker -> Run \cup {None}]
  BY DEF TypeOK, RunTypeOK, WorkerTypeOK
<1>2. job[q].status = "leased" /\ job[q].owner = v /\ job[q].ttl > 0
  BY DEF ValidLease, Owned
<1>3. ~UNCHANGED job
  BY DEF ValidLease, Owned
<1>4. ASSUME NEW r \in Run, Request(r)
      PROVE  job'[q].status = "queued" /\ runStatus'[q] # runStatus[q]
  BY <1>1, <1>2, <1>3, <1>4 DEF Request, CreateRun, CancelRun, PauseRun, ResumeRun, RetryFailedRun,
     CanTransition, ValidTransitions, QueuedJob, ValidLease, Owned
<1>5. ~RecoverOrphanedRuns
  BY <1>1, <1>2 DEF RecoverOrphanedRuns, OrphanedRuns, ValidLease, Owned
<1>6. ASSUME NEW w \in Worker, NEW r \in Run, Claim(w, r) PROVE FALSE
  BY <1>1, <1>2, <1>6 DEF Claim, Claimable, ValidLease, Owned
<1>7. ASSUME NEW r \in Run, Tick(r) PROVE job'[q].status = "leased" /\ job'[q].owner = v
  BY <1>1, <1>2, <1>7 DEF Tick, JobRow
<1>8. ASSUME NEW w \in Worker, Heartbeat(w)
      PROVE  job'[q].status = "leased" /\ job'[q].owner = v
  BY <1>1, <1>2, <1>8 DEF Heartbeat, JobRow
<1>9. ASSUME NEW w \in Worker, FinalizeRunJob(w) \/ ReleaseRunJob(w)
      PROVE  wrun[v] = q /\ pc[v] \in {"finalize", "releasing"} /\ pc'[v] = "idle"
  <2>1. wrun[w] \in Run
    BY <1>9, WorkerHasRun DEF FinalizeRunJob, ReleaseRunJob
  <2>2. Owned(w, wrun[w]) /\ wrun[w] = q
    BY <1>1, <1>2, <1>9, <2>1 DEF FinalizeRunJob, FinalizedJob, ReleaseRunJob, ValidLease, Owned
  <2>3. w = v
    BY <1>2, <2>2 DEF Owned
  <2> QED
    BY <1>1, <1>9, <2>2, <2>3 DEF FinalizeRunJob, ReleaseRunJob, BecomeIdle
<1> QED
  BY <1>3, <1>4, <1>5, <1>6, <1>7, <1>8, <1>9, JobWriters

\* Nobody is pushed out of an unexpired lease: no claim, no recovery and no stale
\* slot ends it, only its own slot, the clock, or an operator's resume or retry.
THEOREM LeaseExclusive == Spec => LeaseIsExclusive
<1>1. TypeOK /\ [Next]_vars
        => [\A r \in Run, w \in Worker : ValidLease(w, r) /\ ~ValidLease(w, r)' =>
              \/ job'[r].status = "leased" /\ job'[r].owner = w
              \/ wrun[w] = r /\ pc[w] \in {"finalize", "releasing"} /\ pc'[w] = "idle"
              \/ job'[r].status = "queued" /\ runStatus'[r] # runStatus[r]]_vars
  BY LeaseStep
<1> QED
  BY <1>1, TypeCorrect, PTL DEF Spec, LeaseIsExclusive

-----------------------------------------------------------------------------
(* Finished jobs *)

\* A queued or leased job belongs to a run that exists and is not superseded.
LiveJobsHaveRuns ==
    \A r \in Run : job[r].status \in {"queued", "leased"}
                     => runStatus[r] \notin {"absent", "superseded"}

\* The exception handler ends with an error.
HandlersReportErrors == \A w \in Worker : pc[w] = "markfail" => task[w].outcome = "error"

\* A slot that executes nodes and still has its lease is past the start of its run.
InExecution == {"source", "reading", "sink", "complete", "failrun"}
OwnersAreStarted ==
    \A w \in Worker : pc[w] \in InExecution /\ Owned(w, wrun[w]) => runStatus[wrun[w]] # "pending"

\* An owner that is about to finish its job without an error knows the run stopped.
FinishersAreDone ==
    \A w \in Worker : pc[w] = "finalize" /\ task[w].outcome = "ok" /\ Owned(w, wrun[w])
                        => runStatus[wrun[w]] \in {"paused", "completed", "cancelled"}

\* Inductive: what finalization relies on was seen before the lease could be
\* checked, and stays so exactly as long as the lease is kept.
SettledInv == /\ LiveJobsHaveRuns /\ HandlersReportErrors /\ OwnersAreStarted
              /\ FinishersAreDone /\ CompletedJobsAreSettled

\* A job becomes leased to a slot only when the slot claims it.
LEMMA OnlyClaimsLease ==
  ASSUME TypeOK, [Next]_vars, NEW q \in Run, NEW v \in Worker, Owned(v, q)', ~Owned(v, q)
  PROVE  Claim(v, q)
<1>1. job \in [Run -> JobRow]
  BY DEF TypeOK, RunTypeOK
<1>2. job' # job /\ job'[q].status = "leased" /\ job'[q].owner = v
  BY DEF Owned
<1>3. ASSUME NEW r \in Run, Request(r) PROVE FALSE
  BY <1>1, <1>2, <1>3 DEF Request, CreateRun, CancelRun, PauseRun, ResumeRun, RetryFailedRun,
     QueuedJob, Owned
<1>4. ~RecoverOrphanedRuns
  BY <1>1, <1>2 DEF RecoverOrphanedRuns, QueuedJob, Owned
<1>5. ASSUME NEW w \in Worker, NEW r \in Run, Claim(w, r) PROVE w = v /\ r = q
  BY <1>1, <1>2, <1>5 DEF Claim, LeasedJob, Owned
<1>6. ASSUME NEW r \in Run, Tick(r) PROVE FALSE
  BY <1>1, <1>2, <1>6 DEF Tick, JobRow, Owned
<1>7. ASSUME NEW w \in Worker, Heartbeat(w) PROVE FALSE
  <2>1. wrun[w] \in Run
    BY <1>7, WorkerHasRun DEF Heartbeat, Processing
  <2> QED
    BY <1>1, <1>2, <1>7, <2>1 DEF Heartbeat, ValidLease, JobRow, Owned
<1>8. ASSUME NEW w \in Worker, FinalizeRunJob(w) \/ ReleaseRunJob(w) PROVE FALSE
  <2>1. wrun[w] \in Run
    BY <1>8, WorkerHasRun DEF FinalizeRunJob, ReleaseRunJob
  <2> QED
    BY <1>1, <1>2, <1>8, <2>1 DEF FinalizeRunJob, FinalizedJob, FinishedJob, ReleaseRunJob,
       QueuedJob, Owned
<1> QED
  BY <1>2, <1>3, <1>4, <1>5, <1>6, <1>7, <1>8, JobWriters

\* Of all steps only these write the status of a run.
LEMMA StatusWriters ==
  ASSUME [Next]_vars, runStatus' # runStatus
  PROVE  \/ \E r \in Run : Request(r)
         \/ RecoverOrphanedRuns
         \/ \E w \in Worker : StartRun(w) \/ CompleteRun(w) \/ FailRun(w) \/ MarkRunFailedIfOwned(w)
  BY DEF Next, vars, Tick, Claim, Heartbeat,
     WorkerStep, Fault, LoadJobLost, LoadJob, StopNoticed, SourceRead, SourceLeaseLost, SourceDone,
     SinkDone, CompletionSkipped, CompletionDeclined, CompletionRejected, FailRunLeaseLost,
     FinalizeRunJob, HeartbeatLost, ReleaseRunJob, SetupFails, SourceFails, SinkFails,
     NodeFailed, StepRaises, HandlerRaises, Interrupt, Crash

\* While a job stays leased, only slots move its run: a request that moves it on
\* queues the job again, pauses it or cancels it.
LEMMA LeasedRunMoves ==
  ASSUME TypeOK, [Next]_vars, NEW q \in Run,
         job[q].status = "leased", job'[q].status = "leased", runStatus'[q] # runStatus[q]
  PROVE  \/ runStatus[q] \in {"pending", "running", "paused"} /\ runStatus'[q] = "cancelled"
         \/ runStatus[q] = "running" /\ runStatus'[q] \in {"paused", "completed", "failed"}
         \/ /\ runStatus'[q] = "running"
            /\ \E w \in Worker : StartRun(w) /\ wrun[w] = q /\ runStatus[q] \in Startable(w, q)
<1>1. job \in [Run -> JobRow] /\ runStatus \in [Run -> RunStatus]
  BY DEF TypeOK, RunTypeOK
<1>2. ASSUME NEW r \in Run, NEW streams \in SUBSET Stream PROVE ~CreateRun(r, streams)
  BY <1>1 DEF CreateRun, InactiveFailedRuns, QueuedJob
<1>3. ASSUME NEW r \in Run, CancelRun(r)
      PROVE  runStatus[q] \in {"pending", "running", "paused"} /\ runStatus'[q] = "cancelled"
  BY <1>1, <1>3 DEF CancelRun, CanTransition, ValidTransitions, RunStatus, Terminal
<1>4. ASSUME NEW r \in Run, PauseRun(r)
      PROVE  runStatus[q] = "running" /\ runStatus'[q] = "paused"
  BY <1>1, <1>4 DEF PauseRun, CanTransition, ValidTransitions, RunStatus, Terminal
<1>5. ASSUME NEW r \in Run PROVE ~ResumeRun(r) /\ ~RetryFailedRun(r)
  BY <1>1 DEF ResumeRun, RetryFailedRun, QueuedJob
<1>6. ~RecoverOrphanedRuns
  BY <1>1 DEF RecoverOrphanedRuns, OrphanedRuns
<1>7. ASSUME NEW w \in Worker, StartRun(w)
      PROVE  runStatus'[q] = "running" /\ wrun[w] = q /\ runStatus[q] \in Startable(w, q)
  BY <1>1, <1>7 DEF StartRun
<1>8. ASSUME NEW w \in Worker, CompleteRun(w) \/ FailRun(w) \/ MarkRunFailedIfOwned(w)
      PROVE  runStatus[q] = "running" /\ runStatus'[q] \in {"completed", "failed"}
  BY <1>1, <1>8 DEF CompleteRun, FailRun, FailedStatus, MarkRunFailedIfOwned
<1> QED
  BY <1>2, <1>3, <1>4, <1>5, <1>6, <1>7, <1>8, StatusWriters DEF Request

\* What a slot is in the middle of changes by its own step, by its own claim, or
\* not at all; a claim of the same run by another slot touches task.rows only.
LEMMA SlotStep ==
  ASSUME TypeOK, [Next]_vars, NEW v \in Worker
  PROVE  \/ WorkerStep(v) \/ Fault(v)
         \/ \E r \in Run : Claim(v, r)
         \/ /\ pc'[v] = pc[v] /\ wrun'[v] = wrun[v]
            /\ task'[v].outcome = task[v].outcome /\ task'[v].mode = task[v].mode
<1>1. /\ pc \in [Worker -> Pc] /\ wrun \in [Worker -> Run \cup {None}]
      /\ task \in [Worker -> Task]
  BY DEF TypeOK, WorkerTypeOK
<1>2. ASSUME NEW w \in Worker, WorkerStep(w) \/ Fault(w), w # v
      PROVE  pc'[v] = pc[v] /\ wrun'[v] = wrun[v] /\ task'[v] = task[v]
  BY <1>2, WorkerFrame
<1>3. ASSUME NEW w \in Worker, NEW r \in Run, Claim(w, r), w # v
      PROVE  /\ pc'[v] = pc[v] /\ wrun'[v] = wrun[v]
             /\ task'[v].outcome = task[v].outcome /\ task'[v].mode = task[v].mode
  BY <1>1, <1>3 DEF Claim, Task
<1>4. CASE UNCHANGED workerVars
  BY <1>4
<1> QED
  BY <1>2, <1>3, <1>4 DEF Next, vars, Request, CreateRun, CancelRun, PauseRun, ResumeRun,
     RetryFailedRun, RecoverOrphanedRuns, Tick, Heartbeat

\* A slot that does not claim keeps its run as long as it has one, and does not
\* come to own it.
LEMMA OwnerStep ==
  ASSUME TypeOK, [Next]_vars, NEW v \in Worker,
         pc'[v] \notin {"idle", "dead", "claimed"}, Owned(v, wrun[v])'
  PROVE  wrun'[v] = wrun[v] /\ wrun[v] \in Run /\ Owned(v, wrun[v])
<1>1. TypeOK'
  BY TypeNext
<1>2. wrun'[v] \in Run
  BY <1>1 DEF TypeOK, WorkerTypeOK
<1>3. ~\E r \in Run : Claim(v, r)
  BY DEF Claim, TypeOK, WorkerTypeOK
<1>4. wrun'[v] = wrun[v]
  BY <1>2, <1>3, SlotStep, WorkerKeepsRun, ConstantsAssumption
<1>5. PICK q \in Run : q = wrun[v] /\ wrun'[v] = q
  BY <1>2, <1>4
<1>6. Owned(v, q)'
  BY <1>5 DEF Owned
<1>7. Owned(v, q)
  BY <1>3, <1>6, OnlyClaimsLease
<1> QED
  BY <1>5, <1>7

\* A slot begins to execute nodes only by starting the run.
LEMMA EnterExecution ==
  ASSUME TypeOK, NEW v \in Worker, WorkerStep(v) \/ Fault(v),
         pc'[v] \in InExecution, pc[v] \notin InExecution
  PROVE  StartRun(v) /\ runStatus'[wrun[v]] = "running"
<1>1. pc \in [Worker -> Pc] /\ runStatus \in [Run -> RunStatus]
  BY DEF TypeOK, RunTypeOK, WorkerTypeOK
<1>2. ~BecomeIdle(v) /\ ~Crash(v) /\ ~Raised(v) /\ ~(\E status : Returned(v, status))
  BY <1>1 DEF BecomeIdle, Crash, Raised, Returned, Goto, InExecution
<1>3. ASSUME NEW next \in Pc, Goto(v, next) PROVE pc'[v] = next
  BY <1>1, <1>3 DEF Goto
<1>4. CASE StartRun(v)
  <2>1. wrun[v] \in Run
    BY <1>4, WorkerHasRun DEF StartRun
  <2> QED
    BY <1>1, <1>2, <1>4, <2>1 DEF StartRun
<1>5. CASE LoadJob(v)
  BY <1>2, <1>3, <1>5 DEF LoadJob, Pc, InExecution
<1>6. CASE SourceRead(v) \/ SourceDone(v) \/ SinkDone(v) \/ SetupFails(v) \/ SourceFails(v) \/ SinkFails(v)
  BY <1>6 DEF SourceRead, SourceDone, SinkDone, SetupFails, SourceFails, SinkFails, InExecution
<1>7. CASE MarkRunFailedIfOwned(v) \/ HeartbeatLost(v) \/ Interrupt(v)
  BY <1>2, <1>3, <1>7 DEF MarkRunFailedIfOwned, HeartbeatLost, Interrupt, Interrupted, Pc, InExecution
<1> QED
  BY <1>2, <1>4, <1>5, <1>6, <1>7 DEF WorkerStep, Fault, LoadJobLost, StopNoticed,
     SourceLeaseLost, CompleteRun, CompletionSkipped, CompletionDeclined, CompletionRejected,
     FailRun, FailRunLeaseLost, FinalizeRunJob, ReleaseRunJob, StepRaises, HandlerRaises

\* Live jobs keep having a run: superseding skips runs with a live job, and only
\* a run that can go on is queued.
LEMMA LiveJobsStep ==
  ASSUME TypeOK, LiveJobsHaveRuns, [Next]_vars PROVE LiveJobsHaveRuns'
<1> SUFFICES ASSUME NEW q \in Run, job'[q].status \in {"queued", "leased"}
             PROVE  runStatus'[q] \notin {"absent", "superseded"}
  BY DEF LiveJobsHaveRuns
<1>1. job \in [Run -> JobRow] /\ runStatus \in [Run -> RunStatus]
  BY DEF TypeOK, RunTypeOK
<1>2. CASE job[q].status \in {"queued", "leased"}
  <2>1. runStatus[q] \notin {"absent", "superseded"}
    BY <1>2 DEF LiveJobsHaveRuns
  <2>2. ASSUME NEW r \in Run, Request(r) PROVE runStatus'[q] \notin {"absent", "superseded"}
    BY <1>1, <1>2, <2>1, <2>2 DEF Request, CreateRun, InactiveFailedRuns, CancelRun, PauseRun,
       ResumeRun, RetryFailedRun
  <2>3. ASSUME RecoverOrphanedRuns PROVE runStatus'[q] \notin {"absent", "superseded"}
    BY <1>1, <2>1, <2>3 DEF RecoverOrphanedRuns
  <2>4. ASSUME NEW w \in Worker,
               StartRun(w) \/ CompleteRun(w) \/ FailRun(w) \/ MarkRunFailedIfOwned(w)
        PROVE  runStatus'[q] \notin {"absent", "superseded"}
    BY <1>1, <2>1, <2>4 DEF StartRun, CompleteRun, FailRun, FailedStatus, MarkRunFailedIfOwned
  <2> QED
    BY <2>1, <2>2, <2>3, <2>4, StatusWriters
<1>3. CASE job[q].status \notin {"queued", "leased"}
  <2>1. job' # job
    BY <1>3
  <2>2. ASSUME NEW r \in Run, Request(r) PROVE runStatus'[q] \notin {"absent", "superseded"}
    BY <1>1, <1>3, <2>2 DEF Request, CreateRun, CancelRun, PauseRun, ResumeRun, RetryFailedRun
  <2>3. ASSUME RecoverOrphanedRuns PROVE runStatus'[q] \notin {"absent", "superseded"}
    BY <1>1, <1>3, <2>3 DEF RecoverOrphanedRuns
  <2>4. ASSUME NEW w \in Worker, NEW r \in Run, Claim(w, r)
        PROVE  runStatus'[q] \notin {"absent", "superseded"}
    BY <1>1, <1>3, <2>4 DEF Claim, Claimable
  <2>5. ASSUME NEW r \in Run, Tick(r) PROVE FALSE
    BY <1>1, <1>3, <2>5 DEF Tick, JobRow
  <2>6. ASSUME NEW w \in Worker, Heartbeat(w) \/ FinalizeRunJob(w) \/ ReleaseRunJob(w) PROVE FALSE
    <3>1. wrun[w] \in Run
      BY <2>6, WorkerHasRun DEF Heartbeat, Processing, FinalizeRunJob, ReleaseRunJob
    <3> QED
      BY <1>1, <1>3, <2>6, <3>1 DEF Heartbeat, ValidLease, JobRow, FinalizeRunJob, FinalizedJob,
         FinishedJob, ReleaseRunJob, Owned
  <2> QED
    BY <2>1, <2>2, <2>3, <2>4, <2>5, <2>6, JobWriters
<1> QED
  BY <1>2, <1>3

\* Whoever gets to the exception handler has recorded the error.
LEMMA HandlersStep ==
  ASSUME TypeOK, HandlersReportErrors, [Next]_vars PROVE HandlersReportErrors'
<1> SUFFICES ASSUME NEW v \in Worker, pc'[v] = "markfail" PROVE task'[v].outcome = "error"
  BY DEF HandlersReportErrors
<1>1. /\ pc \in [Worker -> Pc] /\ task \in [Worker -> Task]
  BY DEF TypeOK, WorkerTypeOK
<1>2. ASSUME NEW r \in Run, Claim(v, r) PROVE FALSE
  BY <1>1, <1>2 DEF Claim
<1>3. ASSUME WorkerStep(v) \/ Fault(v) PROVE task'[v].outcome = "error"
  <2>1. ~BecomeIdle(v) /\ ~Crash(v) /\ ~(\E status : Returned(v, status))
    BY <1>1 DEF BecomeIdle, Crash, Returned, Goto
  <2>2. ASSUME NEW next \in Pc, Goto(v, next) PROVE next = "markfail"
    BY <1>1, <2>2 DEF Goto
  <2>3. CASE Raised(v)
    BY <1>1, <2>3 DEF Raised, Task
  <2>4. ~LoadJob(v) /\ ~StartRun(v)
    BY <2>1, <2>2 DEF LoadJob, StartRun, Pc
  <2>5. ~SourceRead(v) /\ ~SourceDone(v) /\ ~SinkDone(v)
    BY <1>1 DEF SourceRead, SourceDone, SinkDone, Goto
  <2>6. ~SetupFails(v) /\ ~SourceFails(v) /\ ~SinkFails(v)
    BY <1>1 DEF SetupFails, SourceFails, SinkFails, NodeFailed, Goto
  <2>7. ~MarkRunFailedIfOwned(v) /\ ~HeartbeatLost(v) /\ ~Interrupt(v)
    BY <2>1, <2>2 DEF MarkRunFailedIfOwned, HeartbeatLost, Interrupt, Interrupted, Pc
  <2> QED
    BY <1>3, <2>1, <2>3, <2>4, <2>5, <2>6, <2>7 DEF WorkerStep, Fault, LoadJobLost, StopNoticed,
       SourceLeaseLost, CompleteRun, CompletionSkipped, CompletionDeclined, CompletionRejected,
       FailRun, FailRunLeaseLost, FinalizeRunJob, ReleaseRunJob, StepRaises, HandlerRaises
<1>4. CASE pc'[v] = pc[v] /\ task'[v].outcome = task[v].outcome
  BY <1>4 DEF HandlersReportErrors
<1> QED
  BY <1>2, <1>3, <1>4, SlotStep

\* The run of a slot that executes under its own lease does not go back to pending.
LEMMA OwnersStep ==
  ASSUME TypeOK, OwnersAreStarted, [Next]_vars PROVE OwnersAreStarted'
<1> SUFFICES ASSUME NEW v \in Worker, pc'[v] \in InExecution, Owned(v, wrun[v])'
             PROVE  runStatus'[wrun'[v]] # "pending"
  BY DEF OwnersAreStarted
<1>1. PICK q \in Run : q = wrun[v] /\ wrun'[v] = q /\ Owned(v, q)
  BY OwnerStep DEF InExecution
<1>2. job[q].status = "leased" /\ job'[q].status = "leased"
  BY <1>1 DEF Owned
<1>3. CASE pc[v] \in InExecution
  <2>1. runStatus[q] # "pending"
    BY <1>1, <1>3 DEF OwnersAreStarted
  <2> QED
    BY <1>1, <1>2, <2>1, LeasedRunMoves
<1>4. CASE pc[v] \notin InExecution
  <2>1. WorkerStep(v) \/ Fault(v)
    BY <1>4, SlotStep DEF Claim, InExecution, TypeOK, WorkerTypeOK
  <2> QED
    BY <1>1, <1>4, <2>1, EnterExecution
<1> QED
  BY <1>3, <1>4

\* A slot that goes to finish its job without an error, and is still its owner,
\* has just seen a run that is paused, completed or cancelled.
LEMMA EnterFinalize ==
  ASSUME TypeOK, LiveJobsHaveRuns, HandlersReportErrors, OwnersAreStarted,
         NEW v \in Worker, WorkerStep(v) \/ Fault(v), wrun[v] \in Run, Owned(v, wrun[v]),
         pc'[v] = "finalize", task'[v].outcome = "ok"
  PROVE  runStatus'[wrun[v]] \in {"paused", "completed", "cancelled"}
<1>1. /\ pc \in [Worker -> Pc] /\ task \in [Worker -> Task] /\ runStatus \in [Run -> RunStatus]
  BY DEF TypeOK, RunTypeOK, WorkerTypeOK
<1>2. runStatus[wrun[v]] \notin {"absent", "superseded"}
  BY DEF LiveJobsHaveRuns, Owned
<1>3. pc[v] \in InExecution => runStatus[wrun[v]] # "pending"
  BY DEF OwnersAreStarted
<1>4. ~BecomeIdle(v) /\ ~Crash(v) /\ ~Raised(v)
  BY <1>1 DEF BecomeIdle, Crash, Raised, Goto
<1>5. ASSUME NEW next \in Pc, Goto(v, next) PROVE next = "finalize"
  BY <1>1, <1>5 DEF Goto
<1>6. ASSUME NEW status, Returned(v, status) PROVE status # "failed"
  BY <1>1, <1>6 DEF Returned, Task
<1>7. CASE LoadJob(v)
  <2>1. runStatus[wrun[v]] \in {"paused", "cancelled", "completed", "superseded"}
    BY <1>5, <1>7 DEF LoadJob, Pc
  <2> QED
    BY <1>2, <1>7, <2>1 DEF LoadJob
<1>8. CASE StartRun(v)
  <2>1. runStatus[wrun[v]] # "running" /\ runStatus[wrun[v]] \notin Startable(v, wrun[v])
    BY <1>5, <1>8 DEF StartRun, Pc
  <2>2. Returned(v, runStatus[wrun[v]]) /\ runStatus'[wrun[v]] = runStatus[wrun[v]]
    BY <1>1, <1>8, <2>1 DEF StartRun
  <2>3. runStatus[wrun[v]] \notin {"pending", "failed"}
    BY <1>6, <2>1, <2>2 DEF Startable
  <2> QED
    BY <1>1, <1>2, <2>1, <2>2, <2>3 DEF RunStatus, Terminal
<1>9. CASE StopNoticed(v)
  BY <1>9 DEF StopNoticed
<1>10. CASE CompleteRun(v)
  BY <1>1, <1>10 DEF CompleteRun
<1>11. CASE CompletionSkipped(v)
  BY <1>1, <1>2, <1>3, <1>6, <1>11 DEF CompletionSkipped, InExecution, RunStatus, Terminal
<1>12. CASE CompletionDeclined(v)
  BY <1>12 DEF CompletionDeclined
<1>13. CASE FailRun(v)
  BY <1>1, <1>2, <1>3, <1>6, <1>13 DEF FailRun, FailedStatus, InExecution, RunStatus, Terminal
<1>14. ~MarkRunFailedIfOwned(v)
  BY DEF MarkRunFailedIfOwned, HandlersReportErrors
<1>15. ~SourceRead(v) /\ ~SourceDone(v) /\ ~SinkDone(v)
  BY <1>1 DEF SourceRead, SourceDone, SinkDone, Goto
<1>16. ~SetupFails(v) /\ ~SourceFails(v) /\ ~SinkFails(v)
  BY <1>1 DEF SetupFails, SourceFails, SinkFails, NodeFailed, Goto
<1>17. ~HeartbeatLost(v) /\ ~Interrupt(v)
  BY <1>4, <1>5 DEF HeartbeatLost, Interrupt, Interrupted, Pc
<1> QED
  BY <1>4, <1>7, <1>8, <1>9, <1>10, <1>11, <1>12, <1>13, <1>14, <1>15, <1>16, <1>17
     DEF WorkerStep, Fault, LoadJobLost, SourceLeaseLost, CompletionRejected,
     FailRunLeaseLost, FinalizeRunJob, ReleaseRunJob, StepRaises, HandlerRaises

\* Its run does not go on again while it keeps the lease: resuming takes it away.
LEMMA FinishersStep ==
  ASSUME TypeOK, SettledInv, [Next]_vars PROVE FinishersAreDone'
<1> SUFFICES ASSUME NEW v \in Worker, pc'[v] = "finalize", task'[v].outcome = "ok",
                    Owned(v, wrun[v])'
             PROVE  runStatus'[wrun'[v]] \in {"paused", "completed", "cancelled"}
  BY DEF FinishersAreDone
<1>1. PICK q \in Run : q = wrun[v] /\ wrun'[v] = q /\ Owned(v, q)
  BY OwnerStep
<1>2. job[q].status = "leased" /\ job'[q].status = "leased"
  BY <1>1 DEF Owned
<1>3. ASSUME NEW r \in Run, Claim(v, r) PROVE FALSE
  BY <1>3 DEF Claim, TypeOK, WorkerTypeOK
<1>4. CASE WorkerStep(v) \/ Fault(v)
  BY <1>1, <1>4, EnterFinalize DEF SettledInv
<1>5. CASE pc'[v] = pc[v] /\ task'[v].outcome = task[v].outcome
  <2>1. runStatus[q] \in {"paused", "completed", "cancelled"}
    BY <1>1, <1>5 DEF SettledInv, FinishersAreDone
  <2>2. ASSUME NEW w \in Worker PROVE runStatus[q] \notin Startable(w, q)
    BY <2>1 DEF Startable
  <2> QED
    BY <1>1, <1>2, <2>1, <2>2, LeasedRunMoves
<1> QED
  BY <1>3, <1>4, <1>5, SlotStep

\* Only finalization under the lease finishes a job.
LEMMA OnlyFinalizeFinishes ==
  ASSUME TypeOK, [Next]_vars, NEW q \in Run,
         job'[q].status \in {"completed", "failed"}, job[q].status # job'[q].status
  PROVE  \E w \in Worker : /\ FinalizeRunJob(w) /\ wrun[w] = q /\ Owned(w, q)
                           /\ runStatus[q] # "paused" /\ job[q].ttl > 0
                           /\ job'[q] = FinishedJob(w, q)
<1>1. job \in [Run -> JobRow]
  BY DEF TypeOK, RunTypeOK
<1>2. ASSUME NEW r \in Run, Request(r) PROVE FALSE
  BY <1>1, <1>2 DEF Request, CreateRun, CancelRun, PauseRun, ResumeRun, RetryFailedRun, QueuedJob
<1>3. ASSUME RecoverOrphanedRuns PROVE FALSE
  BY <1>1, <1>3 DEF RecoverOrphanedRuns, QueuedJob
<1>4. ASSUME NEW w \in Worker, NEW r \in Run, Claim(w, r) PROVE FALSE
  BY <1>1, <1>4 DEF Claim, LeasedJob
<1>5. ASSUME NEW r \in Run, Tick(r) PROVE FALSE
  BY <1>1, <1>5 DEF Tick, JobRow
<1>6. ASSUME NEW w \in Worker, Heartbeat(w) \/ ReleaseRunJob(w) PROVE FALSE
  <2>1. wrun[w] \in Run
    BY <1>6, WorkerHasRun DEF Heartbeat, Processing, ReleaseRunJob
  <2> QED
    BY <1>1, <1>6, <2>1 DEF Heartbeat, JobRow, ReleaseRunJob, QueuedJob
<1>7. ASSUME NEW w \in Worker, FinalizeRunJob(w)
      PROVE  /\ wrun[w] = q /\ Owned(w, q) /\ runStatus[q] # "paused" /\ job[q].ttl > 0
             /\ job'[q] = FinishedJob(w, q)
  <2>1. wrun[w] = q
    BY <1>1, <1>7 DEF FinalizeRunJob
  <2>2. job'[q] = FinalizedJob(w, q)
    BY <1>1, <1>7, <2>1 DEF FinalizeRunJob
  <2> QED
    BY <2>1, <2>2 DEF FinalizedJob, QueuedJob
<1> QED
  BY <1>2, <1>3, <1>4, <1>5, <1>6, <1>7, JobWriters

\* Every step keeps the invariant.
LEMMA SettledStep == ASSUME TypeOK, SettledInv, [Next]_vars PROVE SettledInv'
<1>1. CompletedJobsAreSettled'
  <2> SUFFICES ASSUME NEW q \in Run, job'[q].status = "completed"
               PROVE  runStatus'[q] \in {"completed", "cancelled"}
    BY DEF CompletedJobsAreSettled
  <2>1. CASE job[q].status = "completed"
    <3>1. runStatus[q] \in {"completed", "cancelled"}
      BY <2>1 DEF SettledInv, CompletedJobsAreSettled
    <3> QED
      BY <3>1, TerminalStep DEF Terminal
  <2>2. CASE job[q].status # "completed"
    <3>1. PICK w \in Worker : /\ FinalizeRunJob(w) /\ wrun[w] = q /\ Owned(w, q)
                              /\ runStatus[q] # "paused" /\ job'[q] = FinishedJob(w, q)
      BY <2>2, OnlyFinalizeFinishes
    <3>2. task[w].outcome = "ok"
      BY <3>1 DEF FinishedJob, TypeOK, WorkerTypeOK, Task
    <3>3. runStatus[q] \in {"paused", "completed", "cancelled"}
      BY <3>1, <3>2 DEF FinalizeRunJob, SettledInv, FinishersAreDone
    <3>4. runStatus' = runStatus
      BY <3>1 DEF FinalizeRunJob
    <3> QED
      BY <3>1, <3>3, <3>4
  <2> QED
    BY <2>1, <2>2
<1>2. LiveJobsHaveRuns'
  BY LiveJobsStep DEF SettledInv
<1>3. HandlersReportErrors'
  BY HandlersStep DEF SettledInv
<1>4. OwnersAreStarted'
  BY OwnersStep DEF SettledInv
<1>5. FinishersAreDone'
  BY FinishersStep
<1> QED
  BY <1>1, <1>2, <1>3, <1>4, <1>5 DEF SettledInv

\* The invariant holds in every reachable state.
LEMMA SettledCorrect == Spec => []SettledInv
<1>1. Init => SettledInv
  BY DEF Init, SettledInv, LiveJobsHaveRuns, HandlersReportErrors, OwnersAreStarted,
     FinishersAreDone, CompletedJobsAreSettled, NoJob, InExecution
<1>2. TypeOK /\ SettledInv /\ [Next]_vars => SettledInv'
  BY SettledStep
<1> QED
  BY <1>1, <1>2, TypeCorrect, PTL DEF Spec

\* A job ends without an error only for a run that completed or was cancelled:
\* finalization never buries a run that is paused, failed or still going on.
THEOREM JobsSettled == Spec => []CompletedJobsAreSettled
<1>1. SettledInv => CompletedJobsAreSettled
  BY DEF SettledInv
<1> QED
  BY <1>1, SettledCorrect, PTL

-----------------------------------------------------------------------------
(* First dispatches *)

\* A slot that retries failed nodes works on a run that has been retried.
RetriersWereRetried ==
    \A w \in Worker : pc[w] \notin {"idle", "dead"} /\ task[w].mode = "retry_failed" =>
        /\ runStatus[wrun[w]] # "absent"
        /\ job[wrun[w]].status # "none" /\ job[wrun[w]].type = "retry_failed"

\* An owner in the exception handler had started its run.
HandlersAreStarted ==
    \A w \in Worker : pc[w] = "markfail" /\ Owned(w, wrun[w]) => runStatus[wrun[w]] # "pending"

\* An owner about to fail the job of a first dispatch leaves no run going on.
FailersAreDone ==
    \A w \in Worker :
        pc[w] = "finalize" /\ task[w].outcome = "error"
          /\ ValidLease(w, wrun[w]) /\ job[wrun[w]].type = "full"
        => runStatus[wrun[w]] \notin {"pending", "running"}

\* Inductive, as long as no exception strikes before a run is marked running.
DispatchInv == /\ RetriersWereRetried /\ HandlersAreStarted
               /\ FailersAreDone /\ FirstDispatchIsRecoverable

\* A run that has been retried keeps its job and the job's type.
LEMMA RetriedStays ==
  ASSUME TypeOK, [Next]_vars, NEW q \in Run, runStatus[q] # "absent",
         job[q].status # "none", job[q].type = "retry_failed"
  PROVE  runStatus'[q] # "absent" /\ job'[q].status # "none" /\ job'[q].type = "retry_failed"
<1>1. job \in [Run -> JobRow] /\ runStatus \in [Run -> RunStatus]
  BY DEF TypeOK, RunTypeOK
<1>2. runStatus'[q] # "absent"
  <2>1. ASSUME NEW r \in Run, Request(r) PROVE runStatus'[q] # "absent"
    BY <1>1, <2>1 DEF Request, CreateRun, CancelRun, PauseRun, ResumeRun, RetryFailedRun
  <2>2. ASSUME RecoverOrphanedRuns PROVE runStatus'[q] # "absent"
    BY <1>1, <2>2 DEF RecoverOrphanedRuns
  <2>3. ASSUME NEW w \in Worker,
               StartRun(w) \/ CompleteRun(w) \/ FailRun(w) \/ MarkRunFailedIfOwned(w)
        PROVE  runStatus'[q] # "absent"
    BY <1>1, <2>3 DEF StartRun, CompleteRun, FailRun, FailedStatus, MarkRunFailedIfOwned
  <2> QED
    BY <2>1, <2>2, <2>3, StatusWriters
<1>3. job'[q].status # "none" /\ job'[q].type = "retry_failed"
  <2>1. ASSUME NEW r \in Run, Request(r)
        PROVE  job'[q].status # "none" /\ job'[q].type = "retry_failed"
    BY <1>1, <2>1 DEF Request, CreateRun, CancelRun, PauseRun, ResumeRun, RetryFailedRun, QueuedJob
  <2>2. ASSUME RecoverOrphanedRuns
        PROVE  job'[q].status # "none" /\ job'[q].type = "retry_failed"
    BY <1>1, <2>2 DEF RecoverOrphanedRuns, OrphanedRuns
  <2>3. ASSUME NEW w \in Worker, NEW r \in Run, Claim(w, r)
        PROVE  job'[q].status # "none" /\ job'[q].type = "retry_failed"
    BY <1>1, <2>3 DEF Claim, LeasedJob
  <2>4. ASSUME NEW r \in Run, Tick(r)
        PROVE  job'[q].status # "none" /\ job'[q].type = "retry_failed"
    BY <1>1, <2>4 DEF Tick, JobRow
  <2>5. ASSUME NEW w \in Worker, Heartbeat(w) \/ FinalizeRunJob(w) \/ ReleaseRunJob(w)
        PROVE  job'[q].status # "none" /\ job'[q].type = "retry_failed"
    <3>1. wrun[w] \in Run
      BY <2>5, WorkerHasRun DEF Heartbeat, Processing, FinalizeRunJob, ReleaseRunJob
    <3> QED
      BY <1>1, <2>5, <3>1 DEF Heartbeat, JobRow, FinalizeRunJob, FinalizedJob, FinishedJob,
         ReleaseRunJob, QueuedJob
  <2> QED
    BY <2>1, <2>2, <2>3, <2>4, <2>5, JobWriters
<1> QED
  BY <1>2, <1>3

\* Failed-node execution is chosen by the job's type, read under the lease.
LEMMA RetriersStep ==
  ASSUME TypeOK, LiveJobsHaveRuns, RetriersWereRetried, [Next]_vars PROVE RetriersWereRetried'
<1> SUFFICES ASSUME NEW v \in Worker, pc'[v] \notin {"idle", "dead"}, task'[v].mode = "retry_failed"
             PROVE  /\ runStatus'[wrun'[v]] # "absent"
                    /\ job'[wrun'[v]].status # "none" /\ job'[wrun'[v]].type = "retry_failed"
  BY DEF RetriersWereRetried
<1>1. /\ pc \in [Worker -> Pc] /\ task \in [Worker -> Task] /\ wrun \in [Worker -> Run \cup {None}]
      /\ job \in [Run -> JobRow]
  BY DEF TypeOK, RunTypeOK, WorkerTypeOK
<1>2. ASSUME NEW r \in Run, Claim(v, r) PROVE FALSE
  BY <1>1, <1>2 DEF Claim, NoTask
<1>3. /\ wrun'[v] = wrun[v] /\ wrun[v] \in Run
      /\ pc[v] \notin {"idle", "dead"}
      /\ task[v].mode = "retry_failed" \/ LoadJob(v)
  <2>1. TypeOK'
    BY TypeNext
  <2>2. wrun'[v] \in Run
    BY <2>1 DEF TypeOK, WorkerTypeOK
  <2>3. wrun'[v] = wrun[v]
    BY <1>2, <2>2, SlotStep, WorkerKeepsRun, ConstantsAssumption
  <2>4. pc[v] \notin {"idle", "dead"}
    BY <2>2, <2>3, ConstantsAssumption DEF TypeOK, WorkerTypeOK
  <2>5. ASSUME WorkerStep(v) \/ Fault(v), ~LoadJob(v) PROVE task[v].mode = "retry_failed"
    <3>1. ~BecomeIdle(v) /\ ~Crash(v)
      BY <1>1 DEF BecomeIdle, Crash, NoTask
    <3>2. ASSUME Raised(v) \/ \E status : Returned(v, status) PROVE task[v].mode = "retry_failed"
      BY <1>1, <3>2 DEF Raised, Returned, Task
    <3>3. CASE StartRun(v)
      BY <1>1, <3>2, <3>3 DEF StartRun, Task
    <3>4. CASE SetupFails(v) \/ SourceFails(v) \/ SinkFails(v)
      BY <1>1, <3>4 DEF SetupFails, SourceFails, SinkFails, NodeFailed, Task
    <3>5. CASE task' = task
      BY <3>5
    <3> QED
      BY <2>5, <3>1, <3>2, <3>3, <3>4, <3>5 DEF WorkerStep, Fault, LoadJobLost, StopNoticed,
         SourceRead, SourceLeaseLost, SourceDone, SinkDone, CompleteRun, CompletionSkipped,
         CompletionDeclined, CompletionRejected, FailRun, FailRunLeaseLost, MarkRunFailedIfOwned,
         FinalizeRunJob, HeartbeatLost, Interrupt, Interrupted, ReleaseRunJob, StepRaises,
         HandlerRaises
  <2> QED
    BY <1>2, <2>2, <2>3, <2>4, <2>5, SlotStep
<1>4. CASE task[v].mode = "retry_failed"
  BY <1>3, <1>4, RetriedStays DEF RetriersWereRetried
<1>5. CASE LoadJob(v) /\ task[v].mode # "retry_failed"
  <2>1. job[wrun[v]].type = "retry_failed"
    BY <1>1, <1>5 DEF LoadJob, Returned, Task
  <2>2. Owned(v, wrun[v]) /\ runStatus[wrun[v]] # "absent"
    BY <1>3, <1>5 DEF LoadJob, LiveJobsHaveRuns, Owned
  <2> QED
    BY <1>3, <2>1, <2>2, RetriedStays DEF Owned
<1> QED
  BY <1>3, <1>4, <1>5

\* A slot raises out of the execution of nodes, not out of the set-up before it.
LEMMA HandlersStartedStep ==
  ASSUME TypeOK, ~SetupRaises, SettledInv, HandlersAreStarted, [Next]_vars
  PROVE  HandlersAreStarted'
<1> SUFFICES ASSUME NEW v \in Worker, pc'[v] = "markfail", Owned(v, wrun[v])'
             PROVE  runStatus'[wrun'[v]] # "pending"
  BY DEF HandlersAreStarted
<1>1. PICK q \in Run : q = wrun[v] /\ wrun'[v] = q /\ Owned(v, q)
  BY OwnerStep
<1>2. job[q].status = "leased" /\ job'[q].status = "leased"
  BY <1>1 DEF Owned
<1>3. pc[v] \in InExecution \cup {"markfail"}
  <2>1. pc \in [Worker -> Pc]
    BY DEF TypeOK, WorkerTypeOK
  <2>2. ASSUME NEW r \in Run, Claim(v, r) PROVE FALSE
    BY <2>1, <2>2 DEF Claim
  <2>3. ASSUME WorkerStep(v) \/ Fault(v) PROVE pc[v] \in InExecution \cup {"markfail"}
    <3>1. ~BecomeIdle(v) /\ ~Crash(v) /\ ~(\E status : Returned(v, status))
      BY <2>1 DEF BecomeIdle, Crash, Returned, Goto
    <3>2. ASSUME NEW next \in Pc, Goto(v, next) PROVE next = "markfail"
      BY <2>1, <3>2 DEF Goto
    <3>3. ~LoadJob(v) /\ ~StartRun(v)
      BY <3>1, <3>2 DEF LoadJob, StartRun, Pc
    <3>4. ~MarkRunFailedIfOwned(v) /\ ~HeartbeatLost(v) /\ ~Interrupt(v)
      BY <3>1, <3>2 DEF MarkRunFailedIfOwned, HeartbeatLost, Interrupt, Interrupted, Pc
    <3>5. CASE StepRaises(v)
      BY <3>5 DEF StepRaises, Processing, InExecution
    <3> QED
      BY <2>3, <3>1, <3>3, <3>4, <3>5 DEF WorkerStep, Fault, LoadJobLost, StopNoticed, SourceRead,
         SourceLeaseLost, SourceDone, SinkDone, CompleteRun, CompletionSkipped, CompletionDeclined,
         CompletionRejected, FailRun, FailRunLeaseLost, FinalizeRunJob, ReleaseRunJob, SetupFails,
         SourceFails, SinkFails, HandlerRaises, InExecution
  <2> QED
    BY <2>2, <2>3, SlotStep
<1>4. runStatus[q] # "pending"
  BY <1>1, <1>3 DEF SettledInv, OwnersAreStarted, HandlersAreStarted
<1> QED
  BY <1>1, <1>2, <1>4, LeasedRunMoves

\* A slot that goes to fail its job under a valid lease has failed the run, or
\* has seen that it stopped.
LEMMA EnterFailing ==
  ASSUME TypeOK, HandlersAreStarted, NEW v \in Worker, WorkerStep(v) \/ Fault(v),
         wrun[v] \in Run, ValidLease(v, wrun[v]),
         pc'[v] = "finalize", task'[v].outcome = "error"
  PROVE  runStatus'[wrun[v]] \notin {"pending", "running"}
<1>1. /\ pc \in [Worker -> Pc] /\ task \in [Worker -> Task] /\ runStatus \in [Run -> RunStatus]
  BY DEF TypeOK, RunTypeOK, WorkerTypeOK
<1>2. ~BecomeIdle(v) /\ ~Crash(v) /\ ~Raised(v)
  BY <1>1 DEF BecomeIdle, Crash, Raised, Goto
<1>3. ASSUME NEW next \in Pc, Goto(v, next) PROVE next = "finalize"
  BY <1>1, <1>3 DEF Goto
<1>4. ASSUME NEW status, Returned(v, status) PROVE status = "failed"
  BY <1>1, <1>4 DEF Returned, Task
<1>5. ~LoadJob(v)
  <2>1. ~(Goto(v, "start"))
    BY <1>3 DEF Pc
  <2> QED
    BY <1>4, <2>1 DEF LoadJob
<1>6. CASE StartRun(v)
  <2>1. runStatus'[wrun[v]] # "running"
    BY <1>1, <1>3, <1>6 DEF StartRun, Pc
  <2>2. Returned(v, runStatus'[wrun[v]])
    BY <1>1, <1>6, <2>1 DEF StartRun
  <2> QED
    BY <1>4, <2>2
<1>7. CASE StopNoticed(v) \/ CompletionDeclined(v)
  BY <1>4, <1>7 DEF StopNoticed, CompletionDeclined
<1>8. ~CompleteRun(v)
  BY <1>4 DEF CompleteRun
<1>9. CASE CompletionSkipped(v)
  BY <1>4, <1>9 DEF CompletionSkipped
<1>10. CASE FailRun(v)
  BY <1>1, <1>4, <1>10 DEF FailRun
<1>11. CASE MarkRunFailedIfOwned(v)
  BY <1>1, <1>11 DEF MarkRunFailedIfOwned, HandlersAreStarted, ValidLease
<1>12. ~SourceRead(v) /\ ~SourceDone(v) /\ ~SinkDone(v)
  BY <1>1 DEF SourceRead, SourceDone, SinkDone, Goto
<1>13. ~SetupFails(v) /\ ~SourceFails(v) /\ ~SinkFails(v)
  BY <1>1 DEF SetupFails, SourceFails, SinkFails, NodeFailed, Goto
<1>14. ~HeartbeatLost(v) /\ ~Interrupt(v)
  BY <1>2, <1>3 DEF HeartbeatLost, Interrupt, Interrupted, Pc
<1> QED
  BY <1>2, <1>5, <1>6, <1>7, <1>8, <1>9, <1>10, <1>11, <1>12, <1>13, <1>14
     DEF WorkerStep, Fault, LoadJobLost, SourceLeaseLost, CompletionRejected,
     FailRunLeaseLost, FinalizeRunJob, ReleaseRunJob, StepRaises, HandlerRaises

\* A slot that is finalizing does not renew its lease.
LEMMA FinalizersDoNotRenew ==
  ASSUME TypeOK, [Next]_vars, NEW q \in Run, NEW v \in Worker,
         wrun[v] = q, pc[v] = "finalize", Owned(v, q), ValidLease(v, q)'
  PROVE  ValidLease(v, q) /\ job'[q].type = job[q].type
<1>1. job \in [Run -> JobRow]
  BY DEF TypeOK, RunTypeOK
<1>2. job[q].status = "leased" /\ job[q].owner = v /\ job'[q].status = "leased" /\ job'[q].ttl > 0
  BY DEF ValidLease, Owned
<1>3. CASE job'[q] = job[q]
  BY <1>2, <1>3 DEF ValidLease, Owned
<1>4. ASSUME NEW r \in Run, Request(r) PROVE job'[q] = job[q]
  BY <1>1, <1>2, <1>4 DEF Request, CreateRun, CancelRun, PauseRun, ResumeRun, RetryFailedRun, QueuedJob
<1>5. ASSUME RecoverOrphanedRuns PROVE job'[q] = job[q]
  BY <1>1, <1>2, <1>5 DEF RecoverOrphanedRuns, QueuedJob
<1>6. ASSUME NEW w \in Worker, NEW r \in Run, Claim(w, r) PROVE job'[q] = job[q]
  <2>1. r # q
    <3> SUFFICES ASSUME r = q PROVE FALSE
      OBVIOUS
    <3>1. job'[q].owner = w
      BY <1>1, <1>6 DEF Claim, LeasedJob
    <3>2. w = v
      BY <3>1 DEF ValidLease, Owned
    <3> QED
      BY <1>6, <3>2 DEF Claim
  <2> QED
    BY <1>1, <1>6, <2>1 DEF Claim
<1>7. ASSUME NEW r \in Run, Tick(r) PROVE ValidLease(v, q) /\ job'[q].type = job[q].type
  BY <1>1, <1>2, <1>7 DEF Tick, JobRow, ValidLease, Owned
<1>8. ASSUME NEW w \in Worker, Heartbeat(w) PROVE job'[q] = job[q]
  <2>1. wrun[w] \in Run /\ w # v
    BY <1>8, WorkerHasRun DEF Heartbeat, Processing
  <2>2. wrun[w] # q
    BY <1>2, <1>8, <2>1 DEF Heartbeat, ValidLease, Owned
  <2> QED
    BY <1>1, <1>8, <2>1, <2>2 DEF Heartbeat
<1>9. ASSUME NEW w \in Worker, FinalizeRunJob(w) \/ ReleaseRunJob(w) PROVE job'[q] = job[q]
  <2>1. wrun[w] \in Run
    BY <1>9, WorkerHasRun DEF FinalizeRunJob, ReleaseRunJob
  <2> QED
    BY <1>1, <1>2, <1>9, <2>1 DEF FinalizeRunJob, FinalizedJob, FinishedJob, ReleaseRunJob, QueuedJob
<1> QED
  BY <1>3, <1>4, <1>5, <1>6, <1>7, <1>8, <1>9, JobWriters

\* What it knows of the run stays true while the lease is valid: only a retry of
\* failed nodes restarts a failed run, and a first dispatch has not been retried.
LEMMA FailersStep ==
  ASSUME TypeOK, HandlersAreStarted, RetriersWereRetried, FailersAreDone, [Next]_vars
  PROVE  FailersAreDone'
<1> SUFFICES ASSUME NEW v \in Worker, pc'[v] = "finalize", task'[v].outcome = "error",
                    ValidLease(v, wrun[v])', job'[wrun'[v]].type = "full"
             PROVE  runStatus'[wrun'[v]] \notin {"pending", "running"}
  BY DEF FailersAreDone
<1>1. PICK q \in Run : q = wrun[v] /\ wrun'[v] = q /\ Owned(v, q)
  BY OwnerStep DEF ValidLease
<1>2. job[q].status = "leased" /\ job'[q].status = "leased" /\ ValidLease(v, q)'
  BY <1>1 DEF ValidLease, Owned
<1>3. ASSUME NEW r \in Run, Claim(v, r) PROVE FALSE
  BY <1>3 DEF Claim, TypeOK, WorkerTypeOK
<1>4. CASE WorkerStep(v) \/ Fault(v)
  <2>1. ~FinalizeRunJob(v) /\ ~ReleaseRunJob(v) /\ (\A r \in Run : job' = job \/ ~Claim(v, r))
    BY <1>3 DEF FinalizeRunJob, ReleaseRunJob, BecomeIdle, TypeOK, WorkerTypeOK
  <2>2. job' = job
    BY <1>4, <2>1 DEF WorkerStep, Fault, LoadJobLost, LoadJob, StartRun, StopNoticed, SourceRead,
       SourceLeaseLost, SourceDone, SinkDone, CompleteRun, CompletionSkipped, CompletionDeclined,
       CompletionRejected, FailRun, FailRunLeaseLost, MarkRunFailedIfOwned, HeartbeatLost,
       SetupFails, SourceFails, SinkFails, NodeFailed, StepRaises, HandlerRaises, Interrupt, Crash
  <2>3. ValidLease(v, q)
    BY <1>2, <2>2 DEF ValidLease, Owned
  <2> QED
    BY <1>1, <1>4, <2>3, EnterFailing
<1>5. CASE pc'[v] = pc[v] /\ task'[v].outcome = task[v].outcome
  <2>1. ValidLease(v, q) /\ job[q].type = "full"
    BY <1>1, <1>2, <1>5, FinalizersDoNotRenew
  <2>2. runStatus[q] \notin {"pending", "running"}
    BY <1>1, <1>5, <2>1 DEF FailersAreDone
  <2>3. ASSUME NEW w \in Worker, StartRun(w), wrun[w] = q, runStatus[q] \in Startable(w, q)
        PROVE  FALSE
    <3>1. task[w].mode = "retry_failed"
      BY <2>2, <2>3 DEF Startable
    <3> QED
      BY <2>1, <2>3, <3>1 DEF StartRun, RetriersWereRetried
  <2> QED
    BY <1>1, <1>2, <2>2, <2>3, LeasedRunMoves
<1> QED
  BY <1>3, <1>4, <1>5, SlotStep

\* A first dispatch that can go on keeps a job that will be claimed.
LEMMA FirstDispatchStep ==
  ASSUME TypeOK, SettledInv, DispatchInv, [Next]_vars PROVE FirstDispatchIsRecoverable'
<1> SUFFICES ASSUME NEW q \in Run, runStatus'[q] \in {"pending", "running"},
                    job'[q].status \notin {"none", "queued", "leased"}, job'[q].type = "full"
             PROVE  FALSE
  BY DEF FirstDispatchIsRecoverable
<1>1. /\ job \in [Run -> JobRow] /\ runStatus \in [Run -> RunStatus]
      /\ job'[q].status \in {"completed", "failed"}
  <2>1. TypeOK'
    BY TypeNext
  <2> QED
    BY <2>1 DEF TypeOK, RunTypeOK, JobRow
<1>2. CASE job[q].status # job'[q].status
  <2>1. PICK w \in Worker : /\ FinalizeRunJob(w) /\ wrun[w] = q /\ Owned(w, q)
                            /\ runStatus[q] # "paused" /\ job[q].ttl > 0
                            /\ job'[q] = FinishedJob(w, q)
    BY <1>1, <1>2, OnlyFinalizeFinishes
  <2>2. pc[w] = "finalize" /\ runStatus'[q] = runStatus[q] /\ ValidLease(w, q)
    BY <2>1 DEF FinalizeRunJob, ValidLease
  <2>3. CASE task[w].outcome = "ok"
    BY <2>1, <2>2, <2>3 DEF SettledInv, FinishersAreDone
  <2>4. CASE task[w].outcome = "error"
    <3>1. job[q].type = "full"
      BY <2>1 DEF FinishedJob
    <3> QED
      BY <2>1, <2>2, <2>4, <3>1 DEF DispatchInv, FailersAreDone
  <2> QED
    BY <2>3, <2>4 DEF TypeOK, WorkerTypeOK, Task
<1>3. CASE job[q].status = job'[q].status
  <2>1. job[q].status \in {"completed", "failed"}
    BY <1>1, <1>3
  <2>2. job[q].type = "full"
    <3>1. CASE job[q].type = "retry_failed" /\ runStatus[q] # "absent"
      BY <2>1, <3>1, RetriedStays
    <3>2. CASE runStatus[q] = "absent"
      <4>1. runStatus' # runStatus
        BY <3>2
      <4>2. ASSUME NEW r \in Run, Request(r) PROVE FALSE
        BY <1>1, <1>3, <2>1, <3>2, <4>2 DEF Request, CreateRun, CancelRun, PauseRun, ResumeRun,
           RetryFailedRun, CanTransition, ValidTransitions, QueuedJob, InactiveFailedRuns
      <4>3. ~RecoverOrphanedRuns
        BY <1>1, <2>1, <3>2 DEF RecoverOrphanedRuns, OrphanedRuns
      <4>4. ASSUME NEW w \in Worker,
                   StartRun(w) \/ CompleteRun(w) \/ FailRun(w) \/ MarkRunFailedIfOwned(w)
            PROVE  FALSE
        BY <1>1, <3>2, <4>4 DEF StartRun, Startable, CompleteRun, FailRun, FailedStatus,
           MarkRunFailedIfOwned
      <4> QED
        BY <4>1, <4>2, <4>3, <4>4, StatusWriters
    <3> QED
      BY <1>1, <3>1, <3>2 DEF JobRow, JobType
  <2>3. runStatus[q] \notin {"pending", "running"}
    BY <2>1, <2>2 DEF DispatchInv, FirstDispatchIsRecoverable
  <2>4. runStatus' # runStatus
    BY <2>3
  <2>5. ASSUME NEW r \in Run, Request(r) PROVE FALSE
    BY <1>1, <1>3, <2>1, <2>3, <2>5 DEF Request, CreateRun, CancelRun, PauseRun, ResumeRun,
       RetryFailedRun, QueuedJob
  <2>6. ~RecoverOrphanedRuns
    BY <1>1, <2>1, <2>3 DEF RecoverOrphanedRuns, OrphanedRuns
  <2>7. ASSUME NEW w \in Worker, StartRun(w) PROVE FALSE
    <3>1. wrun[w] = q /\ runStatus[q] \in Startable(w, q)
      BY <1>1, <2>3, <2>7 DEF StartRun
    <3>2. task[w].mode = "retry_failed"
      BY <2>3, <3>1 DEF Startable
    <3> QED
      BY <2>2, <2>7, <3>1, <3>2 DEF StartRun, DispatchInv, RetriersWereRetried
  <2>8. ASSUME NEW w \in Worker, CompleteRun(w) \/ FailRun(w) \/ MarkRunFailedIfOwned(w) PROVE FALSE
    BY <1>1, <2>3, <2>8 DEF CompleteRun, FailRun, FailedStatus, MarkRunFailedIfOwned
  <2> QED
    BY <2>4, <2>5, <2>6, <2>7, <2>8, StatusWriters
<1> QED
  BY <1>2, <1>3

\* Unless an exception strikes before a run is marked running, a run that was
\* never retried and can go on always has a job that is, or will be, claimable.
THEOREM FirstDispatch == ASSUME ~SetupRaises PROVE Spec => []FirstDispatchIsRecoverable
<1>1. Init => DispatchInv
  <2> SUFFICES ASSUME Init PROVE DispatchInv
    OBVIOUS
  <2>1. \A w \in Worker : pc[w] = "idle"
    BY DEF Init
  <2>2. \A r \in Run : job[r].status = "none"
    BY DEF Init, NoJob
  <2> QED
    BY <2>1, <2>2 DEF DispatchInv, RetriersWereRetried, HandlersAreStarted, FailersAreDone,
       FirstDispatchIsRecoverable
<1>2. TypeOK /\ SettledInv /\ DispatchInv /\ [Next]_vars => DispatchInv'
  <2> SUFFICES ASSUME TypeOK, SettledInv, DispatchInv, [Next]_vars PROVE DispatchInv'
    OBVIOUS
  <2>1. RetriersWereRetried'
    BY RetriersStep DEF DispatchInv, SettledInv
  <2>2. HandlersAreStarted'
    BY HandlersStartedStep DEF DispatchInv
  <2>3. FailersAreDone'
    BY FailersStep DEF DispatchInv
  <2>4. FirstDispatchIsRecoverable'
    BY FirstDispatchStep
  <2> QED
    BY <2>1, <2>2, <2>3, <2>4 DEF DispatchInv
<1>3. DispatchInv => FirstDispatchIsRecoverable
  BY DEF DispatchInv
<1> QED
  BY <1>1, <1>2, <1>3, TypeCorrect, SettledCorrect, PTL DEF Spec

=============================================================================
