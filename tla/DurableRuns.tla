---------------------------- MODULE DurableRuns ----------------------------
(***************************************************************************)
(* The durable execution core of the Studio backend for one graph: the     *)
(* runs table and its status machine, the run_jobs queue with expiring     *)
(* leases, the worker slots that claim and execute jobs, and the source    *)
(* state that runs stage as candidates and promote on completion.          *)
(*                                                                         *)
(* The graph is the smallest one on which every rule of the core bites: an *)
(* SDK document source followed by one downstream node, the sink.          *)
(*                                                                         *)
(* One action is one database transaction, or one step of a worker between *)
(* two transactions.  Every transaction locks the rows it decides on       *)
(* (SELECT ... FOR UPDATE), so it is atomic with respect to those rows;    *)
(* what a worker remembers between two of its steps can be stale.          *)
(***************************************************************************)
EXTENDS Naturals, FiniteSets

CONSTANTS
    Run,        \* identifiers of the graph's runs
    Legacy,     \* the runs that predate durable dispatch: they have no job row
    Worker,     \* worker-slot identities; a restarted process brings new ones
    Stream,     \* streams of the document source (one per managed upload)
    LeaseTTL,   \* clock ticks from a claim or a heartbeat to the lease expiry
    SetupRaises,\* whether an exception may strike before a run is marked running
    None        \* no run, no worker, no visible state

ASSUME ConstantsAssumption ==
    /\ Legacy \subseteq Run
    /\ LeaseTTL \in Nat \ {0}
    /\ SetupRaises \in BOOLEAN
    /\ None \notin Run \cup Worker

VARIABLES
    runStatus,  \* runs.status; "absent" before the run is created
    job,        \* run_jobs: the single dispatch row of each run
    selected,   \* the streams selected by the graph version a run is pinned to
    nodes,      \* status of the latest committed run_nodes row of each node
    cand,       \* sdk_source_state_candidates, per run and stream
    committed,  \* sdk_source_states, per stream
    pc,         \* where a worker slot is in _process_job
    wrun,       \* the run a worker slot processes
    task,       \* what _process_job remembers between its steps
    snap        \* the committed state the source node has read

runVars    == <<runStatus, job, selected>>
stateVars  == <<nodes, cand, committed>>
workerVars == <<pc, wrun, task, snap>>
vars == <<runStatus, job, selected, nodes, cand, committed, pc, wrun, task, snap>>

-----------------------------------------------------------------------------
(* Values *)

Terminal  == {"completed", "cancelled", "superseded"}
RunStatus == {"absent", "pending", "running", "paused", "failed"} \cup Terminal
JobType   == {"full", "retry_failed"}
JobRow    == [status : {"none", "queued", "leased", "completed", "failed"},
              owner  : Worker \cup {None},
              ttl    : 0..LeaseTTL,
              type   : JobType]
NodeId    == {"source", "sink"}
NodeRow   == {"none", "completed", "failed"}

\* A committed state row: val is the run whose state is visible, None when the
\* row is a delete tombstone or (at revision 0) does not exist.
StateRow  == [rev : Nat, val : Run \cup {None}]
NoState   == [rev |-> 0, val |-> None]

\* A candidate row: the intent, the base it was staged on, and (history only)
\* the revision its source read had seen.
CandRow   == [op : {"none", "save", "delete"}, base : Nat,
              baseVal : Run \cup {None}, read : Nat]
NoCand    == [op |-> "none", base |-> 0, baseVal |-> None, read |-> 0]

Pc        == {"idle", "claimed", "start", "source", "reading", "sink",
              "complete", "failrun", "markfail", "finalize", "releasing", "dead"}
Task      == [mode    : JobType,                \* which executor runs
              outcome : {"ok", "error"},        \* the error _process_job ends with
              rows    : {"latest", "unknown"},  \* is its run_nodes row the latest one
              failed  : NodeId \cup {"none"}]   \* failed row still uncommitted

NoJob        == [status |-> "none", owner |-> None, ttl |-> 0, type |-> "full"]
QueuedJob(t) == [status |-> "queued", owner |-> None, ttl |-> 0, type |-> t]
LeasedJob(w, t) == [status |-> "leased", owner |-> w, ttl |-> LeaseTTL, type |-> t]
NoTask       == [mode |-> "full", outcome |-> "ok", rows |-> "latest", failed |-> "none"]
Unread       == [s \in Stream |-> NoState]

\* VALID_TRANSITIONS of the run state machine.
ValidTransitions ==
    [absent     |-> {},
     pending    |-> {"running", "cancelled"},
     running    |-> {"paused", "completed", "failed", "cancelled"},
     paused     |-> {"running", "cancelled"},
     completed  |-> {},
     failed     |-> {"running", "superseded"},
     cancelled  |-> {},
     superseded |-> {}]

\* Mutant: no transition is refused.
MutantAnyTransition(current, target) == current # "absent"

CanTransition(current, target) == target \in ValidTransitions[current]

\* The job row is leased to this worker slot ...
Owned(w, r) == job[r].status = "leased" /\ job[r].owner = w

\* ... and the lease has not expired.
ValidLease(w, r) == Owned(w, r) /\ job[r].ttl > 0

\* The worker slot is inside _process_job's try block, where the heartbeat task
\* runs and can cancel it.
Processing(w) == pc[w] \in {"claimed", "start", "source", "reading", "sink",
                            "complete", "failrun", "markfail"}

RunTypeOK ==
    /\ runStatus \in [Run -> RunStatus]
    /\ job \in [Run -> JobRow]
    /\ selected \in [Run -> SUBSET Stream]

StateTypeOK ==
    /\ nodes \in [Run -> [NodeId -> NodeRow]]
    /\ cand \in [Run -> [Stream -> CandRow]]
    /\ committed \in [Stream -> StateRow]

WorkerTypeOK ==
    /\ pc \in [Worker -> Pc]
    /\ wrun \in [Worker -> Run \cup {None}]
    /\ task \in [Worker -> Task]
    /\ snap \in [Worker -> [Stream -> StateRow]]
    /\ \A w \in Worker : wrun[w] = None <=> pc[w] \in {"idle", "dead"}

\* Every variable has its type, and a slot has a run exactly while it is in
\* _process_job.
TypeOK == RunTypeOK /\ StateTypeOK /\ WorkerTypeOK

Init ==
    /\ runStatus \in {f \in [Run -> {"absent", "pending", "running"}] :
                          \A r \in Run : f[r] = "absent" <=> r \notin Legacy}
    /\ job = [r \in Run |-> NoJob]
    /\ selected = [r \in Run |-> IF r \in Legacy THEN Stream ELSE {}]
    /\ nodes = [r \in Run |-> [n \in NodeId |-> "none"]]
    /\ cand = [r \in Run |-> [s \in Stream |-> NoCand]]
    /\ committed = [s \in Stream |-> NoState]
    /\ pc = [w \in Worker |-> "idle"]
    /\ wrun = [w \in Worker |-> None]
    /\ task = [w \in Worker |-> NoTask]
    /\ snap = [w \in Worker |-> Unread]

-----------------------------------------------------------------------------
(* Requests: the executions API and the trigger dispatchers *)

\* Failed runs whose job nobody can be working on any more.
InactiveFailedRuns ==
    {q \in Run : runStatus[q] = "failed" /\ job[q].status \notin {"queued", "leased"}}

\* A manual run, replay, schedule or webhook: supersede the graph's inactive
\* failures, then create the run and its queued job, all in one transaction.
CreateRun(r, streams) ==
    /\ runStatus[r] = "absent"
    /\ runStatus' = [q \in Run |-> IF q = r THEN "pending"
                                   ELSE IF q \in InactiveFailedRuns THEN "superseded"
                                   ELSE runStatus[q]]
    /\ cand' = [q \in Run |-> IF q \in InactiveFailedRuns
                              THEN [s \in Stream |-> NoCand] ELSE cand[q]]
    /\ job' = [job EXCEPT ![r] = QueuedJob("full")]
    /\ selected' = [selected EXCEPT ![r] = streams]
    /\ UNCHANGED <<nodes, committed, workerVars>>

CancelRun(r) ==
    /\ CanTransition(runStatus[r], "cancelled")
    /\ runStatus' = [runStatus EXCEPT ![r] = "cancelled"]
    /\ cand' = [cand EXCEPT ![r] = [s \in Stream |-> NoCand]]
    /\ UNCHANGED <<job, selected, nodes, committed, workerVars>>

PauseRun(r) ==
    /\ CanTransition(runStatus[r], "paused")
    /\ runStatus' = [runStatus EXCEPT ![r] = "paused"]
    /\ UNCHANGED <<job, selected, stateVars, workerVars>>

\* Any status that may become running is accepted, and the job, when there is
\* one, is requeued whatever its status: a worker that held it loses its lease.
ResumeRun(r) ==
    /\ CanTransition(runStatus[r], "running")
    /\ runStatus' = [runStatus EXCEPT ![r] = "running"]
    /\ job' = IF job[r].status = "none" THEN job
              ELSE [job EXCEPT ![r] = QueuedJob(job[r].type)]
    /\ UNCHANGED <<selected, stateVars, workerVars>>

RetryFailedRun(r) ==
    /\ runStatus[r] = "failed"
    /\ runStatus' = [runStatus EXCEPT ![r] = "pending"]
    /\ job' = [job EXCEPT ![r] = QueuedJob("retry_failed")]
    /\ UNCHANGED <<selected, stateVars, workerVars>>

\* A worker process starts: every pending or running run without a job row is
\* reset to pending and queued.
OrphanedRuns == {r \in Run : job[r].status = "none" /\ runStatus[r] \in {"pending", "running"}}

RecoverOrphanedRuns ==
    /\ OrphanedRuns # {}
    /\ runStatus' = [r \in Run |-> IF r \in OrphanedRuns THEN "pending" ELSE runStatus[r]]
    /\ job' = [r \in Run |-> IF r \in OrphanedRuns THEN QueuedJob("full") ELSE job[r]]
    /\ UNCHANGED <<selected, stateVars, workerVars>>

-----------------------------------------------------------------------------
(* The queue: claims, heartbeats, the clock *)

\* Mutants: the expiry of a lease is not looked at; only queued jobs are claimed.
MutantClaimLeased(r) == job[r].status \in {"queued", "leased"} /\ runStatus[r] \in {"pending", "running"}
MutantClaimQueued(r) == job[r].status = "queued" /\ runStatus[r] \in {"pending", "running"}

Claimable(r) ==
    /\ \/ job[r].status = "queued"
       \/ job[r].status = "leased" /\ job[r].ttl = 0
    /\ runStatus[r] \in {"pending", "running"}

\* When another slot is still at work on the same run, the order in which the
\* two create their run_nodes rows is unknown from now on.
Claim(w, r) ==
    /\ pc[w] = "idle"
    /\ Claimable(r)
    /\ job' = [job EXCEPT ![r] = LeasedJob(w, job[r].type)]
    /\ pc' = [pc EXCEPT ![w] = "claimed"]
    /\ wrun' = [wrun EXCEPT ![w] = r]
    /\ task' = [v \in Worker |->
                  IF v = w THEN [NoTask EXCEPT !.rows =
                      IF \E u \in Worker : wrun[u] = r THEN "unknown" ELSE "latest"]
                  ELSE IF wrun[v] = r THEN [task[v] EXCEPT !.rows = "unknown"]
                  ELSE task[v]]
    /\ UNCHANGED <<runStatus, selected, stateVars, snap>>

\* The heartbeat task renews a lease that is still owned and unexpired ...
Heartbeat(w) ==
    /\ Processing(w)
    /\ ValidLease(w, wrun[w])
    /\ job' = [job EXCEPT ![wrun[w]].ttl = LeaseTTL]
    /\ UNCHANGED <<runStatus, selected, stateVars, workerVars>>

\* ... and the clock runs the lease down.
Tick(r) ==
    /\ job[r].status = "leased"
    /\ job[r].ttl > 0
    /\ job' = [job EXCEPT ![r].ttl = @ - 1]
    /\ UNCHANGED <<runStatus, selected, stateVars, workerVars>>

-----------------------------------------------------------------------------
(* _process_job, from the claim to the first node *)

\* A step of worker w that only moves it on; snap is the open transaction's read.
Goto(w, next) ==
    /\ pc' = [pc EXCEPT ![w] = next]
    /\ snap' = [snap EXCEPT ![w] = Unread]

\* Back to the claim loop: nothing of the job is remembered.
BecomeIdle(w) ==
    /\ pc' = [pc EXCEPT ![w] = "idle"]
    /\ wrun' = [wrun EXCEPT ![w] = None]
    /\ task' = [task EXCEPT ![w] = NoTask]
    /\ snap' = [snap EXCEPT ![w] = Unread]

\* execute_run_job returned: _process_job looks at the run it last saw.
Returned(w, status) ==
    /\ Goto(w, "finalize")
    /\ task' = [task EXCEPT ![w].outcome = IF status = "failed" THEN "error" ELSE "ok"]
    /\ UNCHANGED wrun

\* An exception left execute_run_job.
Raised(w) ==
    /\ Goto(w, "markfail")
    /\ task' = [task EXCEPT ![w].outcome = "error"]
    /\ UNCHANGED wrun

\* Mutant: the slot goes back to polling and keeps its run.
MutantLoadJobLost(w) ==
    /\ pc[w] = "claimed"
    /\ ~Owned(w, wrun[w])
    /\ Goto(w, "idle")
    /\ UNCHANGED <<runVars, stateVars, wrun, task>>

\* The claimed job was taken away before processing began: return at once.
LoadJobLost(w) ==
    /\ pc[w] = "claimed"
    /\ ~Owned(w, wrun[w])
    /\ BecomeIdle(w)
    /\ UNCHANGED <<runVars, stateVars>>

\* Still the owner (expired or not): skip a stopped run, else choose full or
\* failed-node execution by the job type read now.
LoadJob(w) ==
    LET r == wrun[w] IN
    /\ pc[w] = "claimed"
    /\ Owned(w, r)
    /\ IF runStatus[r] \in {"paused", "cancelled", "completed", "superseded"}
       THEN Returned(w, runStatus[r])
       ELSE /\ Goto(w, "start")
            /\ task' = [task EXCEPT ![w].mode = job[r].type]
            /\ UNCHANGED wrun
    /\ UNCHANGED <<runVars, stateVars>>

\* The failed nodes of a retry and everything downstream of them; a retry with
\* no failed node runs the whole graph.
FailedNodes(r) == {n \in NodeId : nodes[r][n] = "failed"}

\* Mutant: every retry starts at the sink.
MutantPlan(w, r) == IF task[w].mode = "retry_failed" THEN {"sink"} ELSE NodeId

Plan(w, r) ==
    IF task[w].mode = "retry_failed" /\ FailedNodes(r) = {"sink"} THEN {"sink"} ELSE NodeId

\* The whole-graph executor starts only a pending run; failed-node execution
\* also restarts a failed one.
Startable(w, r) ==
    IF task[w].mode = "retry_failed" /\ FailedNodes(r) # {}
    THEN {"pending", "failed"} ELSE {"pending"}

\* Lock the run, mark it running, and enter the first node of the plan.  The
\* lease is not looked at here.  task.mode now says which executor runs.
StartRun(w) ==
    LET r == wrun[w]
        status == IF runStatus[r] \in Startable(w, r) THEN "running" ELSE runStatus[r]
    IN
    /\ pc[w] = "start"
    /\ runStatus' = [runStatus EXCEPT ![r] = status]
    /\ IF status # "running"
       THEN Returned(w, status)
       ELSE /\ Goto(w, IF "source" \in Plan(w, r) THEN "source" ELSE "sink")
            /\ task' = [task EXCEPT ![w].mode =
                           IF FailedNodes(r) = {} THEN "full" ELSE @]
            /\ UNCHANGED wrun
    /\ UNCHANGED <<job, selected, stateVars>>

-----------------------------------------------------------------------------
(* Executing nodes *)

\* Before and inside every node the executor looks for a pause or cancellation
\* and returns; the node's uncommitted row and fences go with the transaction.
StopNoticed(w) ==
    /\ pc[w] \in {"source", "reading", "sink"}
    /\ runStatus[wrun[w]] \in {"paused", "cancelled"}
    /\ Returned(w, runStatus[wrun[w]])
    /\ UNCHANGED <<runVars, stateVars>>

\* Advisory fences are held by the transactions of the reading workers: the run
\* fence against others on the same run, the scope fence against every run of
\* the graph, since they share the source node.
RunFenceFree(w)   == \A v \in Worker \ {w} : pc[v] = "reading" => wrun[v] # wrun[w]

\* Mutant: the scope fence is keyed by run.
MutantScopeFence(w) == RunFenceFree(w)

ScopeFenceFree(w) == \A v \in Worker \ {w} : pc[v] # "reading"

\* acquire_lock: the lease is checked before and after waiting for the fences;
\* then the committed states are listed and loaded.
SourceRead(w) ==
    /\ pc[w] = "source"
    /\ ValidLease(w, wrun[w])
    /\ RunFenceFree(w)
    /\ ScopeFenceFree(w)
    /\ pc' = [pc EXCEPT ![w] = "reading"]
    /\ snap' = [snap EXCEPT ![w] = committed]
    /\ UNCHANGED <<runVars, stateVars, wrun, task>>

\* A source step that finds the lease gone rolls back and raises.
SourceLeaseLost(w) ==
    /\ pc[w] \in {"source", "reading"}
    /\ ~ValidLease(w, wrun[w])
    /\ Raised(w)
    /\ UNCHANGED <<runVars, stateVars>>

\* The run_nodes row of a node becomes visible.  It is the latest one unless an
\* overlapping execution of the run has committed a row created after it.
CommitNodeRow(w, n, status) ==
    \/ nodes' = [nodes EXCEPT ![wrun[w]][n] = status]
    \/ task[w].rows = "unknown" /\ nodes[wrun[w]][n] # "none" /\ UNCHANGED nodes

\* The streams the source node was configured with: the selected ones and those
\* it has committed state for, which it reconciles by deleting.
ConfiguredStreams(w) == selected[wrun[w]] \cup {s \in Stream : snap[w][s].val # None}

\* save stages the new state on the revision committed now; delete stages a
\* tombstone, or drops the candidate when there is nothing to delete.
StagedCandidate(w, s) ==
    LET row(op) == [op |-> op, base |-> committed[s].rev,
                    baseVal |-> committed[s].val, read |-> snap[w][s].rev]
    IN  IF s \in selected[wrun[w]] THEN row("save")
        ELSE IF committed[s].val = None THEN NoCand
        ELSE row("delete")

\* Mutant: staging does not look at the run.
MutantMayStage(w) == TRUE

\* Whatever is staged is staged for a running run.
MayStage(w) == ConfiguredStreams(w) # {} => runStatus[wrun[w]] = "running"

\* Staging locks job and run and keeps both locked to the POST_EXEC commit, so
\* candidates, output and checkpoint appear together, under a lease and (when
\* there is something to stage) a run found valid at the commit.
SourceDone(w) ==
    LET r == wrun[w] IN
    /\ pc[w] = "reading"
    /\ ValidLease(w, r)
    /\ MayStage(w)
    /\ cand' = [cand EXCEPT ![r] = [s \in Stream |->
                   IF s \in ConfiguredStreams(w) THEN StagedCandidate(w, s) ELSE @[s]]]
    /\ CommitNodeRow(w, "source", "completed")
    /\ Goto(w, "sink")
    /\ UNCHANGED <<runVars, committed, wrun, task>>

\* A node fails.  The whole-graph executor commits the failed row before it
\* fails the run; failed-node execution leaves both to one transaction.
NodeFailed(w, n) ==
    /\ IF task[w].mode = "retry_failed" THEN UNCHANGED nodes ELSE CommitNodeRow(w, n, "failed")
    /\ Goto(w, "failrun")
    /\ task' = [task EXCEPT ![w].failed = IF task[w].mode = "retry_failed" THEN n ELSE "none"]
    /\ UNCHANGED <<runVars, cand, committed, wrun>>

\* The graph version is no valid graph or one of its connections is gone: the
\* whole-graph executor fails the run before its first node.
SetupFails(w) ==
    /\ pc[w] = "source" /\ task[w].mode = "full"
    /\ Goto(w, "failrun")
    /\ task' = [task EXCEPT ![w].failed = "none"]
    /\ UNCHANGED <<runVars, stateVars, wrun>>

\* A connector error, an output limit, or 30 seconds without a fence.  The
\* staging savepoint is rolled back; the whole-graph executor rechecks the lease
\* before it commits the row.
SourceFails(w) ==
    /\ pc[w] \in {"source", "reading"}
    /\ task[w].mode = "full" => ValidLease(w, wrun[w])
    /\ NodeFailed(w, "source")

\* The downstream node commits its row and checkpoint without a lease check.
SinkDone(w) ==
    /\ pc[w] = "sink"
    /\ CommitNodeRow(w, "sink", "completed")
    /\ Goto(w, "complete")
    /\ UNCHANGED <<runVars, cand, committed, wrun, task>>

SinkFails(w) ==
    /\ pc[w] = "sink"
    /\ NodeFailed(w, "sink")

-----------------------------------------------------------------------------
(* Completing and failing a run *)

StagedStreams(r) == {s \in Stream : cand[r][s].op # "none"}

\* Completion takes the run fence and the scope fences of the run's candidates.
CompletionFencesFree(w) ==
    /\ RunFenceFree(w)
    /\ StagedStreams(wrun[w]) # {} => ScopeFenceFree(w)

\* Mutant: candidates are promoted over whatever is committed.
MutantStale(r, s) == FALSE

Stale(r, s) ==
    \/ cand[r][s].base # committed[s].rev
    \/ cand[r][s].baseVal # committed[s].val

Promoted(r, s) ==
    [rev |-> committed[s].rev + 1,
     val |-> IF cand[r][s].op = "save" THEN r ELSE None]

\* Promote every candidate and mark the run completed, in one transaction.
CompleteRun(w) ==
    LET r == wrun[w] IN
    /\ pc[w] = "complete"
    /\ CompletionFencesFree(w)
    /\ ValidLease(w, r)
    /\ runStatus[r] = "running"
    /\ \A s \in StagedStreams(r) : ~Stale(r, s)
    /\ committed' = [s \in Stream |-> IF s \in StagedStreams(r) THEN Promoted(r, s)
                                      ELSE committed[s]]
    /\ cand' = [cand EXCEPT ![r] = [s \in Stream |-> NoCand]]
    /\ runStatus' = [runStatus EXCEPT ![r] = "completed"]
    /\ Returned(w, "completed")
    /\ UNCHANGED <<job, selected, nodes>>

\* The whole-graph executor refreshes the run first and leaves quietly unless it
\* is running; failed-node execution always attempts the completion.
CompletionSkipped(w) ==
    /\ pc[w] = "complete"
    /\ task[w].mode = "full"
    /\ runStatus[wrun[w]] # "running"
    /\ Returned(w, runStatus[wrun[w]])
    /\ UNCHANGED <<runVars, stateVars>>

\* Pause or cancellation won the run lock: roll back and report no completion.
CompletionDeclined(w) ==
    /\ pc[w] = "complete"
    /\ CompletionFencesFree(w)
    /\ ValidLease(w, wrun[w])
    /\ runStatus[wrun[w]] \in {"paused", "cancelled"}
    /\ Returned(w, runStatus[wrun[w]])
    /\ UNCHANGED <<runVars, stateVars>>

\* The completion transaction raises and rolls back: the lease is gone, the run
\* is neither running, paused nor cancelled, or a candidate is stale.
CompletionRejected(w) ==
    LET r == wrun[w] IN
    /\ pc[w] = "complete"
    /\ CompletionFencesFree(w)
    /\ \/ ~ValidLease(w, r)
       \/ runStatus[r] \notin {"running", "paused", "cancelled"}
       \/ runStatus[r] = "running" /\ \E s \in StagedStreams(r) : Stale(r, s)
    /\ Raised(w)
    /\ UNCHANGED <<runVars, stateVars>>

\* Mutant: a late failure overrides any status.
MutantFailedStatus(r) == "failed"

\* The status fail_run_if_running leaves a run in.
FailedStatus(r) == IF runStatus[r] = "running" THEN "failed" ELSE runStatus[r]

\* fail_run_if_running: under a valid lease a running run fails, any other
\* status is left alone; a retried node's failed row commits with it.
FailRun(w) ==
    LET r == wrun[w] IN
    /\ pc[w] = "failrun"
    /\ ValidLease(w, r)
    /\ runStatus' = [runStatus EXCEPT ![r] = FailedStatus(r)]
    /\ IF task[w].failed = "none" THEN UNCHANGED nodes
       ELSE CommitNodeRow(w, task[w].failed, "failed")
    /\ Returned(w, FailedStatus(r))
    /\ UNCHANGED <<job, selected, cand, committed>>

\* RunFailureLeaseError
FailRunLeaseLost(w) ==
    /\ pc[w] = "failrun"
    /\ ~ValidLease(w, wrun[w])
    /\ Raised(w)
    /\ UNCHANGED <<runVars, stateVars>>

\* Mutant: the handler also drops what the run has staged.
MutantMarkRunFailed(w) ==
    LET r == wrun[w] IN
    /\ pc[w] = "markfail"
    /\ ValidLease(w, r) /\ runStatus[r] = "running"
    /\ runStatus' = [runStatus EXCEPT ![r] = "failed"]
    /\ cand' = [cand EXCEPT ![r] = [s \in Stream |-> NoCand]]
    /\ Goto(w, "finalize")
    /\ UNCHANGED <<job, selected, nodes, committed, wrun, task>>

\* The exception handler of _process_job: fail the run if it is running and the
\* lease is still valid, and go on to finalize either way.
MarkRunFailedIfOwned(w) ==
    LET r == wrun[w] IN
    /\ pc[w] = "markfail"
    /\ runStatus' = IF ValidLease(w, r) /\ runStatus[r] = "running"
                    THEN [runStatus EXCEPT ![r] = "failed"] ELSE runStatus
    /\ Goto(w, "finalize")
    /\ UNCHANGED <<job, selected, stateVars, wrun, task>>

FinishedJob(w, r) ==
    [status |-> IF task[w].outcome = "error" THEN "failed" ELSE "completed",
     owner |-> None, ttl |-> 0, type |-> job[r].type]

\* Mutants: the pause is not looked at; the expiry is not looked at.
MutantFinalizePaused(w, r) ==
    IF Owned(w, r) /\ job[r].ttl > 0 THEN FinishedJob(w, r) ELSE job[r]
MutantFinalizeExpired(w, r) ==
    IF Owned(w, r) THEN FinishedJob(w, r) ELSE job[r]

\* An owned job goes back to the queue if its run is paused (even when the lease
\* has expired), and is finished if the lease is still valid.
FinalizedJob(w, r) ==
    IF Owned(w, r) /\ runStatus[r] = "paused" THEN QueuedJob(job[r].type)
    ELSE IF Owned(w, r) /\ job[r].ttl > 0 THEN FinishedJob(w, r)
    ELSE job[r]

FinalizeRunJob(w) ==
    LET r == wrun[w] IN
    /\ pc[w] = "finalize"
    /\ job' = [job EXCEPT ![r] = FinalizedJob(w, r)]
    /\ BecomeIdle(w)
    /\ UNCHANGED <<runStatus, selected, stateVars>>

-----------------------------------------------------------------------------
(* Interruptions *)

\* A step raises and its transaction rolls back: a database error, a deleted
\* connection or graph version while a run is set up, a failed checkpoint commit.
StepRaises(w) ==
    /\ Processing(w) /\ pc[w] # "markfail"
    /\ pc[w] \in {"claimed", "start"} => SetupRaises
    /\ Raised(w)
    /\ UNCHANGED <<runVars, stateVars>>

\* A database error while failing, finalizing or releasing: the worker loop logs
\* it and polls again, nothing is written.
HandlerRaises(w) ==
    /\ pc[w] \in {"markfail", "finalize", "releasing"}
    /\ BecomeIdle(w)
    /\ UNCHANGED <<runVars, stateVars>>

\* Cancelling the processing task rolls its transaction back and leads to the
\* release; inside the exception handler nothing releases the job.
Interrupted(w) ==
    IF pc[w] = "markfail" THEN BecomeIdle(w)
    ELSE Goto(w, "releasing") /\ UNCHANGED <<wrun, task>>

\* The heartbeat task found the lease gone.
HeartbeatLost(w) ==
    /\ Processing(w)
    /\ ~ValidLease(w, wrun[w])
    /\ Interrupted(w)
    /\ UNCHANGED <<runVars, stateVars>>

\* The heartbeat task met a database error, or the process is shutting down.
Interrupt(w) ==
    /\ Processing(w)
    /\ Interrupted(w)
    /\ UNCHANGED <<runVars, stateVars>>

\* An owned lease goes back to the queue, expired or not.
ReleaseRunJob(w) ==
    LET r == wrun[w] IN
    /\ pc[w] = "releasing"
    /\ job' = IF Owned(w, r) THEN [job EXCEPT ![r] = QueuedJob(job[r].type)] ELSE job
    /\ BecomeIdle(w)
    /\ UNCHANGED <<runStatus, selected, stateVars>>

\* The process dies; its slot identity never returns.
Crash(w) ==
    /\ pc[w] # "dead"
    /\ pc' = [pc EXCEPT ![w] = "dead"]
    /\ wrun' = [wrun EXCEPT ![w] = None]
    /\ task' = [task EXCEPT ![w] = NoTask]
    /\ snap' = [snap EXCEPT ![w] = Unread]
    /\ UNCHANGED <<runVars, stateVars>>

-----------------------------------------------------------------------------

Request(r) ==
    \/ \E streams \in SUBSET Stream : CreateRun(r, streams)
    \/ CancelRun(r) \/ PauseRun(r) \/ ResumeRun(r) \/ RetryFailedRun(r)

WorkerStep(w) ==
    \/ LoadJobLost(w) \/ LoadJob(w) \/ StartRun(w)
    \/ StopNoticed(w) \/ SourceRead(w) \/ SourceLeaseLost(w) \/ SourceDone(w)
    \/ SinkDone(w) \/ CompleteRun(w)
    \/ CompletionSkipped(w) \/ CompletionDeclined(w) \/ CompletionRejected(w)
    \/ FailRun(w) \/ FailRunLeaseLost(w) \/ MarkRunFailedIfOwned(w)
    \/ FinalizeRunJob(w) \/ HeartbeatLost(w) \/ ReleaseRunJob(w)

Fault(w) ==
    \/ SetupFails(w) \/ SourceFails(w) \/ SinkFails(w) \/ StepRaises(w) \/ HandlerRaises(w)
    \/ Interrupt(w) \/ Crash(w)

Next ==
    \/ \E r \in Run : Request(r) \/ Tick(r)
    \/ RecoverOrphanedRuns
    \/ \E w \in Worker : \/ \E r \in Run : Claim(w, r)
                         \/ Heartbeat(w) \/ WorkerStep(w) \/ Fault(w)

Spec == Init /\ [][Next]_vars

-----------------------------------------------------------------------------
(* Properties *)

\* Visible source state always comes from a run that completed: nothing a
\* failed, cancelled, paused or crashed run staged is ever readable
\* (complete_run_with_source_state_promotion is the only promoter).
CommittedByCompletedRuns ==
    \A s \in Stream : committed[s].val # None => runStatus[committed[s].val] = "completed"

\* A terminal run holds no candidates, even when a worker that has not noticed
\* the cancellation, supersession or lost lease is still about to stage some.
TerminalRunsHoldNoCandidates ==
    \A r \in Run : runStatus[r] \in Terminal => StagedStreams(r) = {}

\* The base a candidate is staged on is the very revision its source read: the
\* advisory fences keep every promotion of the scope out of a long read.
CandidateBaseIsWhatWasRead ==
    \A r \in Run, s \in Stream : cand[r][s].base = cand[r][s].read

\* A pending or running run with a job row can always be picked up again: its
\* job is queued or leased, so claim_run_job takes it now or when the lease runs
\* out, whatever crashes, lost leases, pauses and resumes came before.
LiveRunsAreDispatchable ==
    \A r \in Run : runStatus[r] \in {"pending", "running"} /\ job[r].status # "none"
                     => job[r].status \in {"queued", "leased"}

\* The same for runs that were never retried.
FirstDispatchIsRecoverable ==
    \A r \in Run : runStatus[r] \in {"pending", "running"} /\ job[r].status # "none"
                     /\ job[r].type = "full"
                     => job[r].status \in {"queued", "leased"}

\* A job finishes without an error only for a run that completed or was
\* cancelled: finalize_run_job never buries a paused, failed or live run.
CompletedJobsAreSettled ==
    \A r \in Run : job[r].status = "completed" => runStatus[r] \in {"completed", "cancelled"}

\* What a run's completed source node produced stays staged until the run is
\* terminal, so a retry of only the downstream node still acknowledges it.
CompletedSourceStaysStaged ==
    \A r \in Run : nodes[r]["source"] = "completed" /\ runStatus[r] \notin Terminal
                     => \A s \in selected[r] : cand[r][s].op = "save"

\* No run leaves a terminal status: late failures, completions, resumes and
\* retries lose against cancellation, completion and supersession.
TerminalIsFinal ==
    [][\A r \in Run : runStatus[r] \in Terminal => runStatus'[r] = runStatus[r]]_vars

\* Committed state moves only with the completion of a run, by one revision, and
\* only if that run's source had read the very revision it replaces: an older
\* concurrent run can neither regress nor recreate state.
NoLostUpdate ==
    [][\A s \in Stream : committed'[s] # committed[s] =>
          /\ committed'[s].rev = committed[s].rev + 1
          /\ \E r \in Run : /\ runStatus[r] # "completed" /\ runStatus'[r] = "completed"
                            /\ cand[r][s].op # "none"
                            /\ cand[r][s].read = committed[s].rev]_vars

\* A run that completes acknowledges every stream its graph version selects,
\* also when a failed-node retry skipped the source.
CompletionAcknowledgesSelection ==
    [][\A r \in Run : runStatus[r] # "completed" /\ runStatus'[r] = "completed"
                        => \A s \in selected[r] : committed'[s].val = r]_vars

\* An unexpired lease ends only by running down, by its own worker finalizing or
\* releasing, or by an operator's resume or retry, which also changes the run:
\* no claim and no stale worker steps in front of it.
LeaseIsExclusive ==
    [][\A r \in Run, w \in Worker : ValidLease(w, r) /\ ~ValidLease(w, r)' =>
          \/ job'[r].status = "leased" /\ job'[r].owner = w
          \/ wrun[w] = r /\ pc[w] \in {"finalize", "releasing"} /\ pc'[w] = "idle"
          \/ job'[r].status = "queued" /\ runStatus'[r] # runStatus[r]]_vars

-----------------------------------------------------------------------------
(* What the documentation says and the code does not do *)

\* "Resume changes `paused` to `running`" (docs/durable-execution.md): resume_run
\* requeues the job of a run that was paused, and of no other.
ResumeOnlyFromPaused ==
    [][\A r \in Run : /\ runStatus[r] # "running" /\ runStatus'[r] = "running"
                      /\ job'[r].status = "queued"
                      => runStatus[r] = "paused"]_vars

=============================================================================
