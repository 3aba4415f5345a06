--------------------------- MODULE GraphExecution ---------------------------
(***************************************************************************)
(* How one run works through the levels of its graph: the whole-graph      *)
(* executor, failed-node execution from checkpoints, pauses, resumes,      *)
(* retries and crashes between any two nodes.                              *)
(*                                                                         *)
(* The deployment has one worker slot (run_worker_concurrency = 1), so an  *)
(* execution ends before the next one begins; overlapping executions, the  *)
(* queue and source state are in DurableRuns.  A claim, the load of the    *)
(* job and the start of the run are one step here, and so are a return and *)
(* the finalization of the job.                                            *)
(***************************************************************************)
EXTENDS DagLevels, FiniteSets

CONSTANTS
    Node,       \* nodes of the graph version
    Edge        \* its edges, pairs of nodes

\* topological_sort raises for a graph with a cycle, a set of nodes each of which
\* waits for another one of the set: no node of such a graph is executed.
GraphAssumption ==
    /\ IsFiniteSet(Node) /\ Edge \subseteq Node \X Node
    /\ \A S \in (SUBSET Node) \ {{}} : \E n \in S : \A m \in S : <<m, n>> \notin Edge

VARIABLES
    status,     \* runs.status
    type,       \* run_jobs.job_type
    job,        \* run_jobs.status, completed and failed taken together
    row,        \* status of the latest committed run_nodes row of each node
    ckpt,       \* nodes whose latest POST_EXEC output is that of a completed node
    exec,       \* where the execution is
    lease,      \* the slot still owns the job it executes
    plan,       \* the nodes this execution runs
    retrying,   \* failed-node execution, not the whole-graph executor
    level,      \* index of the topological level
    todo,       \* nodes of the level that have not returned
    bad,        \* nodes of the level that reported a failure
    out,        \* nodes whose outputs the execution holds
    missing     \* predecessors a node's latest completed row ran without

jobVars  == <<status, type, job>>
nodeVars == <<row, ckpt, missing>>
execVars == <<exec, lease, plan, retrying, level, todo, bad, out>>
vars == <<jobVars, nodeVars, execVars>>

Preds(n) == {m \in Node : <<m, n>> \in Edge}
Succs(n) == {m \in Node : <<n, m>> \in Edge}

\* The levels of topological_sort, by the definition TopologicalSort checks the
\* algorithm against.
Level(i) == LevelOf(Node, Edge, i)

\* S with the successors of its nodes; the nodes reachable from S in at most i
\* steps; and in any number.
Further(S) == S \cup UNION {Succs(n) : n \in S}

Within(S, i) ==
    LET within[k \in Nat] == IF k = 0 THEN S ELSE Further(within[k - 1])
    IN  within[i]

\* Mutant: the failed nodes alone.
MutantClosure(S) == S

Closure(S) == Within(S, Cardinality(Node))

FailedRows == {n \in Node : row[n] = "failed"}
Stopped    == status \in {"paused", "cancelled"}
Parallel   == ~retrying /\ Cardinality(Level(level)) >= 2

TypeOK ==
    /\ status \in {"pending", "running", "paused", "failed", "cancelled", "completed"}
    /\ type \in {"full", "retry_failed"}
    /\ job \in {"queued", "leased", "done"}
    /\ row \in [Node -> {"none", "completed", "failed"}]
    /\ missing \in [Node -> SUBSET Node]
    /\ exec \in {"none", "level", "nodes", "failing"}
    /\ {lease, retrying} \subseteq BOOLEAN
    /\ level \in 0..Cardinality(Node)
    /\ plan \subseteq Node /\ todo \subseteq plan /\ bad \subseteq plan
    /\ ckpt \subseteq Node /\ out \subseteq Node

Init ==
    /\ status = "pending" /\ type = "full" /\ job = "queued"
    /\ row = [n \in Node |-> "none"]
    /\ missing = [n \in Node |-> {}]
    /\ ckpt = {}
    /\ exec = "none" /\ lease = FALSE
    /\ plan = {} /\ retrying = FALSE /\ level = 0 /\ todo = {} /\ bad = {} /\ out = {}

-----------------------------------------------------------------------------
(* Operators *)

Pause ==
    /\ status = "running"
    /\ status' = "paused"
    /\ UNCHANGED <<type, job, nodeVars, execVars>>

\* The job is requeued: an execution under way loses its lease.
Resume ==
    /\ status \in {"pending", "paused", "failed"}
    /\ status' = "running"
    /\ job' = "queued"
    /\ lease' = FALSE
    /\ UNCHANGED <<type, nodeVars, exec, plan, retrying, level, todo, bad, out>>

Cancel ==
    /\ status \in {"pending", "running", "paused"}
    /\ status' = "cancelled"
    /\ UNCHANGED <<type, job, nodeVars, execVars>>

RetryFailed ==
    /\ status = "failed"
    /\ status' = "pending" /\ type' = "retry_failed" /\ job' = "queued"
    /\ lease' = FALSE
    /\ UNCHANGED <<nodeVars, exec, plan, retrying, level, todo, bad, out>>

-----------------------------------------------------------------------------
(* The execution *)

\* Claim a queued job or an expired lease and choose what to run.  A retry that
\* finds no failed row runs the whole graph; otherwise it restores the outputs of
\* the checkpoints and runs the failed nodes and everything downstream of them.
Begin ==
    LET retry == type = "retry_failed" /\ FailedRows # {} IN
    /\ exec = "none"
    /\ job \in {"queued", "leased"}
    /\ status \in {"pending", "running"}
    /\ status' = "running" /\ job' = "leased" /\ lease' = TRUE
    /\ retrying' = retry
    /\ plan' = IF retry THEN Closure(FailedRows) ELSE Node
    /\ out' = IF retry THEN ckpt ELSE {}
    /\ exec' = "level" /\ level' = 0
    /\ todo' = {} /\ bad' = {}
    /\ UNCHANGED <<type, nodeVars>>

\* The execution ends with the run in status s: finalize_run_job finishes an owned
\* job, or gives it back when the run is paused.
End(s) ==
    /\ exec' = "none" /\ lease' = FALSE
    /\ plan' = {} /\ retrying' = FALSE /\ level' = 0 /\ todo' = {} /\ bad' = {} /\ out' = {}
    /\ status' = s
    /\ job' = IF ~lease THEN job ELSE IF s = "paused" THEN "queued" ELSE "done"
    /\ UNCHANGED type

\* Under the lease a running run fails; without it, or in any other status, the
\* run stays as it is.
FailedStatus == IF lease /\ status = "running" THEN "failed" ELSE status

\* Mutant: the level is run as a whole, planned or not.
MutantEnterLevel ==
    /\ exec = "level" /\ Level(level) # {}
    /\ ~Stopped
    /\ exec' = "nodes" /\ todo' = Level(level) /\ bad' = {}
    /\ UNCHANGED <<jobVars, nodeVars, lease, plan, retrying, level, out>>

\* The whole-graph executor fails the run when the graph is invalid or one of its
\* connections is gone.
SetupFails ==
    /\ exec = "level" /\ level = 0 /\ ~retrying
    /\ exec' = "failing"
    /\ UNCHANGED <<jobVars, nodeVars, lease, plan, retrying, level, todo, bad, out>>

EnterLevel ==
    /\ exec = "level" /\ Level(level) # {}
    /\ ~Stopped
    /\ exec' = "nodes" /\ todo' = Level(level) \cap plan /\ bad' = {}
    /\ UNCHANGED <<jobVars, nodeVars, lease, plan, retrying, level, out>>

StopBeforeLevel ==
    /\ exec = "level" /\ Level(level) # {}
    /\ Stopped
    /\ End(status)
    /\ UNCHANGED nodeVars

\* The node's row, output and checkpoint commit together; a pause may have come
\* since the runner last looked.
NodeDone(n) ==
    /\ exec = "nodes" /\ n \in todo
    /\ row' = [row EXCEPT ![n] = "completed"]
    /\ missing' = [missing EXCEPT ![n] = Preds(n) \ out]
    /\ ckpt' = ckpt \cup {n} /\ out' = out \cup {n}
    /\ todo' = todo \ {n}
    /\ UNCHANGED <<jobVars, exec, lease, plan, retrying, level, bad>>

\* The runner saw a pause or a cancellation: a parallel level waits for the other
\* nodes, a sequential one returns.
NodeSkipped(n) ==
    /\ exec = "nodes" /\ n \in todo /\ Stopped
    /\ IF Parallel
       THEN todo' = todo \ {n} /\ UNCHANGED <<jobVars, exec, lease, plan, retrying, level, bad, out>>
       ELSE End(status)
    /\ UNCHANGED nodeVars

\* The attempts are used up.  The whole-graph executor commits the failed row at
\* once, with a checkpoint that replaces the node's last one if the failure came
\* with an output; failed-node execution commits the row with the failure of the
\* run, unless the node's type is unknown.
NodeFails(n) ==
    LET failed == [row EXCEPT ![n] = "failed"] IN
    /\ exec = "nodes" /\ n \in todo
    /\ row' \in IF retrying THEN {row, failed} ELSE {failed}
    /\ ckpt' \in IF retrying THEN {ckpt} ELSE {ckpt, ckpt \ {n}}
    /\ todo' = todo \ {n} /\ bad' = bad \cup {n}
    /\ exec' = IF Parallel THEN exec ELSE "failing"
    /\ UNCHANGED <<jobVars, missing, lease, plan, retrying, level, out>>

\* An exception outside the attempts, such as a failed checkpoint commit, rolls
\* the row back.  A parallel level reports the node as failed; elsewhere the
\* exception leaves the executor and _process_job fails the run.
NodeErrors(n) ==
    /\ exec = "nodes" /\ n \in todo
    /\ IF Parallel
       THEN /\ todo' = todo \ {n} /\ bad' = bad \cup {n}
            /\ UNCHANGED <<jobVars, exec, lease, plan, retrying, level, out>>
       ELSE End(FailedStatus)
    /\ UNCHANGED nodeVars

\* Mutant: a level is left whatever its nodes reported.
MutantLevelDone ==
    /\ exec = "nodes" /\ todo = {}
    /\ exec' = "level" /\ level' = level + 1
    /\ UNCHANGED <<jobVars, nodeVars, lease, plan, retrying, todo, bad, out>>

\* All nodes of the level have returned.
LevelDone ==
    /\ exec = "nodes" /\ todo = {}
    /\ ~(Parallel /\ (Stopped \/ bad # {}))
    /\ exec' = "level" /\ level' = level + 1
    /\ UNCHANGED <<jobVars, nodeVars, lease, plan, retrying, todo, bad, out>>

StopAfterLevel ==
    /\ exec = "nodes" /\ todo = {} /\ Parallel /\ Stopped
    /\ End(status)
    /\ UNCHANGED nodeVars

LevelFailed ==
    /\ exec = "nodes" /\ todo = {} /\ Parallel /\ ~Stopped /\ bad # {}
    /\ exec' = "failing"
    /\ UNCHANGED <<jobVars, nodeVars, lease, plan, retrying, level, todo, bad, out>>

FailRun ==
    /\ exec = "failing"
    /\ row' = IF retrying /\ lease THEN [n \in Node |-> IF n \in bad THEN "failed" ELSE row[n]]
              ELSE row
    /\ End(FailedStatus)
    /\ UNCHANGED <<ckpt, missing>>

\* Mutant: completion does not look at the lease.
MutantComplete ==
    /\ exec = "level" /\ Level(level) = {}
    /\ End(IF status = "running" THEN "completed" ELSE status)
    /\ UNCHANGED nodeVars

\* After the last level: completion needs the lease and a running run.
Complete ==
    /\ exec = "level" /\ Level(level) = {}
    /\ End(IF lease /\ status = "running" THEN "completed" ELSE status)
    /\ UNCHANGED nodeVars

\* The process dies, or its heartbeat finds the lease gone: the job stays as it is
\* and is claimed when it is queued or its lease has run out.
Abandon ==
    /\ exec # "none"
    /\ exec' = "none" /\ lease' = FALSE
    /\ plan' = {} /\ retrying' = FALSE /\ level' = 0 /\ todo' = {} /\ bad' = {} /\ out' = {}
    /\ UNCHANGED <<jobVars, nodeVars>>

Next ==
    \/ Pause \/ Resume \/ Cancel \/ RetryFailed
    \/ Begin \/ SetupFails \/ EnterLevel \/ StopBeforeLevel
    \/ \E n \in Node : NodeDone(n) \/ NodeSkipped(n) \/ NodeFails(n) \/ NodeErrors(n)
    \/ LevelDone \/ StopAfterLevel \/ LevelFailed \/ FailRun \/ Complete \/ Abandon

Spec == Init /\ [][Next]_vars

-----------------------------------------------------------------------------
(* Properties *)

\* Every node has completed and had all its inputs when it did.
Whole == \A n \in Node : row[n] = "completed" /\ missing[n] = {}

\* A run that was never retried completes only after the whole graph has run on
\* complete inputs, even if pauses and resumes tore executions apart: a level
\* whose nodes were skipped or fenced off never leads to a completion.
FirstRunsAreWhole == status = "completed" /\ type = "full" => Whole

\* No completed run has a node whose latest row is a failure: retries run every
\* failed node again, parallel failures and failures of a retry included.
NoFailureIsBuried == status = "completed" => FailedRows = {}

\* On any graph: "The worker promotes them only after all graph nodes succeed."
\* (docs/durable-execution.md)
CompletedRunsAreWhole == status = "completed" => Whole
=============================================================================
