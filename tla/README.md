# A TLA+ development of the data ingestion graph

This directory specifies, model-checks and partly proves the Studio backend
(durable runs, the graph executor, triggers, uploads, versions, deployment) and
the `ingestion_graph` SDK (sources, pipeline, destinations, page extraction).

`PROJECT.json` lists the components, the runs with what each checks, mutants for
every property (the same specification with a plausible bug), the source lines of
every definition, the findings, the hazards and the theorems.

## 1. The system

Studio is a FastAPI backend with a PostgreSQL database and a Svelte front end.
A user draws a graph of nodes, saves immutable versions of it, and starts runs
by hand, by schedule or by webhook. A run is a row of `runs` with one row of
`run_jobs`; workers poll the jobs, execute the nodes level by level and keep
what they committed. The SDK's sources, destinations and pipeline are used by
Studio's nodes and can be used without Studio.

| part | state | operations | talks to |
|---|---|---|---|
| run lifecycle (`execution_service`, `engine/state`, `api/executions`) | `runs.status` | create (superseding old failures), cancel, pause, resume, retry, replay, fail | queue and source state, in the same transaction |
| durable queue (`run_queue_service`) | `run_jobs`: status, type, owner, expiry | enqueue, claim, heartbeat, finalize, release, orphan recovery | worker |
| worker (`run_worker`, `run_job_executor`) | the job in hand, a heartbeat task | poll, process, cancel, shut down | queue, executor |
| executor (`executor`, `runner`, `checkpoint`) | `run_nodes`, `checkpoints`, outputs in memory | whole graph, failed nodes only, per-level parallelism | lifecycle, source state, web socket |
| scheduler of nodes (`scheduler`) | none | `topological_sort`, `validate_dag` | executor |
| source state (`sdk_source_state_service`, `sdk_document_source`) | committed rows with revisions, candidates per run, advisory locks | load, save, delete, promote | executor, lifecycle |
| triggers (`trigger_*`, `webhook_service`) | schedules, delivery ledger | dispatch of due schedules, webhook acceptance, pruning | lifecycle |
| dead letters (`dead_letter`) | letters, and `run_nodes` rows of retries | file, retry, resolve, delete | executor |
| uploads (`upload_service`, `api/files`) | owner directories, a file lock | upload, list, delete, sweep | versions (references) |
| query artifacts (`query_artifact_service`) | one SQLite file per run | write, query, expire, prune | executor |
| web socket (`ws/execution_ws`) | connections per run | connect, broadcast, disconnect | executor |
| graphs and versions (`graph_service`, `graph_validation`) | graphs, versions, pins | create, save, resolve, validate | lifecycle, triggers |
| connections (`connection_service`) | encrypted configurations, `is_valid` | create, edit, test, delete | sources, sinks |
| set-up (`db/migrate`, `db/session`, `db/storage_import`, `db/connection_credentials`) | password, schema, keys, volume | one-shot containers, then the API | all tables |
| processing nodes (`nodes/`) | none but the sink's table | splitting, fetching, writing | executor, outside world |
| SDK pipeline and destinations | saved cursor, view, change log, tables | read, write, flush, checkpoint | outside world |
| SDK sources (`jsonl`, `postgres`, `rest`, `documents`, `discord`) | what a checkpoint says | page, resume, reconcile | pipeline |
| SDK document AI | tasks, locks, a cache | extract a window of pages | document source |

### What is hard

* Slots, requests and the clock interleave freely. A slot acts on a lease that
  may be gone; only the fences in each transaction protect the others.
* A process may die between any two transactions, and the graph runs again; or
  between a write to a destination and the checkpoint behind it, and the page is
  delivered again.
* A pause or cancellation may arrive in the middle of a node, of a level, of the
  completion, or while the job is being finalized.
* Two runs of a graph read and write the same source state; the promotion
  happens long after the read, perhaps after a retry that did not read at all.
* A failure is recorded in three places (node row, run, job), not always in one
  transaction.
* Every input changes while it is read: a file grows, rows commit between two pages,
  an API moves records between pages, documents shrink and go, messages arrive
  at the end a walk began at. A run may be bounded, so that one pass takes many.
* Several API processes poll the same schedules by clocks that differ; webhook
  deliveries come twice, late, and commit in another order than they arrived.
* Files, locks and lists are shared without a database transaction: uploads
  against quota and sweep, expiry against a query, a broadcast that awaits while
  its list changes, pages that time out while their child process works on and
  are cancelled again while it is being stopped.

### What makes each part correct

* **Lifecycle**: a terminal status is final; a terminal run holds no candidates.
* **Queue**: nobody is pushed out of an unexpired lease; a job is never finished
  under a run that can still go on; a run not yet retried always has a job that
  will be claimed.
* **Worker**: a dispatched run comes to rest in spite of crashes.
* **Executor**: a run completes only if all nodes ran on complete inputs; no
  completed run hides a failed node, dead letters notwithstanding.
* **Scheduler**: levels are exact and exactly the invalid graphs are refused.
* **Source state**: visible state comes from completed runs, moves one revision
  at a time, and only over the revision that was read; a completed run has
  acknowledged all it selected.
* **Sources and pipeline**: what a checkpoint has passed is in the destination;
  nothing is there twice; a cycle that ends is complete; the view is always a
  prefix of the input; every source catches up.
* **Triggers**: an occurrence is dispatched once and in the end; a signed message
  makes one run; the rate holds in every window.
* **Uploads, artifacts, feed, connections, versions, start-up**: section 3, run
  `services`.
* **Nodes**: no text is lost, a failure costs only itself, rows are delivered
  exactly once in spite of redelivery.

## 2. The modules

| module | what it is |
|---|---|
| `DurableRuns` | lifecycle, queue, workers and source state of one graph; any number of runs, slots and streams |
| `BoundedRuns` | `DurableRuns` with a budget of requests and faults, and fairness |
| `DurableRunsProofs`, `GraphExecutionProofs`, `GraphScenariosProofs`, `WebhooksProofs`, `ServiceScenariosProofs`, `DocumentSourceProofs`, `ConnectorScenariosProofs` | the theorems and their lemmas |
| `Recursion` | lemmas: induction over the naturals, recursive definitions, sums over finite sets, runs over a sequence, the last in an order |
| `GraphExecution` | one run working through an arbitrary DAG |
| `DeadLetters` | extends `GraphExecution` with the dead letter queue |
| `TopologicalSort`, `DagLevels` | Kahn's algorithm and `validate_dag`; the reference definition of levels |
| `PrefixView` | abstract: what a reader of a resumable pipeline's destination sees |
| `SdkPipeline` | `Pipeline.run` from `JsonlSource` into `SQLiteCollection` or `JsonlDestination`, with the state store |
| `PostgresConnector` | `PostgresSource` into `PostgresDestination` |
| `RestSource`, `DocumentSource`, `DiscordSource` | the other SDK sources, each with the pipeline around it |
| `PageExtraction` | concurrent extraction of PDF pages |
| `Schedules`, `Webhooks` | the two kinds of trigger |
| `QueryArtifacts`, `Uploads`, `ExecutionFeed` | run artifacts, managed files, the web socket manager |
| `Connections`, `GraphVersions` | saved connections; versions, pins and file references |
| `Deployment` | start-up on an earlier release's data |
| `DataFlow` | saved graphs, edge validation and what the executor hands from node to node |
| `SemanticChunker`, `TextSplitting` | the nodes that split text |
| `EdgarSource`, `SinkDelivery` | the SEC EDGAR source; the database writer under redelivery |
| `MCDurableRuns` | constants and symmetry sets of the `DurableRuns` runs |
| `GraphScenarios`, `ServiceScenarios`, `ConnectorScenarios` | suites with their constants left open |
| `MCGraphs`, `MCServices`, `MCConnectors` | the constants of these suites |
| `MCNodes`, `MCProgress` | the suites of the splitting nodes and of liveness |

**Suites.** A suite runs many small instances in one run of TLC. It declares the variables of all its modules and one more,
`scenario`. Each scenario is an `INSTANCE ... WITH` constants; a behaviour picks
one at the start and keeps it, and the variables it does not have are `NotUsed`.
So one run of TLC explores the disjoint union of the scenarios, and a property
of the suite is a conjunction of `scenario = ... => Instance!Property`. The
constant `Scenarios` of the .cfg selects the ones to explore. Each suite asserts
the assumptions of all its instances (`ConstantsAreSound`). Of `GraphScenarios`,
`ServiceScenarios` and `ConnectorScenarios` the nodes, edges, processes, files,
tables, rows, pages, sizes, limits and clocks are constants: `MCGraphs`,
`MCServices` and `MCConnectors` give them the small values TLC works with, and
the theorems hold for all of them. The nodes that have a state of their own
(database writer, EDGAR source, page extraction) belong to `GraphScenarios`,
apart from the splitting nodes of `MCNodes`, whose recursive operators no theorem
can reach.

### DurableRuns

One action is one database transaction, or what a slot does between two. Every
transaction of the code locks the rows it decides on, in particular the job and
the run (`SELECT ... FOR UPDATE`), so it is atomic; what a slot carries from one
step to the next is in `pc`, `wrun`, `task` and `snap` and may be stale.

| variable | in the code |
|---|---|
| `runStatus`, `selected` | `runs.status`; the uploads chosen in the graph version the run is pinned to |
| `job` | the run's `run_jobs` row; `ttl` counts down to `lease_expires_at` |
| `nodes` | the status of the latest committed `run_nodes` row (`created_at` order) |
| `cand`, `committed` | `sdk_source_state_candidates`, `sdk_source_states` |
| `pc`, `wrun`, `task` | the position and locals of `_process_job` and of the executor it calls |
| `snap` | the state read by the source in its open transaction, while it holds the advisory locks |

The graph is a source followed by one downstream node: the smallest one on which
a retry can skip the source. Payloads are abstracted to the run that wrote them;
attempts of a node are one step; messages, timestamps, logs and events are left
out. `cand[..].read` is a history field: the code does not store it, and only
properties look at it. When two slots work on the same run, the order in which
their node rows were created is not known, so the latest row is chosen
nondeterministically (`task.rows`).

Actions follow the functions of the same name: `CreateRun`, `CancelRun`,
`PauseRun`, `ResumeRun`, `RetryFailedRun`, `RecoverOrphanedRuns`, `Claim`,
`Heartbeat`, `LoadJob`, `StartRun`, `SourceRead`, `SourceDone`, `SinkDone`,
`CompleteRun`, `FailRun`, `MarkRunFailedIfOwned`, `FinalizeRunJob`,
`ReleaseRunJob`, each with the paths by which it is declined, skipped or raises.
`Tick` and `Crash` are the environment. `SetupRaises` says whether an exception
can leave `execute_run_job` before the run is marked running; it separates one
finding from the property that holds without it. `finish_run_job`, which nothing
calls, several graphs (scope fences, supersession and source state are all per
graph) and the deletion of graphs or runs are not in it.

### GraphExecution, DeadLetters, TopologicalSort, DataFlow

`GraphExecution` takes the executor's side for an arbitrary graph: levels,
parallel levels (two nodes or more) that wait for all their nodes, sequential
ones that return at the first failure, the stop checks before and inside nodes,
checkpoints and failed-node execution. The job queue shrinks to "queued, leased,
done" and a flag that the slot still owns its lease. It assumes one worker slot,
the default (`run_worker_concurrency = 1`); a claim with load and start, and a
return with finalization, are single steps, because what can come between them
is covered by `DurableRuns`. `missing` is a history variable: the predecessors
without whose output a node's latest completed execution ran.

`DeadLetters` adds the owner's requests, which execute a node in the API process,
outside queue and lease, and write `run_nodes` rows of the same run.

`topological_sort` decrements an in-degree per edge, level by level; nodes may be
joined by several edges. `DagLevels` says directly what level `i` is: the nodes
all of whose predecessors are in lower levels, at least one in level `i - 1`.

`DataFlow` takes what `GraphExecution` abstracts: which edge an editor may save,
which field of it names a port, and what `_collect_inputs` makes of it. The
payload a webhook injects and edge ids are left out.

### The SDK

`SdkPipeline` keeps the order read, transform, write, flush, checkpoint as steps
with a crash before each. The file is a sequence of JSON objects, newlines and
one torn object, so that a reader may see the beginning of what a writer is
writing. With the SQLite target it is shown to implement `PrefixView`
(`ImplementsPrefixView`, an `INSTANCE` whose `view` is the collection): readers
see a prefix of the input, applied in order, which only grows. What a prefix
shows of a key is its last change. The changes of a file, the versions a batch
adds to the log and the collection after a batch are recursive functions over
the sequence.

`PostgresConnector` gives rows a cursor that grows from commit to commit
(`postgres-connectors.md` asks for a monotonic one), keyset pages in a
repeatable-read snapshot (the rows with fewer rows before them in keyset order
than the page may hold), bounded runs, recurring full-refresh cycles, and the
destination's ledger in the transaction of its page. `RestSource` has pages with
fingerprints, links from page to page, mid-page resumes, retries and schema
changes. `DocumentSource` has discovery, tombstones, half-read documents, parser
configurations, a cache of extractions and components whose output is not
deterministic; `Stops` says where a run may die: while it reads, while it
buries, or between a write and its checkpoint. `DiscordSource` walks back from
the newest message to a floor. `PageExtraction` has a task per page, a lock per
component and call, and workers that a cancelled task does not stop. A task that
is cancelled first stops its component, still under the lock (`Stopped`). One that
is cancelled again meanwhile (`again`) is not waited for, because
`_terminate_process` and `run_bounded_process` await the process unshielded: the
lock is released and the process left behind until it exits (`Exit`). Docling's
extraction is shielded (`_drain_blocking`) and has a lock of its own over all calls
(`Free`). `inner` says whether `asyncio.wait_for` runs the page in a task of its
own, as in Python 3.11, which the images of Studio use: the second cancellation
then reaches only `wait_for`, and the inner task goes on stopping its component
with the locks it has, after the call has raised. Which of the waiting tasks gets
a lock is left open.

### The services

`Schedules`: a poll is several steps of one transaction (clock, batch under SKIP
LOCKED, a savepoint per row, one commit); PATCHes are merged into the row; cron
expressions stand for their period. `Webhooks`: a delivery is checked against
the receiver's clock when it arrives and commits after a wait for the row lock,
at most `Stall` later; clocks are within `Drift` of the time. `Uploads`: chunks,
staging, rename and rollback, each a step; `QueryArtifacts`: every open and
unlink a step, and a write of what is there already leaves the file its time;
`ExecutionFeed`: every await a step, and handlers that end by another exception
than a disconnection and leave their socket in the list (`Fail`); `Deployment`: every commit of
a container a step, with one storage tree. `Connections`: the ORM reads, then
writes only the columns that differ. `GraphVersions`: transactions at READ
COMMITTED with the row lock of `save_graph_version`.

### The nodes

`TextSplitting` and `SemanticChunker` are pure algorithms, checked over all small
inputs (a text is a sequence of content units and separators; a document is its
sentence lengths and the places where its topic changes). `EdgarSource` is a loop
over calls that may fail each in its way. `SinkDelivery` composes the database
writer with at-least-once execution by two workers; every execution of a run is
given the same rows, which is what checkpoints and deterministic predecessors
provide. Its transaction writes the rows one after the other, in a function over
their number.

## 3. The runs

| run | instances | shows | distinct states |
|---|---|---|---|
| `one_run` | 1 run, 2 slots, TTL 2, no bound on requests or faults | `TypeOK`, `TerminalRunsHoldNoCandidates`, `CompletedJobsAreSettled`, `TerminalIsFinal`, `LeaseIsExclusive`, `CompletionAcknowledgesSelection` | 162 k |
| `two_runs` | 2 runs, one of them legacy, 2 slots, TTL 1, 2 requests, 2 faults, no exception in setup | `CommittedByCompletedRuns`, `CandidateBaseIsWhatWasRead`, `CompletedSourceStaysStaged`, `FirstDispatchIsRecoverable`, `NoLostUpdate` | 4.0 M |
| `liveness` | 2 runs, 2 slots, 1 request, 1 fault, fairness | `DispatchedRunsSettle` | 438 k |
| `graphs` | chain, diamond, fork (no bounds); a branch with 2 letters; all multigraphs on 3 nodes with up to 2 edges per ordered pair, self-loops included; all graphs of 3 typed nodes with up to 2 edges; the database writer in 3 modes, the EDGAR source, PDFs | `TypeOK`, `CompletedRunsAreWhole`, `NoFailureIsBuried`, `SortIsExact`, `FullRunsIgnoreLetters`, `DataIsOfItsType`, `DeliveryIsExact`, `FailuresAreContained`, `PagesAreIsolated` | 4.0 M |
| `connectors` | 11 scenarios of the five sources | `CheckpointedIsDelivered`, `NothingIsDeliveredTwice`, `CheckpointIsValid`, `NoStaleElements`, `ImplementsPrefixView`, `CyclesAreComplete`, `CheckpointsOnlyExtend` | 1.9 M |
| `services` | 10 scenarios | `WebhooksAreGuarded`, `UploadsAreAtomic`, `PromisesAreKept`, `FeedIsExact`, `ConnectionsAreSound`, `VersionsAreSound`, `SchedulesAreKept`, `StartsAreSafe` | 5.6 M |
| `nodes` | 5 scenarios | `TextIsKept` | 126 k |
| `progress` | 10 scenarios, fairness | `SourcesCatchUp`, `EveryScheduleFires`, `WorkEnds` | 123 k |
| `stranded`, `fork`, `docs_stale`, `fan_in` | the scenario that shows it | the findings of section 6 | - |

What the suites' properties say, scenario by scenario:

* **`graphs`.** A completed run has executed every node on the outputs of all its
  predecessors: on a chain however often it was retried, on every graph when it
  was not. No completed run hides a failed node. A whole-graph execution produces
  every output itself, whatever is done with letters meanwhile. Kahn's levels are
  those of `DagLevels`, and exactly cyclic or dangling graphs are refused. Data
  reach an input only from an output of its type. A row is inserted once,
  re-executing an upsert changes nothing, a replaced table is always one run's
  rows. A ticker or filing that fails costs only itself. A component serves one
  page of a document at a time. A call that returns leaves nothing behind; one that
  raises leaves only processes, threads and locks of pages that were cancelled again
  while they were being stopped, and beside such a process the next call may use the
  component, never the table extractor.
* **`connectors`.** What lies before a checkpoint is in the destination (file
  offset, cursor position, document, watermark, unfinished walk). A version is
  logged once, an event inserted once, a request completed once per cycle. A
  full-refresh cycle that ends has every row that did not change since it began,
  also one whose value changed and returned. A checkpoint is only replaced by one
  of a longer prefix, also when the file is rotated, and passes the validation of
  the next run. No element of a file that shrank or went stays behind.
* **`services`.** Two runs of a schedule are for different instants of one
  cadence, and a run appears only with the advance of `next_run_at`. One run per
  signed message, with a ledger that lives exactly long enough; the rate holds
  in every window although deliveries commit out of order. The artifacts an owner
  sees stay within the quota, and a request is all or nothing. Until the expiry a
  node's result names, its file holds the run's records, if the execution was the
  first or a calm one: when it began nobody had judged the file expired and not yet
  deleted it, and the file would not expire while the node ran. The registry of
  sockets holds each open one once, none whose handler saw the client disconnect,
  and none to which the send of a broadcast raised once that broadcast has ended;
  one whose handler ended otherwise may stay until then. Nobody is told twice. The API never serves a
  partial schema, an unreadable or unencrypted connection, or a volume from which
  a legacy file is missing. The configuration stored is the one saved last.
  Versions are numbered without a gap, a run without a named version runs a
  recent one, and a deleted file is in no version that could be executed.
* **`nodes`.** Splitting keeps content once and in order, within the size.
* **`progress`.** Every source catches up once input and faults stop; a due
  schedule fires although another trigger always fails; abandoned staging goes;
  broadcasts and extraction calls end; the deployment comes to serve.

**Bounds.** Budgets are guards of the modules, not state constraints. `one_run`
has none: a single run may be paused, resumed, retried, claimed and abandoned
for ever, and two slots are enough for an old and a new owner (a third would
repeat the old one's role). A crash consumes a slot identity, as in the code; an
interruption or a late heartbeat takes a run away without one. TTL 2 separates a
lease that is running out from a fresh one. Two runs and one stream suffice for
a conflict on a state row: state is compared per stream and the fences are per
graph. A legacy run makes start-up recovery meet a run without a job. A diamond
has a parallel level with a common successor and predecessor, a chain only
sequential levels, a fork two roots of which one has a successor.

The connectors use the smallest input with two pages and something left over:
two keys and batches of two (a batch with an update of its own record), four
rows in pages of two with three per run (a stop inside a page), two commits,
each of one row or several with one cursor value, an API of three pages and a
foreign link with two pages and three records per run, documents of one to three
elements with a checkpoint after one or two (a file that is rewritten to a
shorter one and back, and one whose two extractions differ in length), five
messages in pages of two. One crash per behaviour is enough for a redelivery,
two for one of what was itself a redelivery. The `incremental` scenario has one
page more than a run may read.

In `services`, two processes with clocks one apart dispatch one trigger of
period two; three requests may hold the webhook row lock against a limit of one
or two; `replay` runs to time 10 so that a message can outlive its retention of
7 = 2 x 1 + 4 x 1 + 1; three files of sizes 1, 2 and 2 meet an owner quota of 3;
the node that stores a run's output is executed twice in five units of time with
a TTL of two, so that the second execution may be calm or meet a judgement of the
first one's file; three connections and two senders let a removal shift the list
under both; the host stops once, between any two commits; two savers, a starter and a deleter
meet over three versions. In `graphs`, edges lead between three nodes of five
types, two at most, so that two may meet in one port; two workers execute two runs
of at most two rows, twice interrupted, so that an old run is delivered after a
newer one; two tickers with up to three hits meet a quota of two; two PDFs of
three pages are read in windows of two with two faults, so that a page of the first
can be cancelled twice, outlive its call and meet the second one's. In `nodes`, all texts of up to six units (twelve for windows), all two
documents of up to three sentences.

**Symmetry** is used for slots and for runs that are not legacy, in `one_run`,
`two_runs` and `stranded`, never where a liveness property is checked.

**Deadlock** is not checked, since the modelled systems may stop: every slot may
be dead, every run terminal, every budget spent, the sort or the text finished.

**Fairness.** `BoundedRuns!Fairness`: weak fairness of every slot's own steps, of
claiming when a job is claimable, and of time. The worker loop polls for ever
and awaits nothing without a timeout except database locks, which the holders
give up when their transaction ends; a heartbeat task accompanies each job.
`MCProgress!Fairness`: weak fairness of what a component does by itself, namely
a pipeline that is started again when it has ended and goes on when it has
started, the polling loop, listings (which sweep), the deployment's containers,
extraction tasks with their workers, broadcasts of each sender, the end of an
object whose writer began it, and time. Strong fairness is assumed only of a poll
whose clock is not behind the time: a loop that reads the clock at every poll
reads such a value again and again. Nothing is assumed of operators, failures,
crashes, or changes of the outside world; their budgets are the environment
assumption that they stop at some point.

**Assumptions worth knowing.**

* `Webhooks` needs `Retention >= 2 * Skew + 4 * Drift + Stall` for one run per
  message. The settings do not impose it: they allow a skew of 3600 s with a
  retention of one hour. For the rate limit it needs that the ledger reaches
  back over the window, `Retention >= Window + Stall + 2 * Drift`, which a window
  of a minute leaves to every retention in use.
* The graphs that are executed have no cycle: `topological_sort` raises for one
  that has, before any node runs (`SortStaysExact`).
* `QueryArtifacts` assumes that the node is faster than the TTL (`Slow < TTL`). Its
  `PromisesAreKept` speaks of the first execution and of calm ones; of the others it
  is false (`OnlyExpiredArePruned` in section 6).
* `EveryScheduleFires` has fewer poisoned triggers than a batch. As many triggers
  that always fail as `trigger_scheduler_batch_size`, and none behind them is
  dispatched.
* The Discord watermark may fall when the newest messages are deleted; that is
  harmless, since messages are delivered idempotently.
* `SinkDelivery` assumes re-executed predecessors put out the same rows.
* In `two_files`, where nothing stale may stay, runs die while reading only; what
  dying elsewhere does is a finding.
* In `parsers` and `draws`, where what is checkpointed must be there, a file that
  has gone does not return; what its return can do is in the table of section 6.
* What stands for "nothing" is not a value: `Absent` is no version, value or
  record, `None` no number, draw, document, progress or checkpoint, `NoPage` no
  page. `NL` and `Torn` differ, and neither is an envelope.
* The URLs of an API are numbered, those of another origin last. Extractions are
  finitely many, and there is one.

## 4. The proofs

All theorems hold for every value of the constants.

`DurableRunsProofs`: all sets of runs, slots and streams and every TTL, from
`ConstantsAssumption` (TTL positive, legacy runs are runs, `None` is no run or
slot).

| theorem | states | argument |
|---|---|---|
| `TypeCorrect` | `[]TypeOK` | inductive by itself; it says also that a slot has a run exactly while it processes one, which every other proof uses |
| `TerminalFinal` | `TerminalIsFinal` | every writer of the status checks it first |
| `CommittedFromCompleted` | `[]CommittedByCompletedRuns` | only `CompleteRun` writes committed state, and a completed run stays completed |
| `TerminalEmpty` | `[]TerminalRunsHoldNoCandidates` | steps that end a run drop its candidates, and only `SourceDone` of a running run adds some |
| `BaseIsRead` | `[]CandidateBaseIsWhatWasRead` | `FenceInv` |
| `LostUpdateFree` | `NoLostUpdate` | `FenceInv` and the stale check of `CompleteRun` |
| `SourceStaysStaged` | `[]CompletedSourceStaysStaged` | `StagedInv` |
| `SelectionAcknowledged` | `CompletionAcknowledgesSelection` | `StagedInv` |
| `LeaseExclusive` | `LeaseIsExclusive` | only a claim makes another slot the owner, and it checks the expiry |
| `JobsSettled` | `[]CompletedJobsAreSettled` | `SettledInv` |
| `FirstDispatch` | `[]FirstDispatchIsRecoverable`, assuming `~SetupRaises` | `DispatchInv` |

*FenceInv.* That a candidate's base is what the source read is not inductive: a
reader's snapshot must still be current when it stages. So the invariant adds
`ReadersSeeCommitted` (a slot that is reading has seen the committed state as it
is now) and `OneReader` (at most one slot reads at a time, thanks to the scope
fence). A promotion of any stream needs the scope fence and so excludes readers.

*StagedInv.* When a run completes after a retry, nobody has read anything in that
execution, and the reason why the candidates are there lies in the past. The
invariant says so: a run that is past its source, because its source row is
completed or because a slot is behind the source, has its whole selection staged
unless it is terminal; and a run that does not exist has left no trace. The
second part is needed because creation sets the selection.

*SettledInv.* Finalization writes "completed" from an outcome the slot remembers.
The invariant ties the memory to the row for as long as the slot is the owner: an
owner that executes nodes has started the run (`OwnersAreStarted`), one that is
about to finish without an error has seen the run stop (`FinishersAreDone`), the
exception handler always finishes with an error (`HandlersReportErrors`), and a
job that can be claimed belongs to a run that exists and was not superseded
(`LiveJobsHaveRuns`). The induction rests on who may change a run another slot
owns: pauses and cancellations only stop it, and a resume or a retry requeues the
job, which ends the ownership.

*DispatchInv.* A pending run whose first job failed would be claimed by nobody.
Relative to `SettledInv`: a slot with a retry's task has a run that was retried
(`RetriersWereRetried`), an owner in the exception handler had started its run
(`HandlersAreStarted`), and one about to fail the first job leaves no run going on
(`FailersAreDone`). `SetupRaises` is what breaks the second; the finding
`stranded` is that counterexample.

`WebhooksProofs`: any number of deliveries and requests, any skew, drift, stall,
limits and edits of the trigger, from `WebhooksAssumption`.

| theorem | states | argument |
|---|---|---|
| `RunsStayGuarded` | `[]RunsAreGuarded` | a prune by a drifting clock takes no row of the last `Retention`; row and run are one commit |
| `OneRunPerSignedMessage` | `[]OneRunPerMessage`, assuming `Retention >= 2 * Skew + 4 * Drift + Stall` | `InTime` bounds a request in flight by its message's stamp, `RunsAreTimely` a run's time from below; a message whose row is gone is then too old to be accepted |
| `RateStaysLimited` | `[]RateIsLimited`, assuming `Retention >= Window + Stall + 2 * Drift` | `RateInv` |

*RateInv.* A delivery is accepted after a count of the ledger's rows in a window
that ends at its own clock, and rows commit out of order. Guarded runs have
different rows (`RowsDiffer`), so the runs of any window inject into what was
counted when the last of them was accepted, and the count was below the limit.

`GraphExecutionProofs`: any finite acyclic graph, any number of retries, pauses,
failures and lost leases, from `GraphAssumption`.

| theorem | states | argument |
|---|---|---|
| `TypeCorrect` | `[]TypeOK` | `TypeInv`, inductive |
| `FirstRunsWhole` | `[]FirstRunsAreWhole` | `FullProgress` |
| `FailuresSurface` | `[]NoFailureIsBuried` | `RetryProgress` and the check of a parallel level's results |
| `ChainsAreWhole` | `[]CompletedRunsAreWhole`, assuming `IsChain` | `ChainInv` |

*The levels* are a recursive function. `Recursion` proves that such a function
exists and satisfies its equations, and an induction principle that speaks of a
set of numbers instead of a predicate. From these follow that levels are disjoint
and ascending, that all predecessors of a node lie in earlier levels, and that
on an acyclic graph an empty level comes only after the last node.

*FullProgress.* While a whole-graph execution holds the lease, all nodes of
earlier levels are done on complete inputs; a node of the present level is still
to come, failed or done, or it was skipped in a parallel level, and then the run
is still stopped, because a resume takes the lease away. `RetryProgress` says the
same of what is still failed in a retry: it lies ahead.

*ChainInv.* On a chain a retry is whole as well. A completed row ran on all its
inputs and left a checkpoint (`RowsAreWhole`), and no node has a row before all
nodes of the earlier levels have one (`RowsAreInOrder`). The plan of a retry is
the closure of the failed nodes over the edges, so what it leaves out is upstream
of all of them. With two roots this fails, which is the finding `fork`.

`GraphScenariosProofs`: the suite of the run `graphs`, from its
`ConstantsAreSound`. All nine properties of the run are proved.

| theorem | states | argument |
|---|---|---|
| `TypeCorrect`, `CompletionIsWhole`, `FailuresSurface` | `[]TypeOK`, `[]CompletedRunsAreWhole`, `[]NoFailureIsBuried` | the theorems above, for a chain, a diamond and a fork of any shape |
| `LettersStayIgnored` | `FullRunsIgnoreLetters` | `DeadLetters!LettersInv` |
| `SortStaysExact` | `[]SortIsExact` | `TopologicalSort!SortInv` |
| `DataStaysOfItsType` | `[]DataIsOfItsType` | `FlowInv` |
| `DeliveryStaysExact` | `DeliveryIsExact` | `WriterInv`, and of each mode `InsertInv`, `UpsertInv`, `ReplaceInv` |
| `FailuresStayContained` | `[]FailuresAreContained` | `EdgarInv` |
| `PagesStayIsolated` | `[]PagesAreIsolated` | `PagesInv` |

*LettersInv.* Letters change rows of the same run behind the execution, so nothing
can be said about rows. What holds is `MadeInOrder`: an execution that is not a
retry and holds the lease has in memory the output of every node of the levels
behind it, made on complete inputs, and none of these has failed since.

*SortInv.* After `k` levels exactly `k` rounds of the reference definition are
settled; an in-degree counts the edges from what is not; what is ready is what
the next round settles. Edge counts are sums, and `Recursion` shows that the
library's fold computes them and that they may be split. When no node is ready
and some are left, each of them waits for another, which is a cycle; and no node
of a cycle is settled in any round. The count of visited nodes tells the two.

*FlowInv.* After each edge of the loop of `_collect_inputs` a port holds the data of
one of the edges so far that lead there, and every such edge's port holds some
(`Gathered`, by induction along the list). A saved graph passed the validation of
each edge, a template moreover that of its required inputs, and neither is changed
afterwards (`SavedIsValid`). It holds for any number of nodes and edges.

*WriterInv.* An execution that has written, and a run that is completed, have had
a transaction (`WroteWhatItClaims`). The transaction is a recursive function over
the rows, about which lemmas say by induction what it puts in the ledger
(`LedgerGrows`), that it leaves a target alone that knows all its rows
(`NothingNew`), and that on an empty target it leaves the rows in order
(`Replaces`). `UpsertInv`: what any run wrote is in the ledger for ever, so a
repeated run finds nothing new. `InsertInv` adds `Held`: the ledger's identities
are those of the target's rows, each there once. `ReplaceInv` needs no more than
the property, since both target and ledger start from nothing.

*EdgarInv.* The property speaks of the quota a ticker had left, which is in no
variable once the next ticker has begun. `Complete` says it by counting the
documents of the tickers before, which do not change any more. Below the cap every
ticker that is behind is complete (`BehindIsComplete`), and of the one at work what
is wanted is a document already or still in the queue (`Downloading`).

*PagesInv.* A page that works in a component, or is being stopped in it, holds its
lock, and its process is among the component's workers (`LocksAreHeld`); a lock
without such a page, and a worker without one, is of a page that was cancelled again.
Two workers of one component are of different documents (`WorkersAreApart`), so one
of them was cancelled again. A page that was is being stopped or has failed,
and from then on no page of its call begins anything (`AbandonedCallsEnd`): that is
why the lock it gave up is taken by nobody in this call, and why a call that returns
has none. When a call ends, no page is at work (`WindowsAdvance`).

`ServiceScenariosProofs`: the suite of the run `services`, for any number of
processes, requests, files, sockets and graphs, from `ConstantsAreSound` and
`RetentionIsLong`, which ask for finite sets where the code counts.

| theorem | states | inductive invariant |
|---|---|---|
| `WebhooksStayGuarded` | `[]WebhooksAreGuarded` | those of `WebhooksProofs` |
| `VersionsStaySound` | `[]VersionsAreSound` | `GraphVersions!Serialised`: between lock and commit the saver owns the row, so its number is still the next one; with gapless numbers the highest is the last commit, and what a deletion looked at is never rewritten |
| `UploadsStayAtomic` | `[]UploadsAreAtomic` | `Uploads!IInv`: one request holds the lock from the count to the rename and writes a file it has not saved (`LockIsHeld`); stored files are those of successful saves (`StoredIsSaved`); what was counted is not exceeded and what is staged fits beside it (`RoomIsLeft`). Bytes are a sum over the stored files |
| `PromisesStayKept` | `[]PromisesAreKept` | `QueryArtifacts!IInv`: the first execution is calm, because nothing is there before it (`BeforeTheNode`, `FirstIsCalm`); while a calm one runs its file does not expire, and nobody has judged that it has (`WhileItRuns`); as long as its promise lasts, the file is no older than the promise, and whatever later executions do only renews it (`AfterItRan`) |
| `FeedStaysExact` | `[]FeedIsExact` | `ExecutionFeed!IInv`: positions hold different connections (`ListIsExact`); one to which a send raised does not open again, and has left the list when its broadcast is over (`DeadAreClosed`); a sender has told nobody it may still reach (`UntoldAhead`), although removals shift the list under its index |
| `ConnectionsStaySound` | `[]ConnectionsAreSound` | `EditedInv`; for requests that do not overlap `SerialInv`: what a request read is still the row |
| `SchedulesStayKept` | `SchedulesAreKept` | `Schedules!IInv`: what a transaction has staged is the next instant of its row's cadence (`LocksInv`), no two hold the same row (`LocksDiffer`), and a row is due only after all its runs and on their cadence (`RunsInv`) |
| `StartsStaySafe` | `StartsAreSafe` | `Deployment!IInv`: a version stands for all migrations up to it (`SchemaIsStamped`), no credential has an unknown key after its container (`SealsAreKnown`), and the marker is written after everything else (`MarkerIsLast`) |

`ConnectorScenariosProofs` and `DocumentSourceProofs`: the suite of the run
`connectors`, for any number of records, rows, pages, files, versions and
messages, any batch and page size, any checkpoint interval and any number of
crashes, from `ConstantsAreSound`. All seven properties of the run are proved.
`DocumentSourceProofs` extends `DocumentSource` with its lemmas, for every value
of its constants; `ConnectorScenariosProofs` instantiates it once for each of the
three document scenarios and shows, action by action, that the instance is the
scenario (`FilesNext`, `ParsersNext`, `DrawsNext`).

| theorem | states | inductive invariant |
|---|---|---|
| `CheckpointsKeepExtending` | `CheckpointsOnlyExtend` | `LogInv`: what the reader has passed begins with the checkpoint's prefix and is whole lines |
| `CollectionKeepsPromise` | `ImplementsPrefixView` | `ViewInv` |
| `NothingComesTwice` | `[]NothingIsDeliveredTwice` | `AppendInv`: what the destination remembers covers every object of the log; `InsertInv`: what was inserted is in the ledger; `RestInv`: the requests passed in a cycle are done, and the page at hand is not |
| `CyclesStayComplete` | `CyclesAreComplete` | `CyclesInv`: the rows up to the position are applied or changed since the cycle began, and so they will be up to any position the run is about to save; `RestInv` for the API |
| `CheckpointStaysValid` | `[]CheckpointIsValid` | `DocumentsInv`: entries and progress, saved or at hand, name extractions and places within them |
| `NothingStaleIsLeft` | `[]NoStaleElements` | `StaleInv` |
| `CheckpointsAreDelivered` | `[]CheckpointedIsDelivered` | `ViewInv`; `LoggedInv`: what the checkpoint or the reader has passed is in the log or the batch; `IncrInv`; `ShownInv`; `ChannelInv`: the messages from the floor to the newest one seen are delivered down to where the walk is |

*ViewInv.* The collection shows the input up to some place `n`. The place is not
behind the checkpoint and at most one batch ahead of it; a batch is written in
one transaction, so `n` is where a batch ends. After a crash the reader goes over
the same lines again, while more are appended. The batches it makes are the ones
it made before, unless the file ended then inside one; in any case the batch that
is written next reaches `n`, because it starts at the checkpoint or behind it and
is full or ends at the end of the file. So the place never moves back, and that
is what `PrefixView` asks: what writers append is `Offer`, a `WriteView` is
`Advance`, every other step stutters (`PromiseStep`).

*IncrInv.* Every row at or before the saved position is in the ledger with its
present value, and the target holds the latest version the ledger has. This is
kept because a commit's cursor is later than all before it: a row that changed
since the run took its snapshot lies behind all that the snapshot holds, and so
behind any position the run can save.

*StaleInv* and *ShownInv* speak of what the checkpoint accounts for: per file its
entry, and for the file half done how far it has come. `StaleInv`: behind that the
destination is empty, also once the buffered records are written; a burial is the
only time when the checkpoint says how far the tombstones are, and no run starts
with such a checkpoint when none dies while burying. `ShownInv`: what it accounts
for is there with the content of one extraction, or it is outdated: the file, its
version or the parser has moved on since, and what is outdated stays so.

The run of each suite checks the same properties on small instances. The
inductive invariants of `services` and of the executions in `graphs` are in the
component modules and were checked there by TLC before they were proved; those of
`connectors` and of the nodes in `graphs` relate an instance to the suite's
constants and stand with the proofs.

**What the proofs found.** The attempt at `ShownInv` failed for a reason, and TLC
then showed it with more versions: see `CommittedIsDelivered` in section 6. The
attempt at `StaleInv` led to the burial with an interval of two there. Both
properties are now stated for the cases in which the code keeps them.

**Only model-checked.** The liveness properties (`DispatchedRunsSettle` and the
run `progress`), which the prover cannot handle; and `TextIsKept` of the run
`nodes`. `TextSplitting` and `SemanticChunker` are algorithms whose results depend
on what recursive definitions compute for every input, and the recursive splitter
calls itself on each piece: a suite that reaches a recursive operator is closed to
the prover as a whole.

## 5. Mutants

Each property has at least one mutant, one for most of the conjuncts of a suite's
property: an operator before the definition it replaces, named `Mutant...`, that
changes one guard or assignment as a slip in the code would (claims ignore the
expiry, promotion ignores the base revision, a checkpoint is saved before the
write, a page boundary is off by one, a prune uses the wrong period, ...). Under
its run's configuration TLC finds the property violated.

## 6. Findings

* `stranded`: an exception before the run is marked running fails the job but
  leaves the run pending; nothing claims, recovers or retries it. Only a resume
  (or a cancellation) by hand gets it out.
* `fork`: a retry runs the failed nodes and their successors. Nodes that were
  never reached and are not downstream of a failure are not run, and the run
  completes without them.
* `docs_stale`: a run dies between the write of a file's elements and its
  checkpoint, and the file is gone or shorter at the next run: the elements are
  in no checkpoint and are never buried.
* `fan_in`: of several edges into the one port of a merge node only the last
  one's data arrive.

### Further disagreements

These were seen by TLC too. The definitions stay in the component modules and are
checked by no run, so that a change of the code can be tried against them.

| definition | what the code does |
|---|---|
| `DurableRuns!LiveRunsAreDispatchable` | also violated without `stranded`'s cause: failed-node execution marks a failed run running without looking at its lease, after the next owner failed it and finished the job |
| `DurableRuns!ResumeOnlyFromPaused` | resume restarts pending and failed runs too, although documented for paused ones |
| `DeadLetters!CompletionSeesNoFailure` | a letter's retry makes a running row the latest one of a failed node; a failed-node retry at that moment leaves the node out |
| `SdkPipeline!EverythingIsLogged` | a crash inside an append leaves a torn line, and no later run can write to that log |
| `SdkPipeline!CheckpointedIsLogged`, with append errors | the same `Pipeline` object appends behind the torn text, and the record cannot be read back |
| `SdkPipeline!LineIdsAreStable` | an object without an id that is read before its newline is identified by another line number after a crash |
| `DocumentSource!NoStaleElements`, `CommittedIsDelivered`, with stops while burying | tombstones of a shrunken file that then goes start too late; a file that comes back in the middle of its removal is committed without its first elements |
| `DocumentSource!NoStaleElements`, with a checkpoint interval of two and such stops | a run that dies between two checkpoints of a burial leaves `tombstone_next_index`, and the next run takes it over although the document has changed again: what lies between its new and its old end is never buried |
| `DocumentSource!CommittedIsDelivered`, for outdated files in best effort | a run dies between the write of a changed file and its checkpoint, and the next cannot read the file and goes on: its entry names an extraction that the destination has half overwritten |
| `QueryArtifacts!AnswersAreComplete` | a query that passed the expiry check re-creates a pruned file and answers with no hits |
| `QueryArtifacts!OnlyExpiredArePruned` | a pruner or a query judges a file expired, the node is executed again, renews the file and names a new expiry, and the unlink deletes the new file (`query_artifact_service.py:41`, `api/query.py:53`) |
| `ExecutionFeed!EveryWatcherIsTold` | removing an earlier connection during a broadcast makes it skip the next one |
| `Deployment!WebhookSecretsAreReadable` | a key change re-encrypts connections but not webhook secrets |
| `Connections!ValidityIsEarned`, overlapping | a test of the old configuration marks a new one valid |
| `SemanticChunker!EverySentenceOnce`, when a call raises | fallback chunks are put out again for every failed batch |
| `DataFlow!RequiredInputsAreEnforced` | nothing of the executor looks at `required` |
| `GraphVersions!RemovedFilesCanBeDeleted` | a file that any old version names can never be deleted |
| `EdgarSource!RequestsAreSpaced` | two requests per sleep, none after a failure |
| `SinkDelivery!FailuresAreRetried` | nodes return failures instead of raising them, so the retry handler never retries |

Besides: the ITEMS and TEXT inputs of the filter, split and LLM nodes can be fed
by no source under the edge validator. A page that is cancelled again while its
component is being stopped (its own timeout, then the failure of another page of its
window or the caller's cancellation) leaves the renderer's or OCR engine's process
behind (`rendering.py:143`, `:236`), or on Python 3.11 the task that stops it, and
the call raises while it runs; the next call may use the component beside it. A
websocket handler that ends by anything but a disconnection (a binary frame, a
cancellation) leaves its socket registered (`execution_ws.py:132`) until a broadcast
fails to send to it. `PagesAreIsolated` and `FeedIsExact` are stated with these.

## 7. Not modelled, and the plan

**Partly.** Document AI: the order of page extraction, not recognition, which is
numeric. Graphs: not names, tags, archiving and ownership, which are single-row
updates and guards. Processing nodes: not file readers, model calls, filters and
HTTP requests, thin adapters without state; nor the vector store, a plain insert
that the documentation excludes from recovered runs. The HTML splitter without
the hierarchy of tags. The Studio node around the document source: its limits and
the projection of its configuration only as a failure.

**Not at all.** The conformance kit (it checks other code), SDK tooling (data
classes, plugin discovery, command line), egress policy (address validation, pure),
authentication (request guards), lineage and costs (append-only records), the
OpenRouter client (HTTP and a cache), and the front end.

**Simplified.** The sweep of abandoned staging directories and the rollback of a
request are one step each and do not fail (`upload_service.py:192` removes a tree file
by file, `files.py:55-56` deletes one file after the other). The limit on the number
of requests a REST cycle remembers (`rest.py:311`) is not among `Acceptable`'s
conditions; a cycle in the model stays far below it.

**Hazards without a property.** The lock order of advisory fences, jobs and runs
against foreign-key locks (`sdk_source_state_service.py:530`). Beyond the list:
lineage commits a node's row before its checkpoint (`executor.py:693`); nodes of a
parallel level outlive an execution that lost its lease (`executor.py:444`); a
failed run whose worker dies before finalizing (`execution_service.py:369`); a
staged deletion that is not refreshed (`sdk_document_source.py:288`); two processes
that run one pipeline (`pipeline.py:63`).

**Next**, in this order:

1. A module of lock acquisitions (fences, jobs, runs, foreign keys) and its
   absence of deadlock.
2. `NodeDone` in its two commits, and level nodes that outlive their execution.
3. An abstract run (submitted, then committed atomically or nothing) that
   `DurableRuns` implements, and two processes on one `Pipeline`.
