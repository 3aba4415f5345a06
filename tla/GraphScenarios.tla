---------------------------- MODULE GraphScenarios -----------------------------
(***************************************************************************)
(* Graphs, their executions and nodes with a state of their own, side by   *)
(* side.  A behaviour belongs to one scenario: a graph whose run is        *)
(* executed, with or without letters in the dead letter queue, a multigraph*)
(* that is sorted, a graph whose edges carry data, the database writer in  *)
(* one of its modes, the EDGAR source, or the pages of a PDF.  Variables it*)
(* does not have are NotUsed.                                              *)
(* Executions are instances of GraphExecutionProofs, which adds the        *)
(* theorems about GraphExecution to its definitions.                       *)
(***************************************************************************)
EXTENDS Integers, FiniteSets

CONSTANTS
  ChainNode, ChainEdge,       \* a graph with only sequential levels
  DiamondNode, DiamondEdge,   \* graphs with parallel levels
  ForkNode, ForkEdge,
  BranchNode, BranchEdge,     \* one whose failures leave letters
  Items, MaxRetries,
  SortedNode, MaxEdges,       \* the nodes of the graphs that are sorted
  FlowTypes, FlowNodes, FlowEdges, Absent,   \* the graphs whose edges carry data
  \* the database writer
  WriterRuns, Workers, Keys, Vals, MaxRows, WriterRetries, WriterFaults,
  NumTickers, MaxFilings, MaxHits,      \* the EDGAR source
  \* the pages of PDFs
  PageCount, Concurrency, OcrMode, Tables, Pdfs, PageFaults,
  Scenarios,                  \* the scenarios of this run
  NoNode, NoOne, None, NotUsed

VARIABLES
  scenario,   \* the scenario this behaviour belongs to
  letter, busy, late, spent, unrepaired,
  mult, dangling, inDegree, levels, result,
  type, job, row, ckpt, lease, plan, retrying, level, todo, bad, out, missing,
  types, edges, stage, template, inputs,
  rows, owner, attempts, table, ledger, wrote,
  search, hits, pc, ticker, total, documents, rested, crowded,
  doc, phase, first, task, lock, workers, cached, elements, again,
  status, exec, queue, faults

Chain   == INSTANCE GraphExecutionProofs WITH Node <- ChainNode, Edge <- ChainEdge
Diamond == INSTANCE GraphExecutionProofs WITH Node <- DiamondNode, Edge <- DiamondEdge
Fork    == INSTANCE GraphExecutionProofs WITH Node <- ForkNode, Edge <- ForkEdge
Branch  == INSTANCE DeadLetters WITH Node <- BranchNode, Edge <- BranchEdge
Sorted  == INSTANCE TopologicalSort WITH Node <- SortedNode

Graph == INSTANCE DataFlow WITH
  Types <- FlowTypes, NodeCount <- FlowNodes, MaxEdges <- FlowEdges

Insert == INSTANCE SinkDelivery WITH
  Mode <- "insert", Runs <- WriterRuns, MaxRetries <- WriterRetries, MaxFaults <- WriterFaults
Upsert == INSTANCE SinkDelivery WITH
  Mode <- "upsert", Runs <- WriterRuns, MaxRetries <- WriterRetries, MaxFaults <- WriterFaults
Replace == INSTANCE SinkDelivery WITH
  Mode <- "replace", Runs <- WriterRuns, MaxRetries <- WriterRetries, MaxFaults <- WriterFaults

Edgar == INSTANCE EdgarSource

Pdf == INSTANCE PageExtraction WITH Documents <- Pdfs, MaxFaults <- PageFaults

-------------------------------------------------------------------------------
\* Variables of one module only, and those of several.
executionVars ==
  <<type, job, row, ckpt, lease, plan, retrying, level, todo, bad, out, missing>>
lettersVars == <<letter, busy, late, spent, unrepaired>>
sortVars == <<mult, dangling, inDegree, levels, result>>
flowVars == <<types, edges, stage, template, inputs>>
writerVars == <<rows, owner, attempts, table, ledger, wrote>>
edgarVars == <<search, hits, pc, ticker, total, documents, rested, crowded>>
pagesVars == <<doc, phase, first, task, lock, workers, cached, elements, again>>
commonVars == <<status, exec, queue, faults>>
vars ==
  <<scenario, executionVars, lettersVars, sortVars, flowVars, writerVars, edgarVars,
    pagesVars, commonVars>>

ExecutionOff ==
  /\ type = NotUsed /\ job = NotUsed /\ row = NotUsed /\ ckpt = NotUsed
  /\ lease = NotUsed /\ plan = NotUsed /\ retrying = NotUsed /\ level = NotUsed
  /\ todo = NotUsed /\ bad = NotUsed /\ out = NotUsed /\ missing = NotUsed
LettersOff ==
  /\ letter = NotUsed /\ busy = NotUsed /\ late = NotUsed /\ spent = NotUsed
  /\ unrepaired = NotUsed
SortOff ==
  /\ mult = NotUsed /\ dangling = NotUsed /\ inDegree = NotUsed
  /\ levels = NotUsed /\ result = NotUsed
FlowOff ==
  /\ types = NotUsed /\ edges = NotUsed /\ stage = NotUsed
  /\ template = NotUsed /\ inputs = NotUsed
WriterOff ==
  /\ rows = NotUsed /\ owner = NotUsed /\ attempts = NotUsed /\ table = NotUsed
  /\ ledger = NotUsed /\ wrote = NotUsed
EdgarOff ==
  /\ search = NotUsed /\ hits = NotUsed /\ pc = NotUsed /\ ticker = NotUsed
  /\ total = NotUsed /\ documents = NotUsed /\ rested = NotUsed /\ crowded = NotUsed
PagesOff ==
  /\ doc = NotUsed /\ phase = NotUsed /\ first = NotUsed /\ task = NotUsed
  /\ lock = NotUsed /\ workers = NotUsed /\ cached = NotUsed /\ elements = NotUsed
  /\ again = NotUsed

GraphInit ==
  /\ \/ scenario = "chain" /\ Chain!Init
     \/ scenario = "diamond" /\ Diamond!Init
     \/ scenario = "fork" /\ Fork!Init
  /\ LettersOff /\ SortOff /\ FlowOff /\ WriterOff /\ EdgarOff /\ PagesOff
  /\ queue = NotUsed /\ faults = NotUsed
GraphNext ==
  /\ \/ scenario = "chain" /\ Chain!Next
     \/ scenario = "diamond" /\ Diamond!Next
     \/ scenario = "fork" /\ Fork!Next
  /\ UNCHANGED <<scenario, lettersVars, sortVars, flowVars, writerVars, edgarVars,
                 pagesVars, queue, faults>>

LettersInit ==
  /\ scenario = "letters" /\ Branch!LettersInit
  /\ SortOff /\ FlowOff /\ WriterOff /\ EdgarOff /\ PagesOff
  /\ queue = NotUsed /\ faults = NotUsed
LettersNext ==
  /\ scenario = "letters" /\ Branch!LettersNext
  /\ UNCHANGED <<scenario, sortVars, flowVars, writerVars, edgarVars, pagesVars,
                 queue, faults>>

SortInit ==
  /\ scenario = "sort" /\ Sorted!Init
  /\ ExecutionOff /\ LettersOff /\ FlowOff /\ WriterOff /\ EdgarOff /\ PagesOff
  /\ status = NotUsed /\ exec = NotUsed /\ faults = NotUsed
SortNext ==
  /\ scenario = "sort" /\ Sorted!Next
  /\ UNCHANGED <<scenario, executionVars, lettersVars, flowVars, writerVars,
                 edgarVars, pagesVars, status, exec, faults>>

FlowInit ==
  /\ scenario = "flow" /\ Graph!Init
  /\ ExecutionOff /\ LettersOff /\ SortOff /\ WriterOff /\ EdgarOff /\ PagesOff
  /\ status = NotUsed /\ exec = NotUsed /\ queue = NotUsed /\ faults = NotUsed
FlowNext ==
  /\ scenario = "flow" /\ Graph!Next
  /\ UNCHANGED <<scenario, executionVars, lettersVars, sortVars, writerVars, edgarVars,
                 pagesVars, commonVars>>

WriterInit ==
  /\ \/ scenario = "insert" /\ Insert!Init
     \/ scenario = "upsert" /\ Upsert!Init
     \/ scenario = "replace" /\ Replace!Init
  /\ ExecutionOff /\ LettersOff /\ SortOff /\ FlowOff /\ EdgarOff /\ PagesOff
  /\ queue = NotUsed
WriterNext ==
  /\ \/ scenario = "insert" /\ Insert!Next
     \/ scenario = "upsert" /\ Upsert!Next
     \/ scenario = "replace" /\ Replace!Next
  /\ UNCHANGED <<scenario, executionVars, lettersVars, sortVars, flowVars,
                 edgarVars, pagesVars, queue>>

EdgarInit ==
  /\ scenario = "edgar" /\ Edgar!Init
  /\ ExecutionOff /\ LettersOff /\ SortOff /\ FlowOff /\ WriterOff /\ PagesOff
  /\ status = NotUsed /\ exec = NotUsed /\ faults = NotUsed
EdgarNext ==
  /\ scenario = "edgar" /\ Edgar!Next
  /\ UNCHANGED <<scenario, executionVars, lettersVars, sortVars, flowVars,
                 writerVars, pagesVars, status, exec, faults>>

PagesInit ==
  /\ scenario = "pages" /\ Pdf!Init
  /\ ExecutionOff /\ LettersOff /\ SortOff /\ FlowOff /\ WriterOff /\ EdgarOff
  /\ status = NotUsed /\ exec = NotUsed /\ queue = NotUsed
PagesNext ==
  /\ scenario = "pages" /\ Pdf!Next
  /\ UNCHANGED <<scenario, executionVars, lettersVars, sortVars, flowVars,
                 writerVars, edgarVars, status, exec, queue>>

Init == /\ scenario \in Scenarios
        /\ GraphInit \/ LettersInit \/ SortInit \/ FlowInit \/ WriterInit \/ EdgarInit \/ PagesInit
Next == GraphNext \/ LettersNext \/ SortNext \/ FlowNext \/ WriterNext \/ EdgarNext \/ PagesNext

Spec == Init /\ [][Next]_vars

-------------------------------------------------------------------------------
ASSUME ConstantsAreSound ==
  /\ Chain!GraphAssumption /\ Chain!IsChain
  /\ Diamond!GraphAssumption /\ Fork!GraphAssumption /\ Branch!GraphAssumption
  /\ Branch!LettersAssumption /\ Sorted!SortAssumption
  /\ Insert!SinkAssumption /\ Upsert!SinkAssumption /\ Replace!SinkAssumption
  /\ Graph!FlowAssumption /\ Edgar!EdgarAssumption /\ Pdf!ExtractionAssumption

(* Types of the execution's variables. *)
TypeOK ==
  /\ scenario = "chain" => Chain!TypeOK
  /\ scenario = "diamond" => Diamond!TypeOK
  /\ scenario = "fork" => Fork!TypeOK

(* A run that completes has executed every node, and each on the outputs   *)
(* of all its predecessors: on a chain however often it was retried, on    *)
(* every graph when it was not, whatever pauses, resumes, lost leases and  *)
(* crashes came before.                                                    *)
CompletedRunsAreWhole ==
  /\ scenario = "chain" => Chain!CompletedRunsAreWhole
  /\ scenario = "diamond" => Diamond!FirstRunsAreWhole
  /\ scenario = "fork" => Fork!FirstRunsAreWhole

(* "The worker promotes them only after all graph nodes succeed"           *)
(* (docs/durable-execution.md): the same for two roots, of which the failed*)
(* one is retried.                                                         *)
RetriedRunsAreWhole == scenario = "fork" => Fork!CompletedRunsAreWhole

(* No completed run hides a failed node: a parallel level looks at every   *)
(* result, and a retry runs what failed.                                   *)
NoFailureIsBuried ==
  /\ scenario = "diamond" => Diamond!NoFailureIsBuried
  /\ scenario = "fork" => Fork!NoFailureIsBuried

(* Whatever is done with letters meanwhile, a whole-graph execution that   *)
(* completes a run has produced the output of every node itself.           *)
FullRunsIgnoreLetters == [][scenario = "letters" => Branch!FullRunsIgnoreLetters]_vars

(* Kahn's levels are the ones DagLevels defines, and topological_sort and  *)
(* validate_dag refuse exactly the graphs that have a cycle or an edge     *)
(* that leads nowhere.                                                     *)
SortIsExact ==
  scenario = "sort" => Sorted!LevelsAreExact /\ Sorted!RefusedExactlyWhenInvalid

(* What a node of a saved graph is handed at an input came from an output  *)
(* of the input's type, however the edge named its ports, and a graph made *)
(* from a template runs with data at every required input.                 *)
DataIsOfItsType ==
  scenario = "flow" => Graph!DataIsOfItsType /\ Graph!TemplatesAreRunnable

(* "Can accept multiple connections (fan-in)" (nodes/base.py): the merge   *)
(* node is handed the data of every edge that leads to it.                 *)
FanInIsComplete == scenario = "flow" => Graph!FanInIsComplete

(* A ticker or filing that fails costs only itself: whatever else the node *)
(* may fetch within the quota its ticker had left is in a result, and no   *)
(* more than max_filings documents over all tickers, each once.            *)
FailuresAreContained ==
  scenario = "edgar" => Edgar!FailuresAreContained /\ Edgar!CapHolds

(* However many executions deliver a run's rows: in insert mode each row   *)
(* is inserted at most once, exactly once when the node has completed; in  *)
(* upsert mode executing a run again changes nothing, so an old run that   *)
(* is recovered late does not undo a newer one; in replace mode the target *)
(* always holds the rows of one run, whole.                                *)
DeliveryIsExact ==
  /\ [](/\ scenario = "insert" => Insert!RowsAreInsertedOnce
        /\ scenario = "replace" => Replace!ReplaceIsWhole)
  /\ [][scenario = "upsert" => Upsert!RedeliveryChangesNothing]_vars

(* A component never serves two pages of a document at once, although      *)
(* cancelling a task does not stop its process or thread; when a call has  *)
(* returned or raised, no task of it goes on, and a process, a thread or a *)
(* held lock is left, and with it perhaps a second page at the component   *)
(* in the next call, only by a page that was cancelled again while it was  *)
(* being stopped: none after a call that returns, and never a second page  *)
(* at the table extractor.  A call that returns has the elements of every  *)
(* page once, in page order.                                               *)
PagesAreIsolated ==
  scenario = "pages" => /\ Pdf!OneUserPerComponent
                        /\ Pdf!NothingRunsOn
                        /\ Pdf!PagesInOrder
===============================================================================
