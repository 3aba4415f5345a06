-------------------------- MODULE ConnectorScenarios --------------------------
(***************************************************************************)
(* Pipelines of the embedded SDK side by side.  A behaviour belongs to one *)
(* scenario: one source with one destination.  Variables it does not have  *)
(* are NotUsed.                                                            *)
(*                                                                         *)
(* A growing file into a collection, and into a change log that is rotated *)
(* or written to by crashing runs; a table read incrementally, in          *)
(* upserting cycles, and in inserting ones; an API that changes; two files *)
(* that come and go, two parser configurations, extractions that are not   *)
(* deterministic; a channel.                                               *)
(***************************************************************************)
EXTENDS Integers

CONSTANTS
  \* a growing file into a collection and into a change log
  RecordIds, LineBatch,
  ViewValues, ViewChars, ViewFaults,
  LogValues, LogChars, LogFaults,
  \* a table read incrementally, in upserting cycles, and in inserting ones
  RowValues,
  IncrRows, IncrPage, IncrRecords, IncrCommits, IncrCycles, IncrFaults,
  CycleRows, CyclePage, CycleRecords, CycleCommits, CycleCycles, CycleFaults,
  InsertRows, InsertPage, InsertRecords, InsertCommits, InsertCycles, InsertFaults,
  \* an API
  Requests, PerPage, ApiValues, Types, Foreign, AllowCrossOrigin, MaxPages,
  ApiRecords, ApiRetries, ApiChanges, ApiCycles, ApiFaults,
  \* documents: files that come and go, parser configurations, draws
  Paths,
  FilesVersions, FilesParsers, FilesDraws, FilesLength, FilesInterval,
  FilesChanges, FilesFaults,
  ParsersVersions, ParsersParsers, ParsersDraws, ParsersLength, ParsersInterval,
  ParsersChanges, ParsersFaults,
  DrawsVersions, DrawsParsers, DrawsDraws, DrawsLength, DrawsInterval,
  DrawsChanges, DrawsFaults,
  \* a channel
  ChannelPage, ChannelRetries, ChannelIds, ChannelDeletes, ChannelFaults,
  Scenarios,       \* the scenarios of this run
  Absent, None, NoKey, NL, Torn, NoType, NoPage, NotUsed

VARIABLES
  scenario,   \* the scenario this behaviour belongs to
  file, pos, line, view, log, known,
  table, clock, snap, after, cycle, target, inserted, ledger, dirty,
  api, attempts, npages, delivered, passed, changed,
  files, gone, parser, cache, start, entries, seen, todo, job, buffer,
  channel, newest, deletes, attempt, returns,
  saved, pc, pending, last, faults, state, emitted, page, next, at, changes,
  message, dest

View == INSTANCE SdkPipeline WITH
  Keys <- RecordIds, BatchSize <- LineBatch, Values <- ViewValues, FileKeys <- RecordIds,
  Target <- "sqlite", AppendFaults <- {}, MayRotate <- FALSE,
  MaxChars <- ViewChars, MaxFaults <- ViewFaults

Log == INSTANCE SdkPipeline WITH
  Keys <- RecordIds, BatchSize <- LineBatch, Values <- LogValues, FileKeys <- RecordIds,
  Target <- "jsonl", AppendFaults <- {}, MayRotate <- TRUE,
  MaxChars <- LogChars, MaxFaults <- LogFaults

CrashLog == INSTANCE SdkPipeline WITH
  Keys <- RecordIds, BatchSize <- LineBatch, Values <- LogValues, FileKeys <- RecordIds,
  Target <- "jsonl", AppendFaults <- {"crash"}, MayRotate <- FALSE,
  MaxChars <- LogChars, MaxFaults <- LogFaults

Incr == INSTANCE PostgresConnector WITH
  N <- IncrRows, Values <- RowValues, Incremental <- TRUE, Upsert <- TRUE,
  PageSize <- IncrPage, MaxRecords <- IncrRecords, MaxClock <- IncrCommits,
  MaxCycle <- IncrCycles, MaxFaults <- IncrFaults

Cycles == INSTANCE PostgresConnector WITH
  N <- CycleRows, Values <- RowValues, Incremental <- FALSE, Upsert <- TRUE,
  PageSize <- CyclePage, MaxRecords <- CycleRecords, MaxClock <- CycleCommits,
  MaxCycle <- CycleCycles, MaxFaults <- CycleFaults

Insert == INSTANCE PostgresConnector WITH
  N <- InsertRows, Values <- RowValues, Incremental <- FALSE, Upsert <- FALSE,
  PageSize <- InsertPage, MaxRecords <- InsertRecords,
  MaxClock <- InsertCommits, MaxCycle <- InsertCycles, MaxFaults <- InsertFaults

Api == INSTANCE RestSource WITH
  U <- Requests, Values <- ApiValues, MaxRecords <- ApiRecords,
  MaxRetries <- ApiRetries, MaxChanges <- ApiChanges, MaxCycle <- ApiCycles,
  MaxFaults <- ApiFaults

TwoFiles == INSTANCE DocumentSource WITH
  Versions <- FilesVersions, Parsers <- FilesParsers, Draws <- FilesDraws,
  Length <- FilesLength, Interval <- FilesInterval, Strict <- FALSE,
  Return <- TRUE, Stops <- {"reading"}, MaxChanges <- FilesChanges,
  MaxFaults <- FilesFaults

TwoParsers == INSTANCE DocumentSource WITH
  Versions <- ParsersVersions, Parsers <- ParsersParsers, Draws <- ParsersDraws,
  Length <- ParsersLength, Interval <- ParsersInterval, Strict <- TRUE,
  Return <- FALSE, Stops <- {"reading", "burying", "saving"},
  MaxChanges <- ParsersChanges, MaxFaults <- ParsersFaults

TwoDraws == INSTANCE DocumentSource WITH
  Versions <- DrawsVersions, Parsers <- DrawsParsers, Draws <- DrawsDraws,
  Length <- DrawsLength, Interval <- DrawsInterval, Strict <- FALSE,
  Return <- FALSE, Stops <- {"reading", "burying", "saving"},
  MaxChanges <- DrawsChanges, MaxFaults <- DrawsFaults

Discord == INSTANCE DiscordSource WITH
  PageSize <- ChannelPage, MaxRetries <- ChannelRetries, MaxId <- ChannelIds,
  MaxDeletes <- ChannelDeletes, MaxFaults <- ChannelFaults

-------------------------------------------------------------------------------
\* Variables of one module only, and those of several.
pipelineVars == <<file, pos, line, view, log, known>>
postgresVars ==
  <<table, clock, snap, after, cycle, target, inserted, ledger, dirty>>
restVars == <<api, attempts, npages, delivered, passed, changed>>
documentsVars ==
  <<files, gone, parser, cache, start, entries, seen, todo, job, buffer>>
discordVars == <<channel, newest, deletes, attempt, returns>>
commonVars ==
  <<saved, pc, pending, last, faults, state, emitted, page, next, at, changes,
    message, dest>>
vars == <<scenario, pipelineVars, postgresVars, restVars, documentsVars, discordVars, commonVars>>

PipelineOff ==
  /\ file = NotUsed /\ pos = NotUsed /\ line = NotUsed /\ view = NotUsed
  /\ log = NotUsed /\ known = NotUsed
PostgresOff ==
  /\ table = NotUsed /\ clock = NotUsed /\ snap = NotUsed /\ after = NotUsed
  /\ cycle = NotUsed /\ target = NotUsed /\ inserted = NotUsed
  /\ ledger = NotUsed /\ dirty = NotUsed
RestOff ==
  /\ api = NotUsed /\ attempts = NotUsed /\ npages = NotUsed
  /\ delivered = NotUsed /\ passed = NotUsed /\ changed = NotUsed
DocumentsOff ==
  /\ files = NotUsed /\ gone = NotUsed /\ parser = NotUsed /\ cache = NotUsed
  /\ start = NotUsed /\ entries = NotUsed /\ seen = NotUsed /\ todo = NotUsed
  /\ job = NotUsed /\ buffer = NotUsed
DiscordOff ==
  /\ channel = NotUsed /\ newest = NotUsed /\ deletes = NotUsed
  /\ attempt = NotUsed /\ returns = NotUsed

PipelineInit ==
  /\ \/ scenario = "view" /\ View!Init
     \/ scenario = "log" /\ Log!Init
     \/ scenario = "append" /\ CrashLog!Init
  /\ PostgresOff /\ RestOff /\ DocumentsOff /\ DiscordOff
  /\ state = NotUsed /\ emitted = NotUsed /\ page = NotUsed /\ next = NotUsed
  /\ at = NotUsed /\ changes = NotUsed /\ message = NotUsed /\ dest = NotUsed
PipelineNext ==
  /\ \/ scenario = "view" /\ View!Next
     \/ scenario = "log" /\ Log!Next
     \/ scenario = "append" /\ CrashLog!Next
  /\ UNCHANGED <<scenario, postgresVars, restVars, documentsVars, discordVars,
                 state, emitted, page, next, at, changes, message, dest>>

PostgresInit ==
  /\ \/ scenario = "incremental" /\ Incr!Init
     \/ scenario = "cycles" /\ Cycles!Init
     \/ scenario = "insert" /\ Insert!Init
  /\ PipelineOff /\ RestOff /\ DocumentsOff /\ DiscordOff
  /\ saved = NotUsed /\ pending = NotUsed /\ at = NotUsed /\ changes = NotUsed
  /\ message = NotUsed /\ dest = NotUsed
PostgresNext ==
  /\ \/ scenario = "incremental" /\ Incr!Next
     \/ scenario = "cycles" /\ Cycles!Next
     \/ scenario = "insert" /\ Insert!Next
  /\ UNCHANGED <<scenario, pipelineVars, restVars, documentsVars, discordVars,
                 saved, pending, at, changes, message, dest>>

RestInit ==
  /\ scenario = "rest" /\ Api!Init
  /\ PipelineOff /\ PostgresOff /\ DocumentsOff /\ DiscordOff
  /\ state = NotUsed /\ message = NotUsed /\ dest = NotUsed
RestNext ==
  /\ scenario = "rest" /\ Api!Next
  /\ UNCHANGED <<scenario, pipelineVars, postgresVars, documentsVars,
                 discordVars, state, message, dest>>

DocumentsInit ==
  /\ \/ scenario = "two_files" /\ TwoFiles!Init
     \/ scenario = "parsers" /\ TwoParsers!Init
     \/ scenario = "draws" /\ TwoDraws!Init
  /\ PipelineOff /\ PostgresOff /\ RestOff /\ DiscordOff
  /\ last = NotUsed /\ state = NotUsed /\ page = NotUsed /\ next = NotUsed
  /\ at = NotUsed
DocumentsNext ==
  /\ \/ scenario = "two_files" /\ TwoFiles!Next
     \/ scenario = "parsers" /\ TwoParsers!Next
     \/ scenario = "draws" /\ TwoDraws!Next
  /\ UNCHANGED <<scenario, pipelineVars, postgresVars, restVars, discordVars,
                 last, state, page, next, at>>

DiscordInit ==
  /\ scenario = "discord" /\ Discord!Init
  /\ PipelineOff /\ PostgresOff /\ RestOff /\ DocumentsOff
  /\ saved = NotUsed /\ pending = NotUsed /\ last = NotUsed
  /\ emitted = NotUsed /\ next = NotUsed /\ changes = NotUsed
DiscordNext ==
  /\ scenario = "discord" /\ Discord!Next
  /\ UNCHANGED <<scenario, pipelineVars, postgresVars, restVars, documentsVars,
                 saved, pending, last, emitted, next, changes>>

Init == /\ scenario \in Scenarios
        /\ PipelineInit \/ PostgresInit \/ RestInit \/ DocumentsInit \/
           DiscordInit
Next == PipelineNext \/ PostgresNext \/ RestNext \/ DocumentsNext \/ DiscordNext

Spec == Init /\ [][Next]_vars

-------------------------------------------------------------------------------
ASSUME ConstantsAreSound ==
  /\ View!PipelineAssumption /\ Log!PipelineAssumption /\ CrashLog!PipelineAssumption
  /\ Incr!ConnectorAssumption /\ Cycles!ConnectorAssumption /\ Insert!ConnectorAssumption
  /\ Api!RestAssumption /\ Discord!DiscordAssumption
  /\ TwoFiles!DocumentAssumption /\ TwoParsers!DocumentAssumption /\ TwoDraws!DocumentAssumption

Promise == INSTANCE PrefixView WITH
  Keys <- RecordIds, Values <- ViewValues,
  input <- IF scenario = "view" THEN View!Changes(file) ELSE <<>>,
  view <- IF scenario = "view" THEN View!Shown ELSE [k \in RecordIds |-> Absent]

(* The collection a reader queries is at every moment the input up to some *)
(* line applied in order, and that line never moves back, although batches *)
(* are redelivered after crashes and the input grows meanwhile.            *)
ImplementsPrefixView == Promise!Spec

(* The checkpoint never runs ahead of the destination (write, flush, save):*)
(* what lies before a file's saved offset is in the collection or the      *)
(* change log, a row at or before the saved (cursor, key) position is in   *)
(* the target with its value, a document counted as done is there with all *)
(* elements of one extraction, and a message up to the watermark, or       *)
(* passed by an unfinished walk of the channel newest first, was delivered.*)
CheckpointedIsDelivered ==
  /\ scenario = "view" => View!CheckpointedIsShown
  /\ scenario = "log" => Log!CheckpointedIsLogged
  /\ scenario = "incremental" => Incr!CheckpointedRowsAreApplied
  /\ scenario = "parsers" => TwoParsers!CommittedIsDelivered
  /\ scenario = "draws" => TwoDraws!CommittedIsDelivered
  /\ scenario = "discord" => Discord!WatermarkIsComplete /\ Discord!WalkIsComplete

(* Redelivery after a crash adds nothing: a version is in the change log   *)
(* once, an event of a cycle is inserted once, and within one cycle no     *)
(* request is completed twice, over any number of runs.                    *)
NothingIsDeliveredTwice ==
  /\ scenario = "append" => CrashLog!LogIsIdempotent
  /\ scenario = "insert" => Insert!NoEventIsInsertedTwice
  /\ scenario = "rest" => Api!NoPageTwiceInCycle

(* A full-refresh cycle that ends has applied every row that did not       *)
(* change since it began, also one that returned to an earlier value; over *)
(* an API that did not change it has stored every record of every page;    *)
(* and a checkpoint that moves past a page leaves none of its records, the *)
(* ones skipped on a mid-page resume included.                             *)
CyclesAreComplete ==
  [][/\ scenario = "cycles" => Cycles!EndedCycleIsComplete
     /\ scenario = "rest" => Api!CycleIsComplete /\ Api!PassedPageIsDelivered]_vars

(* A checkpoint is only ever replaced by one of a longer prefix that       *)
(* begins with it: a rotated file is never taken for the old one.          *)
CheckpointsOnlyExtend == [][scenario = "log" => Log!CheckpointOnlyExtends]_vars

(* Every checkpoint a run leaves passes _validate_state of the next run.   *)
CheckpointIsValid == scenario = "two_files" => TwoFiles!CheckpointIsValid

(* When a run has ended well and the checkpoint is up to date, the         *)
(* destination holds no element of a file that has gone or shrunk.         *)
NoStaleElements == scenario = "two_files" => TwoFiles!NoStaleElements

(* "emit tombstones when a document shrinks or a configured file or        *)
(* directory child disappears" (sdk/README.md): the same when a run dies   *)
(* while it buries elements or between a write and its checkpoint.         *)
NoStaleElementsAfterCrash == scenario = "parsers" => TwoParsers!NoStaleElements
===============================================================================
