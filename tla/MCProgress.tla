------------------------------ MODULE MCProgress ------------------------------
(***************************************************************************)
(* What must happen in the end, for TLC.  A behaviour belongs to one       *)
(* scenario, in which faults and changes are finitely many and what the code*)
(* does by itself goes on.  Variables it does not have are NotUsed.        *)
(***************************************************************************)
EXTENDS Integers

CONSTANTS
  Scenarios,       \* the scenarios of this run of TLC
  k1, k2,          \* record ids
  Absent, None, NoKey, NL, Torn, NoType, NoPage, NoOne, NoFile, Nobody, NotUsed

VARIABLES
  scenario,   \* the scenario this behaviour belongs to
  file, pos, line, view, log, known,
  table, clock, snap, after, cycle, target, inserted, ledger, dirty,
  api, attempts, npages, delivered, passed, changed,
  files, gone, parser, cache, start, entries, seen, todo, job, buffer,
  channel, newest, deletes, attempt, returns,
  trigger, tx, runs, edits,
  dir, request, sweep,
  list, epoch, socket, cast, told, due,
  password, schema, version, seal, hookSeal, volume, staged, marker, done,
  migrating, importing, deleted, stops,
  doc, phase, first, task, workers, cached, elements, again,
  saved, pc, pending, last, faults, state, emitted, page, next, at, changes,
  message, dest, now, lock

\* A file, a table, an API, a directory and a channel read by runs that are
\* started again and again; three triggers in batches of two, of which one
\* always fails; a request of two files; two watchers and two senders; a host
\* that stops once; two PDFs of three pages.

File == INSTANCE SdkPipeline WITH
  Keys <- {k1, k2}, BatchSize <- 2, Values <- {"v1"}, FileKeys <- {k1},
  Target <- "sqlite", AppendFaults <- {}, MayRotate <- FALSE, MaxChars <- 5,
  MaxFaults <- 2

Table == INSTANCE PostgresConnector WITH
  N <- 3, Values <- {"a"}, Incremental <- TRUE, Upsert <- TRUE, PageSize <- 2,
  MaxRecords <- 3, MaxClock <- 2, MaxCycle <- 1, MaxFaults <- 1

Api == INSTANCE RestSource WITH
  U <- 3, PerPage <- 3, Values <- {"a"}, Types <- {"t", "s"}, Foreign <- {},
  AllowCrossOrigin <- FALSE, MaxPages <- 2, MaxRecords <- 2, MaxRetries <- 1,
  MaxChanges <- 0, MaxCycle <- 2, MaxFaults <- 2

Directory == INSTANCE DocumentSource WITH
  Paths <- {1}, Versions <- {1, 2, 3}, Parsers <- {1}, Draws <- {1},
  Length <- [e \in ({1, 2, 3} \X {1}) \X {1} |-> <<2, 3, 1>>[e[1][1]]],
  Interval <- 1, Strict <- TRUE, Return <- FALSE,
  Stops <- {"reading", "burying", "saving"}, MaxChanges <- 3, MaxFaults <- 2

Channel == INSTANCE DiscordSource WITH
  PageSize <- 2, MaxRetries <- 1, MaxId <- 4, MaxDeletes <- 1, MaxFaults <- 2

Polled == INSTANCE Schedules WITH
  Processes <- {"p1"}, NumTriggers <- 3, Batch <- 2, Skew <- 0, Periods <- {2},
  Poison <- {1}, MaxTime <- 2, MaxEdits <- 2, MaxFaults <- 1

Upload == INSTANCE Uploads WITH
  Requests <- {"r1"}, Files <- {"f1", "f2"},
  RequestOf <- [f1 |-> "r1", f2 |-> "r1"], Size <- [f1 |-> 1, f2 |-> 2],
  MaxFile <- 2, MaxOwner <- 3, MaxRequest <- 2, MaxAge <- 1, MaxTime <- 4

Watched == INSTANCE ExecutionFeed WITH
  Connections <- {"c1", "c2"}, Senders <- {"s1", "s2"}

Started == INSTANCE Deployment WITH
  Rows <- {"r1"}, Files <- {"f1"}, LegacyFiles <- {"f1"}, MaxStops <- 1

Pdf == INSTANCE PageExtraction WITH
  PageCount <- 3, Concurrency <- 2, OcrMode <- "auto", Tables <- FALSE,
  Documents <- 2, MaxFaults <- 2

-------------------------------------------------------------------------------
\* Variables of one module only, and those of several.
pipelineVars == <<file, pos, line, view, log, known>>
postgresVars ==
  <<table, clock, snap, after, cycle, target, inserted, ledger, dirty>>
restVars == <<api, attempts, npages, delivered, passed, changed>>
documentsVars ==
  <<files, gone, parser, cache, start, entries, seen, todo, job, buffer>>
discordVars == <<channel, newest, deletes, attempt, returns>>
schedulesVars == <<trigger, tx, runs, edits>>
uploadsVars == <<dir, request, sweep>>
feedVars == <<list, epoch, socket, cast, told, due>>
deployVars ==
  <<password, schema, version, seal, hookSeal, volume, staged, marker, done,
    migrating, importing, deleted, stops>>
pagesVars == <<doc, phase, first, task, workers, cached, elements, again>>
commonVars ==
  <<saved, pc, pending, last, faults, state, emitted, page, next, at, changes,
    message, dest, now, lock>>
vars ==
  <<scenario, pipelineVars, postgresVars, restVars, documentsVars, discordVars,
    schedulesVars, uploadsVars, feedVars, deployVars, pagesVars, commonVars>>

PipelineOff ==
  /\ file = NotUsed /\ pos = NotUsed /\ line = NotUsed /\ view = NotUsed
  /\ log = NotUsed /\ known = NotUsed
PostgresOff ==
  /\ table = NotUsed /\ clock = NotUsed /\ snap = NotUsed /\ after = NotUsed
  /\ cycle = NotUsed /\ target = NotUsed /\ inserted = NotUsed
  /\ ledger = NotUsed /\ dirty = NotUsed
RestOff ==
  /\ api = NotUsed /\ attempts = NotUsed /\ npages = NotUsed
  /\ delivered = NotUsed /\ passed = NotUsed /\ changed = NotUsed
DocumentsOff ==
  /\ files = NotUsed /\ gone = NotUsed /\ parser = NotUsed /\ cache = NotUsed
  /\ start = NotUsed /\ entries = NotUsed /\ seen = NotUsed /\ todo = NotUsed
  /\ job = NotUsed /\ buffer = NotUsed
DiscordOff ==
  /\ channel = NotUsed /\ newest = NotUsed /\ deletes = NotUsed
  /\ attempt = NotUsed /\ returns = NotUsed
SchedulesOff ==
  /\ trigger = NotUsed /\ tx = NotUsed /\ runs = NotUsed /\ edits = NotUsed
UploadsOff ==
  /\ dir = NotUsed /\ request = NotUsed /\ sweep = NotUsed
FeedOff ==
  /\ list = NotUsed /\ epoch = NotUsed /\ socket = NotUsed /\ cast = NotUsed
  /\ told = NotUsed /\ due = NotUsed
DeployOff ==
  /\ password = NotUsed /\ schema = NotUsed /\ version = NotUsed
  /\ seal = NotUsed /\ hookSeal = NotUsed /\ volume = NotUsed
  /\ staged = NotUsed /\ marker = NotUsed /\ done = NotUsed
  /\ migrating = NotUsed /\ importing = NotUsed /\ deleted = NotUsed
  /\ stops = NotUsed
PagesOff ==
  /\ doc = NotUsed /\ phase = NotUsed /\ first = NotUsed /\ task = NotUsed
  /\ workers = NotUsed /\ cached = NotUsed /\ elements = NotUsed
  /\ again = NotUsed

PipelineInit ==
  /\ scenario = "file" /\ File!Init
  /\ PostgresOff /\ RestOff /\ DocumentsOff /\ DiscordOff /\ SchedulesOff /\
     UploadsOff /\ FeedOff /\ DeployOff /\ PagesOff
  /\ state = NotUsed /\ emitted = NotUsed /\ page = NotUsed /\ next = NotUsed
  /\ at = NotUsed /\ changes = NotUsed /\ message = NotUsed /\ dest = NotUsed
  /\ now = NotUsed /\ lock = NotUsed
PipelineOnly ==
  UNCHANGED <<scenario, postgresVars, restVars, documentsVars, discordVars,
              schedulesVars, uploadsVars, feedVars, deployVars, pagesVars,
              state, emitted, page, next, at, changes, message, dest, now, lock>>
PipelineNext == scenario = "file" /\ File!Next /\ PipelineOnly

PostgresInit ==
  /\ scenario = "table" /\ Table!Init
  /\ PipelineOff /\ RestOff /\ DocumentsOff /\ DiscordOff /\ SchedulesOff /\
     UploadsOff /\ FeedOff /\ DeployOff /\ PagesOff
  /\ saved = NotUsed /\ pending = NotUsed /\ at = NotUsed /\ changes = NotUsed
  /\ message = NotUsed /\ dest = NotUsed /\ now = NotUsed /\ lock = NotUsed
PostgresOnly ==
  UNCHANGED <<scenario, pipelineVars, restVars, documentsVars, discordVars,
              schedulesVars, uploadsVars, feedVars, deployVars, pagesVars,
              saved, pending, at, changes, message, dest, now, lock>>
PostgresNext == scenario = "table" /\ Table!Next /\ PostgresOnly

RestInit ==
  /\ scenario = "api" /\ Api!Init
  /\ PipelineOff /\ PostgresOff /\ DocumentsOff /\ DiscordOff /\ SchedulesOff /\
     UploadsOff /\ FeedOff /\ DeployOff /\ PagesOff
  /\ state = NotUsed /\ message = NotUsed /\ dest = NotUsed /\ now = NotUsed
  /\ lock = NotUsed
RestOnly ==
  UNCHANGED <<scenario, pipelineVars, postgresVars, documentsVars, discordVars,
              schedulesVars, uploadsVars, feedVars, deployVars, pagesVars,
              state, message, dest, now, lock>>
RestNext == scenario = "api" /\ Api!Next /\ RestOnly

DocumentsInit ==
  /\ scenario = "directory" /\ Directory!Init
  /\ PipelineOff /\ PostgresOff /\ RestOff /\ DiscordOff /\ SchedulesOff /\
     UploadsOff /\ FeedOff /\ DeployOff /\ PagesOff
  /\ last = NotUsed /\ state = NotUsed /\ page = NotUsed /\ next = NotUsed
  /\ at = NotUsed /\ now = NotUsed /\ lock = NotUsed
DocumentsOnly ==
  UNCHANGED <<scenario, pipelineVars, postgresVars, restVars, discordVars,
              schedulesVars, uploadsVars, feedVars, deployVars, pagesVars, last,
              state, page, next, at, now, lock>>
DocumentsNext == scenario = "directory" /\ Directory!Next /\ DocumentsOnly

DiscordInit ==
  /\ scenario = "channel" /\ Channel!Init
  /\ PipelineOff /\ PostgresOff /\ RestOff /\ DocumentsOff /\ SchedulesOff /\
     UploadsOff /\ FeedOff /\ DeployOff /\ PagesOff
  /\ saved = NotUsed /\ pending = NotUsed /\ last = NotUsed
  /\ emitted = NotUsed /\ next = NotUsed /\ changes = NotUsed /\ now = NotUsed
  /\ lock = NotUsed
DiscordOnly ==
  UNCHANGED <<scenario, pipelineVars, postgresVars, restVars, documentsVars,
              schedulesVars, uploadsVars, feedVars, deployVars, pagesVars,
              saved, pending, last, emitted, next, changes, now, lock>>
DiscordNext == scenario = "channel" /\ Channel!Next /\ DiscordOnly

SchedulesInit ==
  /\ scenario = "schedules" /\ Polled!Init
  /\ PipelineOff /\ PostgresOff /\ RestOff /\ DocumentsOff /\ DiscordOff /\
     UploadsOff /\ FeedOff /\ DeployOff /\ PagesOff
  /\ saved = NotUsed /\ pc = NotUsed /\ pending = NotUsed /\ last = NotUsed
  /\ state = NotUsed /\ emitted = NotUsed /\ page = NotUsed /\ next = NotUsed
  /\ at = NotUsed /\ changes = NotUsed /\ message = NotUsed /\ dest = NotUsed
  /\ lock = NotUsed
SchedulesOnly ==
  UNCHANGED <<scenario, pipelineVars, postgresVars, restVars, documentsVars,
              discordVars, uploadsVars, feedVars, deployVars, pagesVars, saved,
              pc, pending, last, state, emitted, page, next, at, changes,
              message, dest, lock>>
SchedulesNext == scenario = "schedules" /\ Polled!Next /\ SchedulesOnly

UploadsInit ==
  /\ scenario = "uploads" /\ Upload!Init
  /\ PipelineOff /\ PostgresOff /\ RestOff /\ DocumentsOff /\ DiscordOff /\
     SchedulesOff /\ FeedOff /\ DeployOff /\ PagesOff
  /\ saved = NotUsed /\ pc = NotUsed /\ pending = NotUsed /\ last = NotUsed
  /\ faults = NotUsed /\ state = NotUsed /\ emitted = NotUsed /\ page = NotUsed
  /\ next = NotUsed /\ at = NotUsed /\ changes = NotUsed /\ message = NotUsed
  /\ dest = NotUsed
UploadsOnly ==
  UNCHANGED <<scenario, pipelineVars, postgresVars, restVars, documentsVars,
              discordVars, schedulesVars, feedVars, deployVars, pagesVars,
              saved, pc, pending, last, faults, state, emitted, page, next, at,
              changes, message, dest>>
UploadsNext == scenario = "uploads" /\ Upload!Next /\ UploadsOnly

FeedInit ==
  /\ scenario = "feed" /\ Watched!Init
  /\ PipelineOff /\ PostgresOff /\ RestOff /\ DocumentsOff /\ DiscordOff /\
     SchedulesOff /\ UploadsOff /\ DeployOff /\ PagesOff
  /\ saved = NotUsed /\ pc = NotUsed /\ pending = NotUsed /\ last = NotUsed
  /\ faults = NotUsed /\ state = NotUsed /\ emitted = NotUsed /\ page = NotUsed
  /\ next = NotUsed /\ at = NotUsed /\ changes = NotUsed /\ message = NotUsed
  /\ dest = NotUsed /\ now = NotUsed /\ lock = NotUsed
FeedOnly ==
  UNCHANGED <<scenario, pipelineVars, postgresVars, restVars, documentsVars,
              discordVars, schedulesVars, uploadsVars, deployVars, pagesVars,
              saved, pc, pending, last, faults, state, emitted, page, next, at,
              changes, message, dest, now, lock>>
FeedNext == scenario = "feed" /\ Watched!Next /\ FeedOnly

DeployInit ==
  /\ scenario = "deploy" /\ Started!Init
  /\ PipelineOff /\ PostgresOff /\ RestOff /\ DocumentsOff /\ DiscordOff /\
     SchedulesOff /\ UploadsOff /\ FeedOff /\ PagesOff
  /\ saved = NotUsed /\ pc = NotUsed /\ pending = NotUsed /\ last = NotUsed
  /\ faults = NotUsed /\ state = NotUsed /\ emitted = NotUsed /\ page = NotUsed
  /\ next = NotUsed /\ at = NotUsed /\ changes = NotUsed /\ message = NotUsed
  /\ dest = NotUsed /\ now = NotUsed /\ lock = NotUsed
DeployOnly ==
  UNCHANGED <<scenario, pipelineVars, postgresVars, restVars, documentsVars,
              discordVars, schedulesVars, uploadsVars, feedVars, pagesVars,
              saved, pc, pending, last, faults, state, emitted, page, next, at,
              changes, message, dest, now, lock>>
DeployNext == scenario = "deploy" /\ Started!Next /\ DeployOnly

PagesInit ==
  /\ scenario = "pages" /\ Pdf!Init
  /\ PipelineOff /\ PostgresOff /\ RestOff /\ DocumentsOff /\ DiscordOff /\
     SchedulesOff /\ UploadsOff /\ FeedOff /\ DeployOff
  /\ saved = NotUsed /\ pc = NotUsed /\ pending = NotUsed /\ last = NotUsed
  /\ state = NotUsed /\ emitted = NotUsed /\ page = NotUsed /\ next = NotUsed
  /\ at = NotUsed /\ changes = NotUsed /\ message = NotUsed /\ dest = NotUsed
  /\ now = NotUsed
PagesOnly ==
  UNCHANGED <<scenario, pipelineVars, postgresVars, restVars, documentsVars,
              discordVars, schedulesVars, uploadsVars, feedVars, deployVars,
              saved, pc, pending, last, state, emitted, page, next, at, changes,
              message, dest, now>>
PagesNext == scenario = "pages" /\ Pdf!Next /\ PagesOnly

Init == /\ scenario \in Scenarios
        /\ PipelineInit \/ PostgresInit \/ RestInit \/ DocumentsInit \/
           DiscordInit \/ SchedulesInit \/ UploadsInit \/ FeedInit \/
           DeployInit \/ PagesInit
Next == PipelineNext \/ PostgresNext \/ RestNext \/ DocumentsNext \/
        DiscordNext \/ SchedulesNext \/ UploadsNext \/ FeedNext \/ DeployNext \/
        PagesNext

ASSUME ConstantsAreSound ==
  /\ File!PipelineAssumption /\ Table!ConnectorAssumption /\ Api!RestAssumption
  /\ Directory!DocumentAssumption /\ Channel!DiscordAssumption
  /\ Polled!SchedulesAssumption /\ Upload!UploadsAssumption
  /\ Started!DeploymentAssumption /\ Pdf!ExtractionAssumption

\* What the code does by itself: runs are started again and go on, processes
\* poll, owners list their files, containers are started again, tasks run.
Works ==
  \/ scenario = "file" /\ File!Run /\ PipelineOnly
  \/ scenario = "table" /\ Table!Run /\ PostgresOnly
  \/ scenario = "api" /\ Api!Run /\ RestOnly
  \/ scenario = "directory" /\ Directory!Run /\ DocumentsOnly
  \/ scenario = "channel" /\ Channel!Read /\ DiscordOnly
  \/ scenario = "schedules" /\ Polled!Loop("p1") /\ SchedulesOnly
  \/ scenario = "uploads" /\ Upload!List /\ UploadsOnly
  \/ scenario = "deploy" /\ Started!Container /\ DeployOnly
  \/ scenario = "pages" /\ Pdf!Work /\ PagesOnly
\* Writers of the input finish the object they began.
Completes == scenario = "file" /\ File!CompleteObject /\ PipelineOnly
Ticks ==
  \/ scenario = "schedules" /\ Polled!Tick /\ SchedulesOnly
  \/ scenario = "uploads" /\ Upload!Tick /\ UploadsOnly
Sweeps == scenario = "uploads" /\ Upload!Sweep /\ UploadsOnly
\* A poll by a clock that is not behind the time.
TimelyPoll ==
  scenario = "schedules" /\ Polled!Poll("p1") /\ tx'["p1"].at >= now /\ SchedulesOnly
Broadcasts(s) ==
  /\ scenario = "feed" /\ FeedOnly
  /\ Watched!Send(s) \/ Watched!Sent(s) \/ Watched!End(s)

Fairness ==
  /\ WF_vars(Works) /\ WF_vars(Completes) /\ WF_vars(Ticks) /\ WF_vars(Sweeps)
  /\ SF_vars(TimelyPoll)
  /\ \A s \in {"s1", "s2"} : WF_vars(Broadcasts(s))
Spec == Init /\ [][Next]_vars /\ Fairness

-------------------------------------------------------------------------------
(* Every source catches up.  Once the input and the faults stop, the       *)
(* collection shows the whole file and incremental runs have brought every *)
(* row to the target; with a stable API the full-refresh cycle ends,       *)
(* however small the per-run bounds are; the checkpoint of a directory     *)
(* that stays as it is comes to describe it, so none makes every later run *)
(* fail; every message that stays in the channel is delivered.             *)
SourcesCatchUp ==
  /\ <>[](scenario = "file" => File!EverythingIsShown)
  /\ <>[](scenario = "table" => Table!RowsHaveArrived)
  /\ <>(scenario = "api" => Api!CycleHasEnded)
  /\ <>[](scenario = "directory" => Directory!Synchronised)
  /\ <>[](scenario = "channel" => \A m \in channel : Channel!Settled(m))

(* A schedule that is due is dispatched, or changed by its owner, although *)
(* another trigger of its batch fails every time.                          *)
EveryScheduleFires ==
  \A t \in 2..3, n \in 0..2 :
    (scenario = "schedules" /\ Polled!DueSince(t, n))
      ~> (scenario = "schedules" => ~Polled!DueSince(t, n))

(* What was begun ends: a staging directory whose process died is removed, *)
(* a broadcast is not kept going by connections that come and go, no page  *)
(* waits for ever for a component that another holds, also when pages time *)
(* out or are cancelled, and unless a credential or a name is in the way   *)
(* the API is serving, however often the host stopped on the way.          *)
WorkEnds ==
  /\ \A f \in {"f1", "f2"} :
       (scenario = "uploads" /\ Upload!Staged(f))
         ~> (scenario = "uploads" => dir[f].at # "staging")
  /\ <>[](scenario = "feed" => \A s \in {"s1", "s2"} : ~Watched!Broadcasting(s))
  /\ (scenario = "pages" /\ Pdf!CallUnderWay) ~> (scenario = "pages" => Pdf!CallEnded)
  /\ (scenario = "deploy" => Started!Blocked) \/ <>[](scenario = "deploy" => Started!Serving)
===============================================================================
