---------------------------- MODULE ServiceScenarios ----------------------------
(***************************************************************************)
(* The services around the runs side by side.  A behaviour belongs to one  *)
(* scenario: triggers, webhooks, uploads, query artifacts, the execution   *)
(* feed, a start of the Studio, connections or graph versions.  Variables it*)
(* does not have are NotUsed.  Instances of a module of proofs add the     *)
(* theorems about a component to its definitions.                          *)
(***************************************************************************)
EXTENDS Integers

CONSTANTS
  \* triggers
  Processes, NumTriggers, Batch, PollSkew, Periods, Poison, PollTime, PollEdits,
  PollFaults,
  \* webhooks, with many requests and with copies of a delivery
  Window, Stall, HookEdits,
  RatedDeliveries, RatedRequests, RatedSkew, RatedRetention, RatedDrift,
  RatedLimits, RatedTime,
  CopiedDeliveries, CopiedRequests, CopiedSkew, CopiedRetention, CopiedDrift,
  CopiedLimits, CopiedTime,
  \* uploads
  Uploaders, UploadFiles, RequestOf, Size, MaxFile, MaxOwner, MaxRequest, MaxAge,
  UploadTime,
  \* query artifacts
  Queries, Pruners, Items, TTL, Slow, MaxExecutions, ArtifactTime,
  \* execution feed
  Sockets, Senders,
  \* a start of the Studio
  Rows, LegacyFiles, VolumeFiles, MaxStops,
  \* connections, with requests that overlap and that do not
  Owner, Admin, Stranger,
  EditRequests, EditType, EditConfigs,
  TestRequests, TestType, TestConfigs,
  \* graph versions
  Savers, Starters, Deleters, ManagedFiles, MaxVersions, MaxRuns,
  Scenarios,       \* the scenarios of this run
  NoOne, NoFile, Nobody, NotUsed

VARIABLES
  scenario,   \* the scenario this behaviour belongs to
  tx, faults,
  sent, ledger, highest,
  dir, sweep,
  file, disk, node, executions, promise, pruner, query,
  list, epoch, socket, cast, told, due,
  password, schema, seal, hookSeal, volume, staged, marker, done, migrating,
  importing, deleted, stops,
  row, issued, saved, passed,
  graph, save, start, pin, stored, deletion,
  now, trigger, runs, edits, request, lock, version

Polled == INSTANCE Schedules WITH
  Skew <- PollSkew, MaxTime <- PollTime, MaxEdits <- PollEdits,
  MaxFaults <- PollFaults

Rated == INSTANCE WebhooksProofs WITH
  Deliveries <- RatedDeliveries, Requests <- RatedRequests, Skew <- RatedSkew,
  Retention <- RatedRetention, Drift <- RatedDrift, Limits <- RatedLimits,
  MaxTime <- RatedTime, MaxEdits <- HookEdits

Replayed == INSTANCE WebhooksProofs WITH
  Deliveries <- CopiedDeliveries, Requests <- CopiedRequests, Skew <- CopiedSkew,
  Retention <- CopiedRetention, Drift <- CopiedDrift, Limits <- CopiedLimits,
  MaxTime <- CopiedTime, MaxEdits <- HookEdits

Stocked == INSTANCE Uploads WITH
  Requests <- Uploaders, Files <- UploadFiles, MaxTime <- UploadTime

Stored == INSTANCE QueryArtifacts WITH MaxTime <- ArtifactTime

Watched == INSTANCE ExecutionFeed WITH Connections <- Sockets

Started == INSTANCE Deployment WITH Files <- VolumeFiles

Edited == INSTANCE Connections WITH
  Requests <- EditRequests, Type <- EditType, Overlapping <- TRUE,
  MaxConfigs <- EditConfigs

Tested == INSTANCE Connections WITH
  Requests <- TestRequests, Type <- TestType, Overlapping <- FALSE,
  MaxConfigs <- TestConfigs

Saved == INSTANCE GraphVersions WITH Files <- ManagedFiles

-------------------------------------------------------------------------------
\* Variables of one module only, and those of several.
schedulesVars == <<tx, faults>>
webhooksVars == <<sent, ledger, highest>>
uploadsVars == <<dir, sweep>>
artifactsVars == <<file, disk, node, executions, promise, pruner, query>>
feedVars == <<list, epoch, socket, cast, told, due>>
deployVars ==
  <<password, schema, seal, hookSeal, volume, staged, marker, done, migrating,
    importing, deleted, stops>>
connectionsVars == <<row, issued, saved, passed>>
versionsVars == <<graph, save, start, pin, stored, deletion>>
commonVars == <<now, trigger, runs, edits, request, lock, version>>
vars ==
  <<scenario, schedulesVars, webhooksVars, uploadsVars, artifactsVars, feedVars,
    deployVars, connectionsVars, versionsVars, commonVars>>

SchedulesOff ==
  /\ tx = NotUsed /\ faults = NotUsed
WebhooksOff ==
  /\ sent = NotUsed /\ ledger = NotUsed /\ highest = NotUsed
UploadsOff ==
  /\ dir = NotUsed /\ sweep = NotUsed
ArtifactsOff ==
  /\ file = NotUsed /\ disk = NotUsed /\ node = NotUsed /\ executions = NotUsed
  /\ promise = NotUsed /\ pruner = NotUsed /\ query = NotUsed
FeedOff ==
  /\ list = NotUsed /\ epoch = NotUsed /\ socket = NotUsed /\ cast = NotUsed
  /\ told = NotUsed /\ due = NotUsed
DeployOff ==
  /\ password = NotUsed /\ schema = NotUsed /\ seal = NotUsed
  /\ hookSeal = NotUsed /\ volume = NotUsed /\ staged = NotUsed
  /\ marker = NotUsed /\ done = NotUsed /\ migrating = NotUsed
  /\ importing = NotUsed /\ deleted = NotUsed /\ stops = NotUsed
ConnectionsOff ==
  /\ row = NotUsed /\ issued = NotUsed /\ saved = NotUsed /\ passed = NotUsed
VersionsOff ==
  /\ graph = NotUsed /\ save = NotUsed /\ start = NotUsed /\ pin = NotUsed
  /\ stored = NotUsed /\ deletion = NotUsed

SchedulesInit ==
  /\ scenario = "schedules" /\ Polled!Init
  /\ WebhooksOff /\ UploadsOff /\ ArtifactsOff /\ FeedOff /\ DeployOff /\
     ConnectionsOff /\ VersionsOff
  /\ request = NotUsed /\ lock = NotUsed /\ version = NotUsed
SchedulesNext ==
  /\ scenario = "schedules" /\ Polled!Next
  /\ UNCHANGED <<scenario, webhooksVars, uploadsVars, artifactsVars, feedVars,
                 deployVars, connectionsVars, versionsVars, request, lock,
                 version>>

WebhooksInit ==
  /\ \/ scenario = "webhooks" /\ Rated!Init
     \/ scenario = "replay" /\ Replayed!Init
  /\ SchedulesOff /\ UploadsOff /\ ArtifactsOff /\ FeedOff /\ DeployOff /\
     ConnectionsOff /\ VersionsOff
  /\ lock = NotUsed /\ version = NotUsed
WebhooksNext ==
  /\ \/ scenario = "webhooks" /\ Rated!Next
     \/ scenario = "replay" /\ Replayed!Next
  /\ UNCHANGED <<scenario, schedulesVars, uploadsVars, artifactsVars, feedVars,
                 deployVars, connectionsVars, versionsVars, lock, version>>

UploadsInit ==
  /\ scenario = "uploads" /\ Stocked!Init
  /\ SchedulesOff /\ WebhooksOff /\ ArtifactsOff /\ FeedOff /\ DeployOff /\
     ConnectionsOff /\ VersionsOff
  /\ trigger = NotUsed /\ runs = NotUsed /\ edits = NotUsed
  /\ version = NotUsed
UploadsNext ==
  /\ scenario = "uploads" /\ Stocked!Next
  /\ UNCHANGED <<scenario, schedulesVars, webhooksVars, artifactsVars, feedVars,
                 deployVars, connectionsVars, versionsVars, trigger, runs,
                 edits, version>>

ArtifactsInit ==
  /\ scenario = "artifacts" /\ Stored!Init
  /\ SchedulesOff /\ WebhooksOff /\ UploadsOff /\ FeedOff /\ DeployOff /\
     ConnectionsOff /\ VersionsOff
  /\ trigger = NotUsed /\ runs = NotUsed /\ edits = NotUsed
  /\ request = NotUsed /\ lock = NotUsed /\ version = NotUsed
ArtifactsNext ==
  /\ scenario = "artifacts" /\ Stored!Next
  /\ UNCHANGED <<scenario, schedulesVars, webhooksVars, uploadsVars, feedVars,
                 deployVars, connectionsVars, versionsVars, trigger, runs,
                 edits, request, lock, version>>

FeedInit ==
  /\ scenario = "feed" /\ Watched!Init
  /\ SchedulesOff /\ WebhooksOff /\ UploadsOff /\ ArtifactsOff /\ DeployOff /\
     ConnectionsOff /\ VersionsOff
  /\ now = NotUsed /\ trigger = NotUsed /\ runs = NotUsed /\ edits = NotUsed
  /\ request = NotUsed /\ lock = NotUsed /\ version = NotUsed
FeedNext ==
  /\ scenario = "feed" /\ Watched!Next
  /\ UNCHANGED <<scenario, schedulesVars, webhooksVars, uploadsVars,
                 artifactsVars, deployVars, connectionsVars, versionsVars, now,
                 trigger, runs, edits, request, lock, version>>

DeployInit ==
  /\ scenario = "deploy" /\ Started!Init
  /\ SchedulesOff /\ WebhooksOff /\ UploadsOff /\ ArtifactsOff /\ FeedOff /\
     ConnectionsOff /\ VersionsOff
  /\ now = NotUsed /\ trigger = NotUsed /\ runs = NotUsed /\ edits = NotUsed
  /\ request = NotUsed /\ lock = NotUsed
DeployNext ==
  /\ scenario = "deploy" /\ Started!Next
  /\ UNCHANGED <<scenario, schedulesVars, webhooksVars, uploadsVars,
                 artifactsVars, feedVars, connectionsVars, versionsVars, now,
                 trigger, runs, edits, request, lock>>

ConnectionsInit ==
  /\ \/ scenario = "connections" /\ Edited!Init
     \/ scenario = "connections_serial" /\ Tested!Init
  /\ SchedulesOff /\ WebhooksOff /\ UploadsOff /\ ArtifactsOff /\ FeedOff /\
     DeployOff /\ VersionsOff
  /\ now = NotUsed /\ trigger = NotUsed /\ runs = NotUsed /\ edits = NotUsed
  /\ lock = NotUsed /\ version = NotUsed
ConnectionsNext ==
  /\ \/ scenario = "connections" /\ Edited!Next
     \/ scenario = "connections_serial" /\ Tested!Next
  /\ UNCHANGED <<scenario, schedulesVars, webhooksVars, uploadsVars,
                 artifactsVars, feedVars, deployVars, versionsVars, now,
                 trigger, runs, edits, lock, version>>

VersionsInit ==
  /\ scenario = "versions" /\ Saved!Init
  /\ SchedulesOff /\ WebhooksOff /\ UploadsOff /\ ArtifactsOff /\ FeedOff /\
     DeployOff /\ ConnectionsOff
  /\ now = NotUsed /\ trigger = NotUsed /\ edits = NotUsed /\ request = NotUsed
VersionsNext ==
  /\ scenario = "versions" /\ Saved!Next
  /\ UNCHANGED <<scenario, schedulesVars, webhooksVars, uploadsVars,
                 artifactsVars, feedVars, deployVars, connectionsVars, now,
                 trigger, edits, request>>

Init == /\ scenario \in Scenarios
        /\ SchedulesInit \/ WebhooksInit \/ UploadsInit \/ ArtifactsInit \/
           FeedInit \/ DeployInit \/ ConnectionsInit \/ VersionsInit
Next == SchedulesNext \/ WebhooksNext \/ UploadsNext \/ ArtifactsNext \/
        FeedNext \/ DeployNext \/ ConnectionsNext \/ VersionsNext

Spec == Init /\ [][Next]_vars

-------------------------------------------------------------------------------
ASSUME ConstantsAreSound ==
  /\ Polled!SchedulesAssumption /\ Rated!WebhooksAssumption /\ Replayed!WebhooksAssumption
  /\ Stocked!UploadsAssumption /\ Stored!ArtifactsAssumption
  /\ Started!DeploymentAssumption /\ Saved!VersionsAssumption
  /\ Edited!ConnectionsAssumption /\ Tested!ConnectionsAssumption

(* The ledger keeps a row longer than a message can stay valid, and longer *)
(* than the window of the rate limit reaches back.                         *)
ASSUME RetentionIsLong ==
  /\ CopiedRetention >= 2 * CopiedSkew + 4 * CopiedDrift + Stall
  /\ RatedRetention >= Window + Stall + 2 * RatedDrift

(* An occurrence of a schedule runs once, whichever processes see it due,  *)
(* and missed ones are skipped: two runs of one edition of a trigger are   *)
(* for different instants on one cadence, the second after the first was   *)
(* dispatched; a run appears only together with the advance of next_run_at *)
(* of a trigger that is enabled; and after any sequence of PATCHes a row   *)
(* has one kind of schedule, and a next run exactly if it is enabled.      *)
SchedulesAreKept ==
  /\ [](scenario = "schedules" => Polled!CadenceIsKept /\ Polled!RowsAreConsistent)
  /\ [][scenario = "schedules" => Polled!DispatchIsAtomic]_vars

(* A signed message makes at most one run, however often and wherever its  *)
(* copies arrive, with a ledger that keeps a row just long enough; no      *)
(* rolling window holds more accepted deliveries than the highest limit so *)
(* far, although receivers note their time before they queue for the lock  *)
(* and so commit out of its order; a run of the last Retention has its     *)
(* ledger row while the trigger stands.                                    *)
WebhooksAreGuarded ==
  /\ scenario = "replay" => Replayed!OneRunPerMessage
  /\ scenario = "webhooks" => Rated!RateIsLimited /\ Rated!RunsAreGuarded

(* The artifacts an owner can see never exceed the quota, whatever races;  *)
(* a request answered with an error has left nothing behind, and one       *)
(* answered with its files is whole: nothing of it was swept.              *)
UploadsAreAtomic ==
  scenario = "uploads" => Stocked!QuotaHolds /\ Stocked!RequestsAreAtomic

(* Until the expiry a node's result names, the file holds the run's        *)
(* records, whoever prunes, queries, judges expiry or executes the node    *)
(* again meanwhile: after a first execution, and after any that began when *)
(* nobody was about to delete the file and it would not expire meanwhile.  *)
PromisesAreKept == scenario = "artifacts" => Stored!PromisesAreKept

(* The list of connections holds each open one once and none whose handler *)
(* ended in order, although handlers and broadcasts both remove the dead;  *)
(* one whose handler failed stays at most until a broadcast's send to it   *)
(* has raised; and none is sent an event twice, although the list a        *)
(* broadcast walks by index is changed under it.                           *)
FeedIsExact == scenario = "feed" => Watched!RegistryIsExact /\ Watched!ToldAtMostOnce

(* Wherever earlier starts were cut off, the API never serves a partial    *)
(* schema or a saved connection in plain text or unreadable; while it      *)
(* serves, every legacy file is there unless a user deleted it since, a    *)
(* deleted one does not come back and no staged file is left; and no step  *)
(* replaces a file the volume owns by a legacy one.                        *)
StartsAreSafe ==
  /\ [](scenario = "deploy" => /\ Started!ServesWholeSchema
                               /\ Started!ConnectionsAreReadable
                               /\ Started!ImportIsExact)
  /\ [][scenario = "deploy" => Started!OwnFilesAreKept]_vars

(* The configuration stored is the one saved last: a test that read an     *)
(* earlier one does not bring it back.  Without overlapping requests a     *)
(* connection is shown as valid only after its present configuration has   *)
(* passed a test.                                                          *)
ConnectionsAreSound ==
  /\ scenario = "connections" => Edited!LastSavedConfigStays
  /\ scenario = "connections_serial" => Tested!ValidityIsEarned

(* Saves at the same time never collide, and version numbers follow each   *)
(* other without a gap in the order of the commits, although requests die; *)
(* a run that names no version executes one at least as new as every save  *)
(* answered before the request came in; and nothing that can still be      *)
(* executed, an old version a trigger or a run is pinned to included,      *)
(* loses a file to a deletion that came after it.                          *)
VersionsAreSound ==
  scenario = "versions" => /\ Saved!SavesNeverCollide
                           /\ Saved!RunsSeeEarlierSaves
                           /\ Saved!PinnedVersionsKeepTheirFiles
===============================================================================
