----------------------------- MODULE QueryArtifacts -----------------------------
(***************************************************************************)
(* The query collection of one run: a SQLite file that the Queryable Test  *)
(* Store node writes, the query API reads, and retention deletes.          *)
(*                                                                         *)
(* Every operation opens the file by its path anew, and opening creates a  *)
(* file that is not there; expiry is judged by the file's modification     *)
(* time.  A process that starts up prunes expired files while others write *)
(* and query.  Nothing but the file system orders them.                    *)
(***************************************************************************)
EXTENDS Integers, FiniteSets

CONSTANTS
  Queries,       \* query requests
  Pruners,       \* processes that start up
  Items,         \* the node's input
  TTL,           \* query_artifact_ttl_hours
  Slow,          \* longest execution of the node, less than the hours of TTL
  MaxExecutions, MaxTime    \* bounds

ArtifactsAssumption == {TTL, Slow, MaxExecutions, MaxTime} \subseteq Nat /\ Slow < TTL

VARIABLES
  now,
  file,      \* the file at the run's path, 0 if there is none
  disk,      \* files there have been: [records, mtime]
  node,      \* the node: [stage, handle, began, calm]
  executions,
  promise,   \* the last success: [until, calm], until its artifact_expires_at
  pruner,    \* "idle", "expired", "done"
  query      \* per request: [stage, asked, answer]

vars == <<now, file, disk, node, executions, promise, pruner, query>>

Resting == [stage |-> "idle", handle |-> 0, began |-> 0, calm |-> FALSE]
Unasked == [stage |-> "none", asked |-> 0, answer |-> {}]

(* Opening the path: the file there, or a new empty one.                   *)
Open ==
  IF file # 0 THEN file' = file /\ disk' = disk
  ELSE /\ file' = Cardinality(DOMAIN disk) + 1
       /\ disk' = [f \in 1..file' |->
                     IF f \in DOMAIN disk THEN disk[f] ELSE [records |-> {}, mtime |-> now]]

(* is_query_artifact_expired *)
MutantExpired == file # 0 /\ disk[file].mtime + TTL <= now + 1
Expired == file # 0 /\ disk[file].mtime + TTL <= now

(* An execution is calm when, as it begins, nobody is about to delete the  *)
(* file of earlier ones, and that does not expire while it may take.       *)
NobodyDeletes ==
  /\ \A p \in Pruners : pruner[p] # "expired"
  /\ \A q \in Queries : query[q].stage # "expired"
Calm == NobodyDeletes /\ (file # 0 => now + Slow < disk[file].mtime + TTL)

-------------------------------------------------------------------------------
(* SDKQueryStoreNode.execute *)

(* check() opens the file and creates the tables. *)
NodeCheck ==
  /\ node.stage = "idle" /\ executions < MaxExecutions
  /\ executions' = executions + 1
  /\ Open
  /\ node' = [stage |-> "write", handle |-> 0, began |-> now, calm |-> Calm]
  /\ UNCHANGED <<now, promise, pruner, query>>

(* write() opens it again; a file deleted meanwhile comes back without     *)
(* tables, and the node fails.                                             *)
NodeOpen ==
  /\ node.stage = "write"
  /\ Open
  /\ node' = IF file = 0 THEN Resting
             ELSE [node EXCEPT !.stage = "commit", !.handle = file]
  /\ UNCHANGED <<now, executions, promise, pruner, query>>

(* One transaction, in the file that was opened, wherever its name went.   *)
(* Records that are there with the same contents are not written again, and*)
(* when all are, the file keeps its time.                                  *)
NodeCommit ==
  /\ node.stage = "commit"
  /\ \E same \in {FALSE} \cup {x \in {TRUE} : disk[node.handle].records = Items} :
       disk' = [disk EXCEPT ![node.handle] =
                  [records |-> Items, mtime |-> IF same THEN @.mtime ELSE now]]
  /\ node' = [node EXCEPT !.stage = "stat"]
  /\ UNCHANGED <<now, file, executions, promise, pruner, query>>

(* The result names the file's size and expiry; without a file it raises.  *)
NodeStat ==
  /\ node.stage = "stat"
  /\ promise' = IF file = 0 THEN promise
                ELSE [until |-> disk[file].mtime + TTL, calm |-> node.calm]
  /\ node' = Resting
  /\ UNCHANGED <<now, file, disk, executions, pruner, query>>

(* The attempt fails or the worker dies. *)
NodeFails ==
  /\ node.stage # "idle"
  /\ node' = Resting
  /\ UNCHANGED <<now, file, disk, executions, promise, pruner, query>>

-------------------------------------------------------------------------------
(* prune_query_artifacts *)
PruneCheck(p) ==
  /\ pruner[p] = "idle"
  /\ pruner' = [pruner EXCEPT ![p] = IF Expired THEN "expired" ELSE "done"]
  /\ UNCHANGED <<now, file, disk, node, executions, promise, query>>
PruneDelete(p) ==
  /\ pruner[p] = "expired"
  /\ pruner' = [pruner EXCEPT ![p] = "done"]
  /\ file' = 0
  /\ UNCHANGED <<now, disk, node, executions, promise, query>>

-------------------------------------------------------------------------------
(* query_run_output *)
QueryCheck(q) ==
  /\ query[q].stage = "none"
  /\ query' = [query EXCEPT ![q] =
       [stage |-> CASE file = 0 -> "404" [] file # 0 /\ Expired -> "expired"
                    [] file # 0 /\ ~Expired -> "open",
        asked |-> now, answer |-> {}]]
  /\ UNCHANGED <<now, file, disk, node, executions, promise, pruner>>
QueryDelete(q) ==
  /\ query[q].stage = "expired"
  /\ query' = [query EXCEPT ![q].stage = "410"]
  /\ file' = 0
  /\ UNCHANGED <<now, disk, node, executions, promise, pruner>>

(* _initialize opens the file and creates missing tables. *)
QueryOpen(q) ==
  /\ query[q].stage = "open"
  /\ query' = [query EXCEPT ![q].stage = "read"]
  /\ Open
  /\ UNCHANGED <<now, node, executions, promise, pruner>>
QueryRead(q) ==
  /\ query[q].stage = "read"
  /\ Open
  /\ query' = [query EXCEPT ![q] =
       IF file = 0 THEN [@ EXCEPT !.stage = "500"]
       ELSE [@ EXCEPT !.stage = "200", !.answer = disk[file].records]]
  /\ UNCHANGED <<now, node, executions, promise, pruner>>

Tick ==
  /\ now < MaxTime /\ now' = now + 1
  /\ node.stage # "idle" => now < node.began + Slow
  /\ UNCHANGED <<file, disk, node, executions, promise, pruner, query>>

-------------------------------------------------------------------------------
Init ==
  /\ now = 1 /\ file = 0 /\ disk = <<>> /\ executions = 0
  /\ promise = [until |-> 0, calm |-> TRUE]
  /\ node = Resting
  /\ pruner = [p \in Pruners |-> "idle"]
  /\ query = [q \in Queries |-> Unasked]

Next ==
  \/ Tick \/ NodeCheck \/ NodeOpen \/ NodeCommit \/ NodeStat \/ NodeFails
  \/ \E p \in Pruners : PruneCheck(p) \/ PruneDelete(p)
  \/ \E q \in Queries : QueryCheck(q) \/ QueryDelete(q) \/ QueryOpen(q) \/ QueryRead(q)
Spec == Init /\ [][Next]_vars

-------------------------------------------------------------------------------
(* What the result of an execution promises is kept: until the expiry it   *)
(* named, the file holds the run's records, whoever prunes, queries, judges*)
(* expiry or executes the node again meanwhile.  This is so for the first  *)
(* execution, and for later ones that began calm.                          *)
Kept == file # 0 /\ disk[file].records = Items
PromisesAreKept ==
  now < promise.until /\ (promise.calm \/ executions = 1) => Kept

(* "Studio prunes expired SQLite databases": one that is not, as the result*)
(* says, stays.                                                            *)
OnlyExpiredArePruned == now < promise.until => Kept

(* "Studio prunes expired SQLite databases and sidecars at startup, and    *)
(* the query API deletes and rejects an expired artifact with HTTP 410":   *)
(* no query of a run that stored its output is answered with less.         *)
AnswersAreComplete ==
  \A q \in Queries :
    query[q].stage # "200" /\ query'[q].stage = "200" /\ promise.until # 0
      => query'[q].answer = Items

-------------------------------------------------------------------------------
(* Why promises are kept *)

Record == [records : SUBSET Items, mtime : Nat]
TypeInv ==
  /\ now \in Nat /\ executions \in Nat
  /\ promise \in [until : Nat, calm : BOOLEAN]
  /\ disk \in [1..Cardinality(DOMAIN disk) -> Record]
  /\ Cardinality(DOMAIN disk) \in Nat
  /\ file \in {0} \cup DOMAIN disk
  /\ node \in [stage : {"idle", "write", "commit", "stat"}, handle : {0} \cup DOMAIN disk,
               began : Nat, calm : BOOLEAN]
  /\ node.stage = "commit" => node.handle \in DOMAIN disk
  /\ pruner \in [Pruners -> {"idle", "expired", "done"}]
  /\ query \in [Queries -> [stage : {"none", "404", "expired", "open", "410", "read", "200", "500"},
                            asked : Nat, answer : SUBSET Items]]

(* Before the node runs there is no file, nor anybody who saw one, and so  *)
(* its first execution is calm.                                            *)
BeforeTheNode ==
  executions = 0 =>
    /\ file = 0 /\ promise.until = 0 /\ node.stage = "idle" /\ NobodyDeletes
    /\ \A q \in Queries : query[q].stage \notin {"open", "read"}
FirstIsCalm ==
  executions <= 1 => promise.calm /\ (node.stage # "idle" => node.calm)

NothingIsLater == node.began <= now /\ \A f \in DOMAIN disk : disk[f].mtime <= now

(* While a calm execution runs, no longer than Slow, the file is too young *)
(* to have expired; once it has committed, no older than its promise.      *)
WhileItRuns ==
  node.stage # "idle" /\ node.calm =>
    /\ file # 0 /\ NobodyDeletes
    /\ now <= node.began + Slow /\ node.began + Slow < disk[file].mtime + TTL
    /\ node.stage = "commit" => node.handle = file
    /\ node.stage = "stat" => disk[file].records = Items
AfterItRan ==
  now < promise.until /\ promise.calm =>
    /\ Kept /\ NobodyDeletes
    /\ promise.until <= disk[file].mtime + TTL
    /\ node.stage = "commit" => node.handle = file

IInv == TypeInv /\ BeforeTheNode /\ FirstIsCalm /\ NothingIsLater /\ WhileItRuns /\ AfterItRan
===============================================================================
