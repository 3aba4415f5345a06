------------------------------ MODULE GraphVersions ------------------------------
(***************************************************************************)
(* One graph: its immutable versions, the requests that save them, the     *)
(* runs and triggers that are pinned to them, and the deletion of managed  *)
(* files that versions name.                                               *)
(*                                                                         *)
(* Requests are transactions at READ COMMITTED in several API processes.   *)
(* A version is abstracted to the files its node configs name; a body is   *)
(* acceptable or not, which sanitising, the secret check and the edge      *)
(* check decide (DataFlow).  A process may die before it commits.          *)
(***************************************************************************)
EXTENDS Integers, Sequences, FiniteSets

CONSTANTS
  Savers, Starters, Deleters,    \* requests
  Files,                         \* the owner's managed files
  NoOne, NoFile,
  MaxVersions, MaxRuns           \* bounds

VersionsAssumption == MaxVersions \in Nat /\ MaxRuns \in Nat /\ NoOne \notin Savers

VARIABLES
  graph,     \* whether the row of the graph is committed
  version,   \* committed versions, in the order they were committed: [number, files]
  lock,      \* saver that holds the row of the graph FOR UPDATE, or NoOne
  save,      \* per saver: [stage, files, number]
  start,     \* per starter: [stage, seen, found]; seen is the number of
             \* versions when the request came in, found an index of version
  pin,       \* version a trigger of the graph is pinned to, 0 if there is none
  runs,      \* runs created: [version, seen, by]
  stored,    \* files on disk
  deletion   \* per deleter: [stage, file, seen]

vars == <<graph, version, lock, save, start, pin, runs, stored, deletion>>

Idle == [stage |-> "idle", files |-> {}, number |-> 0]
Numbers == {version[i].number : i \in DOMAIN version}
MaxNumber == IF version = <<>> THEN 0 ELSE CHOOSE n \in Numbers : \A k \in Numbers : k <= n

-------------------------------------------------------------------------------
(* create_graph commits a graph without a version; a template's graph      *)
(* and its first version are one commit.                                   *)
CreateGraph ==
  /\ ~graph /\ graph' = TRUE
  /\ UNCHANGED <<version, lock, save, start, pin, runs, stored, deletion>>
CreateGraphFromTemplate ==
  /\ ~graph /\ graph' = TRUE
  /\ version' = <<[number |-> 1, files |-> {}]>>
  /\ UNCHANGED <<lock, save, start, pin, runs, stored, deletion>>

-------------------------------------------------------------------------------
(* save_graph_version *)

(* A body that is not acceptable is refused before the database is asked.  *)
SaveRefused(p) ==
  /\ graph /\ save[p].stage = "idle"
  /\ save' = [save EXCEPT ![p].stage = "refused"]
  /\ UNCHANGED <<graph, version, lock, start, pin, runs, stored, deletion>>

(* SELECT ... FOR UPDATE on the graph. *)
MutantSaveLock(p) ==
  /\ graph /\ save[p].stage = "idle"
  /\ \E named \in SUBSET Files :
       save' = [save EXCEPT ![p] = [stage |-> "locked", files |-> named, number |-> 0]]
  /\ UNCHANGED <<graph, version, lock, start, pin, runs, stored, deletion>>
SaveLock(p) ==
  /\ graph /\ save[p].stage = "idle" /\ lock = NoOne
  /\ lock' = p
  /\ \E named \in SUBSET Files :
       save' = [save EXCEPT ![p] = [stage |-> "locked", files |-> named, number |-> 0]]
  /\ UNCHANGED <<graph, version, start, pin, runs, stored, deletion>>

SaveNumber(p) ==
  /\ save[p].stage = "locked"
  /\ save' = [save EXCEPT ![p].stage = "numbered", ![p].number = MaxNumber + 1]
  /\ UNCHANGED <<graph, version, lock, start, pin, runs, stored, deletion>>

(* The insert; uq_graph_version refuses a number that is taken.  What the  *)
(* editor saves next is another request.                                   *)
SaveCommit(p) ==
  /\ save[p].stage = "numbered" /\ Len(version) < MaxVersions
  /\ lock' = IF lock = p THEN NoOne ELSE lock
  /\ IF save[p].number \in Numbers
     THEN save' = [save EXCEPT ![p].stage = "failed"] /\ UNCHANGED version
     ELSE /\ save' = [save EXCEPT ![p] = Idle]
          /\ version' = Append(version, [number |-> save[p].number, files |-> save[p].files])
  /\ UNCHANGED <<graph, start, pin, runs, stored, deletion>>

(* The process dies, or the database refuses the statement. *)
SaveAborts(p) ==
  /\ save[p].stage \in {"locked", "numbered"}
  /\ save' = [save EXCEPT ![p] = Idle]
  /\ lock' = IF lock = p THEN NoOne ELSE lock
  /\ UNCHANGED <<graph, version, start, pin, runs, stored, deletion>>

-------------------------------------------------------------------------------
(* start_run and create_trigger *)

(* get_graph_versions with limit 1, and resolve_graph_version without an   *)
(* id: the version of the highest number.                                  *)
MutantLatest == IF version = <<>> THEN 0 ELSE 1
Latest == IF version = <<>> THEN 0 ELSE CHOOSE i \in DOMAIN version : version[i].number = MaxNumber

StartRequest(s) ==
  /\ graph /\ start[s].stage = "idle" /\ Len(runs) < MaxRuns
  /\ start' = [start EXCEPT ![s] = [stage |-> "seen", seen |-> Len(version), found |-> 0]]
  /\ UNCHANGED <<graph, version, lock, save, pin, runs, stored, deletion>>

(* The request names a version of the graph, or takes the latest; without  *)
(* any it is refused.                                                      *)
StartNamed(s) ==
  /\ start[s].stage = "seen"
  /\ \E i \in DOMAIN version : start' = [start EXCEPT ![s].stage = "named", ![s].found = i]
  /\ UNCHANGED <<graph, version, lock, save, pin, runs, stored, deletion>>
StartLatest(s) ==
  /\ start[s].stage = "seen"
  /\ start' = [start EXCEPT ![s].stage = IF Latest = 0 THEN "refused" ELSE "latest",
                            ![s].found = Latest]
  /\ UNCHANGED <<graph, version, lock, save, pin, runs, stored, deletion>>

CreateRun(s) ==
  /\ start[s].stage \in {"named", "latest"} /\ Len(runs) < MaxRuns
  /\ runs' = Append(runs, [version |-> start[s].found, seen |-> start[s].seen,
                           by |-> start[s].stage])
  /\ start' = [start EXCEPT ![s].stage = "idle", ![s].found = 0, ![s].seen = 0]
  /\ UNCHANGED <<graph, version, lock, save, pin, stored, deletion>>

(* A trigger keeps the version it was created with. *)
CreateTrigger ==
  /\ pin = 0 /\ Latest # 0 /\ pin' = Latest
  /\ UNCHANGED <<graph, version, lock, save, start, runs, stored, deletion>>
Fire ==
  /\ pin # 0 /\ Len(runs) < MaxRuns
  /\ runs' = Append(runs, [version |-> pin, seen |-> 0, by |-> "trigger"])
  /\ UNCHANGED <<graph, version, lock, save, start, pin, stored, deletion>>

-------------------------------------------------------------------------------
(* delete_file: every version of every graph of the owner is looked at.    *)
MutantReferenced(f) == Latest # 0 /\ f \in version[Latest].files
Referenced(f) == \E i \in DOMAIN version : f \in version[i].files
CheckFile(d) ==
  /\ deletion[d].stage = "idle"
  /\ \E f \in Files :
       deletion' = [deletion EXCEPT ![d] =
         [stage |-> IF Referenced(f) THEN "refused" ELSE "checked", file |-> f,
          seen |-> Len(version)]]
  /\ UNCHANGED <<graph, version, lock, save, start, pin, runs, stored>>
RemoveFile(d) ==
  /\ deletion[d].stage = "checked"
  /\ stored' = stored \ {deletion[d].file}
  /\ deletion' = [deletion EXCEPT ![d].stage =
       IF deletion[d].file \in stored THEN "deleted" ELSE "not_found"]
  /\ UNCHANGED <<graph, version, lock, save, start, pin, runs>>

-------------------------------------------------------------------------------
Init ==
  /\ graph = FALSE /\ version = <<>> /\ lock = NoOne /\ pin = 0 /\ runs = <<>>
  /\ save = [p \in Savers |-> Idle]
  /\ start = [s \in Starters |-> [stage |-> "idle", seen |-> 0, found |-> 0]]
  /\ stored = Files
  /\ deletion = [d \in Deleters |-> [stage |-> "idle", file |-> NoFile, seen |-> 0]]

Next ==
  \/ CreateGraph \/ CreateGraphFromTemplate \/ CreateTrigger \/ Fire
  \/ \E p \in Savers :
       SaveRefused(p) \/ SaveLock(p) \/ SaveNumber(p) \/ SaveCommit(p) \/ SaveAborts(p)
  \/ \E s \in Starters : StartRequest(s) \/ StartNamed(s) \/ StartLatest(s) \/ CreateRun(s)
  \/ \E d \in Deleters : CheckFile(d) \/ RemoveFile(d)
Spec == Init /\ [][Next]_vars

-------------------------------------------------------------------------------
(* Saves at the same time never collide, and the numbers follow each other *)
(* without a gap in the order of the commits, however many requests die.   *)
SavesNeverCollide ==
  /\ \A p \in Savers : save[p].stage # "failed"
  /\ \A i \in DOMAIN version : version[i].number = i

(* A run that names no version executes one at least as new as every save  *)
(* answered before the request came in.                                    *)
RunsSeeEarlierSaves ==
  \A i \in DOMAIN runs : runs[i].by = "latest" => runs[i].version >= runs[i].seen

(* Nothing that can still be executed, an old version a trigger or a run   *)
(* is pinned to included, loses a file to a deletion that came after it.   *)
PinnedVersionsKeepTheirFiles ==
  \A d \in Deleters : deletion[d].stage = "deleted" =>
    \A i \in 1..deletion[d].seen : deletion[d].file \notin version[i].files

(* "File is referenced by a saved graph version; remove it from the graph  *)
(* first": a file that the graph no longer names can be deleted.           *)
RemovedFilesCanBeDeleted ==
  \A d \in Deleters : deletion[d].stage = "refused" =>
    deletion[d].file \in version[deletion[d].seen].files
===============================================================================
