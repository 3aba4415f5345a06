---------------------------- MODULE DocumentSource ----------------------------
(***************************************************************************)
(* A pipeline whose source is a DocumentSource over one directory.         *)
(*                                                                         *)
(* A run discovers the directory, buries the files that have gone with     *)
(* tombstones, and extracts every file that is new, changed, half done or  *)
(* parsed by another configuration; elements are named by path and index.  *)
(* It checkpoints every Interval records, and the pipeline writes what it  *)
(* has buffered before it saves each checkpoint.  Files change at any      *)
(* time, the configuration changes between runs, and a run may fail or     *)
(* crash anywhere.  An extraction is abstracted to the document's hash,    *)
(* the parser and, for components that are not deterministic, the draw.    *)
(***************************************************************************)
EXTENDS Integers, Sequences, FiniteSets

CONSTANTS
  Paths,              \* relative paths: numbers, in sorted order
  Versions, Absent,   \* document hashes, numbered; no such file
  Parsers, Draws,     \* parser fingerprints; outcomes of one extraction
  Length,             \* [Versions \X Parsers \X Draws -> Nat], its elements
  Interval,           \* checkpoint_interval
  Strict,             \* failure_mode = "strict"
  Return,             \* a removed file, or what it was before, may come back
  Stops,              \* where a run may die: "reading", "burying", "saving"
  None,
  MaxChanges, MaxFaults    \* bounds: changes of the environment, faults

Documents == Versions \X Parsers
Extractions == Documents \X Draws
\* A checkpoint's entry of a file, and its progress within one.
Entries == [doc : Documents, draw : Draws, count : Nat]
Progresses ==
  [path : Paths, doc : Documents, draw : Draws, next : Nat,
   tomb : Nat \cup {None}, reconcile : Nat \cup {None}]
DocumentAssumption ==
  /\ Paths \subseteq Nat /\ Versions \subseteq Nat /\ Parsers \subseteq Nat
  /\ IsFiniteSet(Paths) /\ IsFiniteSet(Extractions) /\ Extractions # {}
  /\ Length \in [Documents \X Draws -> Nat]
  /\ Interval \in Nat \ {0}
  /\ Strict \in BOOLEAN /\ Return \in BOOLEAN
  /\ Stops \subseteq {"reading", "burying", "saving"}
  /\ MaxChanges \in Nat /\ MaxFaults \in Nat
  /\ Absent \notin Versions
  /\ None \notin Nat \cup Draws \cup Documents \cup Progresses
  /\ \A S \in SUBSET Paths :
       None \notin [files : [S -> Entries], progress : Progresses \cup {None}]

\* As in FiniteSetsExt, of which the proofs need no more.
Max(S) == CHOOSE x \in S : \A y \in S : x >= y
Min(S) == CHOOSE x \in S : \A y \in S : x =< y
MaxLength == Max({Length[e] : e \in Extractions})
Indexes == 0..MaxLength - 1

VARIABLES
  files,    \* [Paths -> Versions or Absent], the directory
  gone,     \* paths that were removed (history)
  parser,   \* the configuration's parser fingerprint
  cache,    \* [Documents -> Draws or None], the persistent extraction cache
  saved,    \* the saved checkpoint: [files, progress]
  pc,       \* "idle", "stopped" (by a failure), "remove", "bury", "file", "emit", "commit"
  start,    \* in_progress of the checkpoint the run was given
  entries,  \* files_state
  pending,  \* pending_in_progress
  seen,     \* discovered paths
  todo,     \* paths of the current loop still to visit
  job,      \* the path at hand: [path, doc, draw, index, resume, count, reconcile]
  emitted,  \* records since the last checkpoint
  buffer,   \* records the pipeline has not written
  message,  \* the StateMessage the pipeline is handling, or None
  dest,     \* [Paths -> [Indexes -> Extractions or Absent]]
  changes, faults

world == <<files, gone, parser, changes>>
locals == <<start, entries, pending, seen, todo, job, emitted, buffer, message>>
vars == <<files, gone, parser, cache, saved, pc, start, entries, pending, seen, todo,
          job, emitted, buffer, message, dest, changes, faults>>

-------------------------------------------------------------------------------
(* The environment *)

ChangeFile ==
  /\ changes < MaxChanges /\ changes' = changes + 1
  /\ \E p \in Paths, v \in Versions \cup {Absent} :
       /\ v # files[p]
       /\ ~Return => IF files[p] = Absent THEN p \notin gone ELSE v # Absent => v > files[p]
       /\ files' = [files EXCEPT ![p] = v]
       /\ gone' = IF v = Absent THEN gone \cup {p} ELSE gone
  /\ UNCHANGED <<parser, cache, saved, pc, locals, dest, faults>>

Reconfigure ==
  /\ pc \in {"idle", "stopped"} /\ message = None
  /\ changes < MaxChanges /\ changes' = changes + 1
  /\ parser' \in {q \in Parsers : IF Return THEN q # parser ELSE q > parser}
  /\ UNCHANGED <<files, gone, cache, saved, pc, locals, dest, faults>>

(* The cache's file is removed or damaged by somebody else. *)
LoseCache ==
  /\ faults < MaxFaults /\ faults' = faults + 1
  /\ \E d \in Documents : cache[d] # None /\ cache' = [cache EXCEPT ![d] = None]
  /\ UNCHANGED <<world, saved, pc, locals, dest>>

-------------------------------------------------------------------------------
(* Messages to the pipeline *)

Suspended == message # None     \* the generator waits for the pipeline

(* _checkpoint *)
Checkpoint(es, progress) == [files |-> es, progress |-> progress]

(* Pipeline.run writes what is pending before it saves the checkpoint. *)
Written(d) ==
  [p \in Paths |-> [i \in Indexes |->
     LET mine == {k \in DOMAIN buffer : buffer[k].path = p /\ buffer[k].index = i}
     IN  IF mine = {} THEN d[p][i] ELSE buffer[Max(mine)].content]]
Write ==
  /\ Suspended /\ buffer # <<>>
  /\ dest' = Written(dest) /\ buffer' = <<>>
  /\ UNCHANGED <<world, cache, saved, pc, start, entries, pending, seen, todo, job,
                 emitted, message, faults>>

Save ==
  /\ Suspended /\ buffer = <<>>
  /\ saved' = message /\ message' = None
  /\ UNCHANGED <<world, cache, pc, start, entries, pending, seen, todo, job, emitted,
                 buffer, dest, faults>>

(* The run ends with an error, or its process dies; nothing buffered is    *)
(* written.                                                                *)
Stopped ==
  /\ pc' = "stopped" /\ message' = None /\ buffer' = <<>> /\ job' = None
  /\ todo' = {} /\ emitted' = 0 /\ start' = None /\ pending' = None
  /\ entries' = saved.files /\ seen' = {}
  /\ UNCHANGED <<world, saved, dest>>
(* "saving" is between a write and its checkpoint, "burying" while there   *)
(* are tombstones that are still to be emitted or still to be written.     *)
Burying == pc \in {"bury", "commit"} \/ \E k \in DOMAIN buffer : buffer[k].content = Absent
Place == IF Suspended /\ buffer = <<>> THEN "saving"
         ELSE IF Burying THEN "burying" ELSE "reading"
Crash ==
  /\ pc \notin {"idle", "stopped"} \/ Suspended
  /\ Place \in Stops
  /\ faults < MaxFaults /\ faults' = faults + 1
  /\ Stopped /\ UNCHANGED cache

-------------------------------------------------------------------------------
(* DocumentSource.read *)

At(progress, p) == progress # None /\ progress.path = p
NextPath(S) == IF pending # None /\ pending.path \in S THEN pending.path ELSE Min(S)
Count(p) == IF p \in DOMAIN entries THEN entries[p].count ELSE 0
AtLeast(a, b) == IF a > b THEN a ELSE b

(* _discover_files: the files that are there when the run starts. *)
Discovered == {p \in Paths : files[p] # Absent}
(* _snapshot_file: an immutable copy of the bytes, and the hash of the copy. *)
Snapshot(p) == files[p]

(* _validate_state *)
Valid(state) ==
  /\ DOMAIN state.files \subseteq Paths
  /\ \A p \in DOMAIN state.files :
       state.files[p] \in [doc : Documents, draw : Draws, count : 0..MaxLength]
  /\ LET it == state.progress
     IN  it # None =>
           /\ it.path \in Paths /\ it.doc \in Documents /\ it.next \in 0..MaxLength
           /\ it.reconcile # None => it.reconcile >= it.next
           /\ it.tomb # None =>
                it.tomb \in 0..(IF it.reconcile = None THEN it.next ELSE it.reconcile)

StartRun ==
  /\ pc \in {"idle", "stopped"} /\ ~Suspended
  /\ Valid(saved)
  /\ pc' = "remove"
  /\ start' = saved.progress /\ pending' = saved.progress
  /\ entries' = saved.files
  /\ seen' = Discovered
  /\ todo' = {p \in Paths : p \in DOMAIN saved.files \/ At(saved.progress, p)} \ seen'
  /\ job' = None /\ emitted' = 0
  /\ UNCHANGED <<world, cache, saved, buffer, message, dest, faults>>

(* in_progress: the sha and parser of a path, its manifest, its next       *)
(* index; the index the tombstones have reached and the elements to        *)
(* reconcile, or None.                                                     *)
Progress(p, doc, draw, next, tomb, reconcile) ==
  [path |-> p, doc |-> doc, draw |-> draw, next |-> next, tomb |-> tomb,
   reconcile |-> reconcile]
OrZero(n) == IF n = None THEN 0 ELSE n

(* How many elements of a path the destination may hold, as far as the     *)
(* checkpoint tells.                                                       *)
MutantKnown(p) == Count(p)
Known(p) ==
  AtLeast(Count(p), IF At(start, p) THEN AtLeast(start.next, OrZero(start.reconcile)) ELSE 0)

RemovePath ==
  /\ pc = "remove" /\ ~Suspended /\ todo # {}
  /\ LET p == NextPath(todo)
         own == IF pending = None /\ p \in DOMAIN entries
                THEN Progress(p, entries[p].doc, entries[p].draw, Known(p), 0, None)
                ELSE IF At(pending, p)
                THEN [pending EXCEPT !.next = Known(p),
                        !.reconcile = IF pending.reconcile = None THEN None ELSE Known(p)]
                ELSE pending
     IN  /\ pending' = own
         /\ job' = [path |-> p, count |-> Known(p), doc |-> None,
                    index |-> IF At(own, p) THEN OrZero(own.tomb) ELSE 0]
         /\ todo' = todo \ {p}
  /\ pc' = "bury" /\ emitted' = 0
  /\ UNCHANGED <<world, cache, saved, start, entries, seen, buffer, message, dest, faults>>

(* _emit_tombstones *)
Tombstone ==
  /\ pc = "bury" /\ ~Suspended /\ job.index < job.count
  /\ buffer' = Append(buffer, [path |-> job.path, index |-> job.index, content |-> Absent])
  /\ job' = [job EXCEPT !.index = @ + 1]
  /\ IF emitted + 1 >= Interval
     THEN /\ emitted' = 0
          /\ message' = Checkpoint(entries,
                          IF At(pending, job.path)
                          THEN [pending EXCEPT !.tomb = job.index + 1] ELSE pending)
     ELSE emitted' = emitted + 1 /\ UNCHANGED message
  /\ UNCHANGED <<world, cache, saved, pc, start, entries, pending, seen, todo, dest, faults>>

(* The path is settled: its entry and its progress go out with a checkpoint. *)
Settle(es) ==
  LET left == IF At(pending, job.path) THEN None ELSE pending
  IN  /\ entries' = es /\ pending' = left
      /\ message' = Checkpoint(es, left)
      /\ job' = None /\ emitted' = 0

Buried ==
  /\ pc = "bury" /\ ~Suspended /\ job.index >= job.count
  /\ IF job.doc = None
     THEN pc' = "remove" /\ Settle([p \in DOMAIN entries \ {job.path} |-> entries[p]])
     ELSE pc' = "commit" /\ UNCHANGED <<entries, pending, message, job, emitted>>
  /\ UNCHANGED <<world, cache, saved, start, seen, todo, buffer, dest, faults>>

RemovedAll ==
  /\ pc = "remove" /\ ~Suspended /\ todo = {}
  /\ pc' = "file" /\ todo' = seen
  /\ UNCHANGED <<world, cache, saved, start, entries, pending, seen, job, emitted,
                 buffer, message, dest, faults>>

(* A file whose entry has this hash and parser, and which is not half done. *)
Unchanged(p, doc) ==
  p \in DOMAIN entries /\ entries[p].doc = doc /\ ~At(start, p)

SkipFile ==
  /\ pc = "file" /\ ~Suspended /\ todo # {}
  /\ LET p == NextPath(todo)
     IN  files[p] # Absent /\ Unchanged(p, <<Snapshot(p), parser>>) /\ todo' = todo \ {p}
  /\ UNCHANGED <<world, cache, saved, pc, start, entries, pending, seen, job, emitted,
                 buffer, message, dest, faults>>

(* The checkpoint is of this very snapshot and parser. *)
Matches(p, doc) == At(start, p) /\ start.doc = doc

MutantResumeAt(p, doc) == IF At(start, p) THEN start.next ELSE 0
ResumeAt(p, doc) ==
  IF Matches(p, doc) /\ (start.tomb = None \/ start.reconcile # None)
  THEN start.next ELSE 0

Reconciles(p, doc) ==
  /\ Known(p) > 0
  /\ \/ At(start, p) /\ (OrZero(start.reconcile) > 0 \/ start.doc # doc)
     \/ p \in DOMAIN entries /\ entries[p].doc # doc

(* Components that are not deterministic: the extraction is replayed from  *)
(* the cached manifest, which a resumed extraction must find.              *)
RequiresManifest == Cardinality(Draws) > 1
ManifestMissing(p, doc) ==
  /\ RequiresManifest /\ Matches(p, doc) /\ cache[doc] # start.draw

ExtractFile ==
  /\ pc = "file" /\ ~Suspended /\ todo # {}
  /\ LET p == NextPath(todo)
         doc == <<Snapshot(p), parser>>
     IN  /\ files[p] # Absent /\ ~Unchanged(p, doc) /\ ~ManifestMissing(p, doc)
         /\ \E d \in Draws :
              /\ (RequiresManifest /\ cache[doc] # None) => d = cache[doc]
              /\ cache' = IF RequiresManifest THEN [cache EXCEPT ![doc] = d] ELSE cache
              /\ job' = [path |-> p, doc |-> doc, draw |-> d, index |-> ResumeAt(p, doc),
                         resume |-> ResumeAt(p, doc), count |-> Known(p),
                         reconcile |-> Reconciles(p, doc)]
         /\ todo' = todo \ {p}
  /\ pc' = "emit" /\ emitted' = 0
  /\ UNCHANGED <<world, saved, start, entries, pending, seen, buffer, message, dest, faults>>

(* The file has gone since the discovery, cannot be parsed, or its         *)
(* manifest is lost: the run fails, or in best effort goes on without it.  *)
FailFile ==
  /\ pc = "file" /\ ~Suspended /\ todo # {}
  /\ LET p == NextPath(todo)
         doc == <<Snapshot(p), parser>>
     IN  \/ files[p] = Absent /\ Stopped /\ UNCHANGED <<cache, faults>>
         \/ /\ files[p] # Absent /\ ~Unchanged(p, doc)
            /\ IF ManifestMissing(p, doc) THEN UNCHANGED faults
               ELSE faults < MaxFaults /\ faults' = faults + 1
            /\ UNCHANGED cache
            /\ IF Strict THEN Stopped
               ELSE /\ todo' = todo \ {p}
                    /\ UNCHANGED <<world, saved, pc, start, entries, pending, seen, job,
                                   emitted, buffer, message, dest>>

Content == <<job.doc[1], job.doc[2], job.draw>>
Parsed == Length[<<job.doc, job.draw>>]

(* reconcile_element_count of a checkpoint: what is left to reconcile. *)
MutantReconcile(next) == IF job.reconcile THEN job.count ELSE None
Reconcile(next) == IF job.reconcile /\ job.count > next THEN job.count ELSE None

EmitElement ==
  /\ pc = "emit" /\ ~Suspended /\ job.index < Parsed
  /\ buffer' = Append(buffer, [path |-> job.path, index |-> job.index, content |-> Content])
  /\ job' = [job EXCEPT !.index = @ + 1]
  /\ IF emitted + 1 >= Interval
     THEN /\ emitted' = 0
          /\ IF pending # None /\ pending.path # job.path
             THEN UNCHANGED <<pending, message>>
             ELSE /\ pending' = Progress(job.path, job.doc, job.draw, job.index + 1, None,
                                       Reconcile(job.index + 1))
                  /\ message' = Checkpoint(entries, pending')
     ELSE emitted' = emitted + 1 /\ UNCHANGED <<pending, message>>
  /\ UNCHANGED <<world, cache, saved, pc, start, entries, seen, todo, dest, faults>>

(* The elements are out.  Tombstones for the tail of what was there before, *)
(* from where an earlier run stopped; then the file's entry.               *)
EndElements ==
  /\ pc = "emit" /\ ~Suspended /\ job.index >= Parsed
  /\ IF job.resume > Parsed
     THEN Stopped /\ UNCHANGED <<cache, faults>>
     ELSE /\ IF job.count > Parsed
             THEN /\ pc' = "bury"
                  /\ pending' = IF pending = None \/ At(pending, job.path)
                       THEN Progress(job.path, job.doc, job.draw, Parsed,
                              IF pending # None /\ pending.reconcile # None
                              THEN pending.tomb ELSE None, job.count)
                       ELSE pending
             ELSE pc' = "commit" /\ UNCHANGED pending
          /\ job' = [job EXCEPT !.index = AtLeast(Parsed,
                       IF At(pending', job.path) THEN OrZero(pending'.tomb) ELSE 0)]
          /\ emitted' = 0
          /\ UNCHANGED <<world, cache, saved, start, entries, seen, todo, buffer, message,
                         dest, faults>>

Entry == [doc |-> job.doc, draw |-> job.draw, count |-> Parsed]

CommitFile ==
  /\ pc = "commit" /\ ~Suspended
  /\ pc' = "file"
  /\ Settle([p \in DOMAIN entries \cup {job.path} |->
               IF p = job.path THEN Entry ELSE entries[p]])
  /\ UNCHANGED <<world, cache, saved, start, seen, todo, buffer, dest, faults>>

Finish ==
  /\ pc = "file" /\ ~Suspended /\ todo = {}
  /\ pc' = "idle" /\ message' = Checkpoint(entries, pending)
  /\ UNCHANGED <<world, cache, saved, start, entries, pending, seen, todo, job, emitted,
                 buffer, dest, faults>>

-------------------------------------------------------------------------------
Init ==
  /\ files \in [Paths -> Versions \cup {Absent}] /\ gone = {}
  /\ parser \in Parsers
  /\ cache = [d \in Documents |-> None]
  /\ saved = [files |-> <<>>, progress |-> None]
  /\ pc = "idle" /\ start = None /\ entries = <<>> /\ pending = None
  /\ seen = {} /\ todo = {} /\ job = None /\ emitted = 0
  /\ buffer = <<>> /\ message = None
  /\ dest = [p \in Paths |-> [i \in Indexes |-> Absent]]
  /\ changes = 0 /\ faults = 0

Source ==
  \/ StartRun \/ RemovePath \/ Tombstone \/ Buried \/ RemovedAll \/ SkipFile
  \/ ExtractFile \/ EmitElement \/ EndElements \/ CommitFile \/ Finish
  \/ FailFile
Run == Source \/ Write \/ Save
Next == ChangeFile \/ Reconfigure \/ LoseCache \/ Crash \/ Run

Spec == Init /\ [][Next]_vars

(* Somebody starts the pipeline again and again, and a run that neither    *)
(* fails nor dies goes on.                                                 *)
FairSpec == Spec /\ WF_vars(Run)

-------------------------------------------------------------------------------
(* Every checkpoint a run leaves behind passes _validate_state of the next *)
(* run, whose refusal no later run could get past: the entries and the     *)
(* progress are well formed and its three counters are ordered.            *)
CheckpointIsValid == Valid(saved)

(* No run is under way, and the last one ended well. *)
Quiet == pc = "idle" /\ message = None

(* After a run, a file that the next run will skip (DocumentSource.read),  *)
(* since its entry names the hash and the parser of the present, has every *)
(* one of its elements in the destination, all of them from the extraction *)
(* the entry names: none was lost to an interruption, a resume, a change   *)
(* or a replayed manifest.  In strict mode the same holds of a file that   *)
(* has changed since.                                                      *)
CommittedIsDelivered ==
  Quiet => \A p \in DOMAIN saved.files :
    ~At(saved.progress, p) /\ (Strict \/ saved.files[p].doc = <<files[p], parser>>) =>
    \A i \in 0..saved.files[p].count - 1 :
      dest[p][i] = <<saved.files[p].doc[1], saved.files[p].doc[2], saved.files[p].draw>>

(* After a run, a file that is done or gone has nothing else there: what  *)
(* a longer version, another parser or a removed file left is buried.      *)
NoStaleElements ==
  Quiet => \A p \in Paths : ~At(saved.progress, p) =>
    \A i \in Indexes :
      i >= (IF p \in DOMAIN saved.files THEN saved.files[p].count ELSE 0)
        => dest[p][i] = Absent

(* Once the directory and the configuration stay as they are and runs are  *)
(* no longer interrupted, the checkpoint comes to describe the directory,  *)
(* with nothing half done: no checkpoint makes every later run fail.       *)
Synchronised ==
  /\ saved.progress = None
  /\ DOMAIN saved.files = {p \in Paths : files[p] # Absent}
  /\ \A p \in DOMAIN saved.files : saved.files[p].doc = <<files[p], parser>>
===============================================================================
