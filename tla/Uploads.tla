-------------------------------- MODULE Uploads --------------------------------
(***************************************************************************)
(* Managed uploads of one owner: directories on disk, a file lock, and no  *)
(* database.                                                               *)
(*                                                                         *)
(* A request saves its files one after the other, each under the owner's   *)
(* quota lock: staged in a hidden directory chunk by chunk and renamed     *)
(* into place.  A request that fails removes what it had saved.  Listing,  *)
(* which also sweeps old staging directories, and deletion take no lock.   *)
(* Processes die at any point; the lock does not survive them.             *)
(***************************************************************************)
EXTENDS Integers, FiniteSets, FiniteSetsExt

CONSTANTS
  Requests,
  Files,         \* artifacts, each given to the upload of one request
  RequestOf,     \* file -> its request
  Size,          \* file -> chunks
  MaxFile,       \* max_upload_size_mb
  MaxOwner,      \* max_upload_storage_mb
  MaxRequest,    \* max_upload_request_mb
  MaxAge,        \* STAGING_MAX_AGE_SECONDS
  NoFile, NoOne,
  MaxTime        \* bound

UploadsAssumption ==
  /\ IsFiniteSet(Files) /\ NoOne \notin Requests
  /\ RequestOf \in [Files -> Requests] /\ Size \in [Files -> Nat]
  /\ {MaxFile, MaxOwner, MaxRequest, MaxAge, MaxTime} \subseteq Nat

VARIABLES
  now,
  dir,       \* per file: [at, size, since]; at is "none", "staging", "stored"
             \* or "torn", a directory whose removal was cut short
  lock,      \* request that holds the owner's quota lock, or NoOne
  request,   \* per request: [stage, file, existing, saved]
  sweep      \* staging directories a listing has found to be old

vars == <<now, dir, lock, request, sweep>>

NotThere == [at |-> "none", size |-> 0, since |-> 0]
FilesOf(r) == {f \in Files : RequestOf[f] = r}
Bytes(S) == FoldSet(LAMBDA f, total : dir[f].size + total, 0, S)
Stored == {f \in Files : dir[f].at = "stored"}
Waiting == [stage |-> "waiting", file |-> NoFile, existing |-> 0, saved |-> {}]

-------------------------------------------------------------------------------
(* upload_files and save_upload *)

(* The lock is taken, the staging directory made and what the owner has    *)
(* already is counted.                                                     *)
MutantAcquire(r) ==
  /\ request[r].stage = "waiting"
  /\ \E f \in FilesOf(r) \ request[r].saved :
       /\ request' = [request EXCEPT ![r].stage = "writing", ![r].file = f,
                                     ![r].existing = Bytes(Stored)]
       /\ dir' = [dir EXCEPT ![f] = [at |-> "staging", size |-> 0, since |-> now]]
  /\ UNCHANGED <<now, lock, sweep>>
Acquire(r) ==
  /\ request[r].stage = "waiting" /\ lock = NoOne
  /\ lock' = r
  /\ \E f \in FilesOf(r) \ request[r].saved :
       /\ request' = [request EXCEPT ![r].stage = "writing", ![r].file = f,
                                     ![r].existing = Bytes(Stored)]
       /\ dir' = [dir EXCEPT ![f] = [at |-> "staging", size |-> 0, since |-> now]]
  /\ UNCHANGED <<now, sweep>>

(* The lock is not to be had in time: 503. *)
Busy(r) ==
  /\ request[r].stage = "waiting" /\ lock # NoOne
  /\ request' = [request EXCEPT ![r].stage = "failing"]
  /\ UNCHANGED <<now, dir, lock, sweep>>

Fits(r, size) == size <= MaxFile /\ request[r].existing + size <= MaxOwner

(* One chunk. *)
WriteChunk(r) ==
  LET f == request[r].file
      size == dir[f].size + 1
  IN  /\ request[r].stage = "writing"
      /\ dir[f].size < Size[f] /\ dir[f].at = "staging" /\ Fits(r, size)
      /\ dir' = [dir EXCEPT ![f].size = size]
      /\ UNCHANGED <<now, lock, request, sweep>>

(* A chunk too many, a failed read, or a directory that was swept: what is *)
(* staged is removed and the lock released.                                *)
Abort(r) ==
  LET f == request[r].file
  IN  /\ request[r].stage = "writing"
      /\ dir' = [dir EXCEPT ![f] = NotThere]
      /\ lock' = NoOne
      /\ request' = [request EXCEPT ![r].stage = "failing", ![r].file = NoFile]
      /\ UNCHANGED <<now, sweep>>

(* metadata.json and the rename.  The request then goes on to its next     *)
(* file, fails if all its files together are too large, or is answered.    *)
Store(r) ==
  LET f == request[r].file
      saved == request[r].saved \cup {f}
  IN  /\ request[r].stage = "writing" /\ dir[f].at = "staging" /\ dir[f].size = Size[f]
      /\ dir' = [dir EXCEPT ![f].at = "stored"]
      /\ lock' = NoOne
      /\ request' = [request EXCEPT ![r].saved = saved, ![r].file = NoFile,
           ![r].stage = IF Bytes(saved) > MaxRequest THEN "failing"
                        ELSE IF saved = FilesOf(r) THEN "ok" ELSE "waiting"]
      /\ UNCHANGED <<now, sweep>>

(* The except clause of upload_files removes what was saved.               *)
MutantRollBack(r) ==
  /\ request[r].stage = "failing"
  /\ request' = [request EXCEPT ![r].stage = "error"]
  /\ UNCHANGED <<now, dir, lock, sweep>>
RollBack(r) ==
  /\ request[r].stage = "failing"
  /\ dir' = [f \in Files |-> IF f \in request[r].saved THEN NotThere ELSE dir[f]]
  /\ request' = [request EXCEPT ![r].stage = "error"]
  /\ UNCHANGED <<now, lock, sweep>>

(* The process dies with everything as it is on disk. *)
Crash(r) ==
  /\ request[r].stage \in {"waiting", "writing", "failing"}
  /\ request' = [request EXCEPT ![r].stage = "dead", ![r].file = NoFile]
  /\ lock' = IF lock = r THEN NoOne ELSE lock
  /\ UNCHANGED <<now, dir, sweep>>

-------------------------------------------------------------------------------
(* list_uploads looks at the age of a staging directory and then removes   *)
(* what is at that path.                                                   *)
MutantOld(f) == dir[f].at = "staging" /\ dir[f].size = 0 /\ now - dir[f].since > MaxAge
Old(f) == dir[f].at = "staging" /\ now - dir[f].since > MaxAge
List ==
  /\ \E f \in Files : f \notin sweep /\ Old(f) /\ sweep' = sweep \cup {f}
  /\ UNCHANGED <<now, dir, lock, request>>
Sweep ==
  /\ \E f \in sweep :
       /\ sweep' = sweep \ {f}
       /\ dir' = IF dir[f].at = "staging" THEN [dir EXCEPT ![f] = NotThere] ELSE dir
  /\ UNCHANGED <<now, lock, request>>

(* delete_file of a file that no saved graph version names; rmtree may be  *)
(* cut short, and what is left is no artifact any more.                    *)
Delete ==
  /\ \E f \in Stored :
       /\ dir' \in {[dir EXCEPT ![f] = NotThere], [dir EXCEPT ![f].at = "torn"]}
  /\ UNCHANGED <<now, lock, request, sweep>>

Tick == now < MaxTime /\ now' = now + 1 /\ UNCHANGED <<dir, lock, request, sweep>>

-------------------------------------------------------------------------------
Init ==
  /\ now = 0 /\ lock = NoOne /\ sweep = {}
  /\ dir = [f \in Files |-> NotThere]
  /\ request = [r \in Requests |-> Waiting]

Save(r) == Acquire(r) \/ Busy(r) \/ WriteChunk(r) \/ Abort(r) \/ Store(r) \/ RollBack(r)
Next ==
  \/ Tick \/ List \/ Sweep \/ Delete
  \/ \E r \in Requests : Save(r) \/ Crash(r)

(* The owner goes on listing, and a listing finishes. *)
Spec == Init /\ [][Next]_vars /\ WF_vars(Tick) /\ WF_vars(List) /\ WF_vars(Sweep)

-------------------------------------------------------------------------------
(* The artifacts an owner can see never exceed the quota, with several     *)
(* processes uploading, deleting and dying.                                *)
QuotaHolds == Bytes(Stored) <= MaxOwner

(* A request that was answered with an error has left nothing behind, and  *)
(* one that was answered with its files is whole: nothing of it was swept. *)
RequestsAreAtomic ==
  \A r \in Requests :
    /\ request[r].stage = "error" => \A f \in FilesOf(r) : dir[f].at # "stored"
    /\ request[r].stage = "ok" =>
         \A f \in FilesOf(r) : dir[f].at = "stored" => dir[f].size = Size[f]

(* A staging directory that has time left to grow old within the bound. *)
Staged(f) == dir[f].at = "staging" /\ now < MaxTime - MaxAge

-------------------------------------------------------------------------------
(* Why the quota holds and requests are atomic *)

TypeInv ==
  /\ now \in Nat
  /\ dir \in [Files -> [at : {"none", "staging", "stored", "torn"}, size : Nat, since : Nat]]
  /\ request \in [Requests ->
       [stage : {"waiting", "writing", "failing", "ok", "error", "dead"},
        file : Files \cup {NoFile}, existing : Nat, saved : SUBSET Files]]
  /\ sweep \subseteq Files

Writing(r) == request[r].stage = "writing"

(* The lock is held from the count of what there is to the rename, by one  *)
(* request, which writes a file it has not saved yet.                      *)
LockIsHeld ==
  \A r \in Requests : Writing(r) =>
    lock = r /\ request[r].file \in FilesOf(r) \ request[r].saved

(* A file is stored by its request only, and whole. *)
StoredIsSaved == \A f \in Stored : f \in request[RequestOf[f]].saved /\ dir[f].size = Size[f]
NothingAfterError ==
  \A r \in Requests : request[r].stage = "error" => \A f \in FilesOf(r) : f \notin Stored

(* What was counted under the lock is not exceeded while it is held, and   *)
(* what is staged fits beside it.                                          *)
RoomIsLeft ==
  \A r \in Requests : Writing(r) =>
    /\ Bytes(Stored) <= request[r].existing
    /\ request[r].existing + dir[request[r].file].size <= MaxOwner

IInv ==
  TypeInv /\ LockIsHeld /\ StoredIsSaved /\ NothingAfterError /\ RoomIsLeft /\ QuotaHolds
===============================================================================
