------------------------------ MODULE SdkPipeline ------------------------------
(***************************************************************************)
(* The embedded SDK runtime: Pipeline.run over a JsonlSource whose file    *)
(* grows while it is read, a durable StateStore, and either a              *)
(* SQLiteCollection (current view) or a JsonlDestination (change log).     *)
(*                                                                         *)
(* The input file is a sequence of characters, each a whole JSON object, a *)
(* newline, or Torn, the beginning of an object whose writer has not come  *)
(* further.  Byte offsets are positions in that sequence.                  *)
(***************************************************************************)
EXTENDS Integers, Sequences, FiniteSets

CONSTANTS
  Keys, Values, Absent,
  NoKey,          \* an object without the id field: identified by line number
  NL, Torn,
  BatchSize,      \* JsonlSource.batch_size
  Target,         \* "sqlite" or "jsonl": the destination
  FileKeys,       \* keys the input's objects carry: a subset of Keys \cup {NoKey}
  AppendFaults,   \* "crash", "error": what may interrupt an append to the log
  MayRotate,      \* the input file may be replaced between runs
  MaxChars, MaxFaults      \* bounds on the input and on crashes

\* Lines of the change log, and records of the collection.
Envelopes ==
  [id : Keys \cup Nat, op : {"upsert", "delete"}, val : Values, cursor : Nat, line : Nat]
Records == [val : Values, cursor : Nat, line : Nat]

PipelineAssumption ==
  /\ BatchSize \in Nat \ {0}
  /\ MaxChars \in Nat /\ MaxFaults \in Nat
  /\ NoKey \notin Keys /\ FileKeys \subseteq Keys \cup {NoKey}
  /\ Absent \notin Values \cup Records
  /\ NL # Torn /\ NL \notin Envelopes /\ Torn \notin Envelopes
  /\ Target \in {"sqlite", "jsonl"} /\ AppendFaults \subseteq {"crash", "error"}

VARIABLES
  file,     \* the input file
  saved,    \* connector_state row: [offset, line, prefix]
  pc,       \* "idle", "read", "write", "save"
  pos, line,   \* the reader's byte_offset and line_number
  pending,  \* envelopes not yet written (also gives emitted_since_checkpoint)
  last,     \* the StateMessage being handled is the final one
  view,     \* collection_records: [Ids -> version or Absent]
  log,      \* the output JSONL file: a sequence of envelopes, NL and Torn
  known,    \* _known_versions of the live destination object, or NotLoaded
  faults    \* crashes and errors so far

source == <<file, saved>>
reader == <<pc, pos, line, pending, last>>
vars == <<file, saved, pc, pos, line, pending, last, view, log, known, faults>>

Objects == [key : FileKeys, op : {"upsert", "delete"}, val : Values]
IsObject(ch) == ch \notin {NL, Torn}
Ids == Keys \cup (1..MaxChars)
NotLoaded == {NL}
NoCheckpoint == [offset |-> 0, line |-> 0, prefix |-> <<>>]

(* StateStore.save: one upsert of the stream's row, in its own transaction. *)
StoreSave(checkpoint) == saved' = checkpoint

-------------------------------------------------------------------------------
(* The input: some program appends objects, possibly in two writes, with   *)
(* the newline before or after.                                            *)

LineOpen == file # <<>> /\ file[Len(file)] # NL

AppendChar ==
  /\ Len(file) < MaxChars
  /\ \/ /\ ~LineOpen
        /\ \E ch \in Objects \cup {Torn} : file' = Append(file, ch)
     \/ /\ LineOpen /\ file[Len(file)] # Torn
        /\ file' = Append(file, NL)
  /\ UNCHANGED <<saved, reader, view, log, known, faults>>

CompleteObject ==
  /\ LineOpen /\ file[Len(file)] = Torn
  /\ \E o \in Objects : file' = Append(SubSeq(file, 1, Len(file) - 1), o)
  /\ UNCHANGED <<saved, reader, view, log, known, faults>>

Rotate ==
  /\ MayRotate /\ pc = "idle" /\ faults < MaxFaults
  /\ file' \in {<<>>} \cup {<<o, NL>> : o \in Objects}
  /\ faults' = faults + 1
  /\ UNCHANGED <<saved, reader, view, log, known>>

-------------------------------------------------------------------------------
(* JsonlSource.read *)

Idle == /\ pc' = "idle" /\ pos' = 0 /\ line' = 0
        /\ pending' = <<>> /\ last' = FALSE

MutantPrefixMatches == Len(file) >= saved.offset
PrefixMatches == /\ Len(file) >= saved.offset
                 /\ SubSeq(file, 1, saved.offset) = saved.prefix

(* A run starts: state_store.load, then the source refuses a file that is  *)
(* shorter than the checkpoint or whose checkpointed prefix changed.       *)
Start ==
  /\ pc = "idle" /\ PrefixMatches
  /\ pc' = "read" /\ pos' = saved.offset /\ line' = saved.line
  /\ UNCHANGED <<source, pending, last, view, log, known, faults>>

LineEnd == CHOOSE e \in (pos + 1)..Len(file) :
             /\ \A i \in (pos + 1)..(e - 1) : file[i] # NL
             /\ file[e] = NL \/ e = Len(file)

(* The line without its newline. *)
Content == SubSeq(file, pos + 1, IF file[LineEnd] = NL THEN LineEnd - 1 ELSE LineEnd)

Envelope(o, end, n) ==
  [id |-> IF o.key = NoKey THEN n ELSE o.key, op |-> o.op, val |-> o.val,
   cursor |-> end, line |-> n]

MutantSkipBlank ==
  /\ pc = "read" /\ pos < Len(file) /\ Content = <<>> /\ pending # <<>>
  /\ pos' = LineEnd /\ line' = line + 1
  /\ UNCHANGED <<source, pc, pending, last, view, log, known, faults>>

SkipBlank ==
  /\ pc = "read" /\ pos < Len(file) /\ Content = <<>>
  /\ pos' = LineEnd /\ line' = line + 1
  /\ UNCHANGED <<source, pc, pending, last, view, log, known, faults>>

BatchFull == Len(pending) + 1 >= BatchSize

(* A decoded line becomes an envelope; a full batch yields a StateMessage. *)
ReadObject ==
  /\ pc = "read" /\ pos < Len(file)
  /\ Len(Content) = 1 /\ IsObject(Content[1])
  /\ pos' = LineEnd /\ line' = line + 1
  /\ pending' = Append(pending, Envelope(Content[1], LineEnd, line + 1))
  /\ pc' = IF BatchFull THEN "write" ELSE "read"
  /\ UNCHANGED <<source, last, view, log, known, faults>>

(* A line that is not one JSON object ends the run with an error. *)
RefuseLine ==
  /\ pc = "read" /\ pos < Len(file)
  /\ Content # <<>> /\ (Len(Content) > 1 \/ ~IsObject(Content[1]))
  /\ Idle /\ UNCHANGED <<source, view, log, known, faults>>

MutantEndOfFile ==
  /\ pc = "read" /\ pos = Len(file)
  /\ pc' = "save"
  /\ last' = TRUE
  /\ UNCHANGED <<source, pos, line, pending, view, log, known, faults>>

EndOfFile ==
  /\ pc = "read" /\ pos = Len(file)
  /\ pc' = IF pending = <<>> THEN "save" ELSE "write"
  /\ last' = TRUE
  /\ UNCHANGED <<source, pos, line, pending, view, log, known, faults>>

-------------------------------------------------------------------------------
(* SQLiteCollection.write: one transaction for the batch. *)

Version(e) == [val |-> e.val, cursor |-> e.cursor, line |-> e.line]
Stored(v, e) == [v EXCEPT ![e.id] = IF e.op = "delete" THEN Absent ELSE Version(e)]

MutantWriteOrder ==
  LET v[i \in 0..Len(pending)] ==
        IF i = 0 THEN view ELSE Stored(v[i - 1], pending[Len(pending) - i + 1])
  IN  v[Len(pending)]
Written ==
  LET v[i \in 0..Len(pending)] == IF i = 0 THEN view ELSE Stored(v[i - 1], pending[i])
  IN  v[Len(pending)]

WriteView ==
  /\ pc = "write" /\ Target = "sqlite"
  /\ view' = Written /\ pc' = "save"
  /\ UNCHANGED <<source, pos, line, pending, last, log, known, faults>>

(* JsonlDestination.write: versions already in the file, or earlier in the *)
(* batch, are skipped; the rest is appended and fsynced, and only then     *)
(* remembered.                                                             *)
OwnLine(i) == /\ i > 1 => log[i - 1] = NL
              /\ i < Len(log) => log[i + 1] = NL

(* The envelopes that can be read back: objects on a line of their own. *)
Logged == {log[i] : i \in {j \in 1..Len(log) : IsObject(log[j]) /\ OwnLine(j)}}

(* Every line of the output parses. *)
Loadable == \A i \in 1..Len(log) : log[i] # Torn /\ (IsObject(log[i]) => OwnLine(i))

Versions == IF known = NotLoaded THEN Logged ELSE known

Range(s) == {s[i] : i \in DOMAIN s}

MutantFresh == SelectSeq(pending, LAMBDA e : known = NotLoaded \/ e \notin known)
Fresh ==
  LET Keep(r, e) == IF e \in Versions \cup Range(r) THEN r ELSE Append(r, e)
      kept[i \in 0..Len(pending)] == IF i = 0 THEN <<>> ELSE Keep(kept[i - 1], pending[i])
  IN  kept[Len(pending)]

Lines(envs) ==
  [i \in 1..(2 * Len(envs)) |-> IF i % 2 = 1 THEN envs[(i + 1) \div 2] ELSE NL]

WriteLog ==
  /\ pc = "write" /\ Target = "jsonl"
  /\ known # NotLoaded \/ Loadable
  /\ log' = log \o Lines(Fresh)
  /\ known' = Versions \cup Range(Fresh)
  /\ pc' = "save"
  /\ UNCHANGED <<source, pos, line, pending, last, view, faults>>

(* _load_versions meets a line that does not parse: the run fails. *)
RefuseLog ==
  /\ pc = "write" /\ Target = "jsonl" /\ known = NotLoaded /\ ~Loadable
  /\ Idle /\ UNCHANGED <<source, view, log, known, faults>>

(* What an interrupted append can leave behind: whole characters, and      *)
(* perhaps the beginning of the next object.                               *)
Interrupted(chars) ==
  LET Cut(n) == SubSeq(chars, 1, n)
  IN  {Cut(n) : n \in 0..Len(chars)}
        \cup {Append(Cut(n), Torn) : n \in {i \in 0..(Len(chars) - 1) : chars[i + 1] # NL}}

-------------------------------------------------------------------------------
(* The checkpoint, and everything that ends a run early. *)

NewCheckpoint == [offset |-> pos, line |-> line, prefix |-> SubSeq(file, 1, pos)]

Save ==
  /\ pc = "save"
  /\ StoreSave(NewCheckpoint)
  /\ pending' = <<>>
  /\ IF last THEN pc' = "idle" /\ pos' = 0 /\ line' = 0 /\ last' = FALSE
             ELSE pc' = "read" /\ UNCHANGED <<pos, line, last>>
  /\ UNCHANGED <<file, view, log, known, faults>>

(* A run ends before its checkpoint: the process dies (and its destination *)
(* object with it), or a check, transform, flush or save raises and the    *)
(* caller runs the same Pipeline object again.  close() keeps the versions.*)
Stop ==
  /\ pc # "idle" /\ faults < MaxFaults
  /\ Idle /\ faults' = faults + 1
  /\ known' \in {known, NotLoaded}
  /\ UNCHANGED <<source, view, log>>

(* The append itself is interrupted, by a crash or by an I/O error: what   *)
(* was buffered may reach the file, and _known_versions is not updated.    *)
StopInAppend ==
  /\ pc = "write" /\ Target = "jsonl" /\ faults < MaxFaults
  /\ known # NotLoaded \/ Loadable
  /\ \E chars \in Interrupted(Lines(Fresh)) : log' = log \o chars
  /\ Idle /\ faults' = faults + 1
  /\ \/ "crash" \in AppendFaults /\ known' = NotLoaded
     \/ "error" \in AppendFaults /\ known' = Versions
  /\ UNCHANGED <<source, view>>

-------------------------------------------------------------------------------
Init ==
  /\ file = <<>> /\ saved = NoCheckpoint
  /\ pc = "idle" /\ pos = 0 /\ line = 0 /\ pending = <<>> /\ last = FALSE
  /\ view = [i \in Ids |-> Absent] /\ log = <<>> /\ known = NotLoaded
  /\ faults = 0

Run == \/ Start \/ SkipBlank \/ ReadObject \/ RefuseLine \/ EndOfFile
       \/ WriteView \/ WriteLog \/ RefuseLog \/ Save

Next == AppendChar \/ CompleteObject \/ Rotate \/ Run \/ Stop \/ StopInAppend

Spec == Init /\ [][Next]_vars

(* Runs are started again and again and make progress, and writers finish  *)
(* the object they began.                                                  *)
FairSpec == Spec /\ WF_vars(Run) /\ WF_vars(CompleteObject)

-------------------------------------------------------------------------------
Changes(chars) ==
  LET Add(r, ch) == IF IsObject(ch) THEN Append(r, ch) ELSE r
      told[i \in 0..Len(chars)] == IF i = 0 THEN <<>> ELSE Add(told[i - 1], chars[i])
  IN  told[Len(chars)]
Shown == [k \in Keys |-> IF view[k] = Absent THEN Absent ELSE view[k].val]
\* What readers are promised; MCConnectors checks that it is implemented.
PV == INSTANCE PrefixView WITH input <- Changes(file), view <- Shown

(* The checkpoint never runs ahead of the destination: whatever lies       *)
(* before the saved offset is in the collection (write, flush, save order).*)
CheckpointedIsShown ==
  Target = "sqlite" =>
    \E n \in saved.offset..Len(file) : Shown = PV!Replay(Changes(SubSeq(file, 1, n)))

(* The same for the change log: every object before the saved offset is in *)
(* the log.                                                                *)
CheckpointedIsLogged ==
  Target = "jsonl" =>
    \A i \in 1..saved.offset : IsObject(saved.prefix[i]) =>
      \E e \in Logged : e.op = saved.prefix[i].op /\ e.val = saved.prefix[i].val
                                /\ e.cursor \in {i, i + 1}

(* The change log is idempotent: no version of a record is appended twice, *)
(* whatever is redelivered (_known_versions and _load_versions).           *)
LogIsIdempotent ==
  \A i, j \in 1..Len(log) : i # j /\ IsObject(log[i]) => log[i] # log[j]

(* A checkpoint is only ever replaced by one of a longer prefix that       *)
(* begins with it: a rotated or rewritten file is never taken for the old  *)
(* one (prefix_sha256).                                                    *)
CheckpointOnlyExtends ==
  /\ Len(saved.prefix) <= Len(saved'.prefix)
  /\ SubSeq(saved'.prefix, 1, Len(saved.prefix)) = saved.prefix

(* The collection has caught up with the whole input. *)
EverythingIsShown == Shown = PV!Replay(Changes(file))

(* Every object of the input is in the change log. *)
EverythingIsLogged ==
  \A i \in 1..Len(file) : IsObject(file[i]) => \E e \in Logged : e.cursor \in {i, i + 1}

(* Record ids are stable: replaying the input never shows one object under *)
(* two ids, so there are no more line-numbered records than such objects.  *)
LineIdsAreStable ==
  Cardinality({i \in Ids \ Keys : view[i] # Absent})
    <= Cardinality({i \in 1..Len(file) : IsObject(file[i]) /\ file[i].key = NoKey})
===============================================================================
