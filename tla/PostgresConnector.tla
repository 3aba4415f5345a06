--------------------------- MODULE PostgresConnector ---------------------------
(***************************************************************************)
(* A pipeline from PostgresSource to PostgresDestination.                  *)
(*                                                                         *)
(* The source reads a query in keyset order, page by page, inside one      *)
(* repeatable-read transaction per run, and resumes after the last key of  *)
(* the saved checkpoint: by (cursor, primary key) in incremental mode, by  *)
(* primary key in recurring full-refresh cycles otherwise.  The            *)
(* destination applies a page and its replay ledger in one transaction.    *)
(***************************************************************************)
EXTENDS Integers, Sequences, FiniteSets

CONSTANTS
  N,             \* primary keys are 1..N
  Values, Absent,
  Incremental,   \* a cursor field is configured
  Upsert,        \* destination mode "upsert" (else "insert")
  PageSize, MaxRecords,        \* MaxRecords = 0: no bound per run
  MaxClock, MaxCycle, MaxFaults    \* bounds: commits, cycles, crashes

ConnectorAssumption ==
  /\ N \in Nat \ {0} /\ PageSize \in Nat \ {0} /\ MaxRecords \in Nat
  /\ Incremental \in BOOLEAN /\ Upsert \in BOOLEAN
  /\ MaxClock \in Nat /\ MaxCycle \in Nat /\ MaxFaults \in Nat

Keys == 1..N

VARIABLES
  table,    \* [Keys -> [val, cur] or Absent], the queried rows
  clock,    \* cursor value of the last commit
  state,    \* saved checkpoint: [after, cycle]; after = 0: from the start
  pc,       \* "idle", "read", "write", "save"
  snap,     \* the run's repeatable-read view of table
  after, cycle, emitted,   \* locals of PostgresSource.read
  page,     \* envelopes of the page not yet checkpointed
  next,     \* the StateMessages still to handle, in order
  last,     \* read() returns behind them
  target,   \* [Keys -> Values or Absent], destination table in upsert mode
  inserted, \* bag of envelopes inserted, destination table in insert mode
  ledger,   \* replay ledger: set of event identities
  dirty,    \* keys committed since the current cycle began (history)
  faults

db == <<table, clock, dirty>>
sink == <<target, inserted, ledger>>
locals == <<snap, after, cycle, emitted, page, next, last>>
vars == <<table, clock, state, pc, snap, after, cycle, emitted, page, next, last,
          target, inserted, ledger, dirty, faults>>

NoRows == [k \in Keys |-> Absent]

-------------------------------------------------------------------------------
(* The source database: transactions that commit rows with a strictly      *)
(* increasing cursor, possibly several rows at once, or delete one.        *)

Commit ==
  /\ clock < MaxClock
  /\ clock' = clock + 1
  /\ \E S \in (SUBSET Keys) \ {{}}, v \in Values :
       /\ table' = [k \in Keys |-> IF k \in S THEN [val |-> v, cur |-> clock + 1]
                                   ELSE table[k]]
       /\ dirty' = dirty \cup S
  /\ UNCHANGED <<state, pc, locals, sink, faults>>

DeleteRow ==
  /\ clock < MaxClock
  /\ clock' = clock + 1
  /\ \E k \in Keys : /\ table[k] # Absent
                     /\ table' = [table EXCEPT ![k] = Absent]
                     /\ dirty' = dirty \cup {k}
  /\ UNCHANGED <<state, pc, locals, sink, faults>>

-------------------------------------------------------------------------------
(* PostgresSource.read *)

(* Place of a row in ORDER BY (cursor, primary key) or (primary key). *)
MutantOrder(k, row) == IF Incremental THEN row.cur ELSE k
Order(k, row) == IF Incremental THEN row.cur * (N + 1) + k ELSE k

Start ==
  /\ pc = "idle" /\ state.cycle < MaxCycle
  /\ pc' = "read" /\ snap' = table
  /\ after' = state.after /\ cycle' = state.cycle /\ emitted' = 0
  /\ UNCHANGED <<db, state, page, next, last, sink, faults>>

(* The rows behind the keyset position. *)
Remaining == {k \in Keys : snap[k] # Absent /\ Order(k, snap[k]) > after}

PageLimit == IF MaxRecords = 0 \/ MaxRecords - emitted > PageSize THEN PageSize
             ELSE MaxRecords - emitted

(* The envelope's identity: key, values, cursor, and in snapshot mode the  *)
(* cycle (_event_hash drops only observed_at and provenance).              *)
MutantEvent(k) == [key |-> k, val |-> snap[k].val,
                   cur |-> IF Incremental THEN snap[k].cur ELSE 0, cycle |-> 0]
Event(k) == [key |-> k, val |-> snap[k].val,
             cur |-> IF Incremental THEN snap[k].cur ELSE 0,
             cycle |-> IF Incremental THEN 0 ELSE cycle]

(* _page_query: the first of them in order, as many as the page may hold. *)
Before(k) == {j \in Remaining : Order(j, snap[j]) < Order(k, snap[k])}
PageKeys == {k \in Remaining : Cardinality(Before(k)) < PageLimit}

\* As in FiniteSetsExt, of which the proofs need no more.
Max(S) == CHOOSE x \in S : \A y \in S : x >= y
Position(order) == [after |-> order, cycle |-> cycle]
EndOfCycle == [after |-> 0, cycle |-> cycle + 1]

EmitPage ==
  /\ pc = "read" /\ PageLimit > 0 /\ Remaining # {}
  /\ LET done == Cardinality(PageKeys) < PageLimit
     IN  /\ page' = {Event(k) : k \in PageKeys}
         /\ after' = Max({Order(k, snap[k]) : k \in PageKeys})
         /\ emitted' = emitted + Cardinality(PageKeys)
         /\ next' = IF done /\ ~Incremental THEN <<Position(after'), EndOfCycle>>
                    ELSE <<Position(after')>>
         /\ last' = done
  /\ pc' = "write"
  /\ UNCHANGED <<db, state, snap, cycle, sink, faults>>

(* No row is left: a full refresh starts its next cycle, the first         *)
(* incremental run on an empty table saves an empty position.              *)
EmptyPage ==
  /\ pc = "read" /\ PageLimit > 0 /\ Remaining = {}
  /\ next' = IF Incremental THEN <<>> ELSE <<EndOfCycle>>
  /\ last' = TRUE
  /\ pc' = "save"
  /\ UNCHANGED <<db, state, snap, after, cycle, emitted, page, sink, faults>>

Idle == /\ pc' = "idle" /\ snap' = NoRows /\ after' = 0 /\ cycle' = 0
        /\ emitted' = 0 /\ page' = {} /\ next' = <<>> /\ last' = FALSE

(* max_records is reached between pages. *)
RunBound ==
  /\ pc = "read" /\ PageLimit <= 0
  /\ Idle /\ UNCHANGED <<db, state, sink, faults>>

-------------------------------------------------------------------------------
(* PostgresDestination.write: under the target's advisory lock, in one     *)
(* transaction, each event that is not in the ledger is applied and        *)
(* recorded.  A page has one row for a key.                                *)

MutantUnrecorded == page
Unrecorded == page \ ledger

Upserted(k) == LET rows == {e \in Unrecorded : e.key = k}
               IN  IF rows = {} THEN target[k] ELSE (CHOOSE e \in rows : TRUE).val

\* How often each event was inserted, with these events once more.
Inserted(es) ==
  [e \in DOMAIN inserted \cup es |->
     (IF e \in DOMAIN inserted THEN inserted[e] ELSE 0) + (IF e \in es THEN 1 ELSE 0)]

Write ==
  /\ pc = "write"
  /\ IF Upsert
     THEN target' = [k \in Keys |-> Upserted(k)] /\ UNCHANGED inserted
     ELSE inserted' = Inserted(Unrecorded) /\ UNCHANGED target
  /\ ledger' = ledger \cup Unrecorded
  /\ pc' = "save"
  /\ UNCHANGED <<db, state, locals, faults>>

(* reset(): replace with no records truncates the target and its ledger. *)
Reset ==
  /\ ~Incremental /\ faults < MaxFaults
  /\ target' = NoRows /\ inserted' = <<>> /\ ledger' = {}
  /\ faults' = faults + 1 /\ dirty' = Keys
  /\ UNCHANGED <<table, clock, state, pc, locals>>

(* The pipeline saves one StateMessage; behind the last one the run ends.  *)
Save ==
  /\ pc = "save"
  /\ \/ /\ next # <<>>
        /\ state' = Head(next) /\ next' = Tail(next) /\ page' = {}
        /\ dirty' = IF Head(next).cycle > state.cycle THEN {} ELSE dirty
        /\ UNCHANGED <<pc, snap, after, cycle, emitted, last>>
     \/ /\ next = <<>> /\ last
        /\ Idle /\ UNCHANGED <<state, dirty>>
     \/ /\ next = <<>> /\ ~last /\ pc' = "read"
        /\ UNCHANGED <<state, dirty, locals>>
  /\ UNCHANGED <<table, clock, sink, faults>>

(* The process dies, or the connection breaks, anywhere in a run. *)
Crash ==
  /\ pc # "idle" /\ faults < MaxFaults
  /\ Idle /\ faults' = faults + 1
  /\ UNCHANGED <<db, state, sink>>

-------------------------------------------------------------------------------
Init ==
  /\ table = NoRows /\ clock = 0 /\ state = [after |-> 0, cycle |-> 0]
  /\ pc = "idle" /\ snap = NoRows /\ after = 0 /\ cycle = 0 /\ emitted = 0
  /\ page = {} /\ next = <<>> /\ last = FALSE
  /\ target = NoRows /\ inserted = <<>> /\ ledger = {} /\ dirty = Keys
  /\ faults = 0

Run == Start \/ EmitPage \/ EmptyPage \/ RunBound \/ Write \/ Save

Next == Commit \/ DeleteRow \/ Run \/ Reset \/ Crash

Spec == Init /\ [][Next]_vars
FairSpec == Spec /\ WF_vars(Run)

-------------------------------------------------------------------------------
(* The keyset position never passes a row that was not applied: whatever   *)
(* lies at or before the saved position is in the target with its current  *)
(* value (incremental mode, page boundaries inside one commit, per-run     *)
(* bounds and redelivery included).                                        *)
CheckpointedRowsAreApplied ==
  Incremental /\ Upsert =>
    \A k \in Keys : table[k] # Absent /\ Order(k, table[k]) <= state.after
                      => target[k] = table[k].val

(* Retrying is idempotent: in insert mode no event is inserted twice       *)
(* although pages are redelivered after a crash (the replay ledger).       *)
NoEventIsInsertedTwice == \A e \in DOMAIN inserted : inserted[e] = 1

(* A full-refresh cycle that ends has applied every row that did not       *)
(* change since it began, also when the row returned to an earlier value   *)
(* (A -> B -> A over three cycles).                                        *)
EndedCycleIsComplete ==
  state'.cycle > state.cycle =>
    \A k \in Keys \ dirty :
      table[k] # Absent =>
        IF Upsert THEN target[k] = table[k].val
        ELSE \E e \in DOMAIN inserted :
               e.key = k /\ e.val = table[k].val /\ e.cycle = state.cycle

(* Every row of the source is in the target. *)
RowsHaveArrived == \A k \in Keys : table[k] # Absent => target[k] = table[k].val
===============================================================================
