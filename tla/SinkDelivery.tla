------------------------------ MODULE SinkDelivery ------------------------------
(***************************************************************************)
(* The database writer node under at-least-once recovery.                  *)
(*                                                                         *)
(* Several runs write to one target.  A run's node may be executed again   *)
(* after a crash, after a lost lease while the old worker still works, by  *)
(* the runner's own attempts and after a retry of the failed run.  Every   *)
(* execution of a run is given the same rows, from the checkpoint of its   *)
(* predecessor or from a predecessor that, executed again, puts out the    *)
(* same.  A pause or cancellation is left out.                             *)
(***************************************************************************)
EXTENDS Integers, Sequences, FiniteSets

CONSTANTS
  Runs, Workers,
  Mode,           \* "insert", "upsert" or "replace"
  Keys, Vals,
  MaxRows,        \* bound on the rows of a run
  MaxRetries,     \* RetryConfig.max_retries
  NoOne,
  MaxFaults       \* bound

SinkAssumption ==
  /\ Mode \in {"insert", "upsert", "replace"}
  /\ MaxRows \in Nat /\ MaxRetries \in Nat \ {0} /\ MaxFaults \in Nat

VARIABLES
  rows,      \* per run: the rows its node is given, a sequence of [key, val]
  status,    \* per run's node: "ready", "completed" or "failed"
  owner,     \* per run: the worker that holds its lease, or NoOne
  exec,      \* per worker: [run, stage, attempt]
  attempts,  \* per run: calls of the node's execute in its latest execution
  table,     \* events in the target, a sequence
  ledger,    \* identities of applied events
  wrote,     \* runs whose rows were committed (history)
  faults

vars == <<rows, status, owner, exec, attempts, table, ledger, wrote, faults>>

Resting == [run |-> NoOne, stage |-> "idle", attempt |-> 0]

(* _rows_to_envelopes and _event_hash: an event is a row at its index in   *)
(* its run; the run and the index are in the hash in every mode.           *)
Events(r) ==
  [i \in DOMAIN rows[r] |-> [run |-> r, index |-> i, key |-> rows[r][i].key, val |-> rows[r][i].val]]
MutantIdentity(e) == <<e.key, e.val>>
Identity(e) == <<e.run, e.index, e.key, e.val>>

-------------------------------------------------------------------------------
(* PostgresDestination.write and replace: one transaction under the        *)
(* target's advisory lock.                                                 *)
MutantApply(d, e) ==
  [table |-> IF Mode = "upsert"
             THEN Append(SelectSeq(d.table, LAMBDA x : x.key # e.key), e)
             ELSE Append(d.table, e),
   ledger |-> d.ledger \cup {Identity(e)}]
Apply(d, e) ==
  IF Identity(e) \in d.ledger THEN d
  ELSE [table |-> IF Mode = "upsert"
                  THEN Append(SelectSeq(d.table, LAMBDA x : x.key # e.key), e)
                  ELSE Append(d.table, e),
        ledger |-> d.ledger \cup {Identity(e)}]
MutantCleared == [table |-> <<>>, ledger |-> ledger]
Cleared == [table |-> <<>>, ledger |-> {}]
Transaction(r) ==
  LET start == IF Mode = "replace" THEN Cleared ELSE [table |-> table, ledger |-> ledger]
      after[i \in 0..Len(rows[r])] == IF i = 0 THEN start ELSE Apply(after[i - 1], Events(r)[i])
      end == after[Len(rows[r])]
  IN  table' = end.table /\ ledger' = end.ledger /\ wrote' = wrote \cup {r}

-------------------------------------------------------------------------------
(* A worker takes a run that is queued or whose lease has run out. *)
Start(w) ==
  /\ exec[w] = Resting
  /\ \E r \in Runs :
       /\ status[r] = "ready"
       /\ owner' = [owner EXCEPT ![r] = w]
       /\ exec' = [exec EXCEPT ![w] = [run |-> r, stage |-> "attempt", attempt |-> 1]]
       /\ attempts' = [attempts EXCEPT ![r] = 1]
  /\ UNCHANGED <<rows, status, table, ledger, wrote, faults>>

Write(w) ==
  /\ exec[w].stage = "attempt"
  /\ Transaction(exec[w].run)
  /\ exec' = [exec EXCEPT ![w].stage = "written"]
  /\ UNCHANGED <<rows, status, owner, attempts, faults>>

(* The node catches its exceptions and returns an unsuccessful result, not *)
(* knowing whether the transaction was committed.  The runner does not try *)
(* such a result again.                                                    *)
Settle(w, s) ==
  LET r == exec[w].run
  IN  /\ status' = IF owner[r] = w THEN [status EXCEPT ![r] = s] ELSE status
      /\ owner' = IF owner[r] = w THEN [owner EXCEPT ![r] = NoOne] ELSE owner
      /\ exec' = [exec EXCEPT ![w] = Resting]
NodeFails(w) ==
  /\ exec[w].stage = "attempt" /\ faults < MaxFaults /\ faults' = faults + 1
  /\ Transaction(exec[w].run) \/ UNCHANGED <<table, ledger, wrote>>
  /\ Settle(w, "failed")
  /\ UNCHANGED <<rows, attempts>>

(* Reading the run's status before or after the node raises: retry_async   *)
(* runs the whole attempt again, or gives up after the last one.           *)
ControlReadFails(w) ==
  /\ exec[w].stage \in {"attempt", "written"} /\ faults < MaxFaults /\ faults' = faults + 1
  /\ IF exec[w].attempt < MaxRetries
     THEN /\ exec' = [exec EXCEPT ![w].stage = "attempt", ![w].attempt = @ + 1]
          /\ attempts' = [attempts EXCEPT ![exec[w].run] = exec[w].attempt + 1]
          /\ UNCHANGED <<status, owner>>
     ELSE Settle(w, "failed") /\ UNCHANGED attempts
  /\ UNCHANGED <<rows, table, ledger, wrote>>

(* The node's row and checkpoint. *)
Checkpoint(w) ==
  /\ exec[w].stage = "written"
  /\ Settle(w, "completed")
  /\ UNCHANGED <<rows, attempts, table, ledger, wrote, faults>>

Crash(w) ==
  /\ exec[w] # Resting /\ faults < MaxFaults /\ faults' = faults + 1
  /\ exec' = [exec EXCEPT ![w] = Resting]
  /\ UNCHANGED <<rows, status, owner, attempts, table, ledger, wrote>>

(* retry_failed_nodes *)
RetryFailed(r) ==
  /\ status[r] = "failed"
  /\ status' = [status EXCEPT ![r] = "ready"]
  /\ UNCHANGED <<rows, owner, exec, attempts, table, ledger, wrote, faults>>

-------------------------------------------------------------------------------
Init ==
  /\ rows \in [Runs -> UNION {[1..n -> [key : Keys, val : Vals]] : n \in 1..MaxRows}]
  /\ status = [r \in Runs |-> "ready"]
  /\ owner = [r \in Runs |-> NoOne]
  /\ exec = [w \in Workers |-> Resting]
  /\ attempts = [r \in Runs |-> 0]
  /\ table = <<>> /\ ledger = {} /\ wrote = {} /\ faults = 0

Next ==
  \/ \E w \in Workers :
       \/ Start(w) \/ Write(w) \/ NodeFails(w) \/ ControlReadFails(w)
       \/ Checkpoint(w) \/ Crash(w)
  \/ \E r \in Runs : RetryFailed(r)
Spec == Init /\ [][Next]_vars

-------------------------------------------------------------------------------
(* Insert mode: every row of a run is inserted at most once, by however    *)
(* many executions, and exactly once when the run's node has completed,    *)
(* also when another run wrote the same values.                            *)
RowsAreInsertedOnce ==
  LET copies(e) == Cardinality({i \in DOMAIN table : table[i] = e})
  IN  Mode = "insert" => \A r \in Runs : \A i \in DOMAIN rows[r] :
        /\ copies(Events(r)[i]) <= 1
        /\ status[r] = "completed" => copies(Events(r)[i]) = 1

(* Insert and upsert mode: executing a run again changes nothing, so an    *)
(* old run that is recovered late does not undo what a newer one wrote.    *)
RedeliveryChangesNothing ==
  Mode # "replace" /\ table' # table => wrote' # wrote

(* Replace mode: the target always holds the rows of one run, whole.       *)
ReplaceIsWhole ==
  Mode = "replace" /\ wrote # {} => \E r \in wrote : table = Events(r)

(* "Raises on failure so retry_async can catch it": a node fails only      *)
(* after max_retries attempts.                                             *)
FailuresAreRetried ==
  \A r \in Runs : status[r] = "failed" => attempts[r] = MaxRetries
===============================================================================
