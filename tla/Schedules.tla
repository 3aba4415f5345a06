------------------------------- MODULE Schedules -------------------------------
(***************************************************************************)
(* Schedule triggers and the polling loops that dispatch them.             *)
(*                                                                         *)
(* Every API process runs a TriggerScheduler.  A poll reads the process's  *)
(* clock, locks a batch of due rows that no other transaction holds,       *)
(* creates one run per row and moves the row's next_run_at, each row in a  *)
(* savepoint of its own, and commits once.  Owners create, change, disable *)
(* and delete triggers meanwhile; clocks differ by up to Skew and a        *)
(* process may die inside its transaction.                                 *)
(***************************************************************************)
EXTENDS Integers, FiniteSets, Sequences

CONSTANTS
  Processes,
  NumTriggers,   \* triggers are 1..NumTriggers, in the order of their ids
  Batch,         \* trigger_scheduler_batch_size
  Skew,          \* clocks are within Skew of the time
  Periods,       \* interval_seconds, and the periods of cron expressions
  Poison,        \* triggers whose dispatch always raises
  MaxTime, MaxEdits, MaxFaults    \* bounds

SchedulesAssumption ==
  /\ NumTriggers \in Nat /\ Batch \in Nat \ {0} /\ Skew \in Nat
  /\ Periods \subseteq Nat \ {0} /\ Poison \subseteq 1..NumTriggers
  /\ MaxTime \in Nat /\ MaxEdits \in Nat /\ MaxFaults \in Nat

Triggers == 1..NumTriggers
Null == -1       \* a column that is NULL
Unset == -2      \* a field the PATCH leaves out
Never == Null    \* next_run_at of a trigger that is not scheduled

VARIABLES
  now,
  trigger,   \* the row: [exists, enabled, kind, interval, cron, next, edition]
             \* a cron expression stands for its period; edition counts the
             \* owner's changes to the schedule
  tx,        \* per process: [stage, at, rows, staged]
  runs,      \* committed scheduled runs: [trigger, edition, every, for, at]
  edits, faults

vars == <<now, trigger, tx, runs, edits, faults>>

Clocks == {c \in (now - Skew)..(now + Skew) : c >= 0}
Closed == [stage |-> "idle", at |-> 0, rows |-> {}, staged |-> <<>>]

(* Rows a transaction has locked: those it works on and those it changed.  *)
Locked(p) == tx[p].rows \cup {tx[p].staged[i].trigger : i \in DOMAIN tx[p].staged}
Free(t) == \A p \in Processes : t \notin Locked(p)

-------------------------------------------------------------------------------
(* compute_next_run_at: the first instant after at, on the anchor's cadence *)
(* for an interval and on the expression's own for cron.                    *)
MutantAfter(kind, every, anchor, at) ==
  IF kind = "cron" THEN (at \div every + 1) * every ELSE at + every
After(kind, every, anchor, at) ==
  CASE kind = "cron" -> (at \div every + 1) * every
    [] kind = "interval" /\ anchor = Never -> at + every
    [] kind = "interval" /\ anchor # Never ->
         IF anchor > at THEN anchor ELSE anchor + ((at - anchor) \div every + 1) * every

Every(row) == IF row.kind = "cron" THEN row.cron ELSE row.interval

(* validate_schedule_configuration: exactly the kind's own field is set.   *)
Valid(kind, interval, cron) ==
  \/ kind = "interval" /\ interval # Null /\ cron = Null
  \/ kind = "cron" /\ cron # Null /\ interval = Null

(* create_trigger and update_trigger start a cadence afresh; a disabled    *)
(* trigger has none.                                                       *)
Scheduled(row, at) ==
  [row EXCEPT !.next = IF row.enabled THEN After(row.kind, Every(row), Never, at) ELSE Never,
              !.edition = @ + 1]

Create(t) ==
  /\ edits < MaxEdits /\ edits' = edits + 1
  /\ ~trigger[t].exists /\ trigger[t].edition = 0
  /\ \E c \in Clocks, i \in Periods \cup {Null}, x \in Periods \cup {Null},
        k \in {"interval", "cron"}, on \in BOOLEAN :
       /\ Valid(k, i, x)
       /\ trigger' = [trigger EXCEPT ![t] =
            Scheduled([exists |-> TRUE, enabled |-> on, kind |-> k, interval |-> i, cron |-> x,
                       next |-> Never, edition |-> 0], c)]
  /\ UNCHANGED <<now, tx, runs, faults>>

(* PATCH bodies.  update_trigger merges them with the row: a new kind      *)
(* drops the other kind's field unless the PATCH sets it.                  *)
Patches ==
  [kind: {"unset", "interval", "cron"}, interval: Periods \cup {Null, Unset},
   cron: Periods \cup {Null, Unset}, enabled: {"unset", "on", "off"}]
Given(value, default) == IF value = Unset THEN default ELSE value
MutantMerged(row, patch) ==
  [row EXCEPT
     !.kind = IF patch.kind = "unset" THEN @ ELSE patch.kind,
     !.interval = Given(patch.interval, IF patch.kind = "cron" THEN Null ELSE @),
     !.cron = Given(patch.cron, IF patch.kind = "interval" THEN Null ELSE @),
     !.enabled = IF patch.enabled = "unset" THEN TRUE ELSE patch.enabled = "on"]
Merged(row, patch) ==
  [row EXCEPT
     !.kind = IF patch.kind = "unset" THEN @ ELSE patch.kind,
     !.interval = Given(patch.interval, IF patch.kind = "cron" THEN Null ELSE @),
     !.cron = Given(patch.cron, IF patch.kind = "interval" THEN Null ELSE @),
     !.enabled = IF patch.enabled = "unset" THEN @ ELSE patch.enabled = "on"]

(* update_trigger, on a row its caller has locked; an invalid merge is     *)
(* refused, and only a change of the schedule or of enabled schedules anew.*)
Patched(t, patch, at) ==
  LET row == Merged(trigger[t], patch)
      anew == patch # [kind |-> "unset", interval |-> Unset, cron |-> Unset, enabled |-> "unset"]
  IN  /\ Valid(row.kind, row.interval, row.cron)
      /\ trigger' = [trigger EXCEPT ![t] = IF anew THEN Scheduled(row, at) ELSE row]
MutantUpdate(t) ==
  /\ edits < MaxEdits /\ edits' = edits + 1
  /\ trigger[t].exists
  /\ \E c \in Clocks, patch \in Patches : Patched(t, patch, c)
  /\ UNCHANGED <<now, tx, runs, faults>>
Update(t) ==
  /\ edits < MaxEdits /\ edits' = edits + 1
  /\ trigger[t].exists /\ Free(t)
  /\ \E c \in Clocks, patch \in Patches : Patched(t, patch, c)
  /\ UNCHANGED <<now, tx, runs, faults>>

Delete(t) ==
  /\ edits < MaxEdits /\ edits' = edits + 1
  /\ trigger[t].exists /\ Free(t)
  /\ trigger' = [trigger EXCEPT ![t].exists = FALSE, ![t].enabled = FALSE, ![t].next = Never]
  /\ UNCHANGED <<now, tx, runs, faults>>

-------------------------------------------------------------------------------
(* TriggerScheduler._loop and dispatch_due_schedules *)

(* The poll reads the clock before it opens the transaction. *)
Poll(p) ==
  /\ tx[p].stage = "idle"
  /\ \E c \in Clocks : tx' = [tx EXCEPT ![p] = [Closed EXCEPT !.stage = "polled", !.at = c]]
  /\ UNCHANGED <<now, trigger, runs, edits, faults>>

Due(at) == {t \in Triggers : trigger[t].enabled /\ trigger[t].next # Never /\ trigger[t].next <= at}
Earlier(t, u) ==
  \/ trigger[t].next < trigger[u].next
  \/ trigger[t].next = trigger[u].next /\ t < u

(* SELECT ... ORDER BY next_run_at, id LIMIT batch FOR UPDATE SKIP LOCKED *)
MutantBatched(at) ==
  LET due == Due(at)
  IN  {t \in due : Free(t) /\ Cardinality({u \in due : Earlier(u, t)}) < 1}
Batched(at) ==
  LET due == {t \in Due(at) : Free(t)}
  IN  {t \in due : Cardinality({u \in due : Earlier(u, t)}) < Batch}

Claim(p) ==
  /\ tx[p].stage = "polled"
  /\ tx' = [tx EXCEPT ![p].stage = "open", ![p].rows = Batched(tx[p].at)]
  /\ UNCHANGED <<now, trigger, runs, edits, faults>>

(* One row: the run and the row's new next_run_at, in a savepoint.  A row  *)
(* whose savepoint is rolled back stays due.                               *)
First(p) == CHOOSE t \in tx[p].rows : \A u \in tx[p].rows \ {t} : Earlier(t, u)
Stage(p, t) ==
  IF t \in Poison THEN [tx[p] EXCEPT !.rows = @ \ {t}]
  ELSE [tx[p] EXCEPT !.rows = @ \ {t},
                     !.staged = Append(@, [trigger |-> t, for |-> trigger[t].next,
                       next |-> After(trigger[t].kind, Every(trigger[t]),
                                      trigger[t].next, tx[p].at)])]
Dispatch(p) ==
  /\ tx[p].stage = "open" /\ tx[p].rows # {}
  /\ tx' = [tx EXCEPT ![p] = Stage(p, First(p))]
  /\ UNCHANGED <<now, trigger, runs, edits, faults>>

(* The savepoint of one row fails for a passing reason. *)
Fail(p) ==
  /\ tx[p].stage = "open" /\ tx[p].rows # {}
  /\ faults < MaxFaults /\ faults' = faults + 1
  /\ tx' = [tx EXCEPT ![p].rows = @ \ {First(p)}]
  /\ UNCHANGED <<now, trigger, runs, edits>>

Commit(p) ==
  /\ tx[p].stage = "open" /\ tx[p].rows = {}
  /\ LET staged == tx[p].staged
     IN  /\ runs' = runs \o [i \in DOMAIN staged |->
                      [trigger |-> staged[i].trigger, for |-> staged[i].for, at |-> tx[p].at,
                       edition |-> trigger[staged[i].trigger].edition,
                       every |-> Every(trigger[staged[i].trigger])]]
         /\ trigger' = [t \in Triggers |->
              IF \E i \in DOMAIN staged : staged[i].trigger = t
              THEN [trigger[t] EXCEPT !.next =
                      staged[CHOOSE i \in DOMAIN staged : staged[i].trigger = t].next]
              ELSE trigger[t]]
  /\ tx' = [tx EXCEPT ![p] = Closed]
  /\ UNCHANGED <<now, edits, faults>>

(* The process dies, or the database refuses: the transaction is undone.   *)
Crash(p) ==
  /\ tx[p].stage # "idle" /\ faults < MaxFaults /\ faults' = faults + 1
  /\ tx' = [tx EXCEPT ![p] = Closed]
  /\ UNCHANGED <<now, trigger, runs, edits>>

Tick == now < MaxTime /\ now' = now + 1 /\ UNCHANGED <<trigger, tx, runs, edits, faults>>

-------------------------------------------------------------------------------
Init ==
  /\ now = 0 /\ runs = <<>> /\ edits = 0 /\ faults = 0
  /\ trigger = [t \in Triggers |-> [exists |-> FALSE, enabled |-> FALSE, kind |-> "interval",
                                    interval |-> Null, cron |-> Null, next |-> Never,
                                    edition |-> 0]]
  /\ tx = [p \in Processes |-> Closed]

Loop(p) == Poll(p) \/ Claim(p) \/ Dispatch(p) \/ Commit(p)
Next ==
  \/ Tick
  \/ \E t \in Triggers : Create(t) \/ Update(t) \/ Delete(t)
  \/ \E p \in Processes : Loop(p) \/ Fail(p) \/ Crash(p)

(* Every process polls again and again, and its clock is at some polls not *)
(* behind the time.                                                        *)
Fairness ==
  /\ WF_vars(Tick)
  /\ \A p \in Processes :
       /\ WF_vars(Loop(p))
       /\ SF_vars(Poll(p) /\ tx'[p].at >= now)
Spec == Init /\ [][Next]_vars /\ Fairness

-------------------------------------------------------------------------------
(* Two runs of one edition of a trigger are for different instants on one  *)
(* cadence, and the second is for an instant after the first was           *)
(* dispatched: an occurrence runs once, whichever processes see it due,    *)
(* and missed occurrences are skipped and not replayed.                    *)
CadenceIsKept ==
  \A i, j \in DOMAIN runs :
    LET a == runs[i]  b == runs[j]
    IN  i < j /\ a.trigger = b.trigger /\ a.edition = b.edition =>
          /\ b.for > a.at
          /\ (b.for - a.for) % a.every = 0

(* However the owner's PATCHes merge with the row, a stored trigger has a  *)
(* complete schedule of one kind, is due at some time exactly when it is   *)
(* enabled, and an expired next_run_at is never left behind by disabling.  *)
RowsAreConsistent ==
  \A t \in Triggers : trigger[t].exists =>
    /\ Every(trigger[t]) \in Periods /\ (trigger[t].interval = Null) # (trigger[t].cron = Null)
    /\ trigger[t].enabled = (trigger[t].next # Never)

(* A run appears only together with the advance of its trigger's           *)
(* next_run_at, and only while the owner has the trigger enabled.          *)
DispatchIsAtomic ==
  \A i \in DOMAIN runs' \ DOMAIN runs :
    LET t == runs'[i].trigger
    IN  /\ trigger[t].enabled /\ trigger[t].next = runs'[i].for
        /\ trigger'[t].next > runs'[i].at

(* A trigger is due since n. *)
DueSince(t, n) == trigger[t].next = n /\ n <= now

-------------------------------------------------------------------------------
(* Why the cadence is kept *)

Row == [exists : BOOLEAN, enabled : BOOLEAN, kind : {"interval", "cron"},
        interval : Periods \cup {Null}, cron : Periods \cup {Null}, next : Nat \cup {Never},
        edition : Nat]
Advance == [trigger : Triggers, for : Nat, next : Nat]
Run == [trigger : Triggers, for : Nat, at : Nat, edition : Nat, every : Periods]
TypeInv ==
  /\ now \in Nat /\ trigger \in [Triggers -> Row] /\ runs \in Seq(Run)
  /\ tx \in [Processes -> [stage : {"idle", "polled", "open"}, at : Nat, rows : SUBSET Triggers,
                           staged : Seq(Advance)]]

(* A row that is gone is not scheduled; cron's instants are multiples. *)
Consistent(row) ==
  /\ row.exists => Every(row) \in Periods /\ (row.interval = Null) # (row.cron = Null)
  /\ row.enabled = (row.next # Never) /\ (row.enabled => row.exists)
  /\ row.enabled /\ row.kind = "cron" => row.next % row.cron = 0
RowsInv == \A t \in Triggers : Consistent(trigger[t])

(* What a transaction has locked was due at its time and is as it found it;*)
(* what it has staged is the next instant of the row's cadence after that. *)
Held(at, row) == row.enabled /\ row.next <= at
StagedIsNext(at, u, row) ==
  /\ Held(at, row) /\ u.for = row.next
  /\ u.next > at /\ (u.next - u.for) % Every(row) = 0
  /\ row.kind = "cron" => u.next % row.cron = 0
LocksInv ==
  \A p \in Processes :
    LET rows == tx[p].rows  staged == tx[p].staged
    IN  /\ tx[p].stage # "open" => rows = {} /\ staged = <<>>
        /\ \A t \in rows : Held(tx[p].at, trigger[t])
        /\ \A i \in DOMAIN staged :
             /\ staged[i].trigger \notin rows
             /\ StagedIsNext(tx[p].at, staged[i], trigger[staged[i].trigger])
        /\ \A i, j \in DOMAIN staged : staged[i].trigger = staged[j].trigger => i = j
LocksDiffer == \A p, q \in Processes : p # q => Locked(p) \cap Locked(q) = {}

(* A trigger is due only after its runs, on their cadence. *)
Behind(r, row) ==
  /\ r.edition <= row.edition
  /\ r.edition = row.edition =>
       /\ r.every = Every(row)
       /\ row.next # Never => row.next > r.at /\ (row.next - r.for) % r.every = 0
RunsInv == \A i \in DOMAIN runs : Behind(runs[i], trigger[runs[i].trigger])

IInv == TypeInv /\ RowsInv /\ LocksInv /\ LocksDiffer /\ RunsInv /\ CadenceIsKept
===============================================================================
