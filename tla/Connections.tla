------------------------------ MODULE Connections ------------------------------
(***************************************************************************)
(* A saved connection: created, edited, tested and deleted through the API *)
(* by requests that overlap.                                               *)
(*                                                                         *)
(* A request reads the row, works on its copy without a lock and commits.  *)
(* The ORM writes only the columns whose value differs from what was read. *)
(* A test probes the remote system between the read and the commit.        *)
(***************************************************************************)
EXTENDS Integers, FiniteSets

CONSTANTS
  Requests,      \* request handlers that may be active at a time
  Owner, Admin, Stranger,
  Type,          \* "postgres" or "discord"
  Overlapping,   \* whether requests overlap
  MaxConfigs     \* bound on the configurations saved

Users == {Owner, Admin, Stranger}
ConnectionsAssumption ==
  /\ Overlapping \in BOOLEAN /\ MaxConfigs \in Nat \ {0} /\ Type \in {"postgres", "discord"}

VARIABLES
  row,       \* [exists, config, is_valid]; a configuration is the number of its save
  request,   \* per handler: [op, config, is_valid, arg], what it read and its argument
  issued,    \* configurations given out to saves
  saved,     \* the configuration saved last
  passed     \* configurations whose probe succeeded

vars == <<row, request, issued, saved, passed>>

Idle == [op |-> "none", config |-> 0, is_valid |-> FALSE, arg |-> 0]
MayStart(r) ==
  /\ request[r] = Idle
  /\ Overlapping \/ \A q \in Requests : request[q] = Idle

-------------------------------------------------------------------------------
(* create_connection: the configuration is validated, encrypted and not    *)
(* valid until it has been tested.                                         *)
Create(r) ==
  /\ MayStart(r) /\ issued = 0
  /\ row' = [exists |-> TRUE, config |-> 1, is_valid |-> FALSE]
  /\ issued' = 1 /\ saved' = 1
  /\ UNCHANGED <<request, passed>>

(* A request reads the row.  Editing and deleting are the owner's; an      *)
(* administrator may test.                                                 *)
Allowed(op, u) == u = Owner \/ (op = "test" /\ u = Admin)
Read(r, op, u) ==
  /\ MayStart(r) /\ row.exists /\ Allowed(op, u)
  /\ op = "edit" => issued < MaxConfigs
  /\ issued' = IF op = "edit" THEN issued + 1 ELSE issued
  /\ request' = [request EXCEPT ![r] =
       [op |-> op, config |-> row.config, is_valid |-> row.is_valid,
        arg |-> IF op = "edit" THEN issued + 1 ELSE 0]]
  /\ UNCHANGED <<row, saved, passed>>

(* update_connection commits: a configuration is encrypted afresh and so   *)
(* always written; is_valid is written when it was read as true.           *)
MutantResetsValid(r) == FALSE
ResetsValid(r) == request[r].is_valid
CommitEdit(r) ==
  /\ request[r].op = "edit" /\ row.exists
  /\ row' = [row EXCEPT !.config = request[r].arg,
                        !.is_valid = IF ResetsValid(r) THEN FALSE ELSE @]
  /\ saved' = request[r].arg
  /\ request' = [request EXCEPT ![r] = Idle]
  /\ UNCHANGED <<issued, passed>>

CommitDelete(r) ==
  /\ request[r].op = "delete"
  /\ row' = [row EXCEPT !.exists = FALSE]
  /\ request' = [request EXCEPT ![r] = Idle]
  /\ UNCHANGED <<issued, saved, passed>>

(* An update of a row that is gone raises. *)
Stale(r) ==
  /\ request[r].op \in {"edit", "tested"} /\ ~row.exists
  /\ request' = [request EXCEPT ![r] = Idle]
  /\ UNCHANGED <<row, issued, saved, passed>>

-------------------------------------------------------------------------------
(* test_connection *)

(* The probe of the configuration read: the egress policy may refuse the   *)
(* host, the connection fail, or the credentials be refused.               *)
Probed(r, ok) ==
  /\ request[r].op = "test"
  /\ request' = [request EXCEPT ![r].op = "tested", ![r].arg = IF ok THEN 1 ELSE 0]
  /\ passed' = IF ok THEN passed \cup {request[r].config} ELSE passed
  /\ UNCHANGED <<row, issued, saved>>
ProbePostgres(r) ==
  /\ Type = "postgres"
  /\ \E permitted \in BOOLEAN, connects \in BOOLEAN : Probed(r, permitted /\ connects)
ProbeDiscord(r) ==
  /\ Type = "discord"
  /\ \E permitted \in BOOLEAN, status \in {"200", "401", "500", "error"} :
       Probed(r, permitted /\ status = "200")

(* is_valid is written when the result differs from what was read. *)
MutantTestWritesConfig(r) == request[r].config
TestWritesConfig(r) == row.config
CommitTest(r) ==
  LET ok == request[r].arg = 1
  IN  /\ request[r].op = "tested" /\ row.exists
      /\ row' = [row EXCEPT !.config = TestWritesConfig(r),
                            !.is_valid = IF ok # request[r].is_valid THEN ok ELSE @]
      /\ request' = [request EXCEPT ![r] = Idle]
      /\ UNCHANGED <<issued, saved, passed>>

-------------------------------------------------------------------------------
Init ==
  /\ row = [exists |-> FALSE, config |-> 0, is_valid |-> FALSE]
  /\ request = [r \in Requests |-> Idle]
  /\ issued = 0 /\ saved = 0 /\ passed = {}

Next ==
  \E r \in Requests :
    \/ Create(r) \/ CommitEdit(r) \/ CommitDelete(r) \/ Stale(r)
    \/ ProbePostgres(r) \/ ProbeDiscord(r) \/ CommitTest(r)
    \/ \E op \in {"edit", "delete", "test"}, u \in Users : Read(r, op, u)
Spec == Init /\ [][Next]_vars

-------------------------------------------------------------------------------
(* The configuration stored is the one saved last: a test that read an     *)
(* earlier one does not bring it back.                                     *)
LastSavedConfigStays == row.exists => row.config = saved

(* "Reset is_valid since config changed; user should re-test": a           *)
(* connection shown as valid has passed a probe with its present           *)
(* configuration.                                                          *)
ValidityIsEarned == row.exists /\ row.is_valid => row.config \in passed

-------------------------------------------------------------------------------
(* Why they hold *)

TypeInv ==
  /\ row \in [exists : BOOLEAN, config : Nat, is_valid : BOOLEAN]
  /\ request \in [Requests -> [op : {"none", "edit", "delete", "test", "tested"},
                               config : Nat, is_valid : BOOLEAN, arg : Nat]]
  /\ issued \in Nat

(* Requests that do not overlap find the row as they read it, and a test   *)
(* that succeeded has passed with the configuration it read.               *)
OneAtATime ==
  \A r, q \in Requests : request[r] # Idle /\ request[q] # Idle => r = q
ReadIsCurrent ==
  \A r \in Requests : request[r] # Idle /\ row.exists =>
    request[r].config = row.config /\ request[r].is_valid = row.is_valid
SuccessIsPassed ==
  \A r \in Requests : request[r].op = "tested" /\ request[r].arg = 1 =>
    request[r].config \in passed

EditedInv == TypeInv /\ LastSavedConfigStays
SerialInv == TypeInv /\ OneAtATime /\ ReadIsCurrent /\ SuccessIsPassed /\ ValidityIsEarned
===============================================================================
