------------------------------ MODULE DeadLetters ------------------------------
(***************************************************************************)
(* The dead letter queue beside the executions of GraphExecution.          *)
(*                                                                         *)
(* The whole-graph executor files a letter for a node it gives up on, with *)
(* the node's input.  The owner resolves, deletes or retries letters       *)
(* through the API at any time: a retry executes the node in the API       *)
(* process, outside the job queue and its leases, and commits a run_nodes  *)
(* row of the same run when it starts and again when it ends.  Failed-node *)
(* execution goes by the latest row of every node.                         *)
(***************************************************************************)
EXTENDS GraphExecutionProofs, Integers

CONSTANTS
  Items,      \* letters there may be
  NoNode,
  MaxRetries  \* bound on the retries of letters

LettersAssumption == NoNode \notin Node /\ MaxRetries \in Nat

VARIABLES
  letter,     \* per item: [node, resolved]; node is NoNode before it is filed
              \* and after it is deleted
  busy,       \* items with a retry under way whose row is still the latest
  late,       \* items with a retry under way whose row is not
  spent,
  unrepaired  \* nodes whose latest executed row failed and no retry of a
              \* letter has since succeeded

dlq  == <<letter, busy, late, spent>>
vars2 == <<vars, dlq, unrepaired>>

Filed(i) == letter[i].node # NoNode

-------------------------------------------------------------------------------
(* The executor *)

(* Rows that an execution wrote replace those of retries under way.        *)
Overtake ==
  LET over == {i \in busy : row'[letter[i].node] # row[letter[i].node]}
  IN  busy' = busy \ over /\ late' = late \cup over

(* _record_dlq after the failed row is committed; its own failure is       *)
(* logged and forgotten.                                                   *)
File(n) ==
  \/ letter' = letter
  \/ \E i \in Items :
       /\ ~Filed(i) /\ i \notin busy \cup late
       /\ letter' = [letter EXCEPT ![i] = [node |-> n, resolved |-> FALSE]]

ExecFails(n) ==
  /\ NodeFails(n) /\ Overtake
  /\ IF retrying THEN letter' = letter ELSE File(n)
  /\ unrepaired' = IF row'[n] = "failed" THEN unrepaired \cup {n} ELSE unrepaired
  /\ UNCHANGED spent
ExecDone(n) ==
  /\ NodeDone(n) /\ Overtake
  /\ unrepaired' = unrepaired \ {n}
  /\ UNCHANGED <<letter, spent>>
ExecOther ==
  /\ \/ Pause \/ Resume \/ Cancel \/ RetryFailed
     \/ Begin \/ SetupFails \/ EnterLevel \/ StopBeforeLevel
     \/ \E n \in Node : NodeSkipped(n) \/ NodeErrors(n)
     \/ LevelDone \/ StopAfterLevel \/ LevelFailed \/ FailRun \/ Complete \/ Abandon
  /\ Overtake
  /\ unrepaired' = unrepaired \cup {n \in Node : row[n] # "failed" /\ row'[n] = "failed"}
  /\ UNCHANGED <<letter, spent>>

-------------------------------------------------------------------------------
(* The API *)

(* retry_dlq_item up to the first commit of run_node_with_retry.  A root   *)
(* node has no stored input and is refused.                                *)
RetryStart(i) ==
  /\ Filed(i) /\ ~letter[i].resolved /\ Preds(letter[i].node) # {}
  /\ i \notin busy \cup late /\ spent < MaxRetries
  /\ spent' = spent + 1
  /\ row' = [row EXCEPT ![letter[i].node] = "running"]
  /\ LET over == {j \in busy : letter[j].node = letter[i].node}
     IN  busy' = (busy \ over) \cup {i} /\ late' = late \cup over
  /\ UNCHANGED <<jobVars, ckpt, missing, execVars, letter, unrepaired>>

(* The node has run, failed, or seen that the run is stopped: its row is   *)
(* updated, and the letter resolved if it ran.  No checkpoint is written.  *)
Finish(i, result) ==
  /\ i \in busy \cup late
  /\ busy' = busy \ {i} /\ late' = late \ {i}
  /\ row' = IF i \in busy THEN [row EXCEPT ![letter[i].node] = result] ELSE row
  /\ UNCHANGED <<jobVars, ckpt, missing, execVars, spent>>
RetrySucceeds(i) ==
  /\ ~Stopped /\ Finish(i, "completed")
  /\ letter' = [letter EXCEPT ![i].resolved = TRUE]
  /\ unrepaired' = unrepaired \ {letter[i].node}
RetryFails(i) ==
  /\ Finish(i, IF Stopped THEN "skipped" ELSE "failed")
  /\ UNCHANGED <<letter, unrepaired>>

(* The API process dies: the row stays as it was committed.                *)
RetryDies(i) ==
  /\ i \in busy \cup late
  /\ busy' = busy \ {i} /\ late' = late \ {i}
  /\ UNCHANGED <<vars, letter, spent, unrepaired>>

Resolve(i) ==
  /\ Filed(i) /\ ~letter[i].resolved
  /\ letter' = [letter EXCEPT ![i].resolved = TRUE]
  /\ UNCHANGED <<vars, busy, late, spent, unrepaired>>
Delete(i) ==
  /\ Filed(i) /\ i \notin busy \cup late
  /\ letter' = [letter EXCEPT ![i] = [node |-> NoNode, resolved |-> FALSE]]
  /\ UNCHANGED <<vars, busy, late, spent, unrepaired>>

-------------------------------------------------------------------------------
LettersInit ==
  /\ Init
  /\ letter = [i \in Items |-> [node |-> NoNode, resolved |-> FALSE]]
  /\ busy = {} /\ late = {} /\ spent = 0 /\ unrepaired = {}

LettersNext ==
  \/ ExecOther
  \/ \E n \in Node : ExecFails(n) \/ ExecDone(n)
  \/ \E i \in Items :
       RetryStart(i) \/ RetrySucceeds(i) \/ RetryFails(i) \/ RetryDies(i) \/ Resolve(i) \/ Delete(i)

LettersSpec == LettersInit /\ [][LettersNext]_vars2

-------------------------------------------------------------------------------
(* Whatever is done with letters meanwhile, a whole-graph execution that   *)
(* completes the run has produced the output of every node itself, from    *)
(* complete inputs, and leaves no failure unrepaired.                      *)
FullRunsIgnoreLetters ==
  status # "completed" /\ status' = "completed" /\ ~retrying =>
    Node \subseteq out /\ (\A n \in Node : missing[n] = {}) /\ unrepaired = {}

(* "After every graph node reports success, completion takes the run       *)
(* advisory fence": no run is completed while the last attempt of one of   *)
(* its nodes, by an execution or from a letter, was a failure.             *)
CompletionSeesNoFailure == status = "completed" => unrepaired = {}

-------------------------------------------------------------------------------
(* Why whole-graph executions ignore letters *)

LettersTypes ==
  /\ missing \in [Node -> SUBSET Node] /\ level \in Nat
  /\ letter \in [Items -> [node : Node \cup {NoNode}, resolved : BOOLEAN]]
  /\ unrepaired \subseteq Node /\ \A i \in busy : Filed(i)

(* The execution itself has run the node, on all its inputs and with       *)
(* success: a letter's row is no substitute for that.                      *)
Made(n) == n \in out /\ missing[n] = {} /\ n \notin unrepaired
MadeInOrder ==
  lease /\ ~retrying =>
    /\ exec \in {"level", "nodes"} => \A n \in Settled(level) : Made(n)
    /\ exec = "nodes" => \A n \in Level(level) :
         n \in todo \/ n \in bad \/ Made(n) \/ (Parallel /\ Stopped)

LettersInv == LettersTypes /\ Shape /\ MadeInOrder
===============================================================================
