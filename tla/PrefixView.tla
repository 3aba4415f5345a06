------------------------------ MODULE PrefixView ------------------------------
(***************************************************************************)
(* What a resumable pipeline promises its readers (docs/architecture.md,   *)
(* "Checkpoint transaction"): at every moment the destination shows the    *)
(* changes of some prefix of the input applied in order, and the prefix    *)
(* only grows, whatever crashes and redeliveries happen below.             *)
(***************************************************************************)
EXTENDS Integers, Sequences

CONSTANT Keys, Values, Absent

VARIABLES input,   \* the sequence of changes [key, op, val] offered so far
          view     \* [Keys -> Values \cup {Absent}], what a reader sees

Empty == [k \in Keys |-> Absent]

(* The last change to a key decides what is shown of it. *)
Replay(changes) ==
  [k \in Keys |->
     LET mine == {i \in 1..Len(changes) : changes[i].key = k}
         change == changes[CHOOSE i \in mine : \A j \in mine : j <= i]
     IN  IF mine = {} \/ change.op = "delete" THEN Absent ELSE change.val]

Init == input = <<>> /\ view = Empty

Offer == /\ \E c \in [key : Keys, op : {"upsert", "delete"}, val : Values] :
              input' = Append(input, c)
         /\ UNCHANGED view

Advance == /\ \E m \in 0..Len(input) : \E n \in m..Len(input) :
                /\ view = Replay(SubSeq(input, 1, m))
                /\ view' = Replay(SubSeq(input, 1, n))
           /\ UNCHANGED input

Next == Offer \/ Advance

Spec == Init /\ [][Next]_<<input, view>>
===============================================================================
