------------------------- MODULE GraphScenariosProofs --------------------------
(***************************************************************************)
(* Proofs about GraphScenarios, for graphs of any shape and size: the      *)
(* theorems of GraphExecutionProofs carried over to the scenarios, and the *)
(* ones about letters, sorting, the data of edges, the database writer, the*)
(* EDGAR source and the pages of a PDF.                                    *)
(***************************************************************************)
EXTENDS GraphScenarios, Recursion, Sequences

\* What each scenario of an execution keeps.
ExecutionInv ==
  /\ scenario = "chain" => Chain!ChainInv
  /\ scenario = "diamond" => Diamond!IInv
  /\ scenario = "fork" => Fork!IInv

LEMMA ExecutionInit == Init => ExecutionInv
<1>1. ASSUME scenario = "chain", Chain!Init PROVE Chain!ChainInv
  BY <1>1, ConstantsAreSound, Chain!ChainInit
<1>2. ASSUME scenario = "diamond", Diamond!Init PROVE Diamond!IInv
  BY <1>2, ConstantsAreSound, Diamond!InvariantInit
<1>3. ASSUME scenario = "fork", Fork!Init PROVE Fork!IInv
  BY <1>3, ConstantsAreSound, Fork!InvariantInit
<1> QED
  BY <1>1, <1>2, <1>3 DEF Init, GraphInit, LettersInit, SortInit, FlowInit, WriterInit, EdgarInit, PagesInit,
     ExecutionInv

LEMMA ExecutionStep == ExecutionInv /\ [Next]_vars => ExecutionInv'
<1> SUFFICES ASSUME ExecutionInv, [Next]_vars PROVE ExecutionInv'
  OBVIOUS
<1>1. ASSUME scenario = "chain", [Chain!Next]_(Chain!vars) PROVE Chain!ChainInv'
  BY <1>1, ConstantsAreSound, Chain!ChainStep DEF ExecutionInv
<1>2. ASSUME scenario = "diamond", [Diamond!Next]_(Diamond!vars) PROVE Diamond!IInv'
  BY <1>2, ConstantsAreSound, Diamond!InvariantStep DEF ExecutionInv
<1>3. ASSUME scenario = "fork", [Fork!Next]_(Fork!vars) PROVE Fork!IInv'
  BY <1>3, ConstantsAreSound, Fork!InvariantStep DEF ExecutionInv
<1>4. CASE GraphNext
  BY <1>1, <1>2, <1>3, <1>4 DEF GraphNext, ExecutionInv
<1>5. CASE UNCHANGED vars
  <2>1. UNCHANGED scenario /\ UNCHANGED (Chain!vars)
    BY <1>5 DEF vars, executionVars, commonVars, Chain!vars, Chain!jobVars, Chain!nodeVars, Chain!execVars
  <2>2. UNCHANGED (Diamond!vars)
    BY <1>5 DEF vars, executionVars, commonVars, Diamond!vars, Diamond!jobVars, Diamond!nodeVars, Diamond!execVars
  <2>3. UNCHANGED (Fork!vars)
    BY <1>5 DEF vars, executionVars, commonVars, Fork!vars, Fork!jobVars, Fork!nodeVars, Fork!execVars
  <2> QED
    BY <1>1, <1>2, <1>3, <2>1, <2>2, <2>3 DEF ExecutionInv
<1>6. CASE LettersNext \/ SortNext \/ FlowNext \/ WriterNext \/ EdgarNext \/ PagesNext
  BY <1>6 DEF LettersNext, SortNext, FlowNext, WriterNext, EdgarNext, PagesNext, ExecutionInv
<1> QED
  BY <1>4, <1>5, <1>6 DEF Next

LEMMA ExecutionInvariant == Spec => []ExecutionInv
  BY ExecutionInit, ExecutionStep, PTL DEF Spec

\* The variables of an execution have their types.
THEOREM TypeCorrect == Spec => []TypeOK
<1>1. ExecutionInv => TypeOK
  BY DEF ExecutionInv, TypeOK, Chain!ChainInv, Diamond!IInv, Fork!IInv,
     Chain!TypeInv, Diamond!TypeInv, Fork!TypeInv
<1> QED
  BY <1>1, ExecutionInvariant, PTL

\* A completed run has executed every node of its graph on all its inputs: on a
\* chain however often it was retried, on any graph when it was not.
THEOREM CompletionIsWhole == Spec => []CompletedRunsAreWhole
<1>1. ExecutionInv => CompletedRunsAreWhole
  BY DEF ExecutionInv, CompletedRunsAreWhole, Chain!ChainInv, Diamond!IInv, Fork!IInv
<1> QED
  BY <1>1, ExecutionInvariant, PTL

\* No completed run hides a failed node.
THEOREM FailuresSurface == Spec => []NoFailureIsBuried
<1>1. ExecutionInv => NoFailureIsBuried
  BY DEF ExecutionInv, NoFailureIsBuried, Diamond!IInv, Fork!IInv
<1> QED
  BY <1>1, ExecutionInvariant, PTL

-------------------------------------------------------------------------------
(* Letters                                                                 *)

\* A step of LettersNext is one of the execution or a request of the owner's,
\* which leaves everything but rows and letters alone.
LEMMA LettersSteps ==
  ASSUME Branch!LettersNext
  PROVE  \/ Branch!ExecOther
         \/ \E n \in BranchNode : Branch!ExecFails(n) \/ Branch!ExecDone(n)
         \/ /\ UNCHANGED <<status, type, job, ckpt, missing, exec, lease, plan, retrying, level,
                           todo, bad, out>>
            /\ unrepaired' \subseteq unrepaired
  BY DEF Branch!LettersNext, Branch!RetryStart, Branch!RetrySucceeds, Branch!RetryFails,
     Branch!RetryDies, Branch!Resolve, Branch!Delete, Branch!Finish, Branch!jobVars,
     Branch!execVars, Branch!nodeVars, Branch!vars

LEMMA ExecutionSteps ==
  ASSUME Branch!ExecOther \/ \E n \in BranchNode : Branch!ExecFails(n) \/ Branch!ExecDone(n)
  PROVE  Branch!Next
  BY DEF Branch!ExecOther, Branch!ExecFails, Branch!ExecDone, Branch!Next

\* What an execution notes about its nodes.
LEMMA LettersNotes ==
  ASSUME Branch!LettersTypes, Branch!LettersNext
  PROVE  missing' \in [BranchNode -> SUBSET BranchNode] /\ level' \in Nat
<1> USE DEF Branch!LettersTypes
<1> DEFINE Right == missing' \in [BranchNode -> SUBSET BranchNode] /\ level' \in Nat
<1>1. ASSUME NEW s, Branch!End(s), UNCHANGED missing PROVE Right
  BY <1>1 DEF Branch!End
<1>2. CASE UNCHANGED <<missing, level>>
  BY <1>2
<1>3. CASE Branch!ExecOther
  <2>1. CASE Branch!Pause \/ Branch!Resume \/ Branch!Cancel \/ Branch!RetryFailed
    BY <1>2, <2>1, Branch!OperatorFrame DEF Branch!nodeVars
  <2>2. CASE Branch!Begin \/ Branch!SetupFails \/ Branch!EnterLevel \/ Branch!LevelDone
             \/ Branch!LevelFailed \/ Branch!Abandon
    BY <2>2 DEF Branch!Begin, Branch!SetupFails, Branch!EnterLevel, Branch!LevelDone,
       Branch!LevelFailed, Branch!Abandon, Branch!nodeVars
  <2>3. CASE Branch!StopBeforeLevel \/ Branch!StopAfterLevel \/ Branch!FailRun \/ Branch!Complete
    BY <1>1, <2>3 DEF Branch!StopBeforeLevel, Branch!StopAfterLevel, Branch!FailRun,
       Branch!Complete, Branch!nodeVars
  <2>4. ASSUME NEW n \in BranchNode, Branch!NodeSkipped(n) \/ Branch!NodeErrors(n) PROVE Right
    BY <1>1, <2>4 DEF Branch!NodeSkipped, Branch!NodeErrors, Branch!nodeVars
  <2> QED
    BY <1>3, <2>1, <2>2, <2>3, <2>4 DEF Branch!ExecOther
<1>4. ASSUME NEW n \in BranchNode, Branch!ExecFails(n) PROVE Right
  BY <1>4 DEF Branch!ExecFails, Branch!NodeFails
<1>5. ASSUME NEW n \in BranchNode, Branch!ExecDone(n) PROVE Right
  BY <1>5 DEF Branch!ExecDone, Branch!NodeDone, Branch!Preds
<1> QED
  BY <1>2, <1>3, <1>4, <1>5, LettersSteps

LEMMA LettersTypesStep ==
  ASSUME Branch!LettersTypes, Branch!LettersNext, NoNode \notin BranchNode
  PROVE  Branch!LettersTypes'
<1> USE DEF Branch!LettersTypes
<1> DEFINE Letter == [node : BranchNode \cup {NoNode}, resolved : BOOLEAN]
           Right == letter' \in [Items -> Letter] /\ \A i \in busy' : letter'[i].node # NoNode
<1>1. ASSUME Branch!Overtake, UNCHANGED letter PROVE Right
  <2>1. busy' \subseteq busy
    BY <1>1 DEF Branch!Overtake
  <2>2. \A i \in busy : letter[i].node # NoNode
    BY DEF Branch!Filed
  <2> QED
    BY <1>1, <2>1, <2>2
<1>2. ASSUME Branch!ExecOther PROVE Right
  <2>1. Branch!Overtake /\ UNCHANGED letter
    BY <1>2, Zenon DEF Branch!ExecOther
  <2> HIDE DEF Right
  <2> QED
    BY <1>1, <2>1
<1>3. ASSUME NEW n \in BranchNode, Branch!ExecDone(n) PROVE Right
  BY <1>1, <1>3 DEF Branch!ExecDone
<1>4. ASSUME NEW n \in BranchNode, Branch!ExecFails(n) PROVE Right
  <2>1. CASE UNCHANGED letter
    BY <1>1, <1>4, <2>1 DEF Branch!ExecFails
  <2>2. CASE Branch!File(n) /\ ~UNCHANGED letter
    <3>1. PICK i \in Items : /\ i \notin busy
                             /\ letter' = [letter EXCEPT ![i] = [node |-> n, resolved |-> FALSE]]
      BY <2>2 DEF Branch!File
    <3>2. busy' \subseteq busy
      BY <1>4 DEF Branch!ExecFails, Branch!Overtake
    <3> QED
      BY <3>1, <3>2 DEF Branch!Filed
  <2> QED
    BY <1>4, <2>1, <2>2 DEF Branch!ExecFails
<1>5. ASSUME NEW i \in Items, Branch!RetryStart(i) PROVE Right
  BY <1>5 DEF Branch!RetryStart, Branch!Filed
<1>6. ASSUME NEW i \in Items, letter' = [letter EXCEPT ![i].resolved = TRUE], busy' \subseteq busy
      PROVE  Right
  <2> DEFINE new == [letter[i] EXCEPT !.resolved = TRUE]
  <2>1. new \in Letter /\ new.node = letter[i].node /\ letter' = [letter EXCEPT ![i] = new]
    BY <1>6
  <2> HIDE DEF new
  <2>2. letter \in [Items -> Letter]
    OBVIOUS
  <2>3. /\ letter' \in [Items -> Letter]
        /\ \A j \in Items : letter'[j].node = letter[j].node
    <3> HIDE DEF Letter
    <3> QED
      BY <2>1, <2>2
  <2>4. ASSUME NEW j \in busy PROVE letter'[j].node # NoNode
    <3>1. letter[j].node # NoNode
      BY <2>4 DEF Branch!Filed
    <3> QED
      BY <2>1, <3>1
  <2> QED
    BY <1>6, <2>3, <2>4
<1>7. ASSUME NEW i \in Items, Branch!RetrySucceeds(i) \/ Branch!Resolve(i) PROVE Right
  <2>1. letter' = [letter EXCEPT ![i].resolved = TRUE] /\ busy' \subseteq busy
    BY <1>7 DEF Branch!RetrySucceeds, Branch!Resolve, Branch!Finish
  <2> QED
    BY <1>6, <2>1
<1>8. ASSUME NEW i \in Items, Branch!RetryFails(i) \/ Branch!RetryDies(i) PROVE Right
  BY <1>8 DEF Branch!RetryFails, Branch!RetryDies, Branch!Finish, Branch!Filed
<1>9. ASSUME NEW i \in Items, Branch!Delete(i) PROVE Right
  <2>1. /\ letter' = [letter EXCEPT ![i] = [node |-> NoNode, resolved |-> FALSE]]
        /\ i \notin busy /\ busy' = busy
    BY <1>9 DEF Branch!Delete
  <2> QED
    BY <2>1 DEF Branch!Filed
<1>10. Right
  <2> HIDE DEF Right
  <2> QED
    BY <1>2, <1>3, <1>4, <1>5, <1>7, <1>8, <1>9 DEF Branch!LettersNext
<1>11. unrepaired' \subseteq BranchNode
  <2>1. CASE Branch!ExecOther
    <3>1. unrepaired' = unrepaired \cup {n \in BranchNode : row[n] # "failed" /\ row'[n] = "failed"}
      BY <2>1, Zenon DEF Branch!ExecOther
    <3> QED
      BY <3>1
  <2>2. ASSUME NEW n \in BranchNode, Branch!ExecFails(n) \/ Branch!ExecDone(n)
        PROVE  unrepaired' \subseteq BranchNode
    BY <2>2 DEF Branch!ExecFails, Branch!ExecDone
  <2> QED
    BY <2>1, <2>2, LettersSteps
<1> QED
  BY <1>10, <1>11, LettersNotes DEF Branch!Filed

\* MadeInOrder is kept: in a whole-graph execution that holds the lease only a
\* success adds to out, and a failure keeps the level from being left.
LEMMA MadeStep ==
  ASSUME Branch!LettersTypes, Branch!Shape, Branch!MadeInOrder, Branch!LettersNext
  PROVE  Branch!MadeInOrder'
<1> USE DEF Branch!MadeInOrder
<1>0. level \in Nat
  BY DEF Branch!LettersTypes
<1>1. CASE /\ UNCHANGED <<status, missing, exec, lease, plan, retrying, level, todo, bad, out>>
           /\ unrepaired' \subseteq unrepaired
  BY <1>1 DEF Branch!Made, Branch!Parallel, Branch!Stopped
<1>2. ASSUME NEW s, Branch!End(s) PROVE Branch!MadeInOrder'
  BY <1>2 DEF Branch!End
<1>3. ASSUME Branch!ExecOther, UNCHANGED row PROVE unrepaired' = unrepaired
  BY <1>3 DEF Branch!ExecOther
<1>4. CASE Branch!ExecOther
  <2>1. CASE Branch!Pause \/ Branch!Cancel
    <3>1. unrepaired' = unrepaired /\ Branch!Stopped'
      BY <1>3, <1>4, <2>1 DEF Branch!Pause, Branch!Cancel, Branch!nodeVars, Branch!Stopped
    <3> QED
      BY <2>1, <3>1 DEF Branch!Pause, Branch!Cancel, Branch!nodeVars, Branch!execVars, Branch!Made,
         Branch!Parallel
  <2>2. CASE Branch!Resume \/ Branch!RetryFailed
    BY <2>2 DEF Branch!Resume, Branch!RetryFailed
  <2>3. CASE Branch!Begin
    BY <2>3, Branch!SettledStep DEF Branch!Begin
  <2>4. CASE Branch!SetupFails \/ Branch!LevelFailed
    BY <2>4 DEF Branch!SetupFails, Branch!LevelFailed
  <2>5. CASE Branch!EnterLevel
    <3>1. unrepaired' = unrepaired
      BY <1>3, <1>4, <2>5 DEF Branch!EnterLevel, Branch!nodeVars
    <3> QED
      BY <1>0, <2>5, <3>1, Branch!PredsAreSettled DEF Branch!EnterLevel, Branch!jobVars,
         Branch!nodeVars, Branch!Made, Branch!Shape
  <2>6. CASE Branch!StopBeforeLevel \/ Branch!StopAfterLevel \/ Branch!FailRun \/ Branch!Complete
    BY <1>2, <2>6 DEF Branch!StopBeforeLevel, Branch!StopAfterLevel, Branch!FailRun, Branch!Complete
  <2>7. ASSUME NEW n \in BranchNode, Branch!NodeSkipped(n) \/ Branch!NodeErrors(n)
        PROVE  Branch!MadeInOrder'
    <3>1. CASE Branch!Parallel
      <4>1. unrepaired' = unrepaired
        BY <1>3, <1>4, <2>7, <3>1 DEF Branch!NodeSkipped, Branch!NodeErrors, Branch!nodeVars
      <4> QED
        BY <2>7, <3>1, <4>1 DEF Branch!NodeSkipped, Branch!NodeErrors, Branch!jobVars,
           Branch!nodeVars, Branch!Made, Branch!Parallel, Branch!Stopped
    <3>2. CASE ~Branch!Parallel
      BY <1>2, <2>7, <3>2 DEF Branch!NodeSkipped, Branch!NodeErrors
    <3> QED
      BY <3>1, <3>2
  <2>8. CASE Branch!LevelDone
    <3>1. SUFFICES ASSUME lease, ~retrying
                   PROVE  \A n \in Branch!Settled(level + 1) : Branch!Made(n)
      <4>1. unrepaired' = unrepaired
        BY <1>3, <1>4, <2>8 DEF Branch!LevelDone, Branch!nodeVars
      <4> QED
        BY <2>8, <4>1 DEF Branch!LevelDone, Branch!nodeVars, Branch!Made
    <3>2. \A n \in Branch!Level(level) : Branch!Made(n)
      BY <2>8, <3>1 DEF Branch!LevelDone, Branch!Shape
    <3> QED
      BY <2>8, <3>1, <3>2, Branch!LevelIs DEF Branch!LevelDone
  <2>9. CASE Branch!Abandon
    BY <2>9 DEF Branch!Abandon
  <2> QED
    BY <1>4, <2>1, <2>2, <2>3, <2>4, <2>5, <2>6, <2>7, <2>8, <2>9 DEF Branch!ExecOther
<1>5. Branch!Settled(level) \subseteq BranchNode /\ Branch!Level(level) \subseteq BranchNode
  BY <1>0, Branch!SettledStep, Branch!LevelIs
<1>6. ASSUME NEW n \in BranchNode, Branch!ExecDone(n) PROVE Branch!MadeInOrder'
  <2>0. Branch!NodeDone(n) /\ unrepaired' = unrepaired \ {n}
    BY <1>6 DEF Branch!ExecDone
  <2>1. SUFFICES ASSUME lease, ~retrying PROVE Branch!MadeInOrder'
    BY <2>0 DEF Branch!NodeDone
  <2>2. Branch!Preds(n) \subseteq Branch!Settled(level)
    BY <1>0, <2>0, Branch!PredsAreSettled DEF Branch!NodeDone, Branch!Shape
  <2>3. Branch!Preds(n) \subseteq out
    BY <2>0, <2>1, <2>2 DEF Branch!NodeDone, Branch!Made
  <2>4. Branch!Made(n)'
    BY <2>0, <2>3 DEF Branch!NodeDone, Branch!Made, Branch!LettersTypes
  <2>5. \A m \in BranchNode : Branch!Made(m) => Branch!Made(m)'
    BY <2>0, <2>4 DEF Branch!NodeDone, Branch!Made, Branch!LettersTypes
  <2> QED
    BY <1>5, <2>0, <2>1, <2>4, <2>5 DEF Branch!NodeDone, Branch!jobVars, Branch!Parallel,
       Branch!Stopped
<1>7. ASSUME NEW n \in BranchNode, Branch!ExecFails(n) PROVE Branch!MadeInOrder'
  <2>0. Branch!NodeFails(n) /\ unrepaired' \subseteq unrepaired \cup {n}
    BY <1>7 DEF Branch!ExecFails
  <2>1. SUFFICES ASSUME lease, ~retrying, Branch!Parallel PROVE Branch!MadeInOrder'
    BY <2>0 DEF Branch!NodeFails
  <2>2. n \in Branch!Level(level) /\ n \notin Branch!Settled(level)
    BY <1>0, <2>0, Branch!LevelIs DEF Branch!NodeFails, Branch!Shape
  <2>3. \A m \in BranchNode \ {n} : Branch!Made(m) => Branch!Made(m)'
    BY <2>0 DEF Branch!NodeFails, Branch!Made
  <2> QED
    BY <1>5, <2>0, <2>1, <2>2, <2>3 DEF Branch!NodeFails, Branch!jobVars, Branch!Parallel,
       Branch!Stopped
<1> QED
  BY <1>1, <1>4, <1>6, <1>7, LettersSteps

\* LettersInv is inductive.
LEMMA LettersInvInit == ASSUME Branch!LettersInit PROVE Branch!LettersInv
<1>1. Branch!LettersTypes
  BY DEF Branch!LettersInit, Branch!Init, Branch!LettersTypes
<1> QED
  BY <1>1 DEF Branch!LettersInit, Branch!Init, Branch!LettersInv, Branch!Shape, Branch!MadeInOrder

LEMMA LettersInvStep ==
  ASSUME Branch!LettersInv, Branch!LettersNext \/ UNCHANGED (Branch!vars2)
  PROVE  Branch!LettersInv'
<1> USE DEF Branch!LettersInv
<1>1. CASE Branch!LettersNext
  <2>1. NoNode \notin BranchNode
    BY ConstantsAreSound DEF Branch!LettersAssumption
  <2>2. Branch!Shape'
    <3>1. CASE Branch!Next
      BY <3>1, Branch!ShapeStep
    <3>2. CASE UNCHANGED <<status, type, exec, plan, retrying, level, todo, bad>>
      BY <3>2 DEF Branch!Shape, Branch!Parallel
    <3> QED
      BY <1>1, <3>1, <3>2, LettersSteps, ExecutionSteps
  <2> QED
    BY <1>1, <2>1, <2>2, LettersTypesStep, MadeStep
<1>2. CASE UNCHANGED (Branch!vars2)
  BY <1>2 DEF Branch!vars2, Branch!vars, Branch!jobVars, Branch!nodeVars, Branch!execVars,
     Branch!dlq, Branch!LettersTypes, Branch!Filed, Branch!Shape, Branch!MadeInOrder, Branch!Made,
     Branch!Parallel, Branch!Stopped
<1> QED
  BY <1>1, <1>2

\* A run is completed by its execution only, and the last level is behind it.
LEMMA LettersAreIgnored ==
  ASSUME Branch!LettersInv, Branch!LettersNext
  PROVE  Branch!FullRunsIgnoreLetters
<1>1. SUFFICES ASSUME status # "completed", status' = "completed", ~retrying
               PROVE  /\ BranchNode \subseteq out
                      /\ (\A n \in BranchNode : missing[n] = {}) /\ unrepaired = {}
  BY DEF Branch!FullRunsIgnoreLetters
<1>2. Branch!Complete /\ lease
  BY <1>1, LettersSteps, ExecutionSteps, Branch!OnlyComplete DEF Branch!LettersInv
<1>3. Branch!Settled(level) = BranchNode
  <2>1. level \in Nat /\ Branch!Level(level) = {}
    BY <1>2 DEF Branch!Complete, Branch!LettersInv, Branch!LettersTypes
  <2> QED
    BY <2>1, ConstantsAreSound, Branch!LastLevel
<1>4. \A n \in BranchNode : Branch!Made(n)
  BY <1>1, <1>2, <1>3 DEF Branch!LettersInv, Branch!MadeInOrder, Branch!Complete
<1> QED
  BY <1>4 DEF Branch!Made, Branch!LettersInv, Branch!LettersTypes

\* Whatever is done with letters meanwhile, a whole-graph execution that completes
\* a run has produced every output itself, on any acyclic graph and with any
\* number of letters and retries.
THEOREM LettersStayIgnored == Spec => FullRunsIgnoreLetters
<1>1. Init => (scenario = "letters" => Branch!LettersInv)
  BY LettersInvInit DEF Init, GraphInit, LettersInit, SortInit, FlowInit, WriterInit, EdgarInit, PagesInit
<1>2. /\ (scenario = "letters" => Branch!LettersInv) /\ [Next]_vars
      => (scenario = "letters" => Branch!LettersInv)'
  <2> SUFFICES ASSUME scenario = "letters" => Branch!LettersInv, [Next]_vars,
                      scenario' = "letters"
               PROVE  Branch!LettersInv'
    OBVIOUS
  <2>1. scenario = "letters" /\ (Branch!LettersNext \/ UNCHANGED (Branch!vars2))
    <3>1. CASE UNCHANGED vars
      BY <3>1 DEF vars, executionVars, lettersVars, commonVars, Branch!vars2, Branch!vars, Branch!jobVars,
         Branch!nodeVars, Branch!execVars, Branch!dlq
    <3>2. CASE Next
      BY <3>2 DEF Next, GraphNext, LettersNext, SortNext, FlowNext, WriterNext, EdgarNext, PagesNext
    <3> QED
      BY <3>1, <3>2
  <2> QED
    BY <2>1, LettersInvStep
<1>3. (scenario = "letters" => Branch!LettersInv) /\ [Next]_vars
      => [scenario = "letters" => Branch!FullRunsIgnoreLetters]_vars
  BY LettersAreIgnored DEF Next, GraphNext, LettersNext, SortNext, FlowNext, WriterNext, EdgarNext, PagesNext
<1> QED
  BY <1>1, <1>2, <1>3, PTL DEF Spec, FullRunsIgnoreLetters

-------------------------------------------------------------------------------
(* Sorting                                                                 *)

\* The nodes settled after i rounds, and the edges into n by their origin.
Rounds(i) == Sorted!SettledBy(SortedNode, Sorted!Edges, i)
Into(n) == [m \in SortedNode |-> mult[<<m, n>>]]

\* Round i + 1 settles the nodes into which no edge leads from an unsettled one.
LEMMA RoundsStep ==
  /\ Rounds(0) = {}
  /\ \A i \in Nat : Rounds(i) \subseteq SortedNode
  /\ \A i \in Nat : Rounds(i + 1) =
       {n \in SortedNode : \A m \in SortedNode : mult[<<m, n>>] > 0 => m \in Rounds(i)}
<1> DEFINE E == Sorted!Edges
<1>1. \A m \in SortedNode, n \in SortedNode : <<m, n>> \in E <=> mult[<<m, n>>] > 0
  BY DEF Sorted!Edges
<1>2. \A i : Rounds(i) = Chain!SettledBy(SortedNode, E, i)
  BY DEF Rounds, Sorted!SettledBy, Chain!SettledBy
<1> HIDE DEF E
<1>3. /\ Chain!SettledBy(SortedNode, E, 0) = {}
      /\ \A i \in Nat : Chain!SettledBy(SortedNode, E, i) \subseteq SortedNode
      /\ \A i \in Nat : Chain!SettledBy(SortedNode, E, i + 1) =
           {n \in SortedNode : \A m \in SortedNode :
              <<m, n>> \in E => m \in Chain!SettledBy(SortedNode, E, i)}
  BY Chain!SettledRounds
<1> QED
  BY <1>1, <1>2, <1>3

LEMMA RoundsGrow == \A i \in Nat : Rounds(i) \subseteq Rounds(i + 1)
<1> DEFINE T == {i \in Nat : Rounds(i) \subseteq Rounds(i + 1)}
<1>1. 0 \in T
  BY RoundsStep
<1>2. ASSUME NEW i \in Nat, i \in T PROVE i + 1 \in T
  BY <1>2, RoundsStep
<1> HIDE DEF T
<1>3. \A i \in Nat : i \in T
  BY <1>1, <1>2, SetInduction
<1> QED
  BY <1>3 DEF T

\* No node of a cycle is ever settled.
LEMMA CyclesNeverSettle ==
  ASSUME NEW S \in SUBSET SortedNode, \A n \in S : \E m \in S : mult[<<m, n>>] > 0
  PROVE  \A i \in Nat : S \cap Rounds(i) = {}
<1> DEFINE T == {i \in Nat : S \cap Rounds(i) = {}}
<1>1. 0 \in T
  BY RoundsStep
<1>2. ASSUME NEW i \in Nat, i \in T PROVE i + 1 \in T
  <2>1. SUFFICES ASSUME NEW n \in S, n \in Rounds(i + 1) PROVE FALSE
    BY <1>2
  <2>2. PICK m \in S : mult[<<m, n>>] > 0
    OBVIOUS
  <2>3. m \in Rounds(i)
    BY <2>1, <2>2, RoundsStep
  <2> QED
    BY <1>2, <2>3
<1> HIDE DEF T
<1>3. \A i \in Nat : i \in T
  BY <1>1, <1>2, SetInduction
<1> QED
  BY <1>3 DEF T

LEMMA SortedFinite ==
  /\ IsFiniteSet(SortedNode) /\ MaxEdges \in Nat
  /\ \A S \in SUBSET SortedNode : IsFiniteSet(S)
  /\ \A S : Sorted!Cardinality(S) = Cardinality(S)
<1>1. \A S : Sorted!IsFiniteSet(S) <=> IsFiniteSet(S)
  BY DEF Sorted!IsFiniteSet, IsFiniteSet
<1>2. \A S : Sorted!Cardinality(S) = Cardinality(S)
  BY DEF Sorted!Cardinality, Cardinality
<1>3. IsFiniteSet(SortedNode) /\ MaxEdges \in Nat
  BY <1>1, ConstantsAreSound DEF Sorted!SortAssumption
<1> QED
  BY <1>2, <1>3, FS_Subset

\* The edges into a node are a sum over the nodes they come from.
LEMMA EdgesAreSums ==
  ASSUME Sorted!TypeInv, NEW n \in SortedNode, NEW S \in SUBSET SortedNode
  PROVE  /\ Sorted!EdgesFrom(S, n) = Sum(Into(n), S)
         /\ \A m \in SortedNode : Into(n)[m] = mult[<<m, n>>] /\ Into(n)[m] \in Nat
<1> DEFINE Rec(F) == [s \in SUBSET S |->
                        IF s = {} THEN 0
                        ELSE LET x == CHOOSE x \in s : TRUE IN mult[<<x, n>>] + F[s \ {x}]]
           iter == CHOOSE F : F = Rec(F)
<1>1. Sorted!EdgesFrom(S, n) = iter[S]
  BY DEF Sorted!EdgesFrom, Sorted!MapThenSumSet, Sorted!MapThenFoldSet
<1>2. \A m \in SortedNode : Into(n)[m] = mult[<<m, n>>] /\ Into(n)[m] \in Nat
  BY SortedFinite DEF Into, Sorted!TypeInv
<1>3. \A F : F = Rec(F) <=> IsSum(F, Into(n), S)
  <2> DEFINE g == Into(n)
  <2>1. \A s \in SUBSET S : s # {} => mult[<<Pick(s), n>>] = g[Pick(s)]
    BY <1>2 DEF Pick
  <2>2. \A F : Rec(F) = [s \in SUBSET S |->
                          IF s = {} THEN 0 ELSE mult[<<Pick(s), n>>] + F[s \ {Pick(s)}]]
    BY DEF Pick
  <2> HIDE DEF g, Rec
  <2>3. \A F : Rec(F) = [s \in SUBSET S |-> IF s = {} THEN 0 ELSE g[Pick(s)] + F[s \ {Pick(s)}]]
    BY <2>1, <2>2
  <2> QED
    BY <2>3 DEF IsSum, g
<1>4. IsFiniteSet(S)
  BY SortedFinite
<1>5. IsSum(iter, Into(n), S)
  <2>1. \E F : F = Rec(F)
    <3> HIDE DEF Rec
    <3> QED
      BY <1>2, <1>3, <1>4, SumsExist
  <2>2. iter = Rec(iter)
    <3> HIDE DEF Rec
    <3> QED
      BY <2>1
  <2> HIDE DEF iter, Rec
  <2> QED
    BY <1>3, <2>2
<1> HIDE DEF iter, Rec
<1> QED
  BY <1>1, <1>2, <1>4, <1>5, SumIs

\* They are none exactly if no node of S has an edge into n.
LEMMA NoEdges ==
  ASSUME Sorted!TypeInv, NEW n \in SortedNode, NEW S \in SUBSET SortedNode
  PROVE  /\ Sorted!EdgesFrom(S, n) \in Nat
         /\ Sorted!EdgesFrom(S, n) = 0 <=> \A m \in S : ~(mult[<<m, n>>] > 0)
         /\ \A T \in SUBSET S :
              Sorted!EdgesFrom(S, n) = Sorted!EdgesFrom(T, n) + Sorted!EdgesFrom(S \ T, n)
<1>1. IsFiniteSet(S) /\ \A m \in S : Into(n)[m] = mult[<<m, n>>] /\ Into(n)[m] \in Nat
  BY EdgesAreSums, SortedFinite
<1>2. Sorted!EdgesFrom(S, n) = Sum(Into(n), S)
  BY EdgesAreSums
<1>3. Sum(Into(n), S) \in Nat /\ (Sum(Into(n), S) = 0 <=> \A m \in S : Into(n)[m] = 0)
  BY <1>1, SumLaws, SumZero
<1>4. ASSUME NEW T \in SUBSET S
      PROVE  Sorted!EdgesFrom(S, n) = Sorted!EdgesFrom(T, n) + Sorted!EdgesFrom(S \ T, n)
  <2>1. T \in SUBSET SortedNode /\ S \ T \in SUBSET SortedNode
    OBVIOUS
  <2>2. Sum(Into(n), S) = Sum(Into(n), T) + Sum(Into(n), S \ T)
    BY <1>1, SumSplits
  <2> QED
    BY <1>2, <2>1, <2>2, EdgesAreSums
<1>5. (\A m \in S : Into(n)[m] = 0) <=> \A m \in S : ~(mult[<<m, n>>] > 0)
  <2>1. ASSUME NEW m \in S PROVE Into(n)[m] = 0 <=> ~(mult[<<m, n>>] > 0)
    <3> DEFINE a == Into(n)[m]
               b == mult[<<m, n>>]
    <3>1. a = b /\ a \in Nat
      BY <1>1
    <3> HIDE DEF a, b
    <3>2. a = 0 <=> ~(b > 0)
      BY <3>1
    <3> QED
      BY <3>2 DEF a, b
  <2> QED
    BY <2>1
<1> QED
  BY <1>2, <1>3, <1>4, <1>5

\* The nodes of the levels are counted level by level.
LevelSizes == [i \in DOMAIN levels |-> Cardinality(levels[i])]

CountIsSum ==
  /\ Sorted!VisitedCount = Sum(LevelSizes, DOMAIN levels)
  /\ IsFiniteSet(DOMAIN levels)
  /\ \A i \in DOMAIN levels : LevelSizes[i] \in Nat

LEMMA VisitedIsSum == Sorted!TypeInv => CountIsSum
<1> SUFFICES ASSUME Sorted!TypeInv PROVE CountIsSum
  OBVIOUS
<1> DEFINE S == DOMAIN levels
           Rec(F) == [s \in SUBSET S |->
                        IF s = {} THEN 0
                        ELSE LET x == CHOOSE x \in s : TRUE
                             IN  Sorted!Cardinality(levels[x]) + F[s \ {x}]]
           iter == CHOOSE F : F = Rec(F)
<1>1. Sorted!VisitedCount = iter[S]
  BY DEF Sorted!VisitedCount, Sorted!MapThenSumSet, Sorted!MapThenFoldSet
<1>2. \A i \in S : LevelSizes[i] = Cardinality(levels[i]) /\ LevelSizes[i] \in Nat
  <2>1. \A i \in S : levels[i] \in SUBSET SortedNode
    BY DEF Sorted!TypeInv
  <2> QED
    BY <2>1, SortedFinite, FS_CardinalityType DEF LevelSizes
<1>3. IsFiniteSet(S)
  <2>1. S = 1..Len(levels) /\ Len(levels) \in Nat
    BY DEF Sorted!TypeInv
  <2> QED
    BY <2>1, FS_Interval
<1> HIDE DEF S
<1>4. \A F : F = Rec(F) <=> IsSum(F, LevelSizes, S)
  <2>1. \A s \in SUBSET S :
          s # {} => Sorted!Cardinality(levels[CHOOSE x \in s : TRUE]) = LevelSizes[Pick(s)]
    BY <1>2, SortedFinite DEF Pick
  <2> QED
    BY <2>1 DEF IsSum, Pick
<1>5. IsSum(iter, LevelSizes, S)
  <2>1. \E F : F = Rec(F)
    <3> HIDE DEF Rec
    <3> QED
      BY <1>2, <1>3, <1>4, SumsExist
  <2>2. iter = Rec(iter)
    <3> HIDE DEF Rec
    <3> QED
      BY <2>1
  <2> HIDE DEF iter, Rec
  <2> QED
    BY <1>4, <2>2
<1> HIDE DEF iter, Rec
<1>6. Sorted!VisitedCount = Sum(LevelSizes, S)
  BY <1>1, <1>2, <1>3, <1>5, SumIs
<1> QED
  BY <1>2, <1>3, <1>6 DEF S, CountIsSum

\* The same after a step.
LEMMA VisitedIsSumNext == Sorted!TypeInv' => CountIsSum'
  BY VisitedIsSum, PTL

LEMMA SortInvInit == ASSUME Sorted!Init PROVE Sorted!SortInv
<1>1. Sorted!TypeInv
  BY DEF Sorted!Init, Sorted!TypeInv
<1>2. levels = <<>> /\ Len(levels) = 0 /\ DOMAIN levels = {}
  BY DEF Sorted!Init
<1>3. Rounds(0) = {} /\ Sorted!Processed = {}
  BY <1>2, RoundsStep DEF Rounds, Sorted!Processed
<1>4. Sorted!DegreesAreCounted
  BY <1>3 DEF Sorted!Init, Sorted!DegreesAreCounted
<1>5. Sorted!QueueIsNext
  <2>1. \A n \in SortedNode :
          Sorted!EdgesFrom(SortedNode, n) = 0 <=> \A m \in SortedNode : ~(mult[<<m, n>>] > 0)
    BY <1>1, NoEdges
  <2>2. \A n \in SortedNode : inDegree[n] = Sorted!EdgesFrom(SortedNode, n)
    BY DEF Sorted!Init
  <2>3. queue = {n \in SortedNode : \A m \in SortedNode : ~(mult[<<m, n>>] > 0)}
    BY <2>1, <2>2 DEF Sorted!Init
  <2>4. Rounds(1) = queue
    <3>1. Rounds(0 + 1) = {n \in SortedNode : \A m \in SortedNode : mult[<<m, n>>] > 0 => m \in {}}
      BY <1>3, RoundsStep
    <3> QED
      BY <2>3, <3>1
  <2>5. Sorted!LevelOf(SortedNode, Sorted!Edges, 0) = Rounds(1) \ Rounds(0)
    BY DEF Sorted!LevelOf, Rounds
  <2> QED
    BY <1>2, <1>3, <2>4, <2>5 DEF Sorted!QueueIsNext
<1>6. Sorted!CountIsExact
  <2>1. Sum(LevelSizes, {}) = 0
    <3>1. \A x \in {} : LevelSizes[x] \in Nat
      OBVIOUS
    <3> QED
      BY <3>1, SumLaws, FS_EmptySet
  <2> QED
    BY <1>1, <1>2, <1>3, <2>1, VisitedIsSum, FS_EmptySet, SortedFinite
       DEF Sorted!CountIsExact, CountIsSum
<1>7. Sorted!ResultIsFinal /\ Sorted!LevelsAreExact
  BY <1>2 DEF Sorted!Init, Sorted!ResultIsFinal, Sorted!LevelsAreExact
<1> QED
  BY <1>1, <1>4, <1>5, <1>6, <1>7 DEF Sorted!SortInv

\* A level is what one more round settles.
LEMMA LevelIsRound ==
  ASSUME NEW i \in Nat
  PROVE  Sorted!LevelOf(SortedNode, Sorted!Edges, i) = Rounds(i + 1) \ Rounds(i)
  BY DEF Sorted!LevelOf, Rounds

\* Once a level is processed, in-degrees count the edges from what is left, and
\* what reaches zero is what the next round settles.
LEMMA LevelReleases ==
  ASSUME Sorted!TypeInv, NEW k \in Nat, NEW n \in SortedNode,
         queue = Rounds(k + 1) \ Rounds(k)
  PROVE  /\ Sorted!EdgesFrom(SortedNode \ Rounds(k), n) - Sorted!EdgesFrom(queue, n)
              = Sorted!EdgesFrom(SortedNode \ Rounds(k + 1), n)
         /\ (Sorted!EdgesFrom(queue, n) > 0
               /\ Sorted!EdgesFrom(SortedNode \ Rounds(k + 1), n) = 0)
              <=> n \in Rounds(k + 2) \ Rounds(k + 1)
<1> DEFINE A == SortedNode \ Rounds(k)
           B == SortedNode \ Rounds(k + 1)
           R0 == Rounds(k)
           R1 == Rounds(k + 1)
           R2 == Rounds(k + 2)
<1>1. /\ R0 \subseteq R1 /\ R1 \subseteq SortedNode
      /\ R1 = {x \in SortedNode : \A m \in SortedNode : mult[<<m, x>>] > 0 => m \in R0}
      /\ R2 = {x \in SortedNode : \A m \in SortedNode : mult[<<m, x>>] > 0 => m \in R1}
  <2>1. k + 1 \in Nat /\ (k + 1) + 1 = k + 2
    OBVIOUS
  <2> QED
    BY <2>1, RoundsStep, RoundsGrow
<1>2. A = SortedNode \ R0 /\ B = SortedNode \ R1 /\ queue = R1 \ R0
  OBVIOUS
<1> HIDE DEF A, B, R0, R1, R2
<1>3. queue \in SUBSET A /\ A \ queue = B /\ A \in SUBSET SortedNode /\ B \in SUBSET SortedNode
  BY <1>1, <1>2
<1>4. queue \in SUBSET SortedNode
  BY <1>3
<1>5. /\ Sorted!EdgesFrom(A, n) = Sorted!EdgesFrom(queue, n) + Sorted!EdgesFrom(B, n)
      /\ Sorted!EdgesFrom(queue, n) \in Nat /\ Sorted!EdgesFrom(B, n) \in Nat
  BY <1>3, <1>4, NoEdges
<1>6. /\ Sorted!EdgesFrom(queue, n) = 0 <=> \A m \in queue : ~(mult[<<m, n>>] > 0)
      /\ Sorted!EdgesFrom(B, n) = 0 <=> \A m \in B : ~(mult[<<m, n>>] > 0)
  BY <1>3, <1>4, NoEdges
<1>7. Sorted!EdgesFrom(A, n) - Sorted!EdgesFrom(queue, n) = Sorted!EdgesFrom(B, n)
  BY <1>5
<1>8. Sorted!EdgesFrom(queue, n) > 0 <=> \E m \in queue : mult[<<m, n>>] > 0
  <2>1. Sorted!EdgesFrom(queue, n) > 0 <=> Sorted!EdgesFrom(queue, n) # 0
    BY <1>5
  <2> QED
    BY <1>6, <2>1
<1>9. ((\E m \in queue : mult[<<m, n>>] > 0) /\ \A m \in B : ~(mult[<<m, n>>] > 0))
        <=> n \in R2 \ R1
  BY <1>1, <1>2
<1>10. (Sorted!EdgesFrom(queue, n) > 0 /\ Sorted!EdgesFrom(B, n) = 0) <=> n \in R2 \ R1
  BY <1>6, <1>8, <1>9
<1> QED
  BY <1>7, <1>10 DEF A, B, R0, R1, R2

\* A level adds its nodes to those that are visited.
LEMMA VisitedGrows ==
  ASSUME Sorted!TypeInv, Sorted!TypeInv', levels' = Append(levels, queue),
         queue \in SUBSET SortedNode
  PROVE  Sorted!VisitedCount' = Sorted!VisitedCount + Cardinality(queue)
<1> DEFINE k == Len(levels)
           S == DOMAIN levels
           T == DOMAIN levels'
<1>1. /\ k \in Nat /\ S = 1..k /\ T = 1..(k + 1) /\ levels'[k + 1] = queue
      /\ \A i \in 1..k : levels'[i] = levels[i]
  BY DEF Sorted!TypeInv
<1>2. /\ Sorted!VisitedCount = Sum(LevelSizes, S) /\ IsFiniteSet(S)
      /\ \A i \in S : LevelSizes[i] \in Nat
  BY VisitedIsSum DEF CountIsSum
<1>3. /\ Sorted!VisitedCount' = Sum(LevelSizes', T) /\ IsFiniteSet(T)
      /\ \A i \in T : LevelSizes'[i] \in Nat
  BY VisitedIsSumNext DEF CountIsSum
<1>4. /\ \A i \in S : LevelSizes'[i] = LevelSizes[i]
      /\ LevelSizes'[k + 1] = Cardinality(queue)
      /\ k + 1 \in T /\ T \ {k + 1} = S
  <2>1. S = 1..k /\ T = 1..(k + 1) /\ k \in Nat
    BY <1>1
  <2>2. LevelSizes' = [i \in T |-> Cardinality(levels'[i])]
    BY DEF LevelSizes
  <2>3. LevelSizes = [i \in S |-> Cardinality(levels[i])]
    BY DEF LevelSizes
  <2> HIDE DEF S, T, k
  <2>4. k + 1 \in T /\ T \ {k + 1} = S /\ S \subseteq T
    BY <2>1
  <2> QED
    BY <1>1, <2>1, <2>2, <2>3, <2>4
<1> HIDE DEF S, T, k
<1>5. Sum(LevelSizes', T) = LevelSizes'[k + 1] + Sum(LevelSizes', S)
  BY <1>3, <1>4, SumLaws
<1>6. Sum(LevelSizes', S) = Sum(LevelSizes, S) /\ Sum(LevelSizes, S) \in Nat
  BY <1>2, <1>4, SumLaws
<1>7. Cardinality(queue) \in Nat
  BY SortedFinite, FS_CardinalityType
<1> QED
  BY <1>2, <1>3, <1>4, <1>5, <1>6, <1>7

\* The edges, and with them the rounds, stay what they are.
LEMMA RoundsStay ==
  ASSUME mult' = mult
  PROVE  /\ Sorted!Edges' = Sorted!Edges
         /\ \A i : Rounds(i)' = Rounds(i)
         /\ \A S, n : Sorted!EdgesFrom(S, n)' = Sorted!EdgesFrom(S, n)
<1>1. Sorted!Edges' = Sorted!Edges
  BY DEF Sorted!Edges
<1>2. \A i : Rounds(i)' = Rounds(i)
  BY <1>1 DEF Rounds
<1>3. \A S, n : Sorted!EdgesFrom(S, n)' = Sorted!EdgesFrom(S, n)
  BY DEF Sorted!EdgesFrom, Sorted!MapThenSumSet, Sorted!MapThenFoldSet
<1> QED
  BY <1>1, <1>2, <1>3

LEMMA VisitedStays == ASSUME levels' = levels PROVE Sorted!VisitedCount' = Sorted!VisitedCount
  BY DEF Sorted!VisitedCount, Sorted!MapThenSumSet, Sorted!MapThenFoldSet, Sorted!Cardinality

LEMMA LevelKeepsSortInv ==
  ASSUME Sorted!SortInv, Sorted!ProcessLevel
  PROVE  Sorted!SortInv'
<1> DEFINE k == Len(levels)
           R0 == Rounds(k)
           R1 == Rounds(k + 1)
           R2 == Rounds(k + 2)
<1>1. /\ k \in Nat /\ levels' = Append(levels, queue) /\ Len(levels') = k + 1
      /\ mult' = mult /\ dangling' = dangling /\ result' = result /\ queue # {}
  BY DEF Sorted!SortInv, Sorted!TypeInv, Sorted!ProcessLevel
<1>2. /\ R0 \subseteq R1 /\ R1 \subseteq SortedNode
      /\ queue = R1 \ R0 /\ Sorted!Processed = R0
  <2>1. Sorted!LevelOf(SortedNode, Sorted!Edges, k) = R1 \ R0
    BY <1>1, LevelIsRound
  <2> QED
    BY <1>1, <2>1, RoundsStep, RoundsGrow
       DEF Sorted!SortInv, Sorted!QueueIsNext, Sorted!Processed, Rounds
<1>3. Sorted!Processed' = R1
  <2>1. Sorted!Processed' = Sorted!SettledBy(SortedNode, Sorted!Edges', Len(levels'))
    BY DEF Sorted!Processed
  <2> QED
    BY <1>1, <2>1, RoundsStay DEF Rounds
<1>4. Sorted!TypeInv'
  <2>1. queue \in SUBSET SortedNode
    BY <1>2
  <2> QED
    BY <1>1, <2>1 DEF Sorted!SortInv, Sorted!TypeInv
<1>5. \A n \in SortedNode : inDegree[n] = Sorted!EdgesFrom(SortedNode \ R0, n)
  BY <1>2 DEF Sorted!SortInv, Sorted!DegreesAreCounted
<1>6. \A n \in SortedNode :
        /\ Sorted!EdgesFrom(SortedNode \ R0, n) - Sorted!EdgesFrom(queue, n)
             = Sorted!EdgesFrom(SortedNode \ R1, n)
        /\ (Sorted!EdgesFrom(queue, n) > 0 /\ Sorted!EdgesFrom(SortedNode \ R1, n) = 0)
             <=> n \in R2 \ R1
  BY <1>1, <1>2, LevelReleases DEF Sorted!SortInv
<1>7. inDegree' = [n \in SortedNode |-> Sorted!EdgesFrom(SortedNode \ R1, n)]
  <2>1. inDegree' = [n \in SortedNode |-> inDegree[n] - Sorted!EdgesFrom(queue, n)]
    BY DEF Sorted!ProcessLevel, Sorted!Released
  <2> HIDE DEF R0, R1, R2
  <2> QED
    BY <1>5, <1>6, <2>1
<1>8. Sorted!DegreesAreCounted'
  <2>1. \A n \in SortedNode :
          Sorted!EdgesFrom(SortedNode \ Sorted!Processed, n)' = Sorted!EdgesFrom(SortedNode \ R1, n)
    <3> TAKE n \in SortedNode
    <3>1. Sorted!EdgesFrom(SortedNode \ Sorted!Processed, n)'
            = Sorted!EdgesFrom(SortedNode \ Sorted!Processed', n)
      BY <1>1 DEF Sorted!EdgesFrom, Sorted!MapThenSumSet, Sorted!MapThenFoldSet
    <3> QED
      BY <1>3, <3>1
  <2> QED
    BY <1>7, <2>1 DEF Sorted!DegreesAreCounted
<1>9. Sorted!QueueIsNext'
  <2>1. queue' = {n \in SortedNode : Sorted!EdgesFrom(queue, n) > 0 /\ inDegree'[n] = 0}
    BY DEF Sorted!ProcessLevel, Sorted!Released
  <2>2. R2 \subseteq SortedNode
    <3>1. k + 2 \in Nat
      BY <1>1
    <3> QED
      BY <3>1, RoundsStep
  <2>3. queue' = R2 \ R1
    <3> HIDE DEF R0, R1, R2
    <3> QED
      BY <1>6, <1>7, <2>1, <2>2
  <2>4. Sorted!LevelOf(SortedNode, Sorted!Edges, k + 1) = R2 \ R1
    <3>1. k + 1 \in Nat /\ (k + 1) + 1 = k + 2
      BY <1>1
    <3> QED
      BY <3>1, LevelIsRound
  <2>5. Sorted!LevelOf(SortedNode, Sorted!Edges, Len(levels))'
          = Sorted!LevelOf(SortedNode, Sorted!Edges, k + 1)
    BY <1>1, RoundsStay
  <2> QED
    BY <2>3, <2>4, <2>5 DEF Sorted!QueueIsNext
<1>10. Sorted!CountIsExact'
  <2>1. Sorted!VisitedCount' = Sorted!VisitedCount + Cardinality(queue)
    BY <1>1, <1>2, <1>4, VisitedGrows DEF Sorted!SortInv
  <2>2. Sorted!VisitedCount = Cardinality(R0)
    BY <1>2, SortedFinite DEF Sorted!SortInv, Sorted!CountIsExact
  <2>3. Cardinality(R1) = Cardinality(R0) + Cardinality(queue)
    <3>1. R0 \in SUBSET SortedNode /\ queue \in SUBSET SortedNode /\ R0 \cup queue = R1
          /\ R0 \cap queue = {}
      BY <1>2
    <3>2. IsFiniteSet(R0) /\ IsFiniteSet(queue)
      BY <3>1, SortedFinite
    <3> HIDE DEF R0, R1
    <3>3. Cardinality(R0 \cup queue) = Cardinality(R0) + Cardinality(queue) - Cardinality(R0 \cap queue)
      BY <3>2, FS_Union
    <3>4. Cardinality(R0 \cap queue) = 0
      BY <3>1, FS_EmptySet
    <3>5. Cardinality(R0) \in Nat /\ Cardinality(queue) \in Nat
      BY <3>2, FS_CardinalityType
    <3> QED
      <4> DEFINE a == Cardinality(R0)
                 b == Cardinality(queue)
                 c == Cardinality(R0 \cap queue)
                 d == Cardinality(R0 \cup queue)
      <4>1. a \in Nat /\ b \in Nat /\ c = 0 /\ d = a + b - c /\ Cardinality(R1) = d
        BY <3>1, <3>3, <3>4, <3>5
      <4> HIDE DEF a, b, c, d
      <4>2. Cardinality(R1) = a + b
        BY <4>1
      <4> QED
        BY <4>2 DEF a, b
  <2>4. Sorted!Cardinality(Sorted!Processed)' = Cardinality(R1)
    BY <1>3, SortedFinite
  <2> QED
    BY <2>1, <2>2, <2>3, <2>4 DEF Sorted!CountIsExact
<1>11. Sorted!ResultIsFinal'
  BY <1>1 DEF Sorted!SortInv, Sorted!ResultIsFinal
<1>12. Sorted!LevelsAreExact'
  <2>1. \A i \in DOMAIN levels' : i \in 1..(k + 1)
    BY <1>1 DEF Sorted!SortInv, Sorted!TypeInv
  <2>2. levels'[k + 1] = Sorted!LevelOf(SortedNode, Sorted!Edges, k)
    BY <1>1 DEF Sorted!SortInv, Sorted!TypeInv, Sorted!QueueIsNext
  <2>3. \A i \in 1..k : levels'[i] = Sorted!LevelOf(SortedNode, Sorted!Edges, i - 1)
    BY <1>1 DEF Sorted!SortInv, Sorted!TypeInv, Sorted!LevelsAreExact
  <2>4. \A i : Sorted!LevelOf(SortedNode, Sorted!Edges, i)'
                 = Sorted!LevelOf(SortedNode, Sorted!Edges, i)
    BY <1>1, RoundsStay
  <2>5. \A i \in 1..(k + 1) : i \in 1..k \/ (i = k + 1 /\ i - 1 = k)
    BY <1>1
  <2> QED
    BY <2>1, <2>2, <2>3, <2>4, <2>5 DEF Sorted!LevelsAreExact
<1> QED
  BY <1>4, <1>8, <1>9, <1>10, <1>11, <1>12 DEF Sorted!SortInv

LEMMA SortInvStep ==
  ASSUME Sorted!SortInv, [Sorted!Next]_(Sorted!vars)
  PROVE  Sorted!SortInv'
<1>1. ASSUME UNCHANGED <<mult, dangling, inDegree, queue, levels>>,
             result' \in {"none", "valid", "invalid"}, Sorted!ResultIsFinal'
      PROVE  Sorted!SortInv'
  <2>1. Sorted!Processed' = Sorted!Processed /\ Sorted!VisitedCount' = Sorted!VisitedCount
    <3>1. Sorted!Processed' = Sorted!SettledBy(SortedNode, Sorted!Edges', Len(levels'))
      BY DEF Sorted!Processed
    <3> QED
      BY <1>1, <3>1, RoundsStay, VisitedStays DEF Sorted!Processed
  <2>2. Sorted!DegreesAreCounted'
    <3>1. \A n \in SortedNode : Sorted!EdgesFrom(SortedNode \ Sorted!Processed, n)'
                               = Sorted!EdgesFrom(SortedNode \ Sorted!Processed', n)
      BY <1>1 DEF Sorted!EdgesFrom, Sorted!MapThenSumSet, Sorted!MapThenFoldSet
    <3> QED
      BY <1>1, <2>1, <3>1 DEF Sorted!SortInv, Sorted!DegreesAreCounted
  <2>3. Sorted!QueueIsNext' /\ Sorted!LevelsAreExact'
    BY <1>1, RoundsStay DEF Sorted!SortInv, Sorted!QueueIsNext, Sorted!LevelsAreExact
  <2> QED
    BY <1>1, <2>1, <2>2, <2>3 DEF Sorted!SortInv, Sorted!TypeInv, Sorted!CountIsExact
<1>2. CASE UNCHANGED (Sorted!vars)
  <2>1. UNCHANGED <<mult, dangling, inDegree, queue, levels>> /\ result' = result
    BY <1>2 DEF Sorted!vars
  <2>2. Sorted!ResultIsFinal'
    BY <2>1, VisitedStays DEF Sorted!SortInv, Sorted!ResultIsFinal, Sorted!Cyclic
  <2> QED
    BY <1>1, <2>1, <2>2 DEF Sorted!SortInv, Sorted!TypeInv
<1>3. CASE Sorted!Finish
  <2>1. /\ UNCHANGED <<mult, dangling, inDegree, queue, levels>> /\ queue = {}
        /\ result' = IF dangling \/ Sorted!Cyclic THEN "invalid" ELSE "valid"
    BY <1>3 DEF Sorted!Finish
  <2>2. Sorted!Cyclic' <=> Sorted!Cyclic
    BY <2>1, VisitedStays DEF Sorted!Cyclic
  <2>3. Sorted!ResultIsFinal'
    BY <2>1, <2>2 DEF Sorted!ResultIsFinal
  <2> QED
    BY <1>1, <2>1, <2>3
<1> QED
  BY <1>2, <1>3, LevelKeepsSortInv DEF Sorted!Next

\* When no node is ready, either all are settled or those that are not wait for
\* each other: what is counted tells the two apart.
LEMMA SortIsRight ==
  ASSUME Sorted!SortInv
  PROVE  Sorted!LevelsAreExact /\ Sorted!RefusedExactlyWhenInvalid
<1> DEFINE k == Len(levels)
           R == Rounds(k)
           Waiting(S) == \A n \in S : \E m \in S : <<m, n>> \in Sorted!Edges
<1>1. SUFFICES ASSUME result # "none"
               PROVE  Sorted!Cyclic <=> \E S \in (SUBSET SortedNode) \ {{}} : Waiting(S)
  BY Zenon DEF Sorted!SortInv, Sorted!ResultIsFinal, Sorted!RefusedExactlyWhenInvalid
<1>2. k \in Nat /\ R \subseteq SortedNode /\ Rounds(k + 1) \subseteq R
  <2>1. k \in Nat /\ queue = {} /\ queue = Sorted!LevelOf(SortedNode, Sorted!Edges, k)
    BY <1>1 DEF Sorted!SortInv, Sorted!TypeInv, Sorted!ResultIsFinal, Sorted!QueueIsNext
  <2>2. Rounds(k + 1) \ R = {}
    BY <2>1, LevelIsRound
  <2> QED
    BY <2>1, <2>2, RoundsStep
<1>3. \A S \in SUBSET SortedNode :
        Waiting(S) <=> \A n \in S : \E m \in S : mult[<<m, n>>] > 0
  BY DEF Sorted!Edges
<1>4. Sorted!Cyclic <=> R # SortedNode
  <2>1. Sorted!VisitedCount = Cardinality(R)
    BY SortedFinite DEF Sorted!SortInv, Sorted!CountIsExact, Sorted!Processed, Rounds
  <2>2. Cardinality(SortedNode) = Cardinality(R) => SortedNode = R
    <3> HIDE DEF R
    <3> QED
      BY <1>2, SortedFinite, FS_Subset
  <2> QED
    BY <2>1, <2>2, SortedFinite DEF Sorted!Cyclic
<1>5. ASSUME R # SortedNode PROVE \E S \in (SUBSET SortedNode) \ {{}} : Waiting(S)
  <2> DEFINE U == SortedNode \ R
  <2>1. \A n \in U : \E m \in U : mult[<<m, n>>] > 0
    <3>1. SUFFICES ASSUME NEW n \in U, \A m \in U : ~(mult[<<m, n>>] > 0) PROVE FALSE
      OBVIOUS
    <3>2. n \in Rounds(k + 1)
      BY <1>2, <3>1, RoundsStep
    <3> QED
      BY <1>2, <3>1, <3>2
  <2>2. U \in (SUBSET SortedNode) \ {{}}
    BY <1>2, <1>5
  <2> HIDE DEF Waiting, U
  <2> QED
    BY <1>3, <2>1, <2>2
<1>6. ASSUME NEW S \in (SUBSET SortedNode) \ {{}}, Waiting(S) PROVE R # SortedNode
  <2>1. \A n \in S : \E m \in S : mult[<<m, n>>] > 0
    BY <1>3, <1>6
  <2>2. S \cap R = {}
    BY <1>2, <2>1, CyclesNeverSettle
  <2> QED
    BY <2>2
<1> HIDE DEF Waiting
<1> QED
  BY <1>4, <1>5, <1>6 DEF Sorted!SortInv

\* Kahn's levels are exact and a graph is refused exactly when an edge dangles or
\* there is a cycle, for any finite set of nodes and any number of parallel edges.
THEOREM SortStaysExact == Spec => []SortIsExact
<1>1. Init => (scenario = "sort" => Sorted!SortInv)
  BY SortInvInit DEF Init, GraphInit, LettersInit, SortInit, FlowInit, WriterInit, EdgarInit, PagesInit
<1>2. (scenario = "sort" => Sorted!SortInv) /\ [Next]_vars
      => (scenario = "sort" => Sorted!SortInv)'
  <2> SUFFICES ASSUME scenario = "sort" => Sorted!SortInv, [Next]_vars, scenario' = "sort"
               PROVE  Sorted!SortInv'
    OBVIOUS
  <2>1. scenario = "sort" /\ [Sorted!Next]_(Sorted!vars)
    BY DEF Next, GraphNext, LettersNext, SortNext, FlowNext, WriterNext, EdgarNext, PagesNext, vars, sortVars,
       commonVars, Sorted!vars
  <2> QED
    BY <2>1, SortInvStep
<1>3. (scenario = "sort" => Sorted!SortInv) => SortIsExact
  BY SortIsRight DEF SortIsExact
<1> QED
  BY <1>1, <1>2, <1>3, PTL DEF Spec

-------------------------------------------------------------------------------
(* The data that edges carry                                               *)

\* An edge as the executor reads it, and the data it brings.
Port(e) == Graph!SourcePort(e)
Carries(e) ==
  IF Port(e) \in DOMAIN Graph!Outputs[types[e.source]]
  THEN <<e.source, Port(e)>> ELSE <<e.source, "whole">>

\* What node n has at its ports after the first k edges: at a port the data of one
\* of them, and data at the port of each of them.
Gathered(n, in, k) ==
  /\ \A p \in DOMAIN in : \E j \in 1..k :
       /\ edges[j].target = n /\ Graph!TargetPort(edges[j]) = p
       /\ in[p] = Carries(edges[j])
  /\ \A j \in 1..k : edges[j].target = n => Graph!TargetPort(edges[j]) \in DOMAIN in

FlowTypesOK ==
  /\ types \in [Graph!Nodes -> FlowTypes] /\ edges \in Seq(Graph!Edges)
  /\ stage \in {"new", "saved", "refused"} /\ template \in BOOLEAN

\* A saved graph was validated, and nodes run in a saved graph only, on what their
\* edges bring.
SavedIsValid ==
  stage = "saved" =>
    Graph!ValidateGraphEdges /\ (template => Graph!RequiredConnected)
InputsAreGathered ==
  /\ DOMAIN inputs \subseteq Graph!Nodes
  /\ DOMAIN inputs # {} => stage = "saved"
  /\ \A n \in DOMAIN inputs : Gathered(n, inputs[n], Len(edges))
FlowInv == FlowTypesOK /\ SavedIsValid /\ InputsAreGathered

\* An edge is a record, whatever ports its nodes have; unpacking names its ports.
LEMMA UnpackedIs ==
  ASSUME NEW e \in Graph!Edges
  PROVE  LET u == Graph!Unpacked(e)
         IN  /\ u.source = e.source /\ u.target = e.target
             /\ u.source_port = Port(e) /\ u.target_port = Graph!TargetPort(e)
<1>1. PICK s, t : e \in Graph!Edge(s, t)
  BY DEF Graph!Edges
<1>2. e \in [source : {s}, target : {t},
             source_port : DOMAIN Graph!Outputs[types[s]] \cup {Absent},
             target_port : DOMAIN Graph!Inputs[types[t]] \cup {Absent}, handles : BOOLEAN]
  BY <1>1 DEF Graph!Edge
<1> QED
  BY <1>2 DEF Graph!Unpacked, Port

\* One more edge.
LEMMA GathersEdge ==
  ASSUME FlowTypesOK, NEW n, NEW k \in 0..(Len(edges) - 1), NEW in, Gathered(n, in, k)
  PROVE  /\ edges[k + 1].target # n => Gathered(n, in, k + 1)
         /\ edges[k + 1].target = n =>
              Gathered(n, Graph!Brought(in, Graph!Unpacked(edges[k + 1])), k + 1)
<1> DEFINE e == edges[k + 1]
           u == Graph!Unpacked(e)
           new == Graph!Brought(in, u)
<1>1. /\ k + 1 \in 1..Len(edges) /\ k \in Nat /\ e \in Graph!Edges
      /\ \A j : j \in 1..(k + 1) <=> j \in 1..k \/ j = k + 1
  BY DEF FlowTypesOK
<1>2. CASE e.target # n
  BY <1>1, <1>2 DEF Gathered
<1>3. CASE e.target = n
  <2>1. u.source = e.source /\ u.source_port = Port(e) /\ u.target_port = Graph!TargetPort(e)
    BY <1>1, UnpackedIs
  <2>2. Graph!Data(u) = Carries(e)
    BY <2>1 DEF Graph!Data, Carries
  <2> DEFINE q == Graph!TargetPort(e)
  <2>3. new = [p \in DOMAIN in \cup {q} |-> IF p = q THEN Carries(e) ELSE in[p]]
    BY <2>1, <2>2 DEF Graph!Brought
  <2> HIDE DEF u, new, q
  <2>4. DOMAIN new = DOMAIN in \cup {q} /\ new[q] = Carries(e)
        /\ \A p \in DOMAIN in : p # q => new[p] = in[p]
    BY <2>3
  <2>5. ASSUME NEW p \in DOMAIN new
        PROVE  \E j \in 1..(k + 1) : /\ edges[j].target = n /\ Graph!TargetPort(edges[j]) = p
                                     /\ new[p] = Carries(edges[j])
    <3>1. CASE p = q
      BY <1>1, <1>3, <2>4, <3>1 DEF q
    <3>2. CASE p # q
      BY <1>1, <2>4, <2>5, <3>2 DEF Gathered
    <3> QED
      BY <3>1, <3>2
  <2>6. ASSUME NEW j \in 1..(k + 1), edges[j].target = n
        PROVE  Graph!TargetPort(edges[j]) \in DOMAIN new
    BY <1>1, <2>4, <2>6 DEF Gathered, q
  <2>7. Gathered(n, new, k + 1)
    BY <2>5, <2>6 DEF Gathered
  <2> QED
    BY <1>3, <2>7 DEF new, u
<1> QED
  BY <1>2, <1>3

\* _collect_inputs gives a node what its edges bring: the states its loop goes
\* through are defined, and each is what the edges so far bring.
LEMMA CollectsWhatEdgesBring ==
  ASSUME FlowTypesOK, NEW n
  PROVE  Gathered(n, Graph!CollectInputs(n), Len(edges))
<1> DEFINE m == Len(edges)
           none == [p \in {} |-> <<0, "none">>]
           Next1(in, i) ==
             IF edges[i].target # n THEN in ELSE Graph!Brought(in, Graph!Unpacked(edges[i]))
           Rec(f, k) == f = [i \in 0..k |-> IF i = 0 THEN none ELSE Next1(f[i - 1], i)]
           T == {k \in Nat : \E f : Rec(f, k)}
<1>1. m \in Nat
  BY DEF FlowTypesOK
<1>2. 0 \in T
  <2>1. Rec([i \in 0..0 |-> none], 0)
    OBVIOUS
  <2> QED
    BY <2>1
<1>3. ASSUME NEW k \in Nat, k \in T PROVE k + 1 \in T
  <2>1. PICK f : Rec(f, k)
    BY <1>3
  <2> DEFINE e == Next1(f[k], k + 1)
             g == [i \in 0..(k + 1) |-> IF i = k + 1 THEN e ELSE f[i]]
  <2>2. ASSUME NEW i \in 0..(k + 1)
        PROVE  g[i] = IF i = 0 THEN none ELSE Next1(g[i - 1], i)
    <3> HIDE DEF Next1, none
    <3>1. CASE i = k + 1
      <4>1. i # 0 /\ i - 1 = k /\ k \in 0..(k + 1) /\ k # k + 1
        BY <3>1
      <4>2. g[i - 1] = f[k]
        BY <4>1
      <4> QED
        BY <3>1, <4>1, <4>2
    <3>2. CASE i # k + 1
      <4>1. i \in 0..k /\ (i # 0 => i - 1 \in 0..(k + 1) /\ i - 1 # k + 1)
        BY <3>2
      <4> QED
        BY <2>1, <3>2, <4>1
    <3> QED
      BY <3>1, <3>2
  <2> HIDE DEF e, Next1, none
  <2>3. Rec(g, k + 1)
    BY <2>2
  <2>4. \E h : Rec(h, k + 1)
    <3> HIDE DEF Rec, g
    <3> QED
      BY <2>3
  <2> QED
    BY <2>4
<1>4. \E f : Rec(f, m)
  <2> HIDE DEF T, Rec
  <2>1. \A k \in Nat : k \in T
    BY <1>2, <1>3, SetInduction
  <2> QED
    BY <1>1, <2>1 DEF T
<1> DEFINE f == CHOOSE g : Rec(g, m)
<1>5. Graph!CollectInputs(n) = f[m]
  BY DEF Graph!CollectInputs
<1>6. Rec(f, m)
  <2> HIDE DEF Rec
  <2> QED
    BY <1>4
<1> HIDE DEF f
<1> DEFINE Right == {k \in Nat : k <= m => Gathered(n, f[k], k)}
<1>7. 0 \in Right
  <2>1. f[0] = none
    BY <1>1, <1>6
  <2>2. DOMAIN none = {} /\ 1..0 = {}
    OBVIOUS
  <2> QED
    BY <2>1, <2>2 DEF Gathered
<1>8. ASSUME NEW k \in Nat, k \in Right PROVE k + 1 \in Right
  <2> SUFFICES ASSUME k + 1 <= m PROVE Gathered(n, f[k + 1], k + 1)
    OBVIOUS
  <2>1. k \in 0..(m - 1) /\ Gathered(n, f[k], k)
    BY <1>1, <1>8
  <2>2. f[k + 1] = Next1(f[k], k + 1)
    <3> HIDE DEF Next1, none
    <3>1. k + 1 \in 0..m /\ k + 1 # 0 /\ (k + 1) - 1 = k
      BY <1>1
    <3> QED
      BY <1>6, <3>1
  <2> QED
    BY <2>1, <2>2, GathersEdge
<1>9. m \in Right
  <2> HIDE DEF Right
  <2> QED
    BY <1>1, <1>7, <1>8, SetInduction
<1> QED
  BY <1>1, <1>5, <1>9

\* FlowInv is inductive.
LEMMA FlowInvInit == ASSUME Graph!Init PROVE FlowInv
<1>1. edges \in Seq(Graph!Edges)
  <2>1. PICK k \in 0..FlowEdges : edges \in [1..k -> Graph!Edges]
    BY DEF Graph!Init
  <2>2. k \in Nat
    BY <2>1, ConstantsAreSound DEF Graph!FlowAssumption
  <2> QED
    BY <2>1, <2>2
<1>2. DOMAIN inputs = {}
  BY DEF Graph!Init
<1> QED
  BY <1>1, <1>2 DEF Graph!Init, FlowInv, FlowTypesOK, SavedIsValid, InputsAreGathered

LEMMA FlowInvStep == ASSUME FlowInv, [Graph!Next]_(Graph!vars) PROVE FlowInv'
<1> USE DEF FlowInv
<1>1. types' = types /\ edges' = edges /\ template' = template
  BY DEF Graph!Next, Graph!Save, Graph!CreateFromTemplate, Graph!RunNode, Graph!vars
<1>2. FlowTypesOK'
  <2>1. stage' \in {"new", "saved", "refused"}
    BY DEF FlowTypesOK, Graph!Next, Graph!Save, Graph!CreateFromTemplate, Graph!RunNode, Graph!vars
  <2>2. Graph!Edges' = Graph!Edges
    BY <1>1 DEF Graph!Edges, Graph!Edge
  <2> QED
    BY <1>1, <2>1, <2>2 DEF FlowTypesOK
<1>3. /\ Graph!ValidateGraphEdges' <=> Graph!ValidateGraphEdges
      /\ Graph!RequiredConnected' <=> Graph!RequiredConnected
  BY <1>1 DEF Graph!ValidateGraphEdges, Graph!ValidEdge, Graph!Compatible, Graph!SourcePort,
     Graph!TargetPort, Graph!RequiredConnected, Graph!Connected
<1>4. SavedIsValid'
  <2>1. CASE Graph!Save
    BY <1>1, <1>3, <2>1 DEF Graph!Save, SavedIsValid
  <2>2. CASE Graph!CreateFromTemplate
    BY <1>1, <1>3, <2>2 DEF Graph!CreateFromTemplate, Graph!ValidateTemplates, SavedIsValid
  <2>3. CASE stage' = stage
    BY <1>1, <1>3, <2>3 DEF SavedIsValid
  <2> QED
    BY <2>1, <2>2, <2>3 DEF Graph!Next, Graph!RunNode, Graph!vars
<1>5. InputsAreGathered'
  <2>1. ASSUME NEW n \in DOMAIN inputs', Gathered(n, inputs'[n], Len(edges))
        PROVE  Gathered(n, inputs[n], Len(edges))'
    BY <1>1, <2>1 DEF Gathered, Carries, Port, Graph!SourcePort, Graph!TargetPort
  <2>2. CASE inputs' = inputs /\ (stage = "new" \/ stage' = stage)
    BY <2>1, <2>2 DEF InputsAreGathered
  <2>3. ASSUME NEW n \in Graph!Nodes, Graph!RunNode(n) PROVE InputsAreGathered'
    <3>1. /\ stage = "saved" /\ stage' = "saved" /\ DOMAIN inputs = 1..(n - 1)
          /\ inputs' = [i \in 1..n |-> IF i = n THEN Graph!CollectInputs(n) ELSE inputs[i]]
          /\ n \in Nat
      BY <2>3, ConstantsAreSound DEF Graph!RunNode, Graph!Nodes, Graph!FlowAssumption
    <3>2. ASSUME NEW i \in 1..n PROVE Gathered(i, inputs'[i], Len(edges))
      <4>1. CASE i = n
        BY <3>1, <4>1, CollectsWhatEdgesBring
      <4>2. CASE i # n
        <5>1. i \in DOMAIN inputs /\ inputs'[i] = inputs[i]
          BY <3>1, <4>2
        <5> QED
          BY <5>1 DEF InputsAreGathered
      <4> QED
        BY <4>1, <4>2
    <3> QED
      BY <2>1, <3>1, <3>2 DEF InputsAreGathered
  <2> QED
    BY <2>2, <2>3 DEF Graph!Next, Graph!Save, Graph!CreateFromTemplate, Graph!vars
<1> QED
  BY <1>2, <1>4, <1>5

\* What a valid edge brings is of its port's type, and what is gathered by way of
\* valid edges is a node's inputs, all of the required ones in a template.
LEMMA GatheredIsTyped ==
  ASSUME FlowInv
  PROVE  Graph!DataIsOfItsType /\ Graph!TemplatesAreRunnable
<1>1. ASSUME NEW n \in DOMAIN inputs
      PROVE  /\ Graph!ValidateGraphEdges /\ (template => Graph!RequiredConnected)
             /\ Gathered(n, inputs[n], Len(edges))
  BY DEF FlowInv, SavedIsValid, InputsAreGathered
<1>2. DOMAIN edges = 1..Len(edges)
  BY DEF FlowInv, FlowTypesOK
<1>3. ASSUME NEW n \in DOMAIN inputs, NEW p \in DOMAIN inputs[n]
      PROVE  /\ p \in DOMAIN Graph!Inputs[types[n]]
             /\ LET d == inputs[n][p]
                IN  /\ d[2] \in DOMAIN Graph!Outputs[types[d[1]]]
                    /\ Graph!Inputs[types[n]][p] \in {"any", Graph!Outputs[types[d[1]]][d[2]]}
  <2>1. PICK j \in 1..Len(edges) :
          /\ edges[j].target = n /\ Graph!TargetPort(edges[j]) = p
          /\ inputs[n][p] = Carries(edges[j])
    BY <1>1 DEF Gathered
  <2>2. Graph!ValidEdge(edges[j])
    BY <1>1, <1>2 DEF Graph!ValidateGraphEdges
  <2>3. inputs[n][p] = <<edges[j].source, Port(edges[j])>>
    BY <2>1, <2>2 DEF Graph!ValidEdge, Carries, Port
  <2> QED
    BY <2>1, <2>2, <2>3 DEF Graph!ValidEdge, Graph!Compatible, Port
<1>4. ASSUME template, NEW n \in DOMAIN inputs, n \in Graph!Nodes
      PROVE  DOMAIN Graph!Inputs[types[n]] \cap Graph!Required \subseteq DOMAIN inputs[n]
  BY <1>1, <1>2, <1>4 DEF Graph!RequiredConnected, Graph!Connected, Gathered
<1> QED
  BY <1>3, <1>4 DEF Graph!DataIsOfItsType, Graph!TemplatesAreRunnable, FlowInv, InputsAreGathered

\* What reaches an input comes from an output of its type, and a template's nodes
\* have data at all they require: for any registered types, any number of nodes and
\* any edges between them.
THEOREM DataStaysOfItsType == Spec => []DataIsOfItsType
<1>1. Init => (scenario = "flow" => FlowInv)
  BY FlowInvInit DEF Init, GraphInit, LettersInit, SortInit, FlowInit, WriterInit, EdgarInit, PagesInit
<1>2. (scenario = "flow" => FlowInv) /\ [Next]_vars => (scenario = "flow" => FlowInv)'
  <2> SUFFICES ASSUME scenario = "flow" => FlowInv, [Next]_vars, scenario' = "flow"
               PROVE  FlowInv'
    OBVIOUS
  <2>1. scenario = "flow" /\ [Graph!Next]_(Graph!vars)
    BY DEF Next, GraphNext, LettersNext, SortNext, FlowNext, WriterNext, EdgarNext, PagesNext, vars,
       flowVars, Graph!vars
  <2> QED
    BY <2>1, FlowInvStep
<1>3. (scenario = "flow" => FlowInv) => DataIsOfItsType
  BY GatheredIsTyped DEF DataIsOfItsType
<1> QED
  BY <1>1, <1>2, <1>3, PTL DEF Spec

-------------------------------------------------------------------------------
(* The database writer                                                     *)

\* What the modes have in common: who executes what, and what has come of it.
Row == [key : Keys, val : Vals]
Execution ==
  [run : WriterRuns \cup {NoOne}, stage : {"idle", "attempt", "written"}, attempt : Nat]
WriterTypes ==
  /\ rows \in [WriterRuns -> Seq(Row)]
  /\ status \in [WriterRuns -> {"ready", "completed", "failed"}]
  /\ exec \in [Workers -> Execution]
  /\ \A w \in Workers : exec[w].stage # "idle" => exec[w].run \in WriterRuns
WroteWhatItClaims ==
  /\ \A w \in Workers : exec[w].stage = "written" => exec[w].run \in wrote
  /\ \A r \in WriterRuns : status[r] = "completed" => r \in wrote
WriterInv == WriterTypes /\ WroteWhatItClaims

\* WriterInv is inductive, in every mode.
LEMMA WriterInvInit == ASSUME Insert!Init \/ Upsert!Init \/ Replace!Init PROVE WriterInv
<1>1. /\ rows \in [WriterRuns -> UNION {[1..n -> Row] : n \in 1..MaxRows}]
      /\ status = [r \in WriterRuns |-> "ready"]
      /\ exec = [w \in Workers |-> [run |-> NoOne, stage |-> "idle", attempt |-> 0]]
  BY DEF Insert!Init, Upsert!Init, Replace!Init, Insert!Resting, Upsert!Resting, Replace!Resting,
     Row
<1>2. ASSUME NEW r \in WriterRuns PROVE rows[r] \in Seq(Row)
  <2>1. rows[r] \in UNION {[1..n -> Row] : n \in 1..MaxRows}
    BY <1>1
  <2>2. PICK n \in 1..MaxRows : rows[r] \in [1..n -> Row]
    BY <2>1
  <2>3. n \in Nat
    BY <2>2, ConstantsAreSound DEF Insert!SinkAssumption
  <2> QED
    BY <2>2, <2>3
<1>3. rows \in [WriterRuns -> Seq(Row)]
  BY <1>1, <1>2
<1> QED
  BY <1>1, <1>3 DEF WriterInv, WriterTypes, WroteWhatItClaims, Execution

\* A transaction is noted.
LEMMA Delivers ==
  ASSUME NEW r, Insert!Transaction(r) \/ Upsert!Transaction(r) \/ Replace!Transaction(r)
  PROVE  wrote' = wrote \cup {r}
  BY DEF Insert!Transaction, Upsert!Transaction, Replace!Transaction

\* One worker's execution goes on.
LEMMA ExecutionChanges ==
  ASSUME WriterInv, NEW w \in Workers, NEW e \in Execution, exec' = [exec EXCEPT ![w] = e],
         e.stage # "idle" => e.run \in WriterRuns, e.stage = "written" => e.run \in wrote',
         wrote \subseteq wrote', rows' = rows,
         status' \in [WriterRuns -> {"ready", "completed", "failed"}],
         \A r \in WriterRuns : status'[r] = "completed" => r \in wrote'
  PROVE  WriterInv' /\ rows' = rows
BY DEF WriterInv, WriterTypes, WroteWhatItClaims

LEMMA WriterInvStep ==
  ASSUME WriterInv, Insert!Next \/ Upsert!Next \/ Replace!Next
  PROVE  WriterInv' /\ rows' = rows
<1> USE DEF WriterInv, WriterTypes, WroteWhatItClaims
<1> DEFINE Right == WriterInv' /\ rows' = rows
<1>0. [run |-> NoOne, stage |-> "idle", attempt |-> 0] \in Execution
  BY DEF Execution
<1>1. ASSUME NEW w \in Workers, Insert!Start(w) \/ Upsert!Start(w) \/ Replace!Start(w)
      PROVE  Right
  <2>1. PICK r \in WriterRuns :
          exec' = [exec EXCEPT ![w] = [run |-> r, stage |-> "attempt", attempt |-> 1]]
    BY <1>1 DEF Insert!Start, Upsert!Start, Replace!Start
  <2>2. rows' = rows /\ status' = status /\ wrote' = wrote
    BY <1>1 DEF Insert!Start, Upsert!Start, Replace!Start
  <2>3. [run |-> r, stage |-> "attempt", attempt |-> 1] \in Execution
    BY DEF Execution
  <2> QED
    BY <2>1, <2>2, <2>3, ExecutionChanges
<1>2. ASSUME NEW w \in Workers, Insert!Write(w) \/ Upsert!Write(w) \/ Replace!Write(w)
      PROVE  Right
  <2> DEFINE e == [exec[w] EXCEPT !.stage = "written"]
  <2>1. wrote' = wrote \cup {exec[w].run}
    BY <1>2, Delivers DEF Insert!Write, Upsert!Write, Replace!Write
  <2>2. exec' = [exec EXCEPT ![w] = e] /\ rows' = rows /\ status' = status
        /\ exec[w].stage = "attempt"
    BY <1>2 DEF Insert!Write, Upsert!Write, Replace!Write
  <2>3. e \in Execution /\ e.run = exec[w].run
    BY DEF Execution
  <2> HIDE DEF e
  <2> QED
    BY <2>1, <2>2, <2>3, ExecutionChanges
<1>3. ASSUME NEW w \in Workers, NEW s \in {"ready", "completed", "failed"},
             Insert!Settle(w, s) \/ Upsert!Settle(w, s) \/ Replace!Settle(w, s),
             rows' = rows, wrote \subseteq wrote', exec[w].run \in WriterRuns,
             s = "completed" => exec[w].run \in wrote
      PROVE  Right
  <2>1. /\ exec' = [exec EXCEPT ![w] = [run |-> NoOne, stage |-> "idle", attempt |-> 0]]
        /\ status' = status \/ status' = [status EXCEPT ![exec[w].run] = s]
    BY <1>3 DEF Insert!Settle, Upsert!Settle, Replace!Settle, Insert!Resting, Upsert!Resting,
       Replace!Resting
  <2> QED
    BY <1>0, <1>3, <2>1, ExecutionChanges
<1>4. ASSUME NEW w \in Workers, Insert!NodeFails(w) \/ Upsert!NodeFails(w) \/ Replace!NodeFails(w)
      PROVE  Right
  <2>1. /\ Insert!Settle(w, "failed") \/ Upsert!Settle(w, "failed") \/ Replace!Settle(w, "failed")
        /\ rows' = rows /\ exec[w].stage = "attempt"
    BY <1>4 DEF Insert!NodeFails, Upsert!NodeFails, Replace!NodeFails
  <2>2. wrote' = wrote \/ wrote' = wrote \cup {exec[w].run}
    BY <1>4, Delivers DEF Insert!NodeFails, Upsert!NodeFails, Replace!NodeFails
  <2> QED
    BY <1>3, <2>1, <2>2
<1>5. ASSUME NEW w \in Workers,
             \/ Insert!ControlReadFails(w) \/ Upsert!ControlReadFails(w)
             \/ Replace!ControlReadFails(w)
      PROVE  Right
  <2> DEFINE e == [exec[w] EXCEPT !.stage = "attempt", !.attempt = @ + 1]
  <2>1. /\ exec[w].stage \in {"attempt", "written"} /\ rows' = rows /\ wrote' = wrote
        /\ \/ /\ exec' = [exec EXCEPT ![w].stage = "attempt", ![w].attempt = @ + 1]
              /\ status' = status
           \/ Insert!Settle(w, "failed") \/ Upsert!Settle(w, "failed")
              \/ Replace!Settle(w, "failed")
    BY <1>5 DEF Insert!ControlReadFails, Upsert!ControlReadFails, Replace!ControlReadFails
  <2>2. CASE /\ exec' = [exec EXCEPT ![w].stage = "attempt", ![w].attempt = @ + 1]
             /\ status' = status
    <3>1. exec' = [exec EXCEPT ![w] = e]
      BY <2>2
    <3>2. e \in Execution /\ e.run = exec[w].run /\ e.stage = "attempt"
      <4>1. exec[w] \in Execution
        OBVIOUS
      <4>2. e = [run |-> exec[w].run, stage |-> "attempt", attempt |-> exec[w].attempt + 1]
        <5> DEFINE old == exec[w]
        <5>1. DOMAIN old = {"run", "stage", "attempt"}
          BY <4>1 DEF Execution
        <5>2. e = [old EXCEPT !.stage = "attempt", !.attempt = @ + 1]
          OBVIOUS
        <5> HIDE DEF e, old
        <5>3. e = [run |-> old.run, stage |-> "attempt", attempt |-> old.attempt + 1]
          BY <5>1, <5>2
        <5> QED
          BY <5>3 DEF old
      <4>3. exec[w].attempt \in Nat /\ exec[w].run \in WriterRuns
        BY <2>1, <4>1 DEF Execution
      <4>4. exec[w].attempt + 1 \in Nat
        BY <4>3
      <4> HIDE DEF e
      <4> QED
        BY <4>2, <4>3, <4>4 DEF Execution
    <3> HIDE DEF e
    <3> QED
      BY <2>1, <2>2, <3>1, <3>2, ExecutionChanges
  <2> QED
    BY <1>3, <2>1, <2>2
<1>6. ASSUME NEW w \in Workers,
             Insert!Checkpoint(w) \/ Upsert!Checkpoint(w) \/ Replace!Checkpoint(w)
      PROVE  Right
  <2>1. /\ \/ Insert!Settle(w, "completed") \/ Upsert!Settle(w, "completed")
           \/ Replace!Settle(w, "completed")
        /\ rows' = rows /\ wrote' = wrote /\ exec[w].stage = "written"
    BY <1>6 DEF Insert!Checkpoint, Upsert!Checkpoint, Replace!Checkpoint
  <2> QED
    BY <1>3, <2>1
<1>7. ASSUME NEW w \in Workers, Insert!Crash(w) \/ Upsert!Crash(w) \/ Replace!Crash(w)
      PROVE  Right
  <2>1. /\ exec' = [exec EXCEPT ![w] = [run |-> NoOne, stage |-> "idle", attempt |-> 0]]
        /\ rows' = rows /\ status' = status /\ wrote' = wrote
    BY <1>7 DEF Insert!Crash, Upsert!Crash, Replace!Crash, Insert!Resting, Upsert!Resting,
       Replace!Resting
  <2> QED
    BY <1>0, <2>1, ExecutionChanges
<1>8. ASSUME NEW r \in WriterRuns,
             Insert!RetryFailed(r) \/ Upsert!RetryFailed(r) \/ Replace!RetryFailed(r)
      PROVE  Right
  BY <1>8 DEF Insert!RetryFailed, Upsert!RetryFailed, Replace!RetryFailed
<1> HIDE DEF Right
<1>9. Right
  BY <1>1, <1>2, <1>4, <1>5, <1>6, <1>7, <1>8 DEF Insert!Next, Upsert!Next, Replace!Next
<1> QED
  BY <1>9 DEF Right

\* Only a transaction of the run that is executed touches the target.
LEMMA OnlyTransactions ==
  ASSUME WriterInv
  PROVE  /\ Insert!Next => \/ UNCHANGED <<table, ledger, wrote>>
                           \/ \E r \in WriterRuns : Insert!Transaction(r)
         /\ Upsert!Next => \/ UNCHANGED <<table, ledger, wrote>>
                           \/ \E r \in WriterRuns : Upsert!Transaction(r)
         /\ Replace!Next => \/ UNCHANGED <<table, ledger, wrote>>
                            \/ \E r \in WriterRuns : Replace!Transaction(r)
<1>1. \A w \in Workers : exec[w].stage = "attempt" => exec[w].run \in WriterRuns
  BY DEF WriterInv, WriterTypes
<1>2. Insert!Next => \/ UNCHANGED <<table, ledger, wrote>>
                     \/ \E r \in WriterRuns : Insert!Transaction(r)
  BY <1>1 DEF Insert!Next, Insert!Start, Insert!Write, Insert!NodeFails,
     Insert!ControlReadFails, Insert!Checkpoint, Insert!Crash, Insert!RetryFailed
<1>3. Upsert!Next => \/ UNCHANGED <<table, ledger, wrote>>
                     \/ \E r \in WriterRuns : Upsert!Transaction(r)
  BY <1>1 DEF Upsert!Next, Upsert!Start, Upsert!Write, Upsert!NodeFails,
     Upsert!ControlReadFails, Upsert!Checkpoint, Upsert!Crash, Upsert!RetryFailed
<1>4. Replace!Next => \/ UNCHANGED <<table, ledger, wrote>>
                      \/ \E r \in WriterRuns : Replace!Transaction(r)
  BY <1>1 DEF Replace!Next, Replace!Start, Replace!Write, Replace!NodeFails,
     Replace!ControlReadFails, Replace!Checkpoint, Replace!Crash, Replace!RetryFailed
<1> QED
  BY <1>2, <1>3, <1>4

-------------------------------------------------------------------------------
\* A transaction applies the events of a run one after the other.  What one event
\* does, and the states the transaction goes through.
Event == [run : WriterRuns, index : Nat, key : Keys, val : Vals]
Put(upserts, d, e) == IF upserts THEN Upsert!Apply(d, e) ELSE Insert!Apply(d, e)
EventsOf(r) == Insert!Events(r)
Identity(e) == <<e.run, e.index, e.key, e.val>>
Goes(f, upserts, start, r) ==
  f = [i \in 0..Len(rows[r]) |->
        IF i = 0 THEN start ELSE Put(upserts, f[i - 1], EventsOf(r)[i])]
Target == [table |-> table, ledger |-> ledger]
Empty == [table |-> <<>>, ledger |-> {}]

\* The target is its table and its ledger.
LEMMA TargetIs == Target.table = table /\ Target.ledger = ledger
  BY DEF Target

\* An event of the ledger changes nothing; another one is added.
LEMMA PutIs ==
  ASSUME NEW u \in BOOLEAN, NEW d, NEW e
  PROVE  /\ Identity(e) \in d.ledger => Put(u, d, e) = d
         /\ Identity(e) \notin d.ledger =>
              /\ Put(u, d, e).ledger = d.ledger \cup {Identity(e)}
              /\ ~u => Put(u, d, e).table = Append(d.table, e)
<1>1. /\ Identity(e) \in d.ledger => Upsert!Apply(d, e) = d
      /\ Identity(e) \notin d.ledger =>
           Upsert!Apply(d, e).ledger = d.ledger \cup {Identity(e)}
  BY DEF Upsert!Apply, Upsert!Identity, Identity
<1>2. /\ Identity(e) \in d.ledger => Insert!Apply(d, e) = d
      /\ Identity(e) \notin d.ledger =>
           /\ Insert!Apply(d, e).ledger = d.ledger \cup {Identity(e)}
           /\ Insert!Apply(d, e).table = Append(d.table, e)
  BY DEF Insert!Apply, Insert!Identity, Identity
<1> QED
  BY <1>1, <1>2 DEF Put

\* The states a transaction goes through are defined.
LEMMA GoesExist ==
  ASSUME NEW u, NEW start, NEW r, Len(rows[r]) \in Nat
  PROVE  \E f : Goes(f, u, start, r)
<1> DEFINE Rec(f, m) == f = [i \in 0..m |->
                              IF i = 0 THEN start ELSE Put(u, f[i - 1], EventsOf(r)[i])]
           T == {m \in Nat : \E f : Rec(f, m)}
<1>1. 0 \in T
  <2>1. Rec([i \in 0..0 |-> start], 0)
    OBVIOUS
  <2> QED
    BY <2>1
<1>2. ASSUME NEW m \in Nat, m \in T PROVE m + 1 \in T
  <2>1. PICK f : Rec(f, m)
    BY <1>2
  <2> DEFINE e == Put(u, f[m], EventsOf(r)[m + 1])
             g == [i \in 0..(m + 1) |-> IF i = m + 1 THEN e ELSE f[i]]
  <2>2. ASSUME NEW i \in 0..(m + 1)
        PROVE  g[i] = IF i = 0 THEN start ELSE Put(u, g[i - 1], EventsOf(r)[i])
    <3>1. CASE i = m + 1
      <4>1. i # 0 /\ i - 1 = m /\ m \in 0..(m + 1) /\ m # m + 1
        BY <3>1
      <4>2. g[i - 1] = f[m]
        BY <4>1
      <4> QED
        BY <3>1, <4>1, <4>2
    <3>2. CASE i # m + 1
      <4>1. i \in 0..m /\ (i # 0 => i - 1 \in 0..(m + 1) /\ i - 1 # m + 1)
        BY <3>2
      <4> QED
        BY <2>1, <3>2, <4>1
    <3> QED
      BY <3>1, <3>2
  <2> HIDE DEF e
  <2>3. Rec(g, m + 1)
    BY <2>2
  <2>4. \E h : Rec(h, m + 1)
    <3> HIDE DEF Rec, g
    <3> QED
      BY <2>3
  <2> QED
    BY <2>4
<1> HIDE DEF T
<1>3. Len(rows[r]) \in T
  BY <1>1, <1>2, SetInduction
<1> QED
  BY <1>3 DEF T, Goes

\* A run's events carry the run and their index.
LEMMA RowsOf ==
  ASSUME WriterInv, NEW r \in WriterRuns
  PROVE  /\ Len(rows[r]) \in Nat /\ DOMAIN rows[r] = 1..Len(rows[r])
         /\ \A i \in 1..Len(rows[r]) :
              /\ EventsOf(r)[i] \in Event
              /\ EventsOf(r)[i].run = r /\ EventsOf(r)[i].index = i
<1>1. rows[r] \in Seq(Row)
  BY DEF WriterInv, WriterTypes
<1>2. Len(rows[r]) \in Nat /\ DOMAIN rows[r] = 1..Len(rows[r])
      /\ \A i \in 1..Len(rows[r]) : rows[r][i] \in Row
  BY <1>1
<1>3. ASSUME NEW i \in 1..Len(rows[r])
      PROVE  EventsOf(r)[i] = [run |-> r, index |-> i, key |-> rows[r][i].key, val |-> rows[r][i].val]
  BY <1>2 DEF EventsOf, Insert!Events
<1>4. ASSUME NEW i \in 1..Len(rows[r])
      PROVE  EventsOf(r)[i] \in Event /\ EventsOf(r)[i].run = r /\ EventsOf(r)[i].index = i
  <2>1. i \in Nat /\ rows[r][i].key \in Keys /\ rows[r][i].val \in Vals
    BY <1>2 DEF Row
  <2>2. [run |-> r, index |-> i, key |-> rows[r][i].key, val |-> rows[r][i].val] \in Event
    BY <2>1 DEF Event
  <2> QED
    BY <1>3, <2>2
<1> QED
  BY <1>2, <1>4

\* What a transaction of each mode comes to.
LEMMA TransactionGoes ==
  ASSUME WriterInv, NEW r \in WriterRuns
  PROVE  /\ Insert!Transaction(r) =>
              \E f : /\ Goes(f, FALSE, Target, r) /\ table' = f[Len(rows[r])].table
                     /\ ledger' = f[Len(rows[r])].ledger
         /\ Upsert!Transaction(r) =>
              \E f : /\ Goes(f, TRUE, Target, r) /\ table' = f[Len(rows[r])].table
                     /\ ledger' = f[Len(rows[r])].ledger
         /\ Replace!Transaction(r) =>
              \E f : /\ Goes(f, FALSE, Empty, r) /\ table' = f[Len(rows[r])].table
                     /\ ledger' = f[Len(rows[r])].ledger
<1> DEFINE n == Len(rows[r])
           InsertRec(f) == [i \in 0..n |->
                             IF i = 0 THEN Target ELSE Insert!Apply(f[i - 1], Insert!Events(r)[i])]
           UpsertRec(f) == [i \in 0..n |->
                             IF i = 0 THEN Target ELSE Upsert!Apply(f[i - 1], Upsert!Events(r)[i])]
           ReplaceRec(f) == [i \in 0..n |->
                             IF i = 0 THEN Empty ELSE Replace!Apply(f[i - 1], Replace!Events(r)[i])]
<1>1. Upsert!Events(r) = EventsOf(r) /\ Replace!Events(r) = EventsOf(r)
  BY DEF Upsert!Events, Replace!Events, Insert!Events, EventsOf
<1>2. \A d, e : Replace!Apply(d, e) = Insert!Apply(d, e)
  BY DEF Replace!Apply, Insert!Apply, Replace!Identity, Insert!Identity
<1>3. \A f : f = InsertRec(f) <=> Goes(f, FALSE, Target, r)
  BY DEF Goes, Put, EventsOf
<1>4. \A f : f = UpsertRec(f) <=> Goes(f, TRUE, Target, r)
  BY <1>1 DEF Goes, Put
<1>5. \A f : f = ReplaceRec(f) <=> Goes(f, FALSE, Empty, r)
  BY <1>1, <1>2 DEF Goes, Put
<1>6. n \in Nat
  BY RowsOf
<1>7. Insert!Transaction(r) =>
        LET g == CHOOSE f : f = InsertRec(f) IN table' = g[n].table /\ ledger' = g[n].ledger
  BY DEF Insert!Transaction, Target
<1>8. Upsert!Transaction(r) =>
        LET g == CHOOSE f : f = UpsertRec(f) IN table' = g[n].table /\ ledger' = g[n].ledger
  BY DEF Upsert!Transaction, Target
<1>9. Replace!Transaction(r) =>
        LET g == CHOOSE f : f = ReplaceRec(f) IN table' = g[n].table /\ ledger' = g[n].ledger
  BY DEF Replace!Transaction, Replace!Cleared, Empty
<1> HIDE DEF n, InsertRec, UpsertRec, ReplaceRec
<1>10. /\ Goes(CHOOSE f : f = InsertRec(f), FALSE, Target, r)
       /\ Goes(CHOOSE f : f = UpsertRec(f), TRUE, Target, r)
       /\ Goes(CHOOSE f : f = ReplaceRec(f), FALSE, Empty, r)
  BY <1>3, <1>4, <1>5, <1>6, GoesExist DEF n
<1> QED
  BY <1>7, <1>8, <1>9, <1>10 DEF n

-------------------------------------------------------------------------------
\* The identities of a run's first events.
Known(r, i) == {Identity(EventsOf(r)[k]) : k \in 1..i}

Grows(f, start, r) ==
  \A i \in 0..Len(rows[r]) : f[i].ledger = start.ledger \cup Known(r, i)

\* A transaction leaves a run's events in the ledger, and none but them.
LEMMA LedgerGrows ==
  ASSUME WriterInv, NEW r \in WriterRuns, NEW u \in BOOLEAN, NEW start, NEW f,
         Goes(f, u, start, r)
  PROVE  Grows(f, start, r) /\ f[Len(rows[r])].ledger = start.ledger \cup Known(r, Len(rows[r]))
<1> DEFINE n == Len(rows[r])
           T == {i \in Nat : i <= n => f[i].ledger = start.ledger \cup Known(r, i)}
<1>1. n \in Nat
  BY RowsOf
<1>2. 0 \in T
  <2>1. f[0] = start
    BY <1>1 DEF Goes
  <2>2. Known(r, 0) = {}
    BY DEF Known
  <2> QED
    BY <2>1, <2>2
<1>3. ASSUME NEW i \in Nat, i \in T PROVE i + 1 \in T
  <2> SUFFICES ASSUME i + 1 <= n PROVE f[i + 1].ledger = start.ledger \cup Known(r, i + 1)
    OBVIOUS
  <2>1. f[i].ledger = start.ledger \cup Known(r, i)
    BY <1>1, <1>3
  <2>2. f[i + 1] = Put(u, f[i], EventsOf(r)[i + 1])
    <3>1. i + 1 \in 0..n /\ i + 1 # 0 /\ (i + 1) - 1 = i
      BY <1>1
    <3> QED
      BY <3>1 DEF Goes
  <2>3. f[i + 1].ledger = f[i].ledger \cup {Identity(EventsOf(r)[i + 1])}
    BY <2>2, PutIs
  <2>4. Known(r, i + 1) = Known(r, i) \cup {Identity(EventsOf(r)[i + 1])}
    <3>1. 1..(i + 1) = (1..i) \cup {i + 1}
      OBVIOUS
    <3> QED
      BY <3>1 DEF Known
  <2> QED
    BY <2>1, <2>3, <2>4
<1> HIDE DEF T
<1>4. \A i \in Nat : i \in T
  BY <1>2, <1>3, SetInduction
<1> QED
  BY <1>1, <1>4 DEF T, Grows

\* A transaction whose events are all in the ledger does nothing.
LEMMA NothingNew ==
  ASSUME WriterInv, NEW r \in WriterRuns, NEW u \in BOOLEAN, NEW start, NEW f,
         Goes(f, u, start, r), Known(r, Len(rows[r])) \subseteq start.ledger
  PROVE  f[Len(rows[r])] = start
<1> DEFINE n == Len(rows[r])
           T == {i \in Nat : i <= n => f[i] = start}
<1>1. n \in Nat
  BY RowsOf
<1>2. 0 \in T
  BY <1>1 DEF Goes
<1>3. ASSUME NEW i \in Nat, i \in T PROVE i + 1 \in T
  <2> SUFFICES ASSUME i + 1 <= n PROVE f[i + 1] = start
    OBVIOUS
  <2>1. i + 1 \in 0..n /\ i + 1 # 0 /\ (i + 1) - 1 = i /\ i + 1 \in 1..n /\ i <= n
    BY <1>1
  <2>2. f[i] = start
    BY <1>3, <2>1
  <2>3. f[i + 1] = Put(u, start, EventsOf(r)[i + 1])
    BY <2>1, <2>2 DEF Goes
  <2>4. Identity(EventsOf(r)[i + 1]) \in start.ledger
    BY <2>1 DEF Known
  <2> QED
    BY <2>3, <2>4, PutIs
<1> HIDE DEF T
<1>4. \A i \in Nat : i \in T
  BY <1>2, <1>3, SetInduction
<1> QED
  BY <1>1, <1>4 DEF T

\* Upserts: what a run wrote is in the ledger.
WrittenIsKnown == \A r \in wrote \cap WriterRuns : Known(r, Len(rows[r])) \subseteq ledger
UpsertInv == WriterInv /\ WrittenIsKnown

\* A run's events are given.
LEMMA KnownStays == ASSUME rows' = rows PROVE \A r, i : Known(r, i)' = Known(r, i)
  BY DEF Known, Identity, EventsOf, Insert!Events

\* What the runs wrote is still known after a transaction of one of them.
LEMMA WrittenStaysKnown ==
  ASSUME WriterInv, WrittenIsKnown, rows' = rows, NEW r \in WriterRuns, wrote' = wrote \cup {r},
         ledger' = ledger \cup Known(r, Len(rows[r]))
  PROVE  WrittenIsKnown'
  BY KnownStays DEF WrittenIsKnown

\* UpsertInv is inductive, and a repeated run changes nothing.
LEMMA UpsertStep ==
  ASSUME UpsertInv, Upsert!Next \/ UNCHANGED (Upsert!vars)
  PROVE  UpsertInv' /\ Upsert!RedeliveryChangesNothing
<1> USE DEF UpsertInv
<1>1. CASE UNCHANGED (Upsert!vars)
  <2>1. /\ rows' = rows /\ status' = status /\ exec' = exec /\ wrote' = wrote
        /\ ledger' = ledger /\ table' = table
    BY <1>1 DEF Upsert!vars
  <2>2. WrittenIsKnown'
    BY <2>1, KnownStays DEF WrittenIsKnown
  <2> QED
    BY <2>1, <2>2 DEF WriterInv, WriterTypes, WroteWhatItClaims, Upsert!RedeliveryChangesNothing
<1>2. CASE Upsert!Next
  <2>1. WriterInv' /\ rows' = rows
    BY <1>2, WriterInvStep
  <2>2. CASE UNCHANGED <<table, ledger, wrote>>
    <3>1. WrittenIsKnown'
      BY <2>1, <2>2, KnownStays DEF WrittenIsKnown
    <3> QED
      BY <2>1, <2>2, <3>1 DEF Upsert!RedeliveryChangesNothing
  <2>3. ASSUME NEW r \in WriterRuns, Upsert!Transaction(r)
        PROVE  WrittenIsKnown' /\ Upsert!RedeliveryChangesNothing
    <3>1. PICK f : /\ Goes(f, TRUE, Target, r) /\ table' = f[Len(rows[r])].table
                   /\ ledger' = f[Len(rows[r])].ledger
      BY <2>3, TransactionGoes
    <3>2. wrote' = wrote \cup {r} /\ Len(rows[r]) \in 0..Len(rows[r])
      BY <2>3, Delivers, RowsOf
    <3>3. ledger' = ledger \cup Known(r, Len(rows[r]))
      <4>1. f[Len(rows[r])].ledger = Target.ledger \cup Known(r, Len(rows[r]))
        BY <3>1, <3>2, LedgerGrows
      <4> QED
        BY <3>1, <4>1, TargetIs
    <3>4. r \in wrote => table' = table
      BY <3>1, NothingNew, TargetIs DEF WrittenIsKnown
    <3> QED
      BY <2>1, <3>2, <3>3, <3>4, WrittenStaysKnown DEF Upsert!RedeliveryChangesNothing
  <2> QED
    BY <1>2, <2>1, <2>2, <2>3, OnlyTransactions
<1> QED
  BY <1>1, <1>2

-------------------------------------------------------------------------------
\* Inserts: the target holds the events of the ledger, each once.
Held(d) ==
  /\ d.table \in Seq(Event)
  /\ \A i, j \in DOMAIN d.table : d.table[i] = d.table[j] => i = j
  /\ \A e \in Event : Identity(e) \in d.ledger <=> \E i \in DOMAIN d.table : d.table[i] = e
InsertInv == WriterInv /\ WrittenIsKnown /\ Held(Target)

\* Inserting an event keeps Held.
LEMMA HeldStays ==
  ASSUME NEW d, Held(d), NEW e \in Event
  PROVE  Held(Put(FALSE, d, e))
<1>1. CASE Identity(e) \in d.ledger
  BY <1>1, PutIs
<1>2. CASE Identity(e) \notin d.ledger
  <2> DEFINE p == Put(FALSE, d, e)
             m == Len(d.table)
  <2>1. p.table = Append(d.table, e) /\ p.ledger = d.ledger \cup {Identity(e)}
    BY <1>2, PutIs
  <2> HIDE DEF p
  <2>2. /\ p.table \in Seq(Event) /\ m \in Nat /\ DOMAIN d.table = 1..m
        /\ DOMAIN p.table = 1..(m + 1) /\ p.table[m + 1] = e
        /\ \A i \in 1..m : p.table[i] = d.table[i]
    BY <2>1 DEF Held
  <2>3. \A i \in 1..m : d.table[i] # e
    BY <1>2, <2>2 DEF Held
  <2>4. \A i \in 1..(m + 1) : i \in 1..m \/ i = m + 1
    BY <2>2
  <2>5. \A i, j \in DOMAIN p.table : p.table[i] = p.table[j] => i = j
    BY <2>2, <2>3, <2>4 DEF Held
  <2>6. ASSUME NEW x \in Event
        PROVE  Identity(x) \in p.ledger <=> \E i \in DOMAIN p.table : p.table[i] = x
    <3>1. Identity(x) = Identity(e) <=> x = e
      BY DEF Identity, Event
    <3>2. (\E i \in DOMAIN p.table : p.table[i] = x)
            <=> x = e \/ \E i \in DOMAIN d.table : d.table[i] = x
      <4>1. 1..m \subseteq 1..(m + 1) /\ m + 1 \in 1..(m + 1)
        BY <2>2
      <4> QED
        BY <2>2, <2>4, <4>1
    <3> QED
      BY <2>1, <3>1, <3>2 DEF Held
  <2>7. Held(p)
    BY <2>2, <2>5, <2>6 DEF Held
  <2> QED
    BY <2>7 DEF p
<1> QED
  BY <1>1, <1>2

\* So does a whole transaction.
LEMMA HeldThrough ==
  ASSUME WriterInv, NEW r \in WriterRuns, NEW start, Held(start), NEW f,
         Goes(f, FALSE, start, r)
  PROVE  Held(f[Len(rows[r])])
<1> DEFINE n == Len(rows[r])
           T == {i \in Nat : i <= n => Held(f[i])}
<1>1. n \in Nat
  BY RowsOf
<1>2. 0 \in T
  BY <1>1 DEF Goes
<1>3. ASSUME NEW i \in Nat, i \in T PROVE i + 1 \in T
  <2> SUFFICES ASSUME i + 1 <= n PROVE Held(f[i + 1])
    OBVIOUS
  <2>1. i + 1 \in 0..n /\ i + 1 # 0 /\ (i + 1) - 1 = i /\ i + 1 \in 1..n /\ i <= n
    BY <1>1
  <2>2. f[i + 1] = Put(FALSE, f[i], EventsOf(r)[i + 1])
    BY <2>1 DEF Goes
  <2>3. EventsOf(r)[i + 1] \in Event
    BY <2>1, RowsOf
  <2> QED
    BY <1>3, <2>1, <2>2, <2>3, HeldStays
<1> HIDE DEF T
<1>4. \A i \in Nat : i \in T
  BY <1>2, <1>3, SetInduction
<1> QED
  BY <1>1, <1>4 DEF T

\* InsertInv is inductive.
LEMMA InsertStep ==
  ASSUME InsertInv, Insert!Next \/ UNCHANGED (Insert!vars)
  PROVE  InsertInv'
<1> USE DEF InsertInv
<1>1. ASSUME WriterInv', rows' = rows, UNCHANGED <<table, ledger, wrote>> PROVE InsertInv'
  <2>1. WrittenIsKnown'
    BY <1>1, KnownStays DEF WrittenIsKnown
  <2>2. Target' = Target
    BY <1>1 DEF Target
  <2> QED
    BY <1>1, <2>1, <2>2
<1>2. CASE UNCHANGED (Insert!vars)
  <2>1. /\ rows' = rows /\ status' = status /\ exec' = exec /\ wrote' = wrote
        /\ ledger' = ledger /\ table' = table
    BY <1>2 DEF Insert!vars
  <2>2. WriterInv'
    BY <2>1 DEF WriterInv, WriterTypes, WroteWhatItClaims
  <2> QED
    BY <1>1, <2>1, <2>2
<1>3. CASE Insert!Next
  <2>1. WriterInv' /\ rows' = rows
    BY <1>3, WriterInvStep
  <2>2. ASSUME NEW r \in WriterRuns, Insert!Transaction(r) PROVE WrittenIsKnown' /\ Held(Target')
    <3>1. PICK f : /\ Goes(f, FALSE, Target, r) /\ table' = f[Len(rows[r])].table
                   /\ ledger' = f[Len(rows[r])].ledger
      BY <2>2, TransactionGoes
    <3>2. wrote' = wrote \cup {r} /\ Len(rows[r]) \in 0..Len(rows[r])
      BY <2>2, Delivers, RowsOf
    <3>3. ledger' = ledger \cup Known(r, Len(rows[r]))
      <4>1. f[Len(rows[r])].ledger = Target.ledger \cup Known(r, Len(rows[r]))
        BY <3>1, <3>2, LedgerGrows
      <4> QED
        BY <3>1, <4>1, TargetIs
    <3>4. Held(f[Len(rows[r])])
      BY <3>1, HeldThrough
    <3>5. Held(Target')
      BY <3>1, <3>4 DEF Held, Target
    <3> QED
      BY <2>1, <3>2, <3>3, <3>5, WrittenStaysKnown
  <2> QED
    BY <1>1, <1>3, <2>1, <2>2, OnlyTransactions
<1> QED
  BY <1>2, <1>3

\* Held gives the number of copies.
LEMMA InsertedOnce ==
  ASSUME InsertInv
  PROVE  Insert!RowsAreInsertedOnce
<1> DEFINE At(e) == {i \in DOMAIN table : table[i] = e}
<1>1. \A S : Insert!Cardinality(S) = Cardinality(S)
  BY DEF Insert!Cardinality, Cardinality
<1>2. ASSUME NEW r \in WriterRuns, NEW i \in DOMAIN rows[r]
      PROVE  /\ Cardinality(At(Insert!Events(r)[i])) <= 1
             /\ status[r] = "completed" => Cardinality(At(Insert!Events(r)[i])) = 1
  <2> DEFINE e == EventsOf(r)[i]
  <2>1. e \in Event /\ i \in 1..Len(rows[r]) /\ e = Insert!Events(r)[i]
    BY RowsOf DEF InsertInv, EventsOf
  <2> HIDE DEF e
  <2>2. Cardinality(At(e)) = IF At(e) = {} THEN 0 ELSE 1
    <3>1. CASE At(e) = {}
      BY <3>1, FS_EmptySet
    <3>2. CASE At(e) # {}
      <4>1. PICK k \in At(e) : TRUE
        BY <3>2
      <4>2. At(e) = {k}
        BY <4>1 DEF InsertInv, Held, Target
      <4> HIDE DEF At
      <4> QED
        BY <3>2, <4>2, FS_Singleton
    <3> QED
      BY <3>1, <3>2
  <2>3. ASSUME status[r] = "completed" PROVE At(e) # {}
    <3>1. r \in wrote
      BY <2>3 DEF InsertInv, WriterInv, WroteWhatItClaims
    <3>2. Identity(e) \in ledger
      BY <2>1, <3>1 DEF InsertInv, WrittenIsKnown, Known, e
    <3> QED
      BY <2>1, <3>2 DEF InsertInv, Held, Target
  <2> HIDE DEF At
  <2> QED
    BY <2>1, <2>2, <2>3
<1> QED
  BY <1>1, <1>2 DEF Insert!RowsAreInsertedOnce

-------------------------------------------------------------------------------
\* Replacements: the target holds the rows of one run.
ReplaceInv == WriterInv /\ Replace!ReplaceIsWhole

\* A replacement leaves the events of its run, in order.
LEMMA Replaces ==
  ASSUME WriterInv, NEW r \in WriterRuns, NEW f, Goes(f, FALSE, Empty, r)
  PROVE  f[Len(rows[r])].table = EventsOf(r)
<1> DEFINE n == Len(rows[r])
           Right(i) == /\ f[i].table \in Seq(Event) /\ Len(f[i].table) = i
                       /\ \A k \in 1..i : f[i].table[k] = EventsOf(r)[k]
           T == {i \in Nat : i <= n => Right(i)}
<1>1. n \in Nat
  BY RowsOf
<1>2. 0 \in T
  <2>1. f[0] = Empty
    BY <1>1 DEF Goes
  <2>2. f[0].table = <<>>
    BY <2>1 DEF Empty
  <2>3. f[0].table \in Seq(Event)
    BY <2>2
  <2>4. Len(f[0].table) = 0
    <3>1. Len(<<>>) = 0
      OBVIOUS
    <3> QED
      BY <2>2, <3>1
  <2>5. Right(0)
    BY <2>3, <2>4
  <2> HIDE DEF Right
  <2> QED
    BY <2>5
<1>3. ASSUME NEW i \in Nat, i \in T PROVE i + 1 \in T
  <2> SUFFICES ASSUME i + 1 <= n PROVE Right(i + 1)
    OBVIOUS
  <2>1. i + 1 \in 0..n /\ i + 1 # 0 /\ (i + 1) - 1 = i /\ i + 1 \in 1..n /\ i <= n /\ i \in 0..n
    BY <1>1
  <2>2. f[i + 1] = Put(FALSE, f[i], EventsOf(r)[i + 1])
    BY <2>1 DEF Goes
  <2>3. EventsOf(r)[i + 1] \in Event
    BY <2>1, RowsOf
  <2>4. f[i].ledger = Known(r, i)
    <3> DEFINE start == Empty
    <3>1. Goes(f, FALSE, start, r) /\ start.ledger = {}
      BY DEF Empty
    <3> HIDE DEF start
    <3>2. Grows(f, start, r)
      BY <3>1, LedgerGrows
    <3>3. f[i].ledger = start.ledger \cup Known(r, i)
      BY <2>1, <3>2 DEF Grows
    <3> QED
      BY <3>1, <3>3
  <2>5. Identity(EventsOf(r)[i + 1]) \notin f[i].ledger
    <3>1. \A k \in 1..i : EventsOf(r)[k].index = k /\ k # i + 1
      BY <2>1, RowsOf
    <3>2. EventsOf(r)[i + 1].index = i + 1
      BY <2>1, RowsOf
    <3> QED
      BY <2>4, <3>1, <3>2 DEF Known, Identity
  <2>6. f[i + 1].table = Append(f[i].table, EventsOf(r)[i + 1])
    <3> DEFINE e == EventsOf(r)[i + 1]
               d == f[i]
    <3>1. Identity(e) \notin d.ledger
      BY <2>5
    <3> HIDE DEF e, d
    <3>2. Put(FALSE, d, e).table = Append(d.table, e)
      BY <3>1, PutIs
    <3> QED
      BY <2>2, <3>2 DEF e, d
  <2>7. Right(i)
    BY <1>3, <2>1
  <2> QED
    BY <2>3, <2>6, <2>7
<1> HIDE DEF T
<1>4. n \in T
  BY <1>1, <1>2, <1>3, SetInduction
<1>5. Right(n)
  BY <1>1, <1>4 DEF T
<1>6. /\ f[n].table = [k \in 1..n |-> f[n].table[k]]
      /\ \A k \in 1..n : f[n].table[k] = EventsOf(r)[k]
  BY <1>5
<1>7. EventsOf(r) = [k \in 1..n |-> EventsOf(r)[k]]
  BY RowsOf DEF EventsOf, Insert!Events
<1> HIDE DEF Right, n
<1> QED
  BY <1>6, <1>7 DEF n

\* ReplaceInv is inductive.
LEMMA ReplaceStep ==
  ASSUME ReplaceInv, Replace!Next \/ UNCHANGED (Replace!vars)
  PROVE  ReplaceInv'
<1> USE DEF ReplaceInv
<1>0. \A r : Replace!Events(r) = EventsOf(r)
  BY DEF Replace!Events, Insert!Events, EventsOf
<1>1. ASSUME WriterInv', rows' = rows, UNCHANGED <<table, ledger, wrote>> PROVE ReplaceInv'
  BY <1>1 DEF Replace!ReplaceIsWhole, Replace!Events
<1>2. CASE UNCHANGED (Replace!vars)
  <2>1. /\ rows' = rows /\ status' = status /\ exec' = exec /\ wrote' = wrote
        /\ ledger' = ledger /\ table' = table
    BY <1>2 DEF Replace!vars
  <2>2. WriterInv'
    BY <2>1 DEF WriterInv, WriterTypes, WroteWhatItClaims
  <2> QED
    BY <1>1, <2>1, <2>2
<1>3. CASE Replace!Next
  <2>1. WriterInv' /\ rows' = rows
    BY <1>3, WriterInvStep
  <2>2. ASSUME NEW r \in WriterRuns, Replace!Transaction(r) PROVE Replace!ReplaceIsWhole'
    <3>1. table' = EventsOf(r) /\ r \in wrote'
      BY <2>2, TransactionGoes, Replaces, Delivers
    <3>2. Replace!Events(r)' = EventsOf(r)
      BY <1>0, <2>1 DEF Replace!Events
    <3> QED
      BY <3>1, <3>2 DEF Replace!ReplaceIsWhole
  <2> QED
    BY <1>1, <1>3, <2>1, <2>2, OnlyTransactions
<1> QED
  BY <1>2, <1>3

\* What each mode keeps.
WriterModes ==
  /\ scenario = "insert" => InsertInv
  /\ scenario = "upsert" => UpsertInv
  /\ scenario = "replace" => ReplaceInv

\* However many executions deliver a run's rows, for any runs, workers and rows and
\* any number of faults: inserts put each row in once, upserts that are repeated
\* change nothing, replacements are whole.
THEOREM DeliveryStaysExact == Spec => DeliveryIsExact
<1>1. Init => WriterModes
  <2>1. ASSUME Insert!Init PROVE InsertInv
    <3>1. WriterInv /\ wrote = {} /\ table = <<>> /\ ledger = {}
      BY <2>1, WriterInvInit DEF Insert!Init
    <3>2. <<>> \in Seq(Event) /\ DOMAIN <<>> = {}
      OBVIOUS
    <3> QED
      BY <3>1, <3>2 DEF InsertInv, WrittenIsKnown, Held, Target
  <2>2. ASSUME Upsert!Init PROVE UpsertInv
    BY <2>2, WriterInvInit DEF Upsert!Init, UpsertInv, WrittenIsKnown
  <2>3. ASSUME Replace!Init PROVE ReplaceInv
    BY <2>3, WriterInvInit DEF Replace!Init, ReplaceInv, Replace!ReplaceIsWhole
  <2> QED
    BY <2>1, <2>2, <2>3 DEF Init, GraphInit, LettersInit, SortInit, FlowInit, WriterInit, EdgarInit,
       PagesInit, WriterModes
<1>2. WriterModes /\ [Next]_vars
        => WriterModes' /\ [scenario = "upsert" => Upsert!RedeliveryChangesNothing]_vars
  <2> SUFFICES ASSUME WriterModes, [Next]_vars
               PROVE  WriterModes' /\ (scenario = "upsert" => Upsert!RedeliveryChangesNothing)
    OBVIOUS
  <2>1. scenario' = scenario
    BY DEF Next, GraphNext, LettersNext, SortNext, FlowNext, WriterNext, EdgarNext, PagesNext, vars
  <2>2. /\ scenario = "insert" => Insert!Next \/ UNCHANGED (Insert!vars)
        /\ scenario = "upsert" => Upsert!Next \/ UNCHANGED (Upsert!vars)
        /\ scenario = "replace" => Replace!Next \/ UNCHANGED (Replace!vars)
    BY DEF Next, GraphNext, LettersNext, SortNext, FlowNext, WriterNext, EdgarNext, PagesNext, vars,
       writerVars, commonVars, Insert!vars, Upsert!vars, Replace!vars
  <2> QED
    BY <2>1, <2>2, InsertStep, UpsertStep, ReplaceStep DEF WriterModes
<1>3. WriterModes => /\ scenario = "insert" => Insert!RowsAreInsertedOnce
                     /\ scenario = "replace" => Replace!ReplaceIsWhole
  BY InsertedOnce DEF WriterModes, ReplaceInv
<1> QED
  BY <1>1, <1>2, <1>3, PTL DEF Spec, DeliveryIsExact

-------------------------------------------------------------------------------
(* The EDGAR source                                                        *)

\* The documents of the node, those of the tickers before t, and that nothing the
\* node could have fetched for t is missing.
Got == {documents[i] : i \in DOMAIN documents}
Before(t) == Cardinality({d \in Got : d[1] < t})
Wanted(t) == {i \in DOMAIN hits[t] : hits[t][i] = "ok" /\ i <= MaxFilings - Before(t)}
Complete(t) == \A i \in Wanted(t) : <<t, i>> \in Got

EdgarTypes ==
  /\ search \in [1..NumTickers -> {"ok", "http_error", "not_json"}]
  /\ \A t \in 1..NumTickers : DOMAIN hits[t] \subseteq Nat
  /\ pc \in {"search", "index", "document", "success", "failure"}
  /\ ticker \in Nat \ {0}
  /\ documents \in Seq(Nat \X Nat)

\* The documents are counted and come once, none of a ticker to come.
Counts ==
  /\ IsFiniteSet(Got) /\ Cardinality(Got) = total /\ total = Len(documents)
  /\ total <= MaxFilings
  /\ \A i, j \in DOMAIN documents : documents[i] = documents[j] => i = j
  /\ \A d \in Got : d[1] <= ticker /\ (pc = "search" => d[1] < ticker)

\* Below the cap the tickers that are behind are complete.
BehindIsComplete ==
  pc # "failure" /\ total < MaxFilings =>
    \A t \in 1..NumTickers : t < ticker /\ search[t] = "ok" => Complete(t)

\* What is wanted of the ticker at work is in the queue or a document.
Downloading ==
  pc \in {"index", "document"} =>
    /\ queue # {} /\ queue \subseteq DOMAIN hits[ticker]
    /\ \A i \in queue : <<ticker, i>> \notin Got
    /\ \A i \in Wanted(ticker) : i \in queue \/ <<ticker, i>> \in Got

Progressing ==
  /\ pc \in {"search", "index", "document"} => ticker <= NumTickers /\ total < MaxFilings
  /\ pc = "success" /\ total < MaxFilings => ticker > NumTickers

EdgarInv == EdgarTypes /\ Counts /\ BehindIsComplete /\ Downloading /\ Progressing

\* The constants of the EDGAR source are sound.
LEMMA EdgarConstants ==
  /\ NumTickers \in Nat /\ MaxFilings \in Nat \ {0}
  /\ \A S : Edgar!Cardinality(S) = Cardinality(S)
<1>1. \A S : Edgar!Cardinality(S) = Cardinality(S)
  BY DEF Edgar!Cardinality, Cardinality
<1> QED
  BY <1>1, ConstantsAreSound DEF Edgar!EdgarAssumption

\* Documents are pairs of a ticker and the index of a hit.
LEMMA GotIs == ASSUME EdgarTypes PROVE Got \subseteq Nat \X Nat
  BY DEF EdgarTypes, Got

\* One more document, of the ticker at work.
LEMMA GotGrows ==
  ASSUME EdgarTypes, Counts, NEW d \in Nat \X Nat, d \notin Got, d[1] = ticker,
         documents' = Append(documents, d)
  PROVE  /\ Got' = Got \cup {d}
         /\ documents' \in Seq(Nat \X Nat)
         /\ \A i, j \in DOMAIN documents' : documents'[i] = documents'[j] => i = j
         /\ IsFiniteSet(Got') /\ Cardinality(Got') = total + 1 /\ total + 1 = Len(documents')
         /\ \A t \in Nat : t <= ticker => Before(t)' = Before(t)
<1>1. /\ documents' \in Seq(Nat \X Nat) /\ Len(documents') = Len(documents) + 1
      /\ DOMAIN documents' = DOMAIN documents \cup {Len(documents) + 1}
      /\ \A i \in DOMAIN documents : documents'[i] = documents[i]
      /\ documents'[Len(documents) + 1] = d /\ Len(documents) \in Nat
      /\ Len(documents) + 1 \notin DOMAIN documents
  BY DEF EdgarTypes
<1>2. Got' = Got \cup {d}
  BY <1>1 DEF Got
<1>3. \A i \in DOMAIN documents : documents[i] # d
  BY DEF Got
<1>4. \A i, j \in DOMAIN documents' : documents'[i] = documents'[j] => i = j
  BY <1>1, <1>3 DEF Counts
<1>5. IsFiniteSet(Got') /\ Cardinality(Got') = total + 1
  BY <1>2, FS_AddElement DEF Counts
<1>6. ASSUME NEW t \in Nat, t <= ticker PROVE Before(t)' = Before(t)
  <2>1. ~(d[1] < t)
    BY <1>6 DEF EdgarTypes
  <2>2. {e \in Got \cup {d} : e[1] < t} = {e \in Got : e[1] < t}
    BY <2>1
  <2> QED
    BY <1>2, <2>2 DEF Before
<1> QED
  BY <1>1, <1>2, <1>4, <1>5, <1>6 DEF Counts

\* The next ticker, or the end of the node.
LEMMA TickerDone ==
  ASSUME EdgarTypes, EdgarTypes', NEW count, count = total', search' = search,
         Edgar!NextTicker(ticker + 1, count),
         IsFiniteSet(Got') /\ Cardinality(Got') = total' /\ total' = Len(documents'),
         total' <= MaxFilings,
         \A i, j \in DOMAIN documents' : documents'[i] = documents'[j] => i = j,
         \A d \in Got' : d[1] <= ticker,
         total' < MaxFilings =>
           \A t \in 1..NumTickers : t <= ticker /\ search[t] = "ok" => Complete(t)'
  PROVE  EdgarInv'
<1>1. /\ ticker' = ticker + 1 /\ ticker \in Nat
      /\ pc' = IF ticker + 1 > NumTickers \/ count >= MaxFilings THEN "success" ELSE "search"
  BY DEF Edgar!NextTicker, EdgarTypes
<1>2. total' \in Nat
  BY DEF EdgarTypes
<1>3. \A d \in Got' : d[1] \in Nat /\ d[1] < ticker'
  <2>1. \A d \in Got' : d \in Nat \X Nat
    BY DEF EdgarTypes, Got
  <2>2. \A d \in Got' : d[1] \in Nat
    BY <2>1
  <2> QED
    BY <1>1, <2>2
<1>4. Counts'
  BY <1>1, <1>3 DEF Counts
<1>5. BehindIsComplete'
  BY <1>1 DEF BehindIsComplete
<1>6. Downloading' /\ Progressing'
  BY <1>1, <1>2, EdgarConstants DEF Downloading, Progressing
<1> QED
  BY <1>4, <1>5, <1>6 DEF EdgarInv

\* Without a new document nothing else is wanted or complete.
LEMMA SameDocuments ==
  ASSUME documents' = documents, hits' = hits
  PROVE  /\ Got' = Got /\ \A t : Before(t)' = Before(t) /\ Wanted(t)' = Wanted(t)
                                 /\ (Complete(t)' <=> Complete(t))
<1>1. Got' = Got
  BY DEF Got
<1>2. \A t : Before(t)' = Before(t)
  BY <1>1 DEF Before
<1> QED
  BY <1>1, <1>2 DEF Wanted, Complete

\* The search for a ticker asks for what the quota leaves it.
LEMMA SearchStarts ==
  ASSUME EdgarInv, pc = "search"
  PROVE  /\ Before(ticker) = total
         /\ Wanted(ticker) \subseteq Edgar!Filings(ticker)
         /\ Edgar!Filings(ticker) \subseteq DOMAIN hits[ticker]
         /\ \A i \in DOMAIN hits[ticker] : <<ticker, i>> \notin Got
<1>1. {d \in Got : d[1] < ticker} = Got
  BY DEF EdgarInv, Counts
<1>2. Before(ticker) = total
  BY <1>1 DEF Before, EdgarInv, Counts
<1>3. \A i : <<ticker, i>> \notin Got
  <2>1. \A d \in Got : d[1] # ticker
    BY DEF EdgarInv, Counts, EdgarTypes
  <2> QED
    BY <2>1
<1> QED
  BY <1>2, <1>3 DEF Wanted, Edgar!Filings

\* The filing at work is the first of the queue.
LEMMA FilingIs ==
  ASSUME EdgarInv, pc \in {"index", "document"}
  PROVE  Edgar!Filing \in queue /\ Edgar!Filing \in Nat
<1>1. queue \subseteq Nat /\ queue # {}
  <2>1. ticker \in 1..NumTickers
    BY EdgarConstants DEF EdgarInv, EdgarTypes, Progressing
  <2> QED
    BY <2>1 DEF EdgarInv, EdgarTypes, Downloading
<1>2. \E i \in queue : \A j \in queue : i <= j
  BY <1>1, LeastNat
<1> QED
  BY <1>1, <1>2 DEF Edgar!Filing

\* After a filing that is a document now, or of which nothing was wanted.
LEMMA FilingDone ==
  ASSUME EdgarInv, EdgarTypes', pc \in {"index", "document"}, search' = search, hits' = hits,
         NEW count, count = total', NEW slept, Edgar!AfterFiling(count, slept),
         \/ documents' = documents /\ total' = total /\ hits[ticker][Edgar!Filing] # "ok"
         \/ documents' = Append(documents, <<ticker, Edgar!Filing>>) /\ total' = total + 1
  PROVE  EdgarInv'
<1> DEFINE d == <<ticker, Edgar!Filing>>
<1>1. Edgar!Filing \in queue /\ d \in Nat \X Nat /\ d[1] = ticker /\ d \notin Got
  BY FilingIs DEF EdgarInv, EdgarTypes, Downloading
<1>2. /\ \A t \in Nat : t <= ticker => Before(t)' = Before(t)
      /\ Got \subseteq Got' /\ Got' \subseteq Got \cup {d}
      /\ hits[ticker][Edgar!Filing] = "ok" => d \in Got'
      /\ IsFiniteSet(Got') /\ Cardinality(Got') = total' /\ total' = Len(documents')
      /\ \A i, j \in DOMAIN documents' : documents'[i] = documents'[j] => i = j
  <2>1. CASE documents' = documents /\ total' = total /\ hits[ticker][Edgar!Filing] # "ok"
    BY <2>1, SameDocuments DEF EdgarInv, Counts
  <2>2. CASE documents' = Append(documents, d) /\ total' = total + 1
    <3> HIDE DEF d
    <3> QED
      BY <1>1, <2>2, GotGrows DEF EdgarInv
  <2> QED
    BY <2>1, <2>2
<1>3. total' <= MaxFilings /\ total \in Nat /\ ticker \in 1..NumTickers /\ ticker \in Nat
  BY EdgarConstants DEF EdgarInv, EdgarTypes, Counts, Progressing
<1>4. \A e \in Got' : e[1] <= ticker
  BY <1>1, <1>2, <1>3 DEF EdgarInv, Counts
<1>5. \A t \in Nat : t <= ticker => Wanted(t)' = Wanted(t)
  BY <1>2 DEF Wanted
<1>6. \A t \in Nat : t <= ticker /\ Complete(t) => Complete(t)'
  BY <1>2, <1>5 DEF Complete
<1>7. \A i \in Wanted(ticker) : i \in queue \ {Edgar!Filing} \/ <<ticker, i>> \in Got'
  <2> SUFFICES ASSUME NEW i \in Wanted(ticker), i \notin queue \ {Edgar!Filing}
               PROVE  <<ticker, i>> \in Got'
    OBVIOUS
  <2>1. i \in queue \/ <<ticker, i>> \in Got
    BY DEF EdgarInv, Downloading
  <2>2. i = Edgar!Filing => hits[ticker][Edgar!Filing] = "ok"
    BY DEF Wanted
  <2> QED
    BY <1>2, <2>1, <2>2
<1>8. \A t \in 1..NumTickers : t < ticker /\ search[t] = "ok" => Complete(t)'
  <2>1. \A t \in 1..NumTickers : t < ticker /\ search[t] = "ok" => Complete(t)
    BY DEF EdgarInv, BehindIsComplete, Progressing
  <2> QED
    BY <1>3, <1>6, <2>1
<1>9. CASE queue \ {Edgar!Filing} # {} /\ count < MaxFilings
  <2>1. queue' = queue \ {Edgar!Filing} /\ pc' = "index" /\ ticker' = ticker
    BY <1>9 DEF Edgar!AfterFiling
  <2>2. Downloading'
    <3>1. \A i \in queue' : <<ticker, i>> \notin Got'
      BY <1>2, <2>1 DEF EdgarInv, Downloading
    <3>2. Wanted(ticker)' = Wanted(ticker)
      BY <1>3, <1>5, <2>1
    <3> QED
      BY <1>7, <1>9, <2>1, <3>1, <3>2 DEF EdgarInv, Downloading
  <2>3. BehindIsComplete' /\ Progressing' /\ Counts'
    BY <1>2, <1>3, <1>4, <1>8, <1>9, <2>1, EdgarConstants
       DEF BehindIsComplete, Progressing, Counts
  <2> QED
    BY <2>2, <2>3 DEF EdgarInv
<1>10. CASE ~(queue \ {Edgar!Filing} # {} /\ count < MaxFilings)
  <2>1. queue' = queue \ {Edgar!Filing} /\ Edgar!NextTicker(ticker + 1, count)
    BY <1>10 DEF Edgar!AfterFiling
  <2>2. total' < MaxFilings => \A t \in Nat : t = ticker => Complete(t)'
    BY <1>3, <1>5, <1>7, <1>10 DEF Complete
  <2>3. total' < MaxFilings =>
          \A t \in 1..NumTickers : t <= ticker /\ search[t] = "ok" => Complete(t)'
    <3>1. \A t \in 1..NumTickers : t \in Nat /\ (t <= ticker => t < ticker \/ t = ticker)
      BY <1>3, EdgarConstants
    <3> QED
      BY <1>8, <2>2, <3>1
  <2> QED
    BY <1>2, <1>3, <1>4, <2>1, <2>3, TickerDone DEF EdgarInv
<1> QED
  BY <1>9, <1>10

\* A search, with whatever comes of it.
LEMMA SearchKeepsInv ==
  ASSUME EdgarInv, pc = "search", Edgar!Next
  PROVE  EdgarInv'
<1> USE DEF EdgarInv
<1>1. /\ ticker \in 1..NumTickers /\ ticker \in Nat /\ total < MaxFilings
      /\ search' = search /\ hits' = hits /\ total' = total /\ documents' = documents
  BY EdgarConstants DEF EdgarTypes, Progressing, Edgar!Next, Edgar!SearchOk,
     Edgar!SearchSkipped, Edgar!SearchRaises, Edgar!Index, Edgar!Document
<1>2. EdgarTypes'
  BY <1>1, EdgarConstants DEF EdgarTypes, Edgar!Next, Edgar!SearchOk, Edgar!SearchSkipped,
     Edgar!SearchRaises, Edgar!Index, Edgar!Document, Edgar!NextTicker
<1>3. /\ Got' = Got
      /\ \A t : Wanted(t)' = Wanted(t) /\ (Complete(t)' <=> Complete(t))
  BY <1>1, SameDocuments
<1>4. ASSUME Edgar!NextTicker(ticker + 1, total),
             search[ticker] = "ok" => Complete(ticker)
      PROVE  EdgarInv'
  <2>1. \A t \in 1..NumTickers : t <= ticker /\ search[t] = "ok" => Complete(t)
    <3>1. \A t \in 1..NumTickers : t <= ticker => t < ticker \/ t = ticker
      BY <1>1
    <3> QED
      BY <1>1, <1>4, <3>1 DEF BehindIsComplete
  <2>2. \A t \in 1..NumTickers : t <= ticker /\ search[t] = "ok" => Complete(t)'
    BY <1>3, <2>1
  <2> QED
    BY <1>1, <1>2, <1>3, <1>4, <2>2, TickerDone DEF Counts
<1>5. CASE Edgar!SearchOk
  <2>1. CASE Edgar!Filings(ticker) # {}
    <3>1. pc' = "index" /\ queue' = Edgar!Filings(ticker) /\ ticker' = ticker
      BY <1>5, <2>1 DEF Edgar!SearchOk
    <3>2. Downloading'
      BY <1>1, <1>3, <2>1, <3>1, SearchStarts DEF Downloading
    <3>3. BehindIsComplete'
      BY <1>1, <1>3, <3>1 DEF BehindIsComplete
    <3> QED
      BY <1>1, <1>2, <1>3, <3>1, <3>2, <3>3 DEF Counts, Progressing
  <2>2. CASE Edgar!Filings(ticker) = {}
    <3>1. Edgar!NextTicker(ticker + 1, total)
      BY <1>5, <2>2 DEF Edgar!SearchOk
    <3>2. Complete(ticker)
      BY <2>2, SearchStarts DEF Complete
    <3> QED
      BY <1>4, <3>1, <3>2
  <2> QED
    BY <2>1, <2>2
<1>6. CASE Edgar!SearchSkipped
  <2>1. Edgar!NextTicker(ticker + 1, total)
    BY <1>6 DEF Edgar!SearchSkipped
  <2>2. search[ticker] = "ok" => Complete(ticker)
    BY <1>6 DEF Edgar!SearchSkipped, Complete, Wanted
  <2> QED
    BY <1>4, <2>1, <2>2
<1>7. CASE Edgar!SearchRaises
  <2>1. pc' = "failure" /\ ticker' = ticker
    BY <1>7 DEF Edgar!SearchRaises
  <2> QED
    BY <1>1, <1>2, <1>3, <2>1 DEF Counts, BehindIsComplete, Downloading, Progressing
<1> QED
  BY <1>5, <1>6, <1>7 DEF Edgar!Next, Edgar!Index, Edgar!Document

\* EdgarInv is inductive.
LEMMA EdgarInvInit == ASSUME Edgar!Init PROVE EdgarInv
<1>1. documents = <<>> /\ ticker = 1 /\ total = 0 /\ queue = {}
      /\ pc = (IF NumTickers = 0 THEN "failure" ELSE "search")
  BY DEF Edgar!Init
<1>2. Got = {}
  BY <1>1 DEF Got
<1>3. EdgarTypes
  <2>1. \A t \in 1..NumTickers : DOMAIN hits[t] \subseteq Nat
    <3> TAKE t \in 1..NumTickers
    <3>1. hits[t] \in UNION {[1..n -> Edgar!Outcomes] : n \in 0..MaxHits}
      BY DEF Edgar!Init, Edgar!Tickers
    <3> QED
      BY <3>1
  <2> QED
    BY <1>1, <2>1, EdgarConstants DEF EdgarTypes, Edgar!Init, Edgar!Tickers
<1>4. Counts
  <2>1. Len(<<>>) = 0
    OBVIOUS
  <2> QED
    BY <1>1, <1>2, <2>1, EdgarConstants, FS_EmptySet DEF Counts
<1> QED
  BY <1>1, <1>2, <1>3, <1>4, EdgarConstants
     DEF EdgarInv, BehindIsComplete, Downloading, Progressing

LEMMA EdgarInvStep ==
  ASSUME EdgarInv, [Edgar!Next]_(Edgar!vars)
  PROVE  EdgarInv'
<1>1. CASE UNCHANGED (Edgar!vars)
  <2>1. /\ documents' = documents /\ hits' = hits /\ search' = search /\ pc' = pc
        /\ ticker' = ticker /\ total' = total /\ queue' = queue
    BY <1>1 DEF Edgar!vars
  <2>2. /\ Got' = Got
        /\ \A t : Wanted(t)' = Wanted(t) /\ (Complete(t)' <=> Complete(t))
    BY <2>1, SameDocuments
  <2>3. Wanted(ticker)' = Wanted(ticker)
    BY <2>1, <2>2
  <2> QED
    BY <2>1, <2>2, <2>3
       DEF EdgarInv, EdgarTypes, Counts, BehindIsComplete, Downloading, Progressing
<1>2. CASE Edgar!Next /\ pc = "search"
  BY <1>2, SearchKeepsInv
<1>3. ASSUME NEW count, NEW slept, Edgar!AfterFiling(count, slept), EdgarInv,
             documents' \in Seq(Nat \X Nat), search' = search, hits' = hits
      PROVE  EdgarTypes'
  <2>1. ticker' \in {ticker, ticker + 1} /\ pc' \in {"index", "search", "success"}
    BY <1>3 DEF Edgar!AfterFiling, Edgar!NextTicker
  <2>2. ticker \in Nat \ {0}
    BY DEF EdgarInv, EdgarTypes
  <2>3. ticker' \in Nat \ {0}
    BY <2>1, <2>2
  <2> QED
    BY <1>3, <2>1, <2>3 DEF EdgarInv, EdgarTypes
<1>4. CASE Edgar!Index
  <2>1. CASE hits[ticker][Edgar!Filing] = "no_index"
    <3>1. Edgar!AfterFiling(total, FALSE) /\ UNCHANGED <<search, hits, total, documents>>
          /\ pc = "index"
      BY <1>4, <2>1 DEF Edgar!Index
    <3>2. EdgarTypes'
      BY <1>3, <3>1 DEF EdgarInv, EdgarTypes
    <3> QED
      BY <2>1, <3>1, <3>2, FilingDone
  <2>2. CASE hits[ticker][Edgar!Filing] # "no_index"
    <3>1. /\ documents' = documents /\ hits' = hits /\ search' = search /\ pc' = "document"
          /\ ticker' = ticker /\ total' = total /\ queue' = queue /\ pc = "index"
      BY <1>4, <2>2 DEF Edgar!Index
    <3>2. /\ Got' = Got
          /\ \A t : Wanted(t)' = Wanted(t) /\ (Complete(t)' <=> Complete(t))
      BY <3>1, SameDocuments
    <3>3. Wanted(ticker)' = Wanted(ticker)
      BY <3>1, <3>2
    <3> QED
      BY <3>1, <3>2, <3>3
         DEF EdgarInv, EdgarTypes, Counts, BehindIsComplete, Downloading, Progressing
  <2> QED
    BY <2>1, <2>2
<1>5. CASE Edgar!Document
  <2>1. /\ pc = "document" /\ UNCHANGED <<search, hits>>
        /\ total' = Edgar!Counted(hits[ticker][Edgar!Filing])
        /\ documents' = IF hits[ticker][Edgar!Filing] = "ok"
                        THEN Append(documents, <<ticker, Edgar!Filing>>) ELSE documents
        /\ \E slept : Edgar!AfterFiling(total', slept)
    BY <1>5 DEF Edgar!Document
  <2>2. documents' \in Seq(Nat \X Nat)
    <3>1. <<ticker, Edgar!Filing>> \in Nat \X Nat
      BY <2>1, FilingIs DEF EdgarInv, EdgarTypes
    <3> HIDE DEF Edgar!Filing
    <3> QED
      BY <2>1, <3>1 DEF EdgarInv, EdgarTypes
  <2>3. EdgarTypes'
    BY <1>3, <2>1, <2>2
  <2> QED
    BY <2>1, <2>3, FilingDone DEF Edgar!Counted
<1> QED
  BY <1>1, <1>2, <1>4, <1>5
     DEF Edgar!Next, Edgar!SearchOk, Edgar!SearchSkipped, Edgar!SearchRaises

\* A ticker or filing that fails costs only itself, with any number of tickers,
\* hits and documents.
THEOREM FailuresStayContained == Spec => []FailuresAreContained
<1>1. Init => (scenario = "edgar" => EdgarInv)
  BY EdgarInvInit DEF Init, GraphInit, LettersInit, SortInit, FlowInit, WriterInit, EdgarInit, PagesInit
<1>2. (scenario = "edgar" => EdgarInv) /\ [Next]_vars => (scenario = "edgar" => EdgarInv)'
  <2> SUFFICES ASSUME scenario = "edgar" => EdgarInv, [Next]_vars, scenario' = "edgar"
               PROVE  EdgarInv'
    OBVIOUS
  <2>1. scenario = "edgar" /\ [Edgar!Next]_(Edgar!vars)
    BY DEF Next, GraphNext, LettersNext, SortNext, FlowNext, WriterNext, EdgarNext, PagesNext, vars,
       edgarVars, commonVars, Edgar!vars
  <2> QED
    BY <2>1, EdgarInvStep
<1>3. (scenario = "edgar" => EdgarInv) => FailuresAreContained
  <2> SUFFICES ASSUME EdgarInv PROVE Edgar!FailuresAreContained /\ Edgar!CapHolds
    BY DEF FailuresAreContained
  <2>1. Edgar!CapHolds
    BY DEF EdgarInv, Counts, Edgar!CapHolds
  <2>2. ASSUME pc = "success", Len(documents) < MaxFilings, NEW t \in 1..NumTickers,
               search[t] = "ok", NEW i \in DOMAIN hits[t], hits[t][i] = "ok",
               i <= MaxFilings - Before(t)
        PROVE  <<t, i>> \in Got
    <3>1. t < ticker
      BY <2>2, EdgarConstants DEF EdgarInv, Counts, Progressing, EdgarTypes
    <3> QED
      BY <2>2, <3>1 DEF EdgarInv, Counts, BehindIsComplete, Complete, Wanted
  <2>3. \A t : Before(t) = Edgar!Cardinality({d \in Got : d[1] < t})
    BY EdgarConstants DEF Before
  <2>4. Edgar!FailuresAreContained
    BY <2>2, <2>3 DEF Edgar!FailuresAreContained, Edgar!Tickers, Got
  <2> QED
    BY <2>1, <2>4
<1> QED
  BY <1>1, <1>2, <1>3, PTL DEF Spec

-------------------------------------------------------------------------------
(* The pages of a PDF                                                      *)

Components == {"renderer", "ocr", "tables"}
Task ==
  [stage : {None}, status : {"none", "begin", "done", "failed"}]
    \cup [stage : Components, status : {"wait", "work", "stop"}]
Holds(p, c) == task[p].stage = c /\ task[p].status \in {"work", "stop"}

PagesTypes ==
  /\ phase \in {"idle", "pages", "failing", "raised", "done"}
  /\ first \in Nat \ {0}
  /\ task \in [Pdf!Pages -> Task]
  /\ lock \in [Components -> Pdf!Pages \cup {None}]
  /\ doc \in Nat
  /\ workers \in [Components -> SUBSET ((0..doc) \X Pdf!Pages)]
  /\ again \in SUBSET ((0..doc) \X Pdf!Pages)

\* A page that uses a component, or is being cancelled in it, has its lock and its
\* process or thread; other locks and workers are of pages cancelled again.
LocksAreHeld ==
  /\ \A c \in Components, p \in Pdf!Pages :
       Holds(p, c) => lock[c] = p /\ <<doc, p>> \in workers[c]
  /\ \A c \in Components, p \in Pdf!Pages :
       lock[c] = p => Holds(p, c) \/ <<doc, p>> \in again
  /\ \A c \in Components : \A w \in workers[c] :
       w \in again \/ (w[1] = doc /\ Holds(w[2], c))

\* No two workers are of one document, and the table extractor has but one.
WorkersAreApart ==
  \A c \in Components : \A v, w \in workers[c] : v # w => v[1] # w[1] /\ c # "tables"

\* A page that was cancelled again does not go on, and no page of its call begins
\* anything more.
AbandonedCallsEnd ==
  /\ \A p \in Pdf!Pages : <<doc, p>> \in again =>
       /\ task[p].status \in {"stop", "failed"}
       /\ \A q \in Pdf!Pages : task[q].status \notin {"begin", "wait", "work"}
  /\ phase = "done" => \A p \in Pdf!Pages : <<doc, p>> \notin again

\* Only pages of the window are at work, and none outside a call.
WindowsAdvance ==
  /\ phase \in {"pages", "failing"} => \A p \in Pdf!Pages :
       /\ p < first => task[p].status = "done"
       /\ first + Concurrency <= p => task[p].status = "none"
  /\ phase \notin {"pages", "failing"} => \A p \in Pdf!Pages :
       task[p].status \in {"none", "done", "failed"}

\* The elements are those of the pages before the window.
Collects ==
  /\ phase = "pages" => first <= PageCount /\ elements = [i \in 1..(first - 1) |-> i]
  /\ phase = "done" => elements = [i \in Pdf!Pages |-> i]

PagesInv ==
  /\ PagesTypes /\ LocksAreHeld /\ WorkersAreApart /\ AbandonedCallsEnd
  /\ WindowsAdvance /\ Collects

\* The constants of the extraction are sound.
LEMMA PagesConstants ==
  /\ PageCount \in Nat \ {0} /\ Concurrency \in Nat \ {0} /\ None \notin Pdf!Pages
  /\ Pdf!Pages = 1..PageCount /\ Pdf!Components = Components
  /\ \A S : Pdf!Cardinality(S) = Cardinality(S)
<1>1. \A S : Pdf!Cardinality(S) = Cardinality(S)
  BY DEF Pdf!Cardinality, Cardinality
<1> QED
  BY <1>1, ConstantsAreSound
     DEF Pdf!ExtractionAssumption, Pdf!Pages, Pdf!Components, Components

\* Where a page is, by stage and status.
LEMMA AtIs ==
  ASSUME PagesInv, NEW p \in Pdf!Pages
  PROVE  /\ task[p] \in Task
         /\ \A c, s : Pdf!At(p, c, s) <=> task[p].stage = c /\ task[p].status = s
<1>1. task[p] \in Task
  BY DEF PagesInv, PagesTypes
<1> QED
  BY <1>1 DEF Pdf!At, Task

\* The tasks there are.
LEMMA OutsideIs ==
  /\ \A s \in {"none", "begin", "done", "failed"} :
       Pdf!Outside(s) \in Task /\ Pdf!Outside(s).status = s
  /\ \A c \in Components, s \in {"wait", "work", "stop"} :
       /\ [stage |-> c, status |-> s] \in Task
       /\ [stage |-> c, status |-> s].stage = c /\ [stage |-> c, status |-> s].status = s
BY DEF Pdf!Outside, Task

-------------------------------------------------------------------------------
\* A page at work is one of the window.
LEMMA ActivePage ==
  ASSUME PagesInv, NEW p \in Pdf!Pages, task[p].status \notin {"none", "done", "failed"}
  PROVE  phase \in {"pages", "failing"} /\ first <= p /\ p < first + Concurrency
BY PagesConstants DEF PagesInv, PagesTypes, WindowsAdvance

\* One page goes on, without its component, with it, or away from it.
LEMMA PageGoesOn ==
  ASSUME PagesInv, NEW p \in Pdf!Pages, task[p].status \notin {"none", "done", "failed"},
         NEW e \in Task, task' = [task EXCEPT ![p] = e],
         UNCHANGED <<phase, first, elements>>
  PROVE  /\ WindowsAdvance' /\ Collects' /\ task' \in [Pdf!Pages -> Task]
         /\ \A q \in Pdf!Pages : task'[q] = IF q = p THEN e ELSE task[q]
<1>1. task \in [Pdf!Pages -> Task] /\ p \in Nat /\ first \in Nat /\ Concurrency \in Nat
  BY PagesConstants DEF PagesInv, PagesTypes
<1>2. /\ task' \in [Pdf!Pages -> Task]
      /\ \A q \in Pdf!Pages : task'[q] = IF q = p THEN e ELSE task[q]
  BY <1>1
<1>3. phase \in {"pages", "failing"} /\ ~(p < first) /\ ~(first + Concurrency <= p)
  BY <1>1, ActivePage
<1>4. WindowsAdvance'
  BY <1>2, <1>3 DEF PagesInv, WindowsAdvance
<1>5. Collects'
  BY DEF PagesInv, Collects
<1> QED
  BY <1>2, <1>4, <1>5

\* A page that holds nothing begins, waits or is done.
LEMMA PageMoves ==
  ASSUME PagesInv, NEW p \in Pdf!Pages, task[p].status = "begin",
         NEW e \in Task, task' = [task EXCEPT ![p] = e], e.status \in {"wait", "done"},
         UNCHANGED <<doc, phase, first, elements, lock, workers, again>>
  PROVE  PagesInv'
<1>1. /\ WindowsAdvance' /\ Collects' /\ task' \in [Pdf!Pages -> Task]
      /\ \A q \in Pdf!Pages : task'[q] = IF q = p THEN e ELSE task[q]
  BY PageGoesOn
<1>2. \A c \in Components, q \in Pdf!Pages : Holds(q, c)' <=> Holds(q, c)
  BY <1>1 DEF Holds
<1>3. LocksAreHeld'
  <2>1. \A c \in Components : \A w \in workers[c] : w[2] \in Pdf!Pages
    BY DEF PagesInv, PagesTypes
  <2> QED
    BY <1>2, <2>1 DEF PagesInv, LocksAreHeld
<1>4. AbandonedCallsEnd'
  <2>1. \A q \in Pdf!Pages : <<doc, q>> \notin again
    BY DEF PagesInv, AbandonedCallsEnd
  <2> QED
    BY <2>1 DEF AbandonedCallsEnd
<1> QED
  BY <1>1, <1>3, <1>4 DEF PagesInv, PagesTypes, WorkersAreApart

LEMMA PageAcquires ==
  ASSUME PagesInv, NEW p \in Pdf!Pages, NEW c \in Components, task[p].status = "wait",
         Pdf!Free(c), lock' = [lock EXCEPT ![c] = p],
         workers' = [workers EXCEPT ![c] = @ \cup {<<doc, p>>}],
         NEW e \in Task, e.stage = c, e.status = "work", task' = [task EXCEPT ![p] = e],
         UNCHANGED <<doc, phase, first, elements, again>>
  PROVE  PagesInv'
<1>1. /\ WindowsAdvance' /\ Collects' /\ task' \in [Pdf!Pages -> Task]
      /\ \A q \in Pdf!Pages : task'[q] = IF q = p THEN e ELSE task[q]
  BY PageGoesOn
<1>2. \A d \in Components, q \in Pdf!Pages :
        Holds(q, d)' <=> IF q = p THEN d = c ELSE Holds(q, d)
  BY <1>1 DEF Holds
<1>3. /\ lock \in [Components -> Pdf!Pages \cup {None}]
      /\ lock' \in [Components -> Pdf!Pages \cup {None}]
      /\ \A d \in Components : lock'[d] = IF d = c THEN p ELSE lock[d]
      /\ lock[c] = None /\ (c = "tables" => workers[c] = {})
  BY DEF PagesInv, PagesTypes, Pdf!Free
<1>4. \A q \in Pdf!Pages : <<doc, q>> \notin again
  BY DEF PagesInv, AbandonedCallsEnd
<1>5. \A q \in Pdf!Pages : q # None /\ ~Holds(q, c)
  <2>1. \A q \in Pdf!Pages : Holds(q, c) => lock[c] = q
    BY DEF PagesInv, LocksAreHeld
  <2> QED
    BY <1>3, <2>1, PagesConstants
<1>6. /\ doc \in Nat /\ doc \in 0..doc /\ workers \in [Components -> SUBSET ((0..doc) \X Pdf!Pages)]
      /\ \A d \in Components :
           workers'[d] = IF d = c THEN workers[c] \cup {<<doc, p>>} ELSE workers[d]
  BY DEF PagesInv, PagesTypes
<1>7. workers' \in [Components -> SUBSET ((0..doc) \X Pdf!Pages)]
  <2>1. workers[c] \cup {<<doc, p>>} \in SUBSET ((0..doc) \X Pdf!Pages)
    BY <1>6
  <2> QED
    BY <1>6, <2>1
<1>8. LocksAreHeld'
  <2>1. ASSUME NEW d \in Components, NEW q \in Pdf!Pages, Holds(q, d)'
        PROVE  lock'[d] = q /\ <<doc, q>> \in workers'[d]
    <3>1. CASE q = p
      BY <1>2, <1>3, <1>6, <2>1, <3>1
    <3>2. CASE q # p
      <4>1. lock[d] = q /\ <<doc, q>> \in workers[d] /\ d # c
        BY <1>2, <1>5, <2>1, <3>2 DEF PagesInv, LocksAreHeld
      <4> QED
        BY <1>3, <1>6, <4>1
    <3> QED
      BY <3>1, <3>2
  <2>2. ASSUME NEW d \in Components, NEW q \in Pdf!Pages, lock'[d] = q
        PROVE  Holds(q, d)' \/ <<doc, q>> \in again
    <3>1. CASE d = c
      BY <1>2, <1>3, <2>2, <3>1
    <3>2. CASE d # c
      <4>1. Holds(q, d)
        BY <1>3, <1>4, <2>2, <3>2 DEF PagesInv, LocksAreHeld
      <4>2. q # p
        BY <4>1 DEF Holds
      <4> QED
        BY <1>2, <4>1, <4>2
    <3> QED
      BY <3>1, <3>2
  <2>3. ASSUME NEW d \in Components, NEW w \in workers'[d]
        PROVE  w \in again \/ (w[1] = doc /\ Holds(w[2], d)')
    <3>1. CASE d = c /\ w = <<doc, p>>
      BY <1>2, <3>1
    <3>2. CASE w \in workers[d]
      <4>1. w[2] \in Pdf!Pages
        BY <1>6, <3>2
      <4>2. w \in again \/ (w[1] = doc /\ Holds(w[2], d) /\ w[2] # p)
        BY <3>2 DEF PagesInv, LocksAreHeld, Holds
      <4> QED
        BY <1>2, <4>1, <4>2
    <3> QED
      BY <1>6, <2>3, <3>1, <3>2
  <2> QED
    BY <2>1, <2>2, <2>3 DEF LocksAreHeld
<1>9. WorkersAreApart'
  <2>1. ASSUME NEW w \in workers[c]
        PROVE  w[1] # doc
    <3>1. w = <<w[1], w[2]>> /\ w[2] \in Pdf!Pages
      BY <1>6, <2>1
    <3> QED
      BY <1>4, <1>5, <2>1, <3>1 DEF PagesInv, LocksAreHeld
  <2>2. <<doc, p>>[1] = doc
    OBVIOUS
  <2> QED
    BY <1>3, <1>6, <2>1, <2>2 DEF PagesInv, WorkersAreApart
<1>10. AbandonedCallsEnd'
  BY <1>4 DEF AbandonedCallsEnd
<1> QED
  BY <1>1, <1>3, <1>7, <1>8, <1>9, <1>10 DEF PagesInv, PagesTypes

\* A component loses a worker, and with it perhaps its lock.
LosesWorker(c, x) ==
  /\ lock' \in [Components -> Pdf!Pages \cup {None}]
  /\ workers' \in [Components -> SUBSET ((0..doc) \X Pdf!Pages)]
  /\ \A d \in Components : lock'[d] = IF d = c /\ x = <<doc, lock[c]>> THEN None ELSE lock[d]
  /\ \A d \in Components : workers'[d] = IF d = c THEN workers[c] \ {x} ELSE workers[d]
  /\ \A d \in Components : \A v, w \in workers'[d] : v # w => v[1] # w[1] /\ d # "tables"

LEMMA WorkerGoes ==
  ASSUME PagesInv, NEW c \in Components, NEW x \in workers[c],
         workers' = [workers EXCEPT ![c] = @ \ {x}],
         lock' = IF x = <<doc, lock[c]>> THEN Pdf!Release(c) ELSE lock
  PROVE  LosesWorker(c, x)
<1>1. /\ workers \in [Components -> SUBSET ((0..doc) \X Pdf!Pages)]
      /\ lock \in [Components -> Pdf!Pages \cup {None}]
  BY DEF PagesInv, PagesTypes
<1>2. \A d \in Components : workers'[d] = IF d = c THEN workers[c] \ {x} ELSE workers[d]
  BY <1>1
<1>3. /\ lock' \in [Components -> Pdf!Pages \cup {None}]
      /\ \A d \in Components : lock'[d] = IF d = c /\ x = <<doc, lock[c]>> THEN None ELSE lock[d]
  BY <1>1 DEF Pdf!Release
<1>4. workers' \in [Components -> SUBSET ((0..doc) \X Pdf!Pages)]
  <2>1. workers[c] \ {x} \in SUBSET ((0..doc) \X Pdf!Pages)
    BY <1>1
  <2> QED
    BY <1>1, <2>1
<1> QED
  BY <1>2, <1>3, <1>4 DEF PagesInv, WorkersAreApart, LosesWorker

\* A page leaves its component.
LEMMA PageReleases ==
  ASSUME PagesInv, NEW p \in Pdf!Pages, NEW c \in Components, Holds(p, c),
         lock' = Pdf!Release(c), workers' = [workers EXCEPT ![c] = @ \ {<<doc, p>>}],
         NEW e \in Task, e.status \notin {"work", "stop"}, task' = [task EXCEPT ![p] = e],
         task[p].status = "work" \/ e.status = "failed",
         UNCHANGED <<doc, phase, first, elements, again>>
  PROVE  PagesInv'
<1>1. /\ WindowsAdvance' /\ Collects' /\ task' \in [Pdf!Pages -> Task]
      /\ \A q \in Pdf!Pages : task'[q] = IF q = p THEN e ELSE task[q]
  BY PageGoesOn DEF Holds
<1>2. \A d \in Components, q \in Pdf!Pages : Holds(q, d)' <=> q # p /\ Holds(q, d)
  BY <1>1 DEF Holds
<1>3. lock[c] = p /\ <<doc, p>> \in workers[c]
  BY DEF PagesInv, LocksAreHeld
<1>4. /\ lock' \in [Components -> Pdf!Pages \cup {None}]
      /\ workers' \in [Components -> SUBSET ((0..doc) \X Pdf!Pages)]
      /\ \A d \in Components : lock'[d] = IF d = c THEN None ELSE lock[d]
      /\ \A d \in Components : workers'[d] = IF d = c THEN workers[c] \ {<<doc, p>>} ELSE workers[d]
      /\ WorkersAreApart'
  <2> DEFINE x == <<doc, p>>
  <2>1. x \in workers[c] /\ x = <<doc, lock[c]>>
    BY <1>3
  <2>2. /\ workers' = [workers EXCEPT ![c] = @ \ {x}]
        /\ lock' = IF x = <<doc, lock[c]>> THEN Pdf!Release(c) ELSE lock
    BY <2>1
  <2> HIDE DEF x
  <2>3. LosesWorker(c, x)
    BY <2>1, <2>2, WorkerGoes
  <2>4. WorkersAreApart'
    BY <2>3 DEF WorkersAreApart, LosesWorker
  <2> QED
    BY <2>1, <2>3, <2>4 DEF x, LosesWorker
<1>5. \A q \in Pdf!Pages : q # None
  BY PagesConstants
<1>6. LocksAreHeld'
  <2>1. ASSUME NEW d \in Components, NEW q \in Pdf!Pages, Holds(q, d)'
        PROVE  lock'[d] = q /\ <<doc, q>> \in workers'[d]
    <3>1. q # p /\ lock[d] = q /\ <<doc, q>> \in workers[d]
      BY <1>2, <2>1 DEF PagesInv, LocksAreHeld
    <3>2. d # c /\ <<doc, q>> # <<doc, p>>
      BY <1>3, <3>1
    <3> QED
      BY <1>4, <3>1, <3>2
  <2>2. ASSUME NEW d \in Components, NEW q \in Pdf!Pages, lock'[d] = q
        PROVE  Holds(q, d)' \/ <<doc, q>> \in again
    <3>1. d # c /\ lock[d] = q
      BY <1>4, <1>5, <2>2
    <3>2. Holds(q, d) => q # p
      BY <3>1 DEF Holds
    <3> QED
      BY <1>2, <3>1, <3>2 DEF PagesInv, LocksAreHeld
  <2>3. ASSUME NEW d \in Components, NEW w \in workers'[d]
        PROVE  w \in again \/ (w[1] = doc /\ Holds(w[2], d)')
    <3>1. w \in workers[d] /\ (d = c => w # <<doc, p>>)
      BY <1>4, <2>3
    <3>2. w = <<w[1], w[2]>> /\ w[2] \in Pdf!Pages
      BY <3>1 DEF PagesInv, PagesTypes
    <3>3. CASE w[1] = doc /\ Holds(w[2], d)
      <4>1. w[2] # p
        BY <3>1, <3>2, <3>3 DEF Holds
      <4> QED
        BY <1>2, <3>2, <3>3, <4>1
    <3> QED
      BY <3>1, <3>3 DEF PagesInv, LocksAreHeld
  <2> QED
    BY <2>1, <2>2, <2>3 DEF LocksAreHeld
<1>7. AbandonedCallsEnd'
  <2>1. CASE task[p].status = "work"
    <3>1. \A q \in Pdf!Pages : <<doc, q>> \notin again
      BY <2>1 DEF PagesInv, AbandonedCallsEnd
    <3> QED
      BY <3>1 DEF AbandonedCallsEnd
  <2>2. CASE e.status = "failed"
    BY <1>1, <2>2 DEF PagesInv, AbandonedCallsEnd
  <2> QED
    BY <2>1, <2>2
<1> QED
  BY <1>1, <1>4, <1>6, <1>7 DEF PagesInv, PagesTypes

\* What was left behind exits.
LEMMA AbandonedExits ==
  ASSUME PagesInv, Pdf!Exit
  PROVE  PagesInv'
<1>1. PICK c \in Components : \E w \in Pdf!LeftBehind(c) :
        /\ workers' = [workers EXCEPT ![c] = @ \ {w}]
        /\ lock' = IF w = <<doc, lock[c]>> THEN Pdf!Release(c) ELSE lock
  BY PagesConstants DEF Pdf!Exit
<1>2. PICK x \in Pdf!LeftBehind(c) :
        /\ workers' = [workers EXCEPT ![c] = @ \ {x}]
        /\ lock' = IF x = <<doc, lock[c]>> THEN Pdf!Release(c) ELSE lock
  BY <1>1
<1>3. UNCHANGED <<doc, phase, first, task, elements, again>>
  BY DEF Pdf!Exit
<1>4. x \in workers[c] /\ (x[1] = doc => ~Pdf!Uses(x[2], c))
  BY <1>2 DEF Pdf!LeftBehind
<1>5. x = <<x[1], x[2]>> /\ x[2] \in Pdf!Pages
  BY <1>4 DEF PagesInv, PagesTypes
<1>6. x[1] = doc => ~Holds(x[2], c)
  BY <1>4, <1>5, AtIs DEF Pdf!Uses, Holds
<1>7. /\ lock' \in [Components -> Pdf!Pages \cup {None}]
      /\ workers' \in [Components -> SUBSET ((0..doc) \X Pdf!Pages)]
      /\ \A d \in Components : lock'[d] = IF d = c /\ x = <<doc, lock[c]>> THEN None ELSE lock[d]
      /\ \A d \in Components : workers'[d] = IF d = c THEN workers[c] \ {x} ELSE workers[d]
      /\ WorkersAreApart'
  <2>1. LosesWorker(c, x)
    BY <1>2, <1>4, WorkerGoes
  <2> QED
    BY <2>1 DEF WorkersAreApart, LosesWorker
<1>8. \A d \in Components, q \in Pdf!Pages : (Holds(q, d)' <=> Holds(q, d)) /\ q # None
  BY <1>3, PagesConstants DEF Holds
<1>9. LocksAreHeld'
  <2>1. ASSUME NEW d \in Components, NEW q \in Pdf!Pages, Holds(q, d)'
        PROVE  lock'[d] = q /\ <<doc, q>> \in workers'[d]
    <3>1. Holds(q, d) /\ lock[d] = q /\ <<doc, q>> \in workers[d]
      BY <1>8, <2>1 DEF PagesInv, LocksAreHeld
    <3>2. d = c => x # <<doc, q>>
      BY <1>6, <3>1
    <3> QED
      BY <1>7, <3>1, <3>2
  <2>2. ASSUME NEW d \in Components, NEW q \in Pdf!Pages, lock'[d] = q
        PROVE  Holds(q, d)' \/ <<doc, q>> \in again
    BY <1>7, <1>8, <2>2 DEF PagesInv, LocksAreHeld
  <2>3. ASSUME NEW d \in Components, NEW w \in workers'[d]
        PROVE  w \in again \/ (w[1] = doc /\ Holds(w[2], d)')
    <3>1. w \in workers[d]
      BY <1>7, <2>3
    <3>2. w[2] \in Pdf!Pages
      BY <3>1 DEF PagesInv, PagesTypes
    <3> QED
      BY <1>8, <3>1, <3>2 DEF PagesInv, LocksAreHeld
  <2> QED
    BY <1>3, <2>1, <2>2, <2>3 DEF LocksAreHeld
<1> QED
  BY <1>3, <1>7, <1>9
     DEF PagesInv, PagesTypes, AbandonedCallsEnd, WindowsAdvance, Collects

-------------------------------------------------------------------------------
\* A page that is cancelled stops its component, or ends.
LEMMA CancelledIs ==
  ASSUME PagesInv, NEW p \in Pdf!Pages, NEW inner \in BOOLEAN
  PROVE  /\ Pdf!Cancelled(p, inner) \in Task
         /\ Pdf!Cancelled(p, inner).status \in {"stop", "failed"}
         /\ Pdf!Cancelled(p, inner).status = "stop" =>
              /\ Pdf!Cancelled(p, inner).stage = task[p].stage
              /\ task[p].status = "work" \/ (task[p].status = "stop" /\ task[p].stage = "tables" /\ ~inner)
         /\ task[p].status = "work" => Pdf!Cancelled(p, inner).status = "stop"
         /\ Pdf!Stopping(p) <=> task[p].status = "stop"
<1>1. task[p] \in Task
  BY AtIs
<1>2. task[p].status \in {"work", "stop"} => task[p].stage \in Components
  BY <1>1 DEF Task
<1>3. /\ (\E c \in Pdf!Components : Pdf!At(p, c, "work")) <=> task[p].status = "work"
      /\ (\E c \in Pdf!Components : Pdf!At(p, c, "stop")) <=> task[p].status = "stop"
  BY <1>2, AtIs, PagesConstants
<1>4. Pdf!At(p, "tables", "stop") <=> task[p].stage = "tables" /\ task[p].status = "stop"
  BY AtIs
<1>5. CASE task[p].status = "work"
  <2>1. Pdf!Cancelled(p, inner) = [task[p] EXCEPT !.status = "stop"]
    BY <1>3, <1>5 DEF Pdf!Cancelled
  <2> QED
    BY <1>1, <1>2, <1>3, <1>5, <2>1 DEF Task, Pdf!Stopping
<1>6. CASE task[p].status # "work"
  <2>1. Pdf!Cancelled(p, inner) = IF Pdf!At(p, "tables", "stop") /\ ~inner THEN task[p]
                                  ELSE Pdf!Outside("failed")
    BY <1>3, <1>6 DEF Pdf!Cancelled
  <2>2. Pdf!Outside("failed") \in Task /\ Pdf!Outside("failed").status = "failed"
    BY OutsideIs
  <2> QED
    BY <1>1, <1>3, <1>4, <1>6, <2>1, <2>2 DEF Pdf!Stopping
<1> QED
  BY <1>5, <1>6

\* Pages are cancelled: one that is not being stopped, or all that are under way.
LEMMA PagesAreCancelled ==
  ASSUME PagesInv, NEW S \in SUBSET Pdf!Pages, Pdf!Cancel(S),
         \A p \in S : first <= p /\ p < first + Concurrency,
         phase \in {"pages", "failing"}, phase' \in {phase, "failing"},
         \/ \A p \in S : ~Pdf!Stopping(p)
         \/ \A p \in Pdf!Pages : p \notin S => task[p].status \notin {"begin", "wait", "work", "stop"}
  PROVE  PagesInv'
<1>1. PICK inner \in BOOLEAN :
        /\ task' = [p \in Pdf!Pages |-> IF p \in S THEN Pdf!Cancelled(p, inner) ELSE task[p]]
        /\ lock' = [c \in Components |-> IF Pdf!Abandons(S, c, inner) THEN None ELSE lock[c]]
  BY PagesConstants DEF Pdf!Cancel
<1>2. /\ again' = again \cup {<<doc, p>> : p \in {q \in S : Pdf!Stopping(q)}}
      /\ UNCHANGED <<doc, first, workers, elements>>
  BY DEF Pdf!Cancel
<1>3. ASSUME NEW p \in Pdf!Pages
      PROVE  /\ task[p] \in Task /\ task'[p] \in Task
             /\ p \notin S => task'[p] = task[p]
             /\ p \in S => task'[p].status \in {"stop", "failed"}
             /\ p \in S /\ task'[p].status = "stop" =>
                  /\ task'[p].stage = task[p].stage
                  /\ task[p].status = "work"
                       \/ (task[p].status = "stop" /\ task[p].stage = "tables" /\ ~inner)
             /\ p \in S /\ task[p].status = "work" => task'[p].status = "stop"
             /\ Pdf!Stopping(p) <=> task[p].status = "stop"
  BY <1>1, CancelledIs, AtIs
<1>4. \A p \in Pdf!Pages : <<doc, p>> \in again'
        <=> <<doc, p>> \in again \/ (p \in S /\ task[p].status = "stop")
  BY <1>2, <1>3
<1>5. /\ lock' \in [Components -> Pdf!Pages \cup {None}]
      /\ \A c \in Components : lock'[c] = lock[c] \/ lock'[c] = None
      /\ \A c \in Components, p \in Pdf!Pages :
           lock[c] = p /\ lock'[c] # p => p \in S /\ Pdf!At(p, c, "stop") /\ c # "tables" /\ ~inner
  BY <1>1 DEF Pdf!Abandons, PagesInv, PagesTypes
<1>6. \A p \in Pdf!Pages : p # None
  BY PagesConstants
<1>7. \A c \in Components, p \in Pdf!Pages : Holds(p, c)' => Holds(p, c)
  BY <1>3 DEF Holds
<1>8. \A c \in Components, p \in Pdf!Pages :
        Holds(p, c) => Holds(p, c)' \/ (p \in S /\ task[p].status = "stop")
  BY <1>3 DEF Holds
<1>9. again' \in SUBSET ((0..doc) \X Pdf!Pages) /\ again \subseteq again'
  <2>1. doc \in 0..doc
    BY DEF PagesInv, PagesTypes
  <2> QED
    BY <1>2, <2>1 DEF PagesInv, PagesTypes
<1>10. PagesTypes'
  <2>1. task' \in [Pdf!Pages -> Task]
    BY <1>1, <1>3
  <2> QED
    BY <1>2, <1>5, <1>9, <2>1 DEF PagesInv, PagesTypes
<1>11. LocksAreHeld'
  <2>1. ASSUME NEW c \in Components, NEW p \in Pdf!Pages, Holds(p, c)'
        PROVE  lock'[c] = p /\ <<doc, p>> \in workers[c]
    <3>1. Holds(p, c) /\ lock[c] = p /\ <<doc, p>> \in workers[c]
      BY <1>7, <2>1 DEF PagesInv, LocksAreHeld
    <3>2. ~(p \in S /\ Pdf!At(p, c, "stop") /\ c # "tables" /\ ~inner)
      BY <1>3, <2>1, AtIs DEF Holds
    <3> QED
      BY <1>5, <3>1, <3>2
  <2>2. ASSUME NEW c \in Components, NEW p \in Pdf!Pages, lock'[c] = p
        PROVE  Holds(p, c)' \/ <<doc, p>> \in again'
    <3>1. lock[c] = p
      BY <1>5, <1>6, <2>2
    <3> QED
      BY <1>4, <1>8, <3>1 DEF PagesInv, LocksAreHeld
  <2>3. ASSUME NEW c \in Components, NEW w \in workers[c]
        PROVE  w \in again' \/ (w[1] = doc /\ Holds(w[2], c)')
    <3>1. w = <<w[1], w[2]>> /\ w[2] \in Pdf!Pages
      BY <2>3 DEF PagesInv, PagesTypes
    <3>2. CASE w \in again
      BY <1>9, <3>2
    <3>3. CASE w[1] = doc /\ Holds(w[2], c)
      BY <1>4, <1>8, <3>1, <3>3
    <3> QED
      BY <3>2, <3>3 DEF PagesInv, LocksAreHeld
  <2> QED
    BY <1>2, <2>1, <2>2, <2>3 DEF LocksAreHeld
<1>12. AbandonedCallsEnd'
  <2>1. ASSUME NEW p \in Pdf!Pages, <<doc, p>> \in again'
        PROVE  task'[p].status \in {"stop", "failed"}
    BY <1>3, <1>4, <2>1 DEF PagesInv, AbandonedCallsEnd
  <2>2. ASSUME NEW p \in Pdf!Pages, <<doc, p>> \in again', NEW q \in Pdf!Pages
        PROVE  task'[q].status \notin {"begin", "wait", "work"}
    <3>1. CASE q \in S
      BY <1>3, <3>1
    <3>2. CASE q \notin S
      <4>1. CASE <<doc, p>> \in again
        BY <1>3, <3>2, <4>1 DEF PagesInv, AbandonedCallsEnd
      <4>2. CASE <<doc, p>> \notin again
        <5>1. p \in S /\ Pdf!Stopping(p)
          BY <1>3, <1>4, <2>2, <4>2
        <5> QED
          BY <1>3, <3>2, <5>1
      <4> QED
        BY <4>1, <4>2
    <3> QED
      BY <3>1, <3>2
  <2> QED
    BY <1>2, <2>1, <2>2 DEF AbandonedCallsEnd
<1>13. WindowsAdvance'
  <2>1. \A p \in S : ~(p < first) /\ ~(first + Concurrency <= p)
    BY PagesConstants DEF PagesInv, PagesTypes
  <2> QED
    BY <1>2, <1>3, <2>1 DEF PagesInv, WindowsAdvance
<1>14. Collects' /\ WorkersAreApart'
  BY <1>2 DEF PagesInv, Collects, WorkersAreApart
<1> QED
  BY <1>10, <1>11, <1>12, <1>13, <1>14 DEF PagesInv

\* Cancelling the window's unfinished pages cancels all that are under way.
LEMMA WindowIsCancelled ==
  ASSUME PagesInv, phase \in {"pages", "failing"}, phase' \in {phase, "failing"},
         Pdf!Cancel(Pdf!Unfinished)
  PROVE  PagesInv'
<1>1. Pdf!Unfinished \in SUBSET Pdf!Pages
  BY DEF Pdf!Unfinished, Pdf!Window
<1>2. \A p \in Pdf!Pages : p < first \/ first + Concurrency <= p \/ p \in Pdf!Window
  BY PagesConstants DEF Pdf!Window, PagesInv, PagesTypes
<1>3. \A p \in Pdf!Pages : p \notin Pdf!Unfinished =>
        task[p].status \notin {"begin", "wait", "work", "stop"}
  BY <1>2 DEF Pdf!Unfinished, Pdf!Ended, PagesInv, WindowsAdvance
<1>4. \A p \in Pdf!Unfinished : first <= p /\ p < first + Concurrency
  BY DEF Pdf!Unfinished, Pdf!Window
<1> QED
  BY <1>1, <1>3, <1>4, PagesAreCancelled

\* Outside a call no page holds a component, and what is left was abandoned.
LEMMA NothingHeld ==
  ASSUME PagesInv, phase \notin {"pages", "failing"}
  PROVE  /\ \A c \in Components, p \in Pdf!Pages : ~Holds(p, c)
         /\ \A c \in Components, p \in Pdf!Pages : lock[c] = p => <<doc, p>> \in again
         /\ \A c \in Components : workers[c] \subseteq again
<1>1. \A c \in Components, p \in Pdf!Pages : ~Holds(p, c)
  BY DEF PagesInv, WindowsAdvance, Holds
<1>2. \A c \in Components : \A w \in workers[c] : w[2] \in Pdf!Pages
  BY DEF PagesInv, PagesTypes
<1> QED
  BY <1>1, <1>2 DEF PagesInv, LocksAreHeld

\* A document starts with free locks, beside what earlier ones left behind.
LEMMA DocumentStarts ==
  ASSUME PagesInv, Pdf!StartDocument
  PROVE  PagesInv'
<1>1. /\ phase \notin {"pages", "failing"} /\ phase' = "pages" /\ first' = 1 /\ elements' = <<>>
      /\ task' = [p \in Pdf!Pages |-> IF p <= Concurrency THEN Pdf!Outside("begin")
                                      ELSE Pdf!Outside("none")]
      /\ lock' = [c \in Components |-> None] /\ UNCHANGED <<workers, again>> /\ doc' = doc + 1
  BY PagesConstants DEF Pdf!StartDocument
<1>2. \A p \in Pdf!Pages : /\ task'[p] \in Task /\ task'[p].status \in {"begin", "none"}
                           /\ ~(p <= Concurrency) => task'[p].status = "none"
  BY <1>1, OutsideIs
<1>3. PagesTypes'
  <2>1. doc \in Nat /\ doc' \in Nat /\ 0..doc \subseteq 0..doc'
    BY <1>1 DEF PagesInv, PagesTypes
  <2>2. (0..doc) \X Pdf!Pages \subseteq (0..doc') \X Pdf!Pages
    BY <2>1
  <2>3. /\ workers' \in [Components -> SUBSET ((0..doc') \X Pdf!Pages)]
        /\ again' \in SUBSET ((0..doc') \X Pdf!Pages)
    BY <1>1, <2>2 DEF PagesInv, PagesTypes
  <2> QED
    BY <1>1, <1>2, <2>1, <2>3 DEF PagesTypes
<1>4. LocksAreHeld'
  <2>1. \A c \in Components, p \in Pdf!Pages : lock'[c] # p /\ ~Holds(p, c)'
    BY <1>1, <1>2, PagesConstants DEF Holds
  <2> QED
    BY <1>1, <2>1, NothingHeld DEF LocksAreHeld
<1>5. WindowsAdvance'
  <2>1. \A p \in Pdf!Pages : ~(p < 1) /\ (1 + Concurrency <= p => ~(p <= Concurrency))
    BY PagesConstants
  <2> QED
    BY <1>1, <1>2, <2>1 DEF WindowsAdvance
<1>6. Collects'
  <2>1. 1 <= PageCount /\ 1..(1 - 1) = {}
    BY PagesConstants
  <2>2. <<>> = [i \in 1..(1 - 1) |-> i]
    BY <2>1
  <2> QED
    BY <1>1, <2>1, <2>2 DEF Collects
<1>7. AbandonedCallsEnd'
  <2>1. doc \in Nat /\ again \subseteq (0..doc) \X Pdf!Pages
    BY DEF PagesInv, PagesTypes
  <2>2. doc' \notin 0..doc
    BY <1>1, <2>1
  <2>3. \A p \in Pdf!Pages : <<doc', p>> \notin again
    BY <2>1, <2>2
  <2> QED
    BY <1>1, <2>3 DEF AbandonedCallsEnd
<1>8. WorkersAreApart'
  BY <1>1 DEF PagesInv, WorkersAreApart
<1> QED
  BY <1>3, <1>4, <1>5, <1>6, <1>7, <1>8 DEF PagesInv

\* The elements of two sequences that are joined.
LEMMA Joined ==
  ASSUME NEW s \in Seq(Nat), NEW t \in Seq(Nat)
  PROVE  /\ s \o t = [i \in 1..(Len(s) + Len(t)) |-> (s \o t)[i]]
         /\ \A i \in 1..(Len(s) + Len(t)) :
              (s \o t)[i] = IF i <= Len(s) THEN s[i] ELSE t[i - Len(s)]
<1>1. s \o t \in Seq(Nat) /\ Len(s \o t) = Len(s) + Len(t)
  OBVIOUS
<1>2. \A i \in 1..(Len(s) + Len(t)) :
        (s \o t)[i] = IF i <= Len(s) THEN s[i] ELSE t[i - Len(s)]
  OBVIOUS
<1>3. s \o t = [i \in 1..(Len(s) + Len(t)) |-> (s \o t)[i]]
  <2> DEFINE z == s \o t
             k == Len(s) + Len(t)
  <2>1. z \in Seq(Nat) /\ Len(z) = k
    BY <1>1
  <2> HIDE DEF z, k
  <2>2. z = [i \in 1..k |-> z[i]]
    BY <2>1
  <2> QED
    BY <2>2 DEF z, k
<1> QED
  BY <1>2, <1>3

\* The window's pages join the ones before.
LEMMA WindowIs ==
  ASSUME PagesInv, phase = "pages"
  PROVE  LET last == IF first + Concurrency > PageCount THEN PageCount ELSE first + Concurrency - 1
         IN  /\ last \in Nat /\ first <= last /\ Pdf!Window = first..last
             /\ elements \o Pdf!Collected = [i \in 1..last |-> i]
<1> DEFINE last == IF first + Concurrency > PageCount THEN PageCount ELSE first + Concurrency - 1
<1>1. /\ first \in Nat \ {0} /\ first <= PageCount /\ PageCount \in Nat
      /\ Concurrency \in Nat \ {0}
  BY PagesConstants DEF PagesInv, PagesTypes, Collects
<1>2. last \in Nat /\ first <= last /\ last <= PageCount
  BY <1>1
<1>3. Pdf!Window = first..last
  <2>1. \A p : p \in Pdf!Window <=> p \in 1..PageCount /\ first <= p /\ p < first + Concurrency
    BY PagesConstants DEF Pdf!Window
  <2>2. \A p : p \in first..last <=> p \in 1..PageCount /\ first <= p /\ p < first + Concurrency
    BY <1>1
  <2> QED
    BY <2>1, <2>2
<1> HIDE DEF last
<1> DEFINE m == last - first + 1
<1>4. Pdf!Cardinality(Pdf!Window) = m
  <2>1. first \in Int /\ last \in Int /\ ~(first > last)
    BY <1>1, <1>2
  <2>2. Cardinality(first..last) = IF first > last THEN 0 ELSE last - first + 1
    BY <2>1, FS_Interval
  <2> QED
    BY <1>3, <2>1, <2>2, PagesConstants
<1>5. m \in Nat /\ first - 1 \in Nat /\ (first - 1) + m = last
  BY <1>1, <1>2
<1> DEFINE a == first - 1
<1>6. Pdf!Collected = [i \in 1..m |-> first + i - 1]
  BY <1>4 DEF Pdf!Collected
<1>7. elements = [i \in 1..a |-> i]
  BY DEF PagesInv, Collects
<1>8. \A i \in 1..m : first + i - 1 = a + i
  BY <1>1, <1>5
<1> HIDE DEF m, a
<1>9. Pdf!Collected = [i \in 1..m |-> a + i]
  BY <1>6, <1>8
<1>10. elements \o Pdf!Collected = [i \in 1..(a + m) |-> i]
  <2>1. m \in Nat /\ a \in Nat
    BY <1>5 DEF a
  <2> DEFINE s == [i \in 1..a |-> i]
             t == [i \in 1..m |-> a + i]
             z == s \o t
  <2>2. s \in Seq(Nat) /\ t \in Seq(Nat) /\ Len(s) = a /\ Len(t) = m
    BY <2>1
  <2>3. /\ z = [i \in 1..(a + m) |-> z[i]]
        /\ \A i \in 1..(a + m) : z[i] = IF i <= a THEN s[i] ELSE t[i - a]
    <3> HIDE DEF s, t
    <3> QED
      BY <2>2, Joined
  <2>5. \A i \in 1..(a + m) : (IF i <= a THEN s[i] ELSE t[i - a]) = i
    BY <2>1
  <2>6. \A i \in 1..(a + m) : z[i] = i
    BY <2>3, <2>5
  <2>7. z = [i \in 1..(a + m) |-> i]
    <3> HIDE DEF z
    <3> QED
      BY <2>3, <2>6
  <2> QED
    BY <1>7, <1>9, <2>7
<1> QED
  BY <1>2, <1>3, <1>5, <1>10 DEF last, a

\* A window that ends hands over to the next.
LEMMA WindowEnds ==
  ASSUME PagesInv, Pdf!EndWindow
  PROVE  PagesInv'
<1> DEFINE last == IF first + Concurrency > PageCount THEN PageCount ELSE first + Concurrency - 1
<1>1. /\ phase = "pages" /\ \A p \in Pdf!Window : task[p].status = "done"
      /\ elements' = elements \o Pdf!Collected /\ first' = first + Concurrency
      /\ phase' = IF first + Concurrency > PageCount THEN "done" ELSE "pages"
      /\ UNCHANGED <<doc, lock, workers, again>>
      /\ task' = [p \in Pdf!Pages |->
                   IF first + Concurrency <= p /\ p < first + Concurrency + Concurrency
                   THEN Pdf!Outside("begin") ELSE task[p]]
  BY DEF Pdf!EndWindow, Pdf!NextFirst
<1>2. /\ first \in Nat \ {0} /\ PageCount \in Nat \ {0} /\ Concurrency \in Nat \ {0}
      /\ Pdf!Pages = 1..PageCount
  BY PagesConstants DEF PagesInv, PagesTypes
<1>3. \A p \in Pdf!Pages :
        /\ task[p] \in Task
        /\ p < first + Concurrency => task[p].status = "done"
        /\ first + Concurrency <= p => task[p].status = "none"
  <2>1. \A p \in Pdf!Pages : p < first + Concurrency => p < first \/ p \in Pdf!Window
    BY <1>2 DEF Pdf!Window
  <2> QED
    BY <1>1, <2>1 DEF PagesInv, PagesTypes, WindowsAdvance
<1>4. \A p \in Pdf!Pages :
        /\ task'[p] \in Task
        /\ task'[p].status \in {"done", "none", "begin"} /\ task[p].status \in {"done", "none"}
        /\ p < first + Concurrency => task'[p].status = "done"
        /\ first + Concurrency + Concurrency <= p => task'[p].status = "none"
  <2> TAKE p \in Pdf!Pages
  <2>1. p \in Nat
    BY <1>2
  <2> QED
    BY <1>1, <1>2, <1>3, <2>1, OutsideIs
<1>5. PagesTypes'
  <2>1. first' \in Nat \ {0}
    BY <1>1, <1>2
  <2>2. task' \in [Pdf!Pages -> Task]
    BY <1>1, <1>4
  <2> QED
    BY <1>1, <2>1, <2>2 DEF PagesInv, PagesTypes
<1>6. LocksAreHeld' /\ AbandonedCallsEnd' /\ WorkersAreApart'
  <2>1. \A c \in Components, p \in Pdf!Pages : ~Holds(p, c) /\ ~Holds(p, c)'
    BY <1>4 DEF Holds
  <2>2. \A p \in Pdf!Pages : <<doc, p>> \notin again
    BY <1>4 DEF PagesInv, AbandonedCallsEnd
  <2>3. \A c \in Components : \A w \in workers[c] : w[2] \in Pdf!Pages
    BY DEF PagesInv, PagesTypes
  <2>4. LocksAreHeld'
    BY <1>1, <2>1, <2>3 DEF PagesInv, LocksAreHeld
  <2> QED
    BY <1>1, <2>2, <2>4 DEF PagesInv, AbandonedCallsEnd, WorkersAreApart
<1>7. WindowsAdvance'
  <2>1. CASE first + Concurrency > PageCount
    <3>1. \A p \in Pdf!Pages : p < first + Concurrency
      BY <1>2, <2>1
    <3> QED
      BY <1>1, <1>4, <2>1, <3>1 DEF WindowsAdvance
  <2>2. CASE ~(first + Concurrency > PageCount)
    BY <1>1, <1>4, <2>2 DEF WindowsAdvance
  <2> QED
    BY <2>1, <2>2
<1>8. Collects'
  <2>1. elements' = [i \in 1..last |-> i]
    BY <1>1, WindowIs
  <2>2. CASE first + Concurrency > PageCount
    BY <1>1, <1>2, <2>1, <2>2 DEF Collects
  <2>3. CASE ~(first + Concurrency > PageCount)
    <3>1. first + Concurrency <= PageCount /\ last = first' - 1
      BY <1>1, <1>2, <2>3
    <3> HIDE DEF last
    <3> QED
      BY <1>1, <2>1, <2>3, <3>1 DEF Collects
  <2> QED
    BY <2>2, <2>3
<1> QED
  BY <1>5, <1>6, <1>7, <1>8 DEF PagesInv

-------------------------------------------------------------------------------
\* PagesInv is inductive.
LEMMA PagesInvInit == ASSUME Pdf!Init PROVE PagesInv
<1>1. /\ phase = "idle" /\ first = 1 /\ task = [p \in Pdf!Pages |-> Pdf!Outside("none")]
      /\ lock = [c \in Components |-> None] /\ workers = [c \in Components |-> {}]
      /\ doc = 0 /\ again = {}
  BY PagesConstants DEF Pdf!Init
<1>2. \A p \in Pdf!Pages : task[p] \in Task /\ task[p].status = "none" /\ p # None
  BY <1>1, OutsideIs, PagesConstants
<1>3. PagesTypes
  BY <1>1, <1>2 DEF PagesTypes
<1>4. LocksAreHeld
  BY <1>1, <1>2 DEF LocksAreHeld, Holds
<1> QED
  BY <1>1, <1>2, <1>3, <1>4
     DEF PagesInv, WindowsAdvance, Collects, WorkersAreApart, AbandonedCallsEnd

\* A component's work ends, and its page goes on.
LEMMA WorkEnds ==
  ASSUME PagesInv, Pdf!WorkDone
  PROVE  PagesInv'
<1>1. PICK p \in Pdf!Pages, c \in Components :
        /\ Pdf!At(p, c, "work") /\ lock' = Pdf!Release(c)
        /\ workers' = [workers EXCEPT ![c] = @ \ {<<doc, p>>}]
        /\ task' \in CASE c = "renderer" -> Pdf!AfterRender(p)
                       [] c = "ocr" -> {Pdf!AfterOcr(p)}
                       [] c = "tables" -> {[task EXCEPT ![p] = Pdf!Outside("done")]}
  BY PagesConstants DEF Pdf!WorkDone
<1>2. UNCHANGED <<doc, phase, first, elements, again>>
  BY DEF Pdf!WorkDone
<1>3. \/ \E d \in Components : task' = Pdf!Goto(p, d)
      \/ task' = [task EXCEPT ![p] = Pdf!Outside("done")]
  BY <1>1 DEF Components, Pdf!AfterRender, Pdf!AfterOcr
<1>4. \E e \in Task : e.status \notin {"work", "stop"} /\ task' = [task EXCEPT ![p] = e]
  BY <1>3, OutsideIs DEF Pdf!Goto
<1>5. Holds(p, c) /\ task[p].status = "work"
  BY <1>1, AtIs DEF Holds
<1> QED
  BY <1>1, <1>2, <1>4, <1>5, PageReleases

LEMMA PagesInvStep ==
  ASSUME PagesInv, [Pdf!Next]_(Pdf!vars)
  PROVE  PagesInv'
<1>1. CASE UNCHANGED (Pdf!vars)
  <2>1. UNCHANGED <<doc, phase, first, task, lock, workers, elements, again>>
    BY <1>1 DEF Pdf!vars
  <2>2. \A p, c : Holds(p, c)' <=> Holds(p, c)
    BY <2>1 DEF Holds
  <2> QED
    BY <2>1, <2>2 DEF PagesInv, PagesTypes, LocksAreHeld, WorkersAreApart, AbandonedCallsEnd,
                      WindowsAdvance, Collects
<1>2. CASE Pdf!BeginPage
  <2>1. PICK p \in Pdf!Pages :
          /\ task[p] = Pdf!Outside("begin")
          /\ \/ task' = Pdf!Goto(p, "renderer")
             \/ task' = [task EXCEPT ![p] = Pdf!Outside("done")]
    BY <1>2 DEF Pdf!BeginPage
  <2>2. UNCHANGED <<doc, phase, first, elements, lock, workers, again>>
    BY <1>2 DEF Pdf!BeginPage
  <2>3. \E e \in Task : e.status \in {"wait", "done"} /\ task' = [task EXCEPT ![p] = e]
    BY <2>1, OutsideIs DEF Pdf!Goto, Components
  <2>4. task[p].status = "begin"
    BY <2>1, OutsideIs
  <2> QED
    BY <2>2, <2>3, <2>4, PageMoves
<1>3. CASE Pdf!Acquire
  <2>1. PICK p \in Pdf!Pages, c \in Components :
          /\ Pdf!At(p, c, "wait") /\ Pdf!Free(c) /\ lock' = [lock EXCEPT ![c] = p]
          /\ task' = [task EXCEPT ![p].status = "work"]
          /\ workers' = [workers EXCEPT ![c] = @ \cup {<<doc, p>>}]
    BY <1>3, PagesConstants DEF Pdf!Acquire
  <2>2. UNCHANGED <<doc, phase, first, elements, again>>
    BY <1>3 DEF Pdf!Acquire
  <2> DEFINE e == [stage |-> c, status |-> "work"]
  <2>3. task[p] = [stage |-> c, status |-> "wait"]
    BY <2>1 DEF Pdf!At
  <2>4. task' = [task EXCEPT ![p] = e]
    <3> DEFINE new == [task[p] EXCEPT !.status = "work"]
    <3>1. task' = [task EXCEPT ![p] = new]
      BY <2>1
    <3>2. new = e
      BY <2>3
    <3> HIDE DEF new
    <3> QED
      BY <3>1, <3>2
  <2>5. e \in Task /\ e.stage = c /\ e.status = "work"
    BY DEF Task
  <2>6. task[p].status = "wait"
    BY <2>3
  <2> HIDE DEF e
  <2> QED
    BY <2>1, <2>2, <2>4, <2>5, <2>6, PageAcquires
<1>4. CASE Pdf!WorkFails \/ Pdf!Stopped
  <2>1. PICK p \in Pdf!Pages, c \in Components :
          /\ Pdf!At(p, c, "work") \/ Pdf!At(p, c, "stop")
          /\ lock' = Pdf!Release(c)
          /\ workers' = [workers EXCEPT ![c] = @ \ {<<doc, p>>}]
          /\ task' = [task EXCEPT ![p] = Pdf!Outside("failed")]
    BY <1>4, PagesConstants DEF Pdf!WorkFails, Pdf!Stopped
  <2>2. UNCHANGED <<doc, phase, first, elements, again>>
    BY <1>4 DEF Pdf!WorkFails, Pdf!Stopped
  <2>3. Holds(p, c)
    BY <2>1, AtIs DEF Holds
  <2>4. Pdf!Outside("failed") \in Task /\ Pdf!Outside("failed").status = "failed"
    BY OutsideIs
  <2> QED
    BY <2>1, <2>2, <2>3, <2>4, PageReleases
<1>5. CASE Pdf!Timeout
  <2>1. PICK p \in Pdf!Pages : Pdf!Running(p) /\ ~Pdf!Stopping(p) /\ Pdf!Cancel({p})
    BY <1>5 DEF Pdf!Timeout
  <2>2. phase' = phase
    BY <1>5 DEF Pdf!Timeout
  <2>3. task[p].status \notin {"none", "done", "failed"}
    BY <2>1, AtIs DEF Pdf!Running
  <2>4. phase \in {"pages", "failing"} /\ first <= p /\ p < first + Concurrency
    BY <2>3, ActivePage
  <2> QED
    BY <2>1, <2>2, <2>3, <2>4, PagesAreCancelled
<1>6. CASE Pdf!GatherFails \/ Pdf!CallerCancels
  BY <1>6, WindowIsCancelled DEF Pdf!GatherFails, Pdf!CallerCancels
<1>7. CASE Pdf!Raise
  <2>1. /\ phase = "failing" /\ phase' = "raised" /\ \A p \in Pdf!Window : Pdf!Ended(p)
        /\ UNCHANGED <<doc, first, task, lock, workers, elements, again>>
    BY <1>7 DEF Pdf!Raise, Pdf!Settled
  <2>2. \A p \in Pdf!Pages : p < first \/ first + Concurrency <= p \/ p \in Pdf!Window
    BY PagesConstants DEF Pdf!Window, PagesInv, PagesTypes
  <2>3. WindowsAdvance'
    BY <2>1, <2>2 DEF PagesInv, WindowsAdvance, Pdf!Ended
  <2>4. \A p, c : Holds(p, c)' <=> Holds(p, c)
    BY <2>1 DEF Holds
  <2> QED
    BY <2>1, <2>3, <2>4
       DEF PagesInv, PagesTypes, LocksAreHeld, WorkersAreApart, AbandonedCallsEnd, Collects
<1> QED
  BY <1>1, <1>2, <1>3, <1>4, <1>5, <1>6, <1>7, DocumentStarts, WorkEnds, WindowEnds,
     AbandonedExits
     DEF Pdf!Next, Pdf!Work

\* A component serves one page of a document at a time, and what runs on after a
\* call is only what a page left that was cancelled again while its component was
\* being stopped; a call that returns leaves nothing, and its elements are those of
\* all pages in order: for PDFs of any length, windows of any size and any number of
\* failures, timeouts and cancellations.
THEOREM PagesStayIsolated == Spec => []PagesAreIsolated
<1>1. Init => (scenario = "pages" => PagesInv)
  BY PagesInvInit DEF Init, GraphInit, LettersInit, SortInit, FlowInit, WriterInit, EdgarInit, PagesInit
<1>2. (scenario = "pages" => PagesInv) /\ [Next]_vars => (scenario = "pages" => PagesInv)'
  <2> SUFFICES ASSUME scenario = "pages" => PagesInv, [Next]_vars, scenario' = "pages"
               PROVE  PagesInv'
    OBVIOUS
  <2>1. scenario = "pages" /\ [Pdf!Next]_(Pdf!vars)
    BY DEF Next, GraphNext, LettersNext, SortNext, FlowNext, WriterNext, EdgarNext, PagesNext, vars,
       pagesVars, commonVars, Pdf!vars
  <2> QED
    BY <2>1, PagesInvStep
<1>3. (scenario = "pages" => PagesInv) => PagesAreIsolated
  <2> SUFFICES ASSUME PagesInv
               PROVE  Pdf!OneUserPerComponent /\ Pdf!NothingRunsOn /\ Pdf!PagesInOrder
    BY DEF PagesAreIsolated
  <2>1. \A c \in Components : \A w \in workers[c] : w = <<w[1], w[2]>> /\ w[2] \in Pdf!Pages
    BY DEF PagesInv, PagesTypes
  <2>2. Pdf!OneUserPerComponent
    <3>1. ASSUME NEW c \in Components, NEW v \in workers[c], NEW w \in workers[c],
                 v \notin again, w \notin again
          PROVE  v = w
      <4>1. v[1] = doc /\ w[1] = doc /\ lock[c] = v[2] /\ lock[c] = w[2]
        BY <2>1, <3>1 DEF PagesInv, LocksAreHeld
      <4> QED
        BY <2>1, <4>1
    <3> QED
      BY <3>1, PagesConstants DEF Pdf!OneUserPerComponent, PagesInv, WorkersAreApart
  <2>3. ASSUME phase \in {"raised", "done"}, NEW p \in Pdf!Pages
        PROVE  ~Pdf!Running(p) /\ task[p] # Pdf!Outside("begin")
    <3>1. task[p].status \in {"none", "done", "failed"}
      BY <2>3 DEF PagesInv, WindowsAdvance
    <3>2. ~Pdf!Running(p)
      BY <3>1, AtIs DEF Pdf!Running
    <3> QED
      BY <3>1, <3>2, OutsideIs
  <2>4. Pdf!NothingRunsOn
    <3>1. SUFFICES ASSUME phase \in {"raised", "done"}, NEW c \in Components
                   PROVE  /\ Pdf!Remains(c) \subseteq again
                          /\ phase = "done" => \A w \in Pdf!Remains(c) : w[1] # doc
      BY <2>3, PagesConstants DEF Pdf!NothingRunsOn
    <3>2. workers[c] \subseteq again /\ \A p \in Pdf!Pages : lock[c] = p => <<doc, p>> \in again
      BY <3>1, NothingHeld
    <3>3. lock[c] \in Pdf!Pages \cup {None}
      BY DEF PagesInv, PagesTypes
    <3>4. Pdf!Remains(c) \subseteq again
      BY <3>2, <3>3 DEF Pdf!Remains
    <3>5. again \subseteq Nat \X Pdf!Pages
      BY DEF PagesInv, PagesTypes
    <3>6. phase = "done" => \A w \in again : w[1] # doc
      BY <3>5 DEF PagesInv, AbandonedCallsEnd
    <3> QED
      BY <3>4, <3>6
  <2>5. Pdf!PagesInOrder
    BY DEF PagesInv, Collects, Pdf!PagesInOrder
  <2> QED
    BY <2>2, <2>4, <2>5
<1> QED
  BY <1>1, <1>2, <1>3, PTL DEF Spec
===============================================================================
