------------------------- MODULE GraphExecutionProofs -------------------------
(***************************************************************************)
(* Proofs about GraphExecution, for every finite acyclic graph: what a     *)
(* completed run has executed, whatever pauses, resumes, retries, lost     *)
(* leases and crashes came before.                                         *)
(***************************************************************************)
EXTENDS GraphExecution, Recursion, FiniteSetTheorems

-------------------------------------------------------------------------------
(* Levels                                                                  *)

\* The nodes whose predecessors are all in X.
Ready(X) == {n \in Node : Preds(n) \subseteq X}

Settled(i) == SettledBy(Node, Edge, i)

\* The recursion of DagLevels has a solution, so it computes what it says: round
\* i + 1 settles the nodes whose predecessors are settled after round i.
LEMMA SettledRounds ==
  ASSUME NEW N, NEW E
  PROVE  /\ SettledBy(N, E, 0) = {}
         /\ \A i \in Nat : SettledBy(N, E, i) \subseteq N
         /\ \A i \in Nat : SettledBy(N, E, i + 1) =
              {n \in N : \A m \in N : <<m, n>> \in E => m \in SettledBy(N, E, i)}
<1> DEFINE Next1(X) == {n \in N : \A m \in N : <<m, n>> \in E => m \in X}
           Rec(f) == [k \in Nat |-> IF k = 0 THEN {}
                       ELSE {n \in N : \A m \in N : <<m, n>> \in E => m \in f[k - 1]}]
           settled == CHOOSE f : f = Rec(f)
           step == [X \in SUBSET N |-> Next1(X)]
           S == SUBSET N
<1>1. \E f \in [Nat -> SUBSET N] : f = Rec(f)
  <2>1. {} \in S /\ step \in [S -> S]
    OBVIOUS
  <2>2. PICK f \in [Nat -> S] : f[0] = {} /\ \A n \in Nat \ {0} : f[n] = step[f[n - 1]]
    <3> HIDE DEF step, S
    <3> QED
      BY <2>1, RecursionTheorem
  <2>3. \A n \in Nat \ {0} :
          step[f[n - 1]] = {x \in N : \A m \in N : <<m, x>> \in E => m \in f[n - 1]}
    OBVIOUS
  <2>4. f = Rec(f)
    <3> HIDE DEF step
    <3> QED
      BY <2>2, <2>3
  <2> QED
    BY <2>4
<1>2. settled = Rec(settled)
  <2> HIDE DEF Rec
  <2> QED
    BY <1>1
<1>3. \A i : SettledBy(N, E, i) = settled[i]
  BY DEF SettledBy
<1> HIDE DEF settled
<1>4. settled[0] = {}
  BY <1>2
<1>5. ASSUME NEW i \in Nat PROVE settled[i + 1] = Next1(settled[i])
  <2>1. i + 1 \in Nat /\ i + 1 # 0 /\ (i + 1) - 1 = i
    OBVIOUS
  <2> QED
    BY <1>2, <2>1
<1>6. ASSUME NEW i \in Nat PROVE settled[i] \subseteq N
  BY <1>2
<1> QED
  BY <1>3, <1>4, <1>5, <1>6

LEMMA SettledStep ==
  /\ Settled(0) = {}
  /\ \A i \in Nat : Settled(i) \subseteq Node
  /\ \A i \in Nat : Settled(i + 1) = Ready(Settled(i))
  BY SettledRounds DEF Settled, Ready, Preds

\* A level is what one more round settles.
LEMMA LevelIs == \A i : Level(i) = Settled(i + 1) \ Settled(i)
  BY DEF Level, LevelOf, Settled

\* What is settled stays settled.
LEMMA SettledGrows == \A i \in Nat : Settled(i) \subseteq Settled(i + 1)
<1> DEFINE T == {i \in Nat : Settled(i) \subseteq Settled(i + 1)}
<1>1. 0 \in T
  BY SettledStep
<1>2. ASSUME NEW i \in Nat, i \in T PROVE i + 1 \in T
  BY <1>2, SettledStep DEF Ready
<1> HIDE DEF T
<1>3. \A i \in Nat : i \in T
  BY <1>1, <1>2, SetInduction
<1> QED
  BY <1>3 DEF T

\* What is settled after i rounds is settled after any number of further ones.
LEMMA SettledMonotone ==
  ASSUME NEW i \in Nat, NEW j \in Nat, i <= j
  PROVE  Settled(i) \subseteq Settled(j)
<1> DEFINE T == {k \in Nat : Settled(i) \subseteq Settled(i + k)}
<1>1. 0 \in T
  OBVIOUS
<1>2. ASSUME NEW k \in Nat, k \in T PROVE k + 1 \in T
  <2>1. i + k \in Nat /\ i + (k + 1) = (i + k) + 1
    OBVIOUS
  <2> QED
    BY <1>2, <2>1, SettledGrows
<1> HIDE DEF T
<1>3. \A k \in Nat : k \in T
  BY <1>1, <1>2, SetInduction
<1>4. j - i \in Nat /\ i + (j - i) = j
  OBVIOUS
<1> QED
  BY <1>3, <1>4 DEF T

\* The predecessors of a node of a level are settled before the level.
LEMMA PredsAreSettled ==
  ASSUME NEW i \in Nat, NEW n \in Level(i)
  PROVE  n \in Node /\ Preds(n) \subseteq Settled(i)
  BY LevelIs, SettledStep DEF Ready

\* An empty level is the end: on an acyclic graph everything is settled.
LEMMA LastLevel ==
  ASSUME GraphAssumption, NEW i \in Nat, Level(i) = {}
  PROVE  Settled(i) = Node
<1> DEFINE R == Node \ Settled(i)
<1>1. SUFFICES ASSUME R # {} PROVE FALSE
  BY SettledStep
<1>2. PICK n \in R : \A m \in R : <<m, n>> \notin Edge
  BY <1>1 DEF GraphAssumption
<1>3. n \in Settled(i + 1)
  BY <1>2, SettledStep DEF Ready, Preds
<1> QED
  BY <1>3, LevelIs

\* After an empty level come empty ones only.
LEMMA LevelsEnd ==
  ASSUME NEW i \in Nat, Level(i) = {}
  PROVE  Level(i + 1) = {}
<1>1. Settled(i + 1) = Settled(i)
  BY LevelIs, SettledGrows
<1>2. Settled((i + 1) + 1) = Settled(i + 1)
  BY <1>1, SettledStep
<1> QED
  BY <1>2, LevelIs

\* Each level settles a node, so there are no more levels than nodes.
LEMMA LevelsAreFew ==
  ASSUME GraphAssumption, NEW i \in Nat, Level(i) # {}
  PROVE  i < Cardinality(Node)
<1>0. IsFiniteSet(Node) /\ Cardinality(Node) \in Nat
  BY FS_CardinalityType DEF GraphAssumption
<1>1. \A k \in Nat : IsFiniteSet(Settled(k)) /\ Cardinality(Settled(k)) \in Nat
  BY <1>0, SettledStep, FS_Subset, FS_CardinalityType
<1> DEFINE T == {k \in Nat : Level(k) = {} \/ k <= Cardinality(Settled(k))}
<1>2. 0 \in T
  BY <1>1
<1>3. ASSUME NEW k \in Nat, k \in T PROVE k + 1 \in T
  <2>1. SUFFICES ASSUME Level(k) # {} PROVE k + 1 <= Cardinality(Settled(k + 1))
    BY LevelsEnd
  <2>2. Settled(k) \subseteq Settled(k + 1) /\ Settled(k) # Settled(k + 1)
    BY <2>1, SettledGrows, LevelIs
  <2>3. Cardinality(Settled(k)) < Cardinality(Settled(k + 1))
    BY <1>1, <2>2, FS_Subset
  <2> QED
    BY <1>1, <1>3, <2>1, <2>3
<1> HIDE DEF T
<1>4. i \in T
  BY <1>2, <1>3, SetInduction
<1>5. Settled(i) \subseteq Node /\ Settled(i) # Node
  BY SettledStep, LevelIs
<1>6. Cardinality(Settled(i)) < Cardinality(Node)
  <2>1. /\ Cardinality(Settled(i)) <= Cardinality(Node)
        /\ Cardinality(Settled(i)) # Cardinality(Node)
    BY <1>0, <1>5, FS_Subset
  <2> QED
    BY <1>0, <1>1, <2>1
<1> QED
  BY <1>0, <1>1, <1>4, <1>6 DEF T

\* A node is on some level.
LEMMA NodesHaveLevels ==
  ASSUME GraphAssumption, NEW n \in Node
  PROVE  \E i \in Nat : n \in Level(i)
<1> DEFINE N == Cardinality(Node)
           T == {i \in Nat : n \in Settled(i)}
<1>1. N \in Nat
  BY FS_CardinalityType DEF GraphAssumption
<1>2. Level(N) = {}
  BY <1>1, LevelsAreFew
<1>3. N \in T
  BY <1>1, <1>2, LastLevel
<1>4. PICK k \in T : \A i \in T : k <= i
  BY <1>3, LeastNat
<1>5. k # 0 /\ k - 1 \in Nat /\ (k - 1) + 1 = k
  BY <1>4, SettledStep
<1>6. n \in Settled(k) /\ n \notin Settled(k - 1)
  BY <1>4, <1>5
<1> QED
  BY <1>5, <1>6, LevelIs

-------------------------------------------------------------------------------
(* The nodes a retry runs                                                  *)

\* Within computes what its recursion says.
LEMMA WithinStep ==
  ASSUME NEW S \in SUBSET Node
  PROVE  /\ Within(S, 0) = S
         /\ \A i \in Nat : Within(S, i) \subseteq Node
         /\ \A i \in Nat : Within(S, i + 1) = Further(Within(S, i))
<1> DEFINE Rec(f) == [k \in Nat |-> IF k = 0 THEN S ELSE Further(f[k - 1])]
           within == CHOOSE f : f = Rec(f)
           step == [X \in SUBSET Node |-> Further(X)]
           P == SUBSET Node
<1>1. \E f \in [Nat -> P] : f = Rec(f)
  <2>1. S \in P /\ step \in [P -> P]
    BY DEF Further, Succs
  <2>2. PICK f \in [Nat -> P] : f[0] = S /\ \A n \in Nat \ {0} : f[n] = step[f[n - 1]]
    <3> HIDE DEF step, P
    <3> QED
      BY <2>1, RecursionTheorem
  <2>3. \A n \in Nat \ {0} : step[f[n - 1]] = Further(f[n - 1])
    OBVIOUS
  <2>4. f = Rec(f)
    <3> HIDE DEF step
    <3> QED
      BY <2>2, <2>3
  <2> QED
    BY <2>4
<1>2. within = Rec(within)
  <2> HIDE DEF Rec
  <2> QED
    BY <1>1
<1>3. \A i : Within(S, i) = within[i]
  BY DEF Within
<1> HIDE DEF within
<1>5. within[0] = S
  BY <1>2
<1>6. ASSUME NEW i \in Nat PROVE within[i + 1] = Further(within[i])
  <2>1. i + 1 \in Nat /\ i + 1 # 0 /\ (i + 1) - 1 = i
    OBVIOUS
  <2> QED
    BY <1>2, <2>1
<1>7. ASSUME NEW i \in Nat PROVE within[i] \subseteq Node
  <2> DEFINE T == {k \in Nat : within[k] \subseteq Node}
  <2>1. 0 \in T
    BY <1>5
  <2>2. ASSUME NEW k \in Nat, k \in T PROVE k + 1 \in T
    <3>1. within[k + 1] = Further(within[k]) /\ within[k] \subseteq Node
      BY <1>6, <2>2
    <3>2. Further(within[k]) \subseteq Node
      BY <3>1 DEF Further, Succs
    <3> QED
      BY <3>1, <3>2
  <2> HIDE DEF T
  <2>3. i \in T
    BY <2>1, <2>2, SetInduction
  <2> QED
    BY <2>3 DEF T
<1> QED
  BY <1>3, <1>5, <1>6, <1>7

\* More steps reach more.
LEMMA WithinMonotone ==
  ASSUME NEW S \in SUBSET Node, NEW i \in Nat, NEW j \in Nat, i <= j
  PROVE  Within(S, i) \subseteq Within(S, j)
<1> DEFINE T == {k \in Nat : Within(S, i) \subseteq Within(S, i + k)}
<1>1. 0 \in T
  OBVIOUS
<1>2. ASSUME NEW k \in Nat, k \in T PROVE k + 1 \in T
  <2>1. i + k \in Nat /\ i + (k + 1) = (i + k) + 1
    OBVIOUS
  <2>2. Within(S, i + (k + 1)) = Further(Within(S, i + k))
    BY <2>1, WithinStep
  <2> QED
    BY <1>2, <2>2 DEF Further
<1> HIDE DEF T
<1>3. \A k \in Nat : k \in T
  BY <1>1, <1>2, SetInduction
<1>4. j - i \in Nat /\ i + (j - i) = j
  OBVIOUS
<1> QED
  BY <1>3, <1>4 DEF T

\* What failed is run again.
LEMMA ClosureContains ==
  ASSUME GraphAssumption, NEW S \in SUBSET Node
  PROVE  S \subseteq Closure(S) /\ Closure(S) \subseteq Node
<1>1. Cardinality(Node) \in Nat
  BY FS_CardinalityType DEF GraphAssumption
<1>2. Within(S, 0) \subseteq Within(S, Cardinality(Node))
  BY <1>1, WithinMonotone
<1> QED
  BY <1>1, <1>2, WithinStep DEF Closure

-------------------------------------------------------------------------------
(* Types                                                                   *)

\* An execution runs nodes of a level that exists, so its number is bounded.
TypeInv ==
  /\ TypeOK
  /\ exec = "nodes" => Level(level) # {}

\* The invariant holds initially and in every next state.
LEMMA TypeInvInit == ASSUME GraphAssumption, Init PROVE TypeInv
<1>1. Cardinality(Node) \in Nat
  BY FS_CardinalityType DEF GraphAssumption
<1> QED
  <2>1. {lease, retrying} \subseteq BOOLEAN
    BY Zenon DEF Init
  <2> QED
    BY <1>1, <2>1 DEF Init, TypeInv, TypeOK

LEMMA TypeInvStep == ASSUME GraphAssumption, TypeInv, [Next]_vars PROVE TypeInv'
<1> USE DEF TypeInv, TypeOK
<1>0. Cardinality(Node) \in Nat
  BY FS_CardinalityType DEF GraphAssumption
<1>1. CASE Pause
  BY <1>1 DEF Pause, nodeVars, execVars
<1>2. CASE Resume
  BY <1>2 DEF Resume, nodeVars
<1>3. CASE Cancel
  BY <1>3 DEF Cancel, nodeVars, execVars
<1>4. CASE RetryFailed
  BY <1>4 DEF RetryFailed, nodeVars
<1>5. CASE Begin
  <2>1. FailedRows \in SUBSET Node
    BY DEF FailedRows
  <2>2. Closure(FailedRows) \subseteq Node
    BY <2>1, ClosureContains
  <2> QED
    BY <1>0, <1>5, <2>2 DEF Begin, nodeVars
<1>6. CASE SetupFails
  BY <1>6 DEF SetupFails, jobVars, nodeVars
<1>7. CASE EnterLevel
  BY <1>7 DEF EnterLevel, jobVars, nodeVars
<1>8. ASSUME NEW s \in {"pending", "running", "paused", "failed", "cancelled", "completed"},
             End(s), row' \in [Node -> {"none", "completed", "failed"}], UNCHANGED <<ckpt, missing>>
      PROVE  TypeInv'
  <2>1. {lease, retrying}' \subseteq BOOLEAN
    BY <1>8, Zenon DEF End
  <2> QED
    BY <1>0, <1>8, <2>1 DEF End
<1>9. FailedStatus \in {"pending", "running", "paused", "failed", "cancelled", "completed"}
  BY DEF FailedStatus
<1>10. CASE StopBeforeLevel
  BY <1>8, <1>10 DEF StopBeforeLevel, nodeVars
<1>11. ASSUME NEW n \in Node, NodeDone(n) PROVE TypeInv'
  BY <1>11 DEF NodeDone, jobVars, Preds
<1>12. ASSUME NEW n \in Node, NodeSkipped(n) PROVE TypeInv'
  <2>1. CASE Parallel
    BY <1>12, <2>1 DEF NodeSkipped, nodeVars, jobVars
  <2>2. CASE ~Parallel
    BY <1>8, <1>12, <2>2 DEF NodeSkipped, nodeVars
  <2> QED
    BY <2>1, <2>2
<1>13. ASSUME NEW n \in Node, NodeFails(n) PROVE TypeInv'
  BY <1>13 DEF NodeFails, jobVars
<1>14. ASSUME NEW n \in Node, NodeErrors(n) PROVE TypeInv'
  <2>1. CASE Parallel
    BY <1>14, <2>1 DEF NodeErrors, nodeVars, jobVars
  <2>2. CASE ~Parallel
    BY <1>8, <1>9, <1>14, <2>2 DEF NodeErrors, nodeVars
  <2> QED
    BY <2>1, <2>2
<1>15. CASE LevelDone
  <2>1. level < Cardinality(Node)
    BY <1>15, LevelsAreFew DEF LevelDone
  <2> QED
    BY <1>0, <1>15, <2>1 DEF LevelDone, jobVars, nodeVars
<1>16. CASE StopAfterLevel
  BY <1>8, <1>16 DEF StopAfterLevel, nodeVars
<1>17. CASE LevelFailed
  BY <1>17 DEF LevelFailed, jobVars, nodeVars
<1>18. CASE FailRun
  BY <1>8, <1>9, <1>18 DEF FailRun
<1>19. CASE Complete
  BY <1>8, <1>19 DEF Complete, nodeVars
<1>20. CASE Abandon
  <2>1. {lease, retrying}' \subseteq BOOLEAN
    BY <1>20, Zenon DEF Abandon
  <2> QED
    BY <1>0, <1>20, <2>1 DEF Abandon, jobVars, nodeVars
<1>21. CASE UNCHANGED vars
  BY <1>21 DEF vars, jobVars, nodeVars, execVars
<1> QED
  BY <1>1, <1>2, <1>3, <1>4, <1>5, <1>6, <1>7, <1>10, <1>11, <1>12, <1>13, <1>14, <1>15,
     <1>16, <1>17, <1>18, <1>19, <1>20, <1>21 DEF Next

\* The variables keep their types, and an execution never counts more levels than
\* the graph has nodes: every level it enters has a node in it.
THEOREM TypeCorrect == ASSUME GraphAssumption PROVE Spec => []TypeOK
<1>1. Init => TypeInv
  BY TypeInvInit
<1>2. TypeInv /\ [Next]_vars => TypeInv'
  BY TypeInvStep
<1>3. TypeInv => TypeOK
  BY DEF TypeInv
<1> QED
  BY <1>1, <1>2, <1>3, PTL DEF Spec

-------------------------------------------------------------------------------
(* What a completed run has executed                                       *)

\* The node has run on all its inputs, and the execution holds its output.
Done(n) == row[n] = "completed" /\ missing[n] = {} /\ n \in out

\* A run completes with the end of its execution; only retries run a part of the
\* graph; a sequential level ends with the first failure.
Shape ==
  /\ status = "completed" => exec = "none"
  /\ type = "full" => ~retrying
  /\ exec # "none" /\ ~retrying => plan = Node
  /\ exec = "nodes" => todo \subseteq Level(level)
  /\ exec = "nodes" /\ ~Parallel => bad = {}

\* A whole-graph execution that holds the lease is done with all earlier levels.
\* In its present one a node is to come, failed or done, or was skipped in a
\* parallel level of a run that is still stopped: a resume takes the lease away.
FullProgress ==
  lease /\ ~retrying =>
    /\ exec \in {"level", "nodes"} => \A n \in Settled(level) : Done(n)
    /\ exec = "nodes" => \A n \in Level(level) :
         n \in todo \/ n \in bad \/ Done(n) \/ (Parallel /\ Stopped)

\* What is still failed in a retry that goes on is ahead of it.
RetryProgress ==
  retrying /\ exec \in {"level", "nodes"} =>
    \A n \in FailedRows :
      /\ n \in plan /\ n \notin Settled(level)
      /\ exec = "nodes" /\ n \in Level(level) => n \in todo

IInv ==
  /\ TypeInv /\ Shape /\ FullProgress /\ RetryProgress
  /\ FirstRunsAreWhole /\ NoFailureIsBuried

\* What every action of the operators leaves alone.
LEMMA OperatorFrame ==
  ASSUME Pause \/ Resume \/ Cancel \/ RetryFailed
  PROVE  /\ UNCHANGED <<nodeVars, exec, plan, retrying, level, todo, bad, out>>
         /\ status # "completed" /\ status' # "completed"
         /\ type = "full" \/ type' # "full"
  BY DEF Pause, Resume, Cancel, RetryFailed, nodeVars, execVars, Stopped

\* Shape is kept.
LEMMA ShapeStep ==
  ASSUME Shape, [Next]_vars
  PROVE  Shape'
<1> USE DEF Shape
<1>1. CASE Pause \/ Resume \/ Cancel \/ RetryFailed
  BY <1>1, OperatorFrame DEF Parallel
<1>2. CASE Begin
  BY <1>2 DEF Begin
<1>3. CASE SetupFails
  BY <1>3 DEF SetupFails, jobVars
<1>4. CASE EnterLevel
  BY <1>4 DEF EnterLevel, jobVars, Parallel
<1>5. ASSUME NEW s, End(s), s = "completed" => exec # "none" PROVE Shape'
  BY <1>5 DEF End
<1>6. CASE StopBeforeLevel \/ StopAfterLevel \/ FailRun \/ Complete
  BY <1>5, <1>6 DEF StopBeforeLevel, StopAfterLevel, FailRun, Complete
<1>7. ASSUME NEW n \in Node, NodeDone(n) PROVE Shape'
  BY <1>7 DEF NodeDone, jobVars, Parallel
<1>8. ASSUME NEW n \in Node, NodeSkipped(n) PROVE Shape'
  BY <1>5, <1>8 DEF NodeSkipped, jobVars, Parallel
<1>9. ASSUME NEW n \in Node, NodeFails(n) PROVE Shape'
  BY <1>9 DEF NodeFails, jobVars, Parallel
<1>10. ASSUME NEW n \in Node, NodeErrors(n) PROVE Shape'
  BY <1>5, <1>10 DEF NodeErrors, jobVars, Parallel
<1>11. CASE LevelDone \/ LevelFailed
  BY <1>11 DEF LevelDone, LevelFailed, jobVars
<1>12. CASE Abandon
  BY <1>12 DEF Abandon, jobVars
<1>13. CASE UNCHANGED vars
  BY <1>13 DEF vars, jobVars, execVars, Parallel
<1> QED
  BY <1>1, <1>2, <1>3, <1>4, <1>6, <1>7, <1>8, <1>9, <1>10, <1>11, <1>12, <1>13 DEF Next

\* FullProgress is kept: rows change in the level only, and whoever lost a node of
\* a parallel level to a pause does not leave the level with the lease.
LEMMA FullProgressStep ==
  ASSUME GraphAssumption, TypeInv, Shape, FullProgress, [Next]_vars
  PROVE  FullProgress'
<1> USE DEF FullProgress
<1>0. level \in Nat
  BY FS_CardinalityType DEF TypeInv, TypeOK, GraphAssumption
<1>1. CASE Pause \/ Cancel
  BY <1>1 DEF Pause, Cancel, nodeVars, execVars, Done, Parallel, Stopped
<1>2. CASE Resume \/ RetryFailed
  BY <1>2 DEF Resume, RetryFailed
<1>3. CASE Begin
  BY <1>3, SettledStep DEF Begin
<1>4. CASE SetupFails \/ LevelFailed
  BY <1>4 DEF SetupFails, LevelFailed
<1>5. CASE EnterLevel
  BY <1>5, PredsAreSettled, <1>0 DEF EnterLevel, jobVars, nodeVars, Done, Shape
<1>6. ASSUME NEW s, End(s) PROVE FullProgress'
  BY <1>6 DEF End
<1>7. CASE StopBeforeLevel \/ StopAfterLevel \/ FailRun \/ Complete
  BY <1>6, <1>7 DEF StopBeforeLevel, StopAfterLevel, FailRun, Complete
<1>8. ASSUME NEW n \in Node, NodeDone(n) PROVE FullProgress'
  <2>1. SUFFICES ASSUME lease, ~retrying PROVE FullProgress'
    BY <1>8 DEF NodeDone
  <2>2. n \in Level(level) /\ n \notin Settled(level) /\ Preds(n) \subseteq Settled(level)
    BY <1>8, <1>0, PredsAreSettled, LevelIs DEF NodeDone, Shape
  <2>3. Preds(n) \subseteq out
    BY <1>8, <2>1, <2>2 DEF NodeDone, Done
  <2>4. Done(n)'
    BY <1>8, <2>3 DEF NodeDone, Done, TypeInv, TypeOK
  <2>5. \A m \in Node : Done(m) => Done(m)'
    BY <1>8, <2>4 DEF NodeDone, Done, TypeInv, TypeOK
  <2>6. Settled(level) \subseteq Node /\ Level(level) \subseteq Node
    BY <1>0, SettledStep, LevelIs
  <2> QED
    BY <1>8, <2>1, <2>4, <2>5, <2>6 DEF NodeDone, jobVars, Parallel, Stopped
<1>9. ASSUME NEW n \in Node, NodeSkipped(n) PROVE FullProgress'
  <2>1. CASE Parallel
    BY <1>9, <2>1 DEF NodeSkipped, jobVars, nodeVars, Done, Parallel, Stopped
  <2>2. CASE ~Parallel
    BY <1>6, <1>9, <2>2 DEF NodeSkipped
  <2> QED
    BY <2>1, <2>2
<1>10. ASSUME NEW n \in Node, NodeFails(n) PROVE FullProgress'
  <2>1. SUFFICES ASSUME lease, ~retrying, Parallel PROVE FullProgress'
    BY <1>10 DEF NodeFails
  <2>2. n \in Level(level) /\ n \notin Settled(level)
    BY <1>10, <1>0, LevelIs DEF NodeFails, Shape
  <2>3. \A m \in Node \ {n} : Done(m) => Done(m)'
    BY <1>10, <2>1 DEF NodeFails, Done, TypeInv, TypeOK
  <2>4. Settled(level) \subseteq Node /\ Level(level) \subseteq Node
    BY <1>0, SettledStep, LevelIs
  <2> QED
    BY <1>10, <2>1, <2>2, <2>3, <2>4 DEF NodeFails, jobVars, Parallel, Stopped
<1>11. ASSUME NEW n \in Node, NodeErrors(n) PROVE FullProgress'
  <2>1. CASE Parallel
    BY <1>11, <2>1 DEF NodeErrors, jobVars, nodeVars, Done, Parallel, Stopped
  <2>2. CASE ~Parallel
    BY <1>6, <1>11, <2>2 DEF NodeErrors
  <2> QED
    BY <2>1, <2>2
<1>12. CASE LevelDone
  <2>1. SUFFICES ASSUME lease, ~retrying PROVE \A n \in Settled(level + 1) : Done(n)
    BY <1>12 DEF LevelDone, nodeVars, Done
  <2>2. \A n \in Level(level) : Done(n)
    BY <1>12, <2>1 DEF LevelDone, Shape
  <2> QED
    BY <1>12, <2>1, <2>2, LevelIs DEF LevelDone
<1>13. CASE Abandon
  BY <1>13 DEF Abandon
<1>14. CASE UNCHANGED vars
  BY <1>14 DEF vars, jobVars, nodeVars, execVars, Done, Parallel, Stopped
<1> QED
  BY <1>1, <1>2, <1>3, <1>4, <1>5, <1>7, <1>8, <1>9, <1>10, <1>11, <1>12, <1>13, <1>14 DEF Next

\* RetryProgress is kept: a retry runs what has failed, one node after the other,
\* and the first failure ends it.
LEMMA RetryProgressStep ==
  ASSUME GraphAssumption, TypeInv, Shape, RetryProgress, [Next]_vars
  PROVE  RetryProgress'
<1> USE DEF RetryProgress
<1>0. level \in Nat
  BY FS_CardinalityType DEF TypeInv, TypeOK, GraphAssumption
<1>1. CASE Pause \/ Resume \/ Cancel \/ RetryFailed
  BY <1>1, OperatorFrame DEF nodeVars, FailedRows
<1>2. CASE Begin
  <2>1. FailedRows \in SUBSET Node
    BY DEF FailedRows
  <2>2. FailedRows \subseteq Closure(FailedRows)
    BY <2>1, ClosureContains
  <2> QED
    BY <1>2, <2>2, SettledStep DEF Begin, nodeVars, FailedRows
<1>3. CASE SetupFails \/ LevelFailed
  BY <1>3 DEF SetupFails, LevelFailed
<1>4. CASE EnterLevel
  BY <1>4 DEF EnterLevel, nodeVars, FailedRows
<1>5. ASSUME NEW s, End(s) PROVE RetryProgress'
  BY <1>5 DEF End
<1>6. CASE StopBeforeLevel \/ StopAfterLevel \/ FailRun \/ Complete
  BY <1>5, <1>6 DEF StopBeforeLevel, StopAfterLevel, FailRun, Complete
<1>7. ASSUME NEW n \in Node, NodeDone(n) PROVE RetryProgress'
  BY <1>7 DEF NodeDone, FailedRows, TypeInv, TypeOK
<1>8. ASSUME NEW n \in Node, NodeSkipped(n) \/ NodeFails(n) \/ NodeErrors(n) PROVE RetryProgress'
  BY <1>5, <1>8 DEF NodeSkipped, NodeFails, NodeErrors, Parallel
<1>9. CASE LevelDone
  BY <1>9, LevelIs DEF LevelDone, nodeVars, FailedRows
<1>10. CASE Abandon
  BY <1>10 DEF Abandon
<1>11. CASE UNCHANGED vars
  BY <1>11 DEF vars, nodeVars, execVars, FailedRows
<1> QED
  BY <1>1, <1>2, <1>3, <1>4, <1>6, <1>7, <1>8, <1>9, <1>10, <1>11 DEF Next

\* Only Complete completes a run, with the lease and after the last level.
LEMMA OnlyComplete ==
  ASSUME Shape, [Next]_vars, status' = "completed"
  PROVE  \/ UNCHANGED <<status, type, row, missing>>
         \/ Complete /\ lease /\ status = "running"
<1>1. CASE status = "completed"
  <2>1. exec = "none"
    BY <1>1 DEF Shape
  <2> QED
    BY <1>1, <2>1 DEF Next, Pause, Resume, Cancel, RetryFailed, Begin, SetupFails, EnterLevel,
      StopBeforeLevel, NodeDone, NodeSkipped, NodeFails, NodeErrors, LevelDone, StopAfterLevel,
      LevelFailed, FailRun, Complete, Abandon, vars, jobVars, nodeVars
<1>2. CASE status # "completed"
  <2>1. ~UNCHANGED status
    BY <1>2
  <2>2. FailedStatus # "completed"
    BY <1>2 DEF FailedStatus
  <2>3. ASSUME NEW s, End(s) PROVE s = "completed"
    BY <2>3 DEF End
  <2> QED
    BY <1>2, <2>1, <2>2, <2>3 DEF Next, Pause, Resume, Cancel, RetryFailed, Begin, SetupFails,
      EnterLevel, StopBeforeLevel, NodeDone, NodeSkipped, NodeFails, NodeErrors, LevelDone,
      StopAfterLevel, LevelFailed, FailRun, Complete, Abandon, vars, jobVars, execVars
<1> QED
  BY <1>1, <1>2

\* At a completion nothing is failed, and after a whole-graph execution everything
\* has run on all its inputs.
LEMMA CompletionIsSound ==
  ASSUME GraphAssumption, TypeInv, Shape, FullProgress, RetryProgress, Complete, lease
  PROVE  FailedRows = {} /\ (type = "full" => Whole)
<1>1. Settled(level) = Node /\ exec = "level"
  <2>1. level \in Nat /\ Level(level) = {}
    BY FS_CardinalityType DEF Complete, TypeInv, TypeOK, GraphAssumption
  <2> QED
    BY <2>1, LastLevel DEF Complete
<1>2. CASE retrying
  <2>1. FailedRows = {}
    BY <1>1, <1>2 DEF RetryProgress, FailedRows
  <2> QED
    BY <1>2, <2>1 DEF Shape
<1>3. CASE ~retrying
  BY <1>1, <1>3 DEF FullProgress, Done, Whole, FailedRows
<1> QED
  BY <1>2, <1>3

\* The invariant is kept by every step.
LEMMA InvariantStep ==
  ASSUME GraphAssumption, IInv, [Next]_vars
  PROVE  IInv'
<1> USE DEF IInv
<1>1. TypeInv' /\ Shape' /\ FullProgress' /\ RetryProgress'
  BY TypeInvStep, ShapeStep, FullProgressStep, RetryProgressStep
<1>2. (FirstRunsAreWhole /\ NoFailureIsBuried)'
  <2>1. SUFFICES ASSUME status' = "completed"
                 PROVE  FailedRows' = {} /\ (type' = "full" => Whole')
    BY DEF FirstRunsAreWhole, NoFailureIsBuried
  <2>2. CASE UNCHANGED <<status, type, row, missing>>
    BY <2>1, <2>2 DEF FirstRunsAreWhole, NoFailureIsBuried, FailedRows, Whole
  <2>3. CASE Complete /\ lease
    BY <2>3, CompletionIsSound DEF Complete, End, nodeVars, FailedRows, Whole
  <2> QED
    BY <2>1, <2>2, <2>3, OnlyComplete
<1> QED
  BY <1>1, <1>2

LEMMA InvariantInit == ASSUME GraphAssumption, Init PROVE IInv
  BY TypeInvInit
     DEF Init, IInv, Shape, FullProgress, RetryProgress, FirstRunsAreWhole, NoFailureIsBuried

LEMMA Invariant == ASSUME GraphAssumption PROVE Spec => []IInv
<1>1. Init => IInv
  BY InvariantInit
<1>2. IInv /\ [Next]_vars => IInv'
  BY InvariantStep
<1> QED
  BY <1>1, <1>2, PTL DEF Spec

\* A run that was never retried completes only after every node has run on all its
\* inputs, on any acyclic graph and however often it was paused, resumed, fenced
\* off or abandoned.
THEOREM FirstRunsWhole == ASSUME GraphAssumption PROVE Spec => []FirstRunsAreWhole
<1>1. IInv => FirstRunsAreWhole
  BY DEF IInv
<1> QED
  BY <1>1, Invariant, PTL

\* No completed run has a failed node, however its failures and retries fell.
THEOREM FailuresSurface == ASSUME GraphAssumption PROVE Spec => []NoFailureIsBuried
<1>1. IInv => NoFailureIsBuried
  BY DEF IInv
<1> QED
  BY <1>1, Invariant, PTL

-------------------------------------------------------------------------------
(* Chains: graphs with one node to a level, of which a retry runs a suffix *)

IsChain == \A i \in 0..Cardinality(Node) : \A m, n \in Level(i) : m = n

\* There are no further levels.
LEMMA ChainLevels ==
  ASSUME GraphAssumption, IsChain
  PROVE  \A i \in Nat : \A m, n \in Level(i) : m = n
<1>1. SUFFICES ASSUME NEW i \in Nat, NEW m \in Level(i), NEW n \in Level(i) PROVE m = n
  OBVIOUS
<1>2. Level(i) # {} /\ Cardinality(Node) \in Nat
  BY <1>1, FS_CardinalityType DEF GraphAssumption
<1>3. i \in 0..Cardinality(Node)
  BY <1>2, LevelsAreFew
<1> QED
  BY <1>1, <1>3 DEF IsChain

\* In a chain no level is parallel.
LEMMA ChainsAreSequential ==
  ASSUME GraphAssumption, IsChain, level \in Nat
  PROVE  ~Parallel
<1>1. CASE Level(level) = {}
  BY <1>1, FS_EmptySet DEF Parallel
<1>2. CASE Level(level) # {}
  <2>1. PICK n \in Level(level) : TRUE
    BY <1>2
  <2>2. Level(level) = {n}
    BY <2>1, ChainLevels
  <2> QED
    BY <2>2, FS_Singleton DEF Parallel
<1> QED
  BY <1>1, <1>2

\* From a node of a chain, d steps reach the level d further down.
LEMMA ChainReaches ==
  ASSUME GraphAssumption, IsChain, NEW S \in SUBSET Node, NEW i \in Nat, Level(i) \subseteq S, NEW d \in Nat
  PROVE  Level(i + d) \subseteq Within(S, d)
<1> DEFINE T == {k \in Nat : Level(i + k) \subseteq Within(S, k)}
<1>1. 0 \in T
  BY WithinStep
<1>2. ASSUME NEW k \in Nat, k \in T PROVE k + 1 \in T
  <2>1. i + k \in Nat /\ i + (k + 1) = (i + k) + 1
    OBVIOUS
  <2>2. SUFFICES ASSUME NEW n \in Level(i + (k + 1)) PROVE n \in Within(S, k + 1)
    OBVIOUS
  <2>3. n \in Node /\ Preds(n) \subseteq Settled((i + k) + 1)
    BY <2>1, <2>2, PredsAreSettled
  <2>4. n \notin Settled((i + k) + 1)
    BY <2>1, <2>2, LevelIs
  <2>5. PICK m \in Preds(n) : m \notin Settled(i + k)
    BY <2>1, <2>3, <2>4, SettledStep DEF Ready
  <2>6. m \in Level(i + k)
    BY <2>3, <2>5, LevelIs
  <2>7. m \in Within(S, k) /\ n \in Succs(m)
    BY <1>2, <2>3, <2>5, <2>6 DEF Preds, Succs
  <2> QED
    BY <2>7, WithinStep DEF Further
<1> HIDE DEF T
<1>3. d \in T
  BY <1>1, <1>2, SetInduction
<1> QED
  BY <1>3 DEF T

\* A retry of a chain runs everything from the first failed node on.
LEMMA ChainClosure ==
  ASSUME GraphAssumption, IsChain, NEW S \in SUBSET Node, NEW f \in S,
         NEW i \in Nat, f \in Settled(i), NEW n \in Node, n \notin Settled(i)
  PROVE  n \in Closure(S)
<1> DEFINE N == Cardinality(Node)
<1>1. PICK j \in Nat : f \in Level(j)
  BY NodesHaveLevels
<1>2. PICK k \in Nat : n \in Level(k)
  BY NodesHaveLevels
<1>3. j < i
  <2>1. SUFFICES ASSUME i <= j PROVE FALSE
    BY <1>1
  <2> QED
    BY <1>1, <2>1, SettledMonotone, LevelIs
<1>4. i <= k
  <2>1. SUFFICES ASSUME k + 1 <= i PROVE FALSE
    BY <1>2
  <2>2. n \in Settled(k + 1)
    BY <1>2, LevelIs
  <2> QED
    BY <1>2, <2>1, <2>2, SettledMonotone
<1>5. k - j \in Nat /\ j + (k - j) = k
  BY <1>1, <1>2, <1>3, <1>4
<1>6. Level(j) \subseteq S
  BY <1>1, ChainLevels
<1>7. n \in Within(S, k - j)
  BY <1>1, <1>2, <1>5, <1>6, ChainReaches
<1>8. N \in Nat /\ k < N
  BY <1>2, LevelsAreFew, FS_CardinalityType DEF GraphAssumption
<1>9. k - j <= N
  BY <1>1, <1>2, <1>8
<1> QED
  BY <1>5, <1>7, <1>8, <1>9, WithinMonotone DEF Closure

\* A completed row is that of a node that had all its inputs, and a retry will find
\* its output.
RowsAreWhole == \A n \in Node : row[n] = "completed" => missing[n] = {} /\ n \in ckpt

\* No node has a row before all nodes of earlier levels have one.
RowsAreInOrder ==
  \A i \in Nat : \A m \in Settled(i), n \in Node \ Settled(i) :
    row[n] # "none" => row[m] # "none"

\* The node is completed and its output is at hand.
AtHand(n) == row[n] = "completed" /\ n \in out

\* An execution goes down the chain: what is above it is at hand.
ChainProgress ==
  exec # "none" =>
    /\ \A n \in Settled(level) : row[n] # "none"
    /\ exec # "failing" => \A n \in Settled(level) : AtHand(n)
    /\ exec = "level" => bad = {}
    /\ exec = "failing" => bad \subseteq Level(level)
    /\ exec = "nodes" => \A n \in Level(level) : n \in todo \/ AtHand(n)
    /\ \A n \in Node \ plan : AtHand(n)

ChainInv ==
  /\ TypeInv /\ Shape /\ RowsAreWhole /\ RowsAreInOrder /\ ChainProgress
  /\ CompletedRunsAreWhole

\* Rows that are not changed, or become completed with all inputs, stay whole and in
\* order.
LEMMA RowsStep ==
  ASSUME TypeInv, RowsAreWhole, RowsAreInOrder,
         UNCHANGED <<row, missing>>, ckpt \subseteq ckpt'
  PROVE  RowsAreWhole' /\ RowsAreInOrder'
  BY DEF RowsAreWhole, RowsAreInOrder

\* What begins a retry: everything outside its plan is at hand.
LEMMA RetryBegins ==
  ASSUME GraphAssumption, IsChain, TypeInv, RowsAreWhole, RowsAreInOrder, FailedRows # {},
         NEW n \in Node \ Closure(FailedRows)
  PROVE  row[n] = "completed" /\ n \in ckpt
<1>1. FailedRows \in SUBSET Node
  BY DEF FailedRows
<1>2. PICK f \in FailedRows : TRUE
  OBVIOUS
<1>3. f \in Node /\ row[f] = "failed" /\ n \in Node
  BY <1>2 DEF FailedRows
<1>4. row[n] # "failed"
  BY <1>1, <1>3, ClosureContains DEF FailedRows
<1>5. PICK k \in Nat : n \in Level(k)
  BY <1>3, NodesHaveLevels
<1>6. n \in Settled(k + 1) /\ n \notin Settled(k)
  BY <1>5, LevelIs
<1>7. f \notin Settled(k + 1)
  <2>1. f \notin Settled(k)
    BY <1>1, <1>2, <1>3, <1>5, <1>6, ChainClosure
  <2>2. f \notin Level(k)
    BY <1>3, <1>4, <1>5, ChainLevels
  <2> QED
    BY <1>5, <2>1, <2>2, LevelIs
<1>8. row[n] # "none"
  BY <1>3, <1>5, <1>6, <1>7 DEF RowsAreInOrder
<1> QED
  BY <1>3, <1>4, <1>8 DEF RowsAreWhole, TypeInv, TypeOK

\* A node of the present level gets a row: the nodes of earlier levels have theirs.
LEMMA OrderIsKept ==
  ASSUME TypeInv, RowsAreInOrder, ChainProgress, exec # "none", NEW S, S \subseteq Level(level),
         \A n \in Node : row[n] # "none" => row'[n] # "none",
         \A n \in Node \ S : row'[n] = row[n]
  PROVE  RowsAreInOrder'
<1>0. level \in Nat
  BY DEF TypeInv, TypeOK
<1>1. SUFFICES ASSUME NEW i \in Nat, NEW m \in Settled(i), NEW n \in Node \ Settled(i),
                      row'[n] # "none"
               PROVE  row'[m] # "none"
  BY DEF RowsAreInOrder
<1>2. m \in Node
  BY SettledStep
<1>3. CASE n \notin S
  BY <1>1, <1>2, <1>3 DEF RowsAreInOrder
<1>4. CASE n \in S
  <2>1. n \in Settled(level + 1)
    BY <1>0, <1>4, LevelIs
  <2>2. i <= level
    <3>1. SUFFICES ASSUME level + 1 <= i PROVE FALSE
      BY <1>0
    <3> QED
      BY <1>0, <1>1, <2>1, <3>1, SettledMonotone
  <2>3. m \in Settled(level)
    BY <1>0, <2>2, SettledMonotone
  <2> QED
    BY <1>2, <2>3 DEF ChainProgress
<1> QED
  BY <1>3, <1>4

\* The rows and the progress down the chain, in every step.
LEMMA ChainProgressStep ==
  ASSUME GraphAssumption, IsChain, ChainInv, [Next]_vars
  PROVE  RowsAreWhole' /\ RowsAreInOrder' /\ ChainProgress'
<1> USE DEF ChainInv
<1>0. /\ level \in Nat /\ ~Parallel
      /\ Settled(level) \subseteq Node /\ Level(level) \subseteq Node
  <2>1. level \in Nat
    BY DEF TypeInv, TypeOK
  <2> QED
    BY <2>1, ChainsAreSequential, SettledStep, LevelIs
<1>1. CASE Pause \/ Resume \/ Cancel \/ RetryFailed
  BY <1>1, OperatorFrame, RowsStep DEF nodeVars, ChainProgress, AtHand
<1>2. CASE Begin
  <2>1. RowsAreWhole' /\ RowsAreInOrder'
    BY <1>2, RowsStep DEF Begin, nodeVars
  <2>2. \A n \in Node \ plan' : AtHand(n)'
    BY <1>2, RetryBegins DEF Begin, nodeVars, AtHand
  <2> QED
    BY <1>2, <2>1, <2>2, SettledStep DEF Begin, ChainProgress
<1>3. CASE SetupFails
  BY <1>3, RowsStep DEF SetupFails, nodeVars, ChainProgress, AtHand
<1>4. CASE EnterLevel
  BY <1>0, <1>4, RowsStep DEF EnterLevel, nodeVars, ChainProgress, AtHand
<1>5. ASSUME NEW s, End(s) PROVE ChainProgress'
  BY <1>5 DEF End, ChainProgress
<1>6. CASE StopBeforeLevel \/ StopAfterLevel \/ Complete
  BY <1>5, <1>6, RowsStep DEF StopBeforeLevel, StopAfterLevel, Complete, nodeVars
<1>7. CASE FailRun
  <2>1. bad \subseteq Level(level)
    BY <1>7 DEF FailRun, ChainProgress
  <2>2. /\ \A n \in Node \ bad : row'[n] = row[n]
        /\ \A n \in Node : row'[n] = row[n] \/ row'[n] = "failed"
    BY <1>7 DEF FailRun, TypeInv, TypeOK
  <2>3. RowsAreInOrder'
    BY <1>7, <2>1, <2>2, OrderIsKept DEF FailRun
  <2>4. RowsAreWhole'
    BY <1>7, <2>2 DEF FailRun, RowsAreWhole
  <2> QED
    BY <1>5, <1>7, <2>3, <2>4 DEF FailRun
<1>8. ASSUME NEW n \in Node, NodeDone(n)
      PROVE  RowsAreWhole' /\ RowsAreInOrder' /\ ChainProgress'
  <2>1. n \in Level(level) /\ n \in plan /\ exec = "nodes" /\ level' = level /\ exec' = exec
    BY <1>8 DEF NodeDone, Shape, TypeInv, TypeOK
  <2>2. Preds(n) \subseteq out
    BY <1>0, <2>1, PredsAreSettled DEF ChainProgress, AtHand
  <2>3. /\ \A m \in Node : row'[m] = IF m = n THEN "completed" ELSE row[m]
        /\ \A m \in Node : missing'[m] = IF m = n THEN {} ELSE missing[m]
    BY <1>8, <2>2 DEF NodeDone, TypeInv, TypeOK
  <2>4. RowsAreWhole'
    BY <1>8, <2>3 DEF NodeDone, RowsAreWhole
  <2>5. RowsAreInOrder'
    BY <2>1, <2>3, OrderIsKept
  <2>6. AtHand(n)' /\ \A m \in Node : AtHand(m) => AtHand(m)'
    BY <1>8, <2>3 DEF NodeDone, AtHand
  <2>7. ChainProgress'
    BY <1>0, <1>8, <2>1, <2>3, <2>6 DEF NodeDone, ChainProgress
  <2> QED
    BY <2>4, <2>5, <2>7
<1>9. ASSUME NEW n \in Node, NodeSkipped(n) \/ NodeErrors(n)
      PROVE  RowsAreWhole' /\ RowsAreInOrder' /\ ChainProgress'
  BY <1>0, <1>5, <1>9, RowsStep DEF NodeSkipped, NodeErrors, nodeVars
<1>10. ASSUME NEW n \in Node, NodeFails(n)
       PROVE  RowsAreWhole' /\ RowsAreInOrder' /\ ChainProgress'
  <2>1. n \in Level(level) /\ exec = "nodes" /\ level' = level /\ exec' = "failing" /\ bad = {}
    BY <1>0, <1>10 DEF NodeFails, Shape
  <2>2. /\ \A m \in Node \ {n} : row'[m] = row[m]
        /\ row'[n] = row[n] \/ row'[n] = "failed"
        /\ ~retrying => row'[n] = "failed"
    BY <1>10 DEF NodeFails, TypeInv, TypeOK
  <2>3. RowsAreWhole'
    BY <1>10, <2>2 DEF NodeFails, RowsAreWhole
  <2>4. RowsAreInOrder'
    BY <2>1, <2>2, OrderIsKept
  <2>5. \A m \in Node \ plan : AtHand(m)'
    <3>1. n \in plan
      BY <1>10 DEF NodeFails, TypeInv, TypeOK
    <3> QED
      BY <1>10, <2>1, <2>2, <3>1 DEF NodeFails, ChainProgress, AtHand
  <2>6. \A m \in Settled(level) : row'[m] # "none"
    BY <1>0, <2>1, <2>2 DEF ChainProgress
  <2> QED
    BY <1>10, <2>1, <2>3, <2>4, <2>5, <2>6 DEF NodeFails, ChainProgress
<1>11. CASE LevelDone
  <2>1. \A n \in Settled(level + 1) : AtHand(n)
    BY <1>11, LevelIs DEF LevelDone, ChainProgress
  <2>2. bad = {}
    BY <1>0, <1>11 DEF LevelDone, Shape
  <2> QED
    BY <1>11, <2>1, <2>2, RowsStep DEF LevelDone, nodeVars, ChainProgress, AtHand
<1>12. CASE LevelFailed
  BY <1>0, <1>12 DEF LevelFailed
<1>13. CASE Abandon
  BY <1>13, RowsStep DEF Abandon, nodeVars, ChainProgress
<1>14. CASE UNCHANGED vars
  BY <1>14, RowsStep DEF vars, nodeVars, execVars, ChainProgress, AtHand
<1> QED
  BY <1>1, <1>2, <1>3, <1>4, <1>6, <1>7, <1>8, <1>9, <1>10, <1>11, <1>12, <1>13, <1>14 DEF Next

LEMMA ChainInit == ASSUME GraphAssumption, Init PROVE ChainInv
  BY TypeInvInit
     DEF ChainInv, Init, Shape, RowsAreWhole, RowsAreInOrder, ChainProgress, CompletedRunsAreWhole

\* The invariant of chains is kept by every step.
LEMMA ChainStep == ASSUME GraphAssumption, IsChain, ChainInv, [Next]_vars PROVE ChainInv'
<1> USE DEF ChainInv
<1>1. TypeInv' /\ Shape'
  BY TypeInvStep, ShapeStep
<1>2. RowsAreWhole' /\ RowsAreInOrder' /\ ChainProgress'
  BY ChainProgressStep
<1>3. CompletedRunsAreWhole'
  <2>1. SUFFICES ASSUME status' = "completed" PROVE Whole'
    BY DEF CompletedRunsAreWhole
  <2>2. CASE UNCHANGED <<status, type, row, missing>>
    BY <2>1, <2>2 DEF CompletedRunsAreWhole, Whole
  <2>3. CASE Complete /\ lease
    <3>1. level \in Nat /\ Level(level) = {} /\ exec = "level"
      BY <2>3 DEF Complete, TypeInv, TypeOK
    <3>2. \A n \in Node : AtHand(n)
      BY <3>1, LastLevel DEF ChainProgress
    <3>3. Whole
      BY <3>2 DEF RowsAreWhole, AtHand, Whole
    <3> QED
      BY <2>3, <3>3 DEF Complete, nodeVars, Whole
  <2> QED
    BY <2>1, <2>2, <2>3, OnlyComplete
<1> QED
  BY <1>1, <1>2, <1>3

LEMMA ChainInvariant == ASSUME GraphAssumption, IsChain PROVE Spec => []ChainInv
<1>1. Init => ChainInv
  BY ChainInit
<1>2. ChainInv /\ [Next]_vars => ChainInv'
  BY ChainStep
<1> QED
  BY <1>1, <1>2, PTL DEF Spec

\* On a chain of any length a completed run has executed every node on all its
\* inputs, however often failures were retried from checkpoints.  (On a graph that
\* is not a chain it need not: see RetriedRunsAreWhole in MCGraphs.)
THEOREM ChainsAreWhole == ASSUME GraphAssumption, IsChain PROVE Spec => []CompletedRunsAreWhole
<1>1. ChainInv => CompletedRunsAreWhole
  BY DEF ChainInv
<1> QED
  BY <1>1, ChainInvariant, PTL
===============================================================================
