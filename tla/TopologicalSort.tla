-------------------------- MODULE TopologicalSort --------------------------
(***************************************************************************)
(* The scheduler: Kahn's algorithm as topological_sort runs it, level by   *)
(* level on counted in-degrees, and validate_dag on top of it.  Two nodes  *)
(* may be joined by several edges, one per pair of ports.                  *)
(***************************************************************************)
EXTENDS DagLevels, FiniteSetsExt, Sequences

CONSTANTS
    Node,
    MaxEdges    \* edges between two nodes

SortAssumption == IsFiniteSet(Node) /\ MaxEdges \in Nat

VARIABLES
    mult,       \* number of edges from one node to another
    dangling,   \* some edge names a node that does not exist
    inDegree,
    queue,      \* the nodes found ready for the next level
    levels,
    result      \* what validate_dag says

vars == <<mult, dangling, inDegree, queue, levels, result>>

\* Edges from the nodes S into n.
EdgesFrom(S, n) == MapThenSumSet(LAMBDA m : mult[<<m, n>>], S)

\* Dangling edges are not counted.
Init ==
    /\ mult \in [Node \X Node -> 0..MaxEdges]
    /\ dangling \in BOOLEAN
    /\ inDegree = [n \in Node |-> EdgesFrom(Node, n)]
    /\ queue = {n \in Node : inDegree[n] = 0}
    /\ levels = <<>>
    /\ result = "none"

\* Mutant: two edges between the same nodes count as one.
MutantReleased(n) == Cardinality({m \in queue : mult[<<m, n>>] > 0})

\* How often the in-degree of n is decremented while the level is processed.
Released(n) == EdgesFrom(queue, n)

ProcessLevel ==
    /\ queue # {}
    /\ levels' = Append(levels, queue)
    /\ inDegree' = [n \in Node |-> inDegree[n] - Released(n)]
    /\ queue' = {n \in Node : Released(n) > 0 /\ inDegree'[n] = 0}
    /\ UNCHANGED <<mult, dangling, result>>

VisitedCount == MapThenSumSet(LAMBDA i : Cardinality(levels[i]), DOMAIN levels)

\* Mutant: an empty queue is taken for success.
MutantCyclic == FALSE

Cyclic == VisitedCount # Cardinality(Node)

Finish ==
    /\ queue = {} /\ result = "none"
    /\ result' = IF dangling \/ Cyclic THEN "invalid" ELSE "valid"
    /\ UNCHANGED <<mult, dangling, inDegree, queue, levels>>

Next == ProcessLevel \/ Finish

Spec == Init /\ [][Next]_vars

-----------------------------------------------------------------------------

Edges == {e \in Node \X Node : mult[e[1], e[2]] > 0}

\* The levels are those of the reference definition, each node in the first level
\* in which nothing upstream of it is left, however many edges join two nodes.
LevelsAreExact ==
    \A i \in DOMAIN levels : levels[i] = LevelOf(Node, Edges, i - 1)

\* A graph is refused exactly when an edge dangles or there is a cycle, that is a
\* set of nodes each of which waits for another one of the set.
RefusedExactlyWhenInvalid ==
    LET cycle == \E S \in (SUBSET Node) \ {{}} : \A n \in S : \E m \in S : <<m, n>> \in Edges
    IN  result # "none" => (result = "invalid" <=> dangling \/ cycle)

-----------------------------------------------------------------------------
(* Why the levels are exact *)

TypeInv ==
    /\ mult \in [Node \X Node -> 0..MaxEdges] /\ dangling \in BOOLEAN
    /\ levels \in Seq(SUBSET Node) /\ result \in {"none", "valid", "invalid"}

\* What has been processed is what Len(levels) rounds settle: the in-degrees count
\* the edges from the other nodes, and what is ready is the next level.
Processed == SettledBy(Node, Edges, Len(levels))
DegreesAreCounted == inDegree = [n \in Node |-> EdgesFrom(Node \ Processed, n)]
QueueIsNext == queue = LevelOf(Node, Edges, Len(levels))
CountIsExact == VisitedCount = Cardinality(Processed)
ResultIsFinal ==
    result # "none" => queue = {} /\ (result = "invalid" <=> dangling \/ Cyclic)

SortInv ==
    TypeInv /\ DegreesAreCounted /\ QueueIsNext /\ CountIsExact /\ ResultIsFinal /\ LevelsAreExact
=============================================================================
