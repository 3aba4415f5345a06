----------------------------- MODULE DagLevels -----------------------------
(* What the levels of a graph are: the reference definition. *)
EXTENDS Naturals

\* The nodes that have nothing left to wait for after i rounds.
SettledBy(nodes, edges, i) ==
    LET settled[k \in Nat] ==
            IF k = 0 THEN {}
            ELSE {n \in nodes : \A m \in nodes : <<m, n>> \in edges => m \in settled[k - 1]}
    IN  settled[i]

\* Level i, counted from 0: what settles in round i + 1.
LevelOf(nodes, edges, i) == SettledBy(nodes, edges, i + 1) \ SettledBy(nodes, edges, i)
=============================================================================
