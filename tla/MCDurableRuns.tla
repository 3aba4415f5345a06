---------------------------- MODULE MCDurableRuns ----------------------------
(* Instances of DurableRuns for TLC. *)
EXTENDS BoundedRuns, TLC

CONSTANTS r1, r2, w1, w2, s1, s2

\* Runs and slots that no constant singles out are interchangeable.
Symmetric == Permutations(Run \ Legacy) \cup Permutations(Worker)

\* The unbounded specification, beside budgets nobody spends.
UnboundedSpec == BoundedInit /\ [][Next /\ Free]_boundedVars
=============================================================================
