------------------------- MODULE MCPipelineExecutor -------------------------
(* Three steps, any graph over them; the first may be tried twice.         *)
EXTENDS PipelineExecutor

CONSTANTS a, b, c

MCRetries == [s \in Steps |-> IF s = a THEN 1 ELSE 0]

-----------------------------------------------------------------------------
\* The two searches of graph.rs as they run, to compare the rules with.

\* The depth-first search from a step: what 1 .. k + 1 of the edges E reach.
Reached(E) ==
  LET R[k \in Nat] ==
        IF k = 0 THEN E
        ELSE [s \in Steps |-> R[k - 1][s] \cup UNION {E[n] : n \in R[k - 1][s]}]
  IN R[Cardinality(Steps)]

\* The queue of Kahn's algorithm: what is sorted after k rounds.
Sorted(P, rev, fwd) ==
  LET S[k \in Nat] ==
        IF k = 0 THEN {}
        ELSE {s \in P : Cardinality({n \in S[k - 1] : s \in fwd[n]}) >= Cardinality(rev[s])}
  IN S[Cardinality(Steps)]

EdgeMaps == [Steps -> SUBSET Steps]

ASSUME CycleSearch == \A E \in EdgeMaps : HasCycle(E) <=> \E s \in Steps : s \in Reached(E)[s]

\* Also when a map has lost or kept edges of the other.
ASSUME KahnsQueue ==
  \A rev, fwd \in EdgeMaps : Sortable(Steps, rev, fwd) <=> Sorted(Steps, rev, fwd) = Steps
=============================================================================
