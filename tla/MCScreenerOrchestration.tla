----------------------- MODULE MCScreenerOrchestration -----------------------
(* Two bundles of a researched candidate: two candidates are ordered by    *)
(* their weights, or by their Stage 1 ranks when they have the same.       *)
EXTENDS ScreenerOrchestration

CONSTANTS s1, s2

MCWeight == [b \in {s1, s2} |-> IF b = s1 THEN 1 ELSE 0]
=============================================================================
