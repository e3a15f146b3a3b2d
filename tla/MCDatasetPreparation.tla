------------------------- MODULE MCDatasetPreparation --------------------------
(******************************************************************************)
(* A window of two dates, two TWSE runs that agree, two E.SUN runs of which   *)
(* one differs on the second date, two preparers.                             *)
(******************************************************************************)
EXTENDS DatasetPreparation, TLC

CONSTANTS p1, p2

MCWindow == {1, 2}
MCPreparers == {p1, p2}
MCClose ==
  [run \in TwseRuns \cup EsunRuns |->
     [d \in MCWindow |-> IF run = "e2" /\ d = 2 THEN 9 ELSE d]]

Symmetry == Permutations(MCPreparers)
=============================================================================
