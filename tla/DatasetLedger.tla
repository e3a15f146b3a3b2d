------------------------------ MODULE DatasetLedger ----------------------------
(******************************************************************************)
(* What the dataset store promises its readers: an immutable, growing set of  *)
(* versions in which an identity has one content, and every version that      *)
(* names a parent extends a version that was already there and still open.    *)
(******************************************************************************)
CONSTANTS IdOf(_),       \* the identity a version is stored under
          ParentsOf(_),  \* the identity of the parent, as a set of at most one
          IsOpen(_)      \* whether a version may still be extended

VARIABLE versions

Init == versions = {}

Publish(v) ==
  /\ \A w \in versions : IdOf(w) # IdOf(v)
  /\ \A parent \in ParentsOf(v) : \E w \in versions : IdOf(w) = parent /\ IsOpen(w)
  /\ versions' = versions \cup {v}

Next == \E v \in versions' : Publish(v)

Spec == Init /\ [][Next]_versions
================================================================================
