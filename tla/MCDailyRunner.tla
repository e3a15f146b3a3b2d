--------------------------- MODULE MCDailyRunner ---------------------------
(***************************************************************************)
(* Two processes and one target date.  The first issue of the tables scans *)
(* both securities; the second finds one suspended, and the third has one  *)
(* that nobody can classify.  The daily batch shares one security.         *)
(***************************************************************************)
EXTENDS DailyRunner, TLC

CONSTANTS
    p1, p2,     \* the processes
    MaxAmend    \* the last issue on line

Row(n, priced) ==
    [identity |-> {[name |-> "A", listed |-> 1]}, trading |-> {[name |-> "A", priced |-> priced]},
     valuation |-> {[name |-> "A"]}, delisting |-> {}]

Unlisted == [Row(1, TRUE) EXCEPT !.identity = {}]

MCIssues == << [s \in {1, 2} |-> Row(s, TRUE)],
               [s \in {1, 2} |-> Row(s, s = 1)],
               [s \in {1, 2} |-> IF s = 1 THEN Row(s, TRUE) ELSE Unlisted] >>

MCBase == (1 :> "common_equity") @@ (2 :> "none")

Symmetry == Permutations({p1, p2})

MCScope == exchange.issue =< MaxAmend
=============================================================================
