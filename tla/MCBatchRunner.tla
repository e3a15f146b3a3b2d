---------------------------- MODULE MCBatchRunner ----------------------------
(* Member sets for the watchlist: one, or edited between two.  Runners are *)
(* only compared, so that they may be permuted.                            *)
EXTENDS BatchRunner, TLC

MCSingle == {{1}}
MCEdited == {{1}, {2}}
MCGrown == {{1}, {1, 2}}

MCSymmetry == Permutations(Runners)

(* A runner alone starts up to MaxStarts times, with every resolution of   *)
(* the trading day; two that share the tables start once each, on a        *)
(* trading day, and the watchlist is edited for them only.                 *)
MCScope ==
    IF shared
    THEN /\ starts =< 2
         /\ \A r \in Runners : ctl[r].at # "off" => ctl[r].resolution = "resolved"
    ELSE members = {1, 2}
=============================================================================
