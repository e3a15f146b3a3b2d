--------------------------- MODULE MCCandidateHistory --------------------------
(******************************************************************************)
(* Two months of three days; a stock listed on day 2; the targets 4 and 6,    *)
(* with four days needed: the first is short by law, the second may be        *)
(* complete, with a day to spare.                                             *)
(******************************************************************************)
EXTENDS CandidateHistory, TLC

CONSTANTS w1, w2

MCWorkers == {w1, w2}
MCLegacy == {Twse(6)}
Symmetry == Permutations(MCWorkers)

\* TWSE reports every day of a month; E.SUN may miss one, or have another price
\* throughout.  Two calls run side by side, a third alone.
Missing(c) ==
  UNION {TradedIn(month, c.target) : month \in history[c].evidence}
    \ {x.day : x \in history[c].rows}

MCScope ==
  /\ \A d \in Targets :
       /\ Missing(Twse(d)) = {}
       /\ \A x, y \in history[Esun(d)].rows : x.price = y.price
       /\ Missing(Esun(d)) # {} =>
            /\ Missing(Esun(d)) \in {{5}}
            /\ \A x \in history[Esun(d)].rows : x.price = 1
  /\ calls = 3 => \E w \in Workers : \A v \in Workers \ {w} : call[v].at = "idle"
=============================================================================
