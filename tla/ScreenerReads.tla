----------------------------- MODULE ScreenerReads -----------------------------
(******************************************************************************)
(* What the two stages of the screener make of a read of the research         *)
(* dataset: screening_snapshot_from_dataset (app/screener/stage1_dataset.py)  *)
(* and the fields of a ResearchDatasetSnapshot that stage2.py uses.  Stage 1  *)
(* reads every security that is scanned, and a read that raises ends the      *)
(* scan; Stage 2 reads the shortlist again, later, over a longer history, and *)
(* a read that raises fails that candidate alone (stage2_dataset.py).         *)
(******************************************************************************)
EXTENDS ResearchRead, Stage2Research

Observations(history) ==
  LET dates == Sorted(DOMAIN history.prices, <)
  IN  [i \in DOMAIN dates |-> history.prices[dates[i]]]

CurrentValuation(valuation) ==
  IF DOMAIN valuation = {} THEN NoValuation
  ELSE [c \in Components |-> IF c \in DOMAIN valuation THEN valuation[c].value ELSE NoNumber]

(* The translation raises when no row of any table names a source, and a      *)
(* previous valuation must be of the market date before the last.             *)
Translates(read, previous) ==
  /\ ~read.refused
  /\ DOMAIN read.history.prices # {} \/ DOMAIN read.valuation # {}
  /\ previous # NoValuation => Cardinality(DOMAIN read.history.prices) >= 2

SnapshotOf(read, previous) ==
  [status |-> read.history.status,
   prices |-> Observations(read.history),
   current |-> CurrentValuation(read.valuation),
   previous |-> previous]

DatasetOf(read) ==
  [status |-> read.history.status,
   prices |-> Observations(read.history),
   valuation |-> [c \in DOMAIN read.valuation \cap Components |-> read.valuation[c].value],
   validation |-> read.validation.status]

ScreeningRead(stored, asOf) ==
  BaselineRead(stored, [asOf |-> asOf, history |-> HistoryObservations])

ResearchingRead(stored, asOf) ==
  BaselineRead(stored, [asOf |-> asOf, history |-> DeepObservations])

\* The draft of one candidate of the shortlist.
Draft(candidate, stored, asOf) ==
  LET read == ResearchingRead(stored, asOf)
  IN  IF read.refused THEN Failed(candidate) ELSE Researched(candidate, DatasetOf(read))
=============================================================================
