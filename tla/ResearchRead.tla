----------------------------- MODULE ResearchRead -----------------------------
(******************************************************************************)
(* What the screener reads of one symbol as of one date: the read models of   *)
(* app/research_dataset.py, filled by app/sqlite_research_dataset.py from the *)
(* tables of the database, or by app/sqlite_dataset_version.py from one       *)
(* persisted dataset version; the date rules are app/as_of_policy.py.         *)
(*                                                                            *)
(* Dates are numbers.  The stored prices are a function from dates to rows    *)
(* [source, role, close, volume], as the primary key of daily_prices makes    *)
(* them; a request is [asOf, history], history being the number of            *)
(* observations asked for or All.  A read that raises is Refused.             *)
(*                                                                            *)
(* Left out: the checks of types and of hashes, run ids, endpoints, artifact  *)
(* rows, the open, high and low of a price, and the fake dataset of tests.    *)
(******************************************************************************)
EXTENDS Integers, FiniteSets

All == 0
Refused == [refused |-> TRUE]

TwseSources == {"twse", "twse-historical"}
EsunSources == {"esun", "esun-historical"}
Synthetic == "mock-synthetic"

(* Rows as the tables admit them. *)
StoredRows(rows) ==
  /\ DOMAIN rows.prices \subseteq Nat /\ IsFiniteSet(DOMAIN rows.prices)
  /\ \A d \in DOMAIN rows.prices :
       rows.prices[d].close \in Nat \ {0} /\ rows.prices[d].volume \in Nat
  /\ IsFiniteSet(rows.metrics)
  /\ \A m \in rows.metrics : m.date \in Nat /\ m.value \in Int

DatesAsOf(dates, asOf) == {d \in dates : d =< asOf}

\* The latest n of the dates.
Latest(dates, n) == {d \in dates : Cardinality({e \in dates : e > d}) < n}

Returned(dates, history) == IF history = All THEN dates ELSE Latest(dates, history)

PriceStatus(dates, asOf) ==
  IF dates = {} THEN "missing_source"
  ELSE IF asOf \in dates THEN "available"
  ELSE "market_date_mismatch"

History(prices, request) ==
  LET all == DatesAsOf(DOMAIN prices, request.asOf)
      returned == Returned(all, request.history)
  IN  [status |-> PriceStatus(all, request.asOf),
       prices |-> [d \in returned |-> prices[d]],
       total |-> Cardinality(all),
       truncated |-> returned # all]

(******************************************************************************)
(* Valuation metrics are [name, date, value, source]; the nearest one at or   *)
(* before the date is carried forward, however old it is.                     *)
(******************************************************************************)
Nearest(metrics) == CHOOSE m \in metrics : \A other \in metrics : other.date =< m.date

ValuationAsOf(metrics, asOf) ==
  LET eligible == {m \in metrics : m.date =< asOf}
  IN  [name \in {m.name : m \in eligible} |-> Nearest({m \in eligible : m.name = name})]

(******************************************************************************)
(* Cross-validation runs are [id, created, target, status, outcome, differ],  *)
(* differ being the fields of their discrepancies.  Only a successful run of  *)
(* exactly this date counts, and of several the one created last.             *)
(******************************************************************************)
NoValidation == [status |-> "missing_source", differ |-> {}]

ValidationStatus(run) ==
  IF "market_date" \in run.differ THEN "market_date_mismatch"
  ELSE IF run.outcome = "discrepancy" THEN "source_discrepancy"
  ELSE "available"

ValidationAsOf(runs, asOf) ==
  LET eligible == {r \in runs : r.status = "success" /\ r.target = asOf}
      last == {r \in eligible : \A other \in eligible : other.created =< r.created}
      chosen == CHOOSE r \in last : \A other \in last : r.id =< other.id
  IN  IF eligible = {} THEN NoValidation
      ELSE [status |-> ValidationStatus(chosen), differ |-> chosen.differ]

(******************************************************************************)
(* TwseBaselineSourcePolicy: synthetic rows never mix with formal ones, and   *)
(* what is not a TWSE row is never canonical.                                 *)
(******************************************************************************)
SourcesAllowed(canonical, validating, hasHistory) ==
  IF Synthetic \in canonical \cup validating
  THEN canonical \cup validating = {Synthetic} /\ Synthetic \in canonical /\ hasHistory
  ELSE canonical \subseteq TwseSources /\ validating \subseteq TwseSources \cup EsunSources

(******************************************************************************)
(* SQLiteResearchDataset.read.  The policy looks at every row as of the date, *)
(* the ones beyond the requested number included.                             *)
(******************************************************************************)
BaselineRead(stored, request) ==
  LET eligible == DatesAsOf(DOMAIN stored.prices, request.asOf)
      canonical == {stored.prices[d].source : d \in eligible}
                     \cup {m.source : m \in {x \in stored.metrics : x.date =< request.asOf}}
      validation == ValidationAsOf(stored.runs, request.asOf)
      validating == IF validation = NoValidation THEN {} ELSE {"twse", "esun"}
  IN  IF ~SourcesAllowed(canonical, validating, eligible # {}) THEN Refused
      ELSE [refused |-> FALSE,
            history |-> History(stored.prices, request),
            valuation |-> ValuationAsOf(stored.metrics, request.asOf),
            validation |-> validation]

(******************************************************************************)
(* SQLiteDatasetVersionResearchDataset.read, of a version [asOf, status,      *)
(* prices, validating]: prices are the selected observations, validating the  *)
(* closes of the other source by date.  A version carries no valuation.       *)
(******************************************************************************)
InRole(prices, role) == {d \in DOMAIN prices : prices[d].role = role}

(* What the contracts of a version let through: the source of a row is of     *)
(* its role, and only a provisional version has supplements.                  *)
IsVersion(version) ==
  LET dates == DOMAIN version.prices
  IN  /\ version.asOf \in Nat /\ dates \subseteq 0 .. version.asOf
      /\ \A d \in dates :
           \/ version.prices[d].role = "canonical" /\ version.prices[d].source \in TwseSources
           \/ version.prices[d].role = "supplemental" /\ version.prices[d].source \in EsunSources
      /\ version.status # "provisional_mixed" => InRole(version.prices, "supplemental") = {}

VersionValidation(version) ==
  LET d == version.asOf
  IN  IF d \notin DOMAIN version.validating \cap InRole(version.prices, "canonical")
      THEN NoValidation
      ELSE IF version.validating[d] # version.prices[d].close
      THEN [status |-> "source_discrepancy", differ |-> {"close"}]
      ELSE [status |-> "available", differ |-> {}]

(* _validate_dual_source_models compares the supplements the version counts   *)
(* with the ones among the rows returned.                                     *)
DualSourceAllowed(version, history) ==
  /\ InRole(version.prices, "canonical") # {}
  /\ \A d \in DOMAIN history.prices :
       history.prices[d].source \in
         (IF history.prices[d].role = "canonical" THEN TwseSources ELSE EsunSources)
  /\ Cardinality(InRole(version.prices, "supplemental"))
       = Cardinality(InRole(history.prices, "supplemental"))
  /\ version.status # "provisional_mixed" => InRole(version.prices, "supplemental") = {}

VersionRead(version, request) ==
  LET history == History(version.prices, request)
  IN  IF version.asOf # request.asOf \/ ~DualSourceAllowed(version, history) THEN Refused
      ELSE [refused |-> FALSE,
            history |-> history,
            valuation |-> [name \in {} |-> 0],
            validation |-> VersionValidation(version)]
=============================================================================
