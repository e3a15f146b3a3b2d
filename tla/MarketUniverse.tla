--------------------------- MODULE MarketUniverse ---------------------------
(***************************************************************************)
(* Which securities of the exchange a market date scans: the pure builder  *)
(* build_market_universe of app/screener/universe.py, and the way          *)
(* ProductionDailyDataPreparer._acquire_universe feeds it from the four    *)
(* official tables and from the classifications of an earlier universe     *)
(* (app/deployment/daily_preparation.py).                                  *)
(*                                                                         *)
(* The evidence on one security is the set of its normalized rows in each  *)
(* table: none, one, or several that disagree; equal rows are one row of   *)
(* the set, as _index_records drops exact duplicates.  A name is a value,  *)
(* or NoName in a delisting row without one.                               *)
(*                                                                         *)
(* Left out: the wording of the reasons, the hashes of the payloads, and   *)
(* the parsing of rows (a malformed row raises before anything is built).  *)
(***************************************************************************)
EXTENDS Integers, FiniteSets

CONSTANT NoName     \* the name of a delisting row that has none

Classifications == {"none", "unknown", "common_equity", "etf", "tdr"}

Statuses == {"eligible", "unavailable", "excluded", "inactive", "unresolved"}

(* The rows of the four tables for one security. *)
IdentityRow == [name : {"A", "B"}, listed : Nat]
TradingRow == [name : {"A", "B"}, priced : BOOLEAN]
ValuationRow == [name : {"A", "B"}]
DelistingRow == [name : {"A", "B", NoName}, on : Nat]

Evidence == [identity : SUBSET IdentityRow, trading : SUBSET TradingRow,
             valuation : SUBSET ValuationRow, delisting : SUBSET DelistingRow]

(* Rows of one table that disagree about a security raise. *)
Conflicting(e) ==
    \/ Cardinality(e.identity) > 1 \/ Cardinality(e.trading) > 1
    \/ Cardinality(e.valuation) > 1 \/ Cardinality(e.delisting) > 1

NamesOf(e) ==
    {r.name : r \in e.identity \cup e.trading \cup e.valuation \cup e.delisting} \ {NoName}

NameConflict(e) == Cardinality(NamesOf(e)) > 1

ListedLater(e, day) == \E r \in e.identity : r.listed > day

Delisted(e, day) == \E r \in e.delisting : r.on =< day

(* _build_member tries its reasons in order, and the first that applies    *)
(* decides.                                                                *)
Unresolved(e, class, day) ==
    \/ NameConflict(e)
    \/ ListedLater(e, day)
    \/ /\ ~ Delisted(e, day)
       /\ \/ class \in {"none", "unknown"}
          \/ class = "common_equity" /\ e.identity = {}

Scannable(e) == e.valuation # {} /\ \E r \in e.trading : r.priced

MemberStatus(e, class, day) ==
    IF Unresolved(e, class, day) THEN "unresolved"
    ELSE IF Delisted(e, day) THEN "inactive"
    ELSE IF class \in {"etf", "tdr"} THEN "excluded"
    ELSE IF Scannable(e) THEN "eligible"
    ELSE "unavailable"

(* A delisting alone does not make a security part of the universe. *)
Enumerated(e, class) ==
    e.identity # {} \/ e.trading # {} \/ e.valuation # {} \/ class # "none"

----------------------------------------------------------------------------

(* Mutant: whatever the official list names is a common stock. *)
DayClassTrusting(e, stable) ==
    IF e.identity # {} THEN "common_equity"
    ELSE IF stable # "none" THEN stable
    ELSE IF e.trading # {} \/ e.valuation # {} THEN "unknown"
    ELSE "none"

(* The class of a security on a market date, given the stable class that   *)
(* an earlier universe found: funds and receipts keep it, and the official *)
(* list of companies makes everything else a common stock.                 *)
DayClass(e, stable) ==
    IF stable \in {"etf", "tdr"} THEN stable
    ELSE IF e.identity # {} THEN "common_equity"
    ELSE IF stable # "none" THEN stable
    ELSE IF e.trading # {} \/ e.valuation # {} THEN "unknown"
    ELSE "none"

(* The delisting table is a history: a row of it says nothing about a      *)
(* security the official list still names.                                 *)
DayEvidence(e) == IF e.identity # {} THEN [e EXCEPT !.delisting = {}] ELSE e

DayStatus(e, stable, day) == MemberStatus(DayEvidence(e), DayClass(e, stable), day)

(* _stable_inputs_from_snapshot: the class a member of an earlier universe *)
(* is taken over with; an unresolved member makes that universe unusable.  *)
StableClass(status, class) == IF status = "excluded" THEN class ELSE "common_equity"

(* A universe is usable when no security in it is unresolved. *)
Usable(evidence, stable, day) ==
    \A s \in DOMAIN evidence :
        LET e == evidence[s]
        IN /\ ~ Conflicting(e)
           /\ Enumerated(e, DayClass(e, stable[s]))
                 => DayStatus(e, stable[s], day) # "unresolved"

EligibleOf(evidence, stable, day) ==
    {s \in DOMAIN evidence :
        /\ Enumerated(evidence[s], DayClass(evidence[s], stable[s]))
        /\ DayStatus(evidence[s], stable[s], day) = "eligible"}
=============================================================================
