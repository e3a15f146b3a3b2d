------------------------------ MODULE MCDecisions ------------------------------
(******************************************************************************)
(* The windows of the two stages shrunk to 2 .. 5 observations, and for each  *)
(* question every combination of a few values that decide it.                 *)
(******************************************************************************)
EXTENDS Decisions, TLC

CONSTANTS noName, noDate, noNumber

(******************************************************************************)
(* Supplements for the dates 2 .. 3: every payload of at most two rows,       *)
(* around the window and with each defect, behind open gates; and every       *)
(* combination of the gates over a few payloads.                              *)
(******************************************************************************)
Instrument == [f \in {IdentityFields[i] : i \in DOMAIN IdentityFields} |-> "requested"]

GoodRow(d, price) == [date |-> d, symbol |-> "absent", shape |-> "good", price |-> price]

Rows ==
  UNION {{GoodRow(d, 1), GoodRow(d, 2),
          [GoodRow(d, 1) EXCEPT !.symbol = "other"],
          [GoodRow(d, 1) EXCEPT !.shape = "partial_ohlc"]} : d \in 0 .. 4}

Payloads == {<<>>} \cup {<<r>> : r \in Rows} \cup {<<r, s>> : r, s \in Rows}

TwsePayloads ==
  {<<>>, <<GoodRow(2, 1)>>, <<GoodRow(3, 1)>>, <<GoodRow(2, 1), GoodRow(3, 2)>>,
   <<GoodRow(3, 1), GoodRow(2, 1)>>, <<GoodRow(4, 1)>>}

OpenGates(missing, twse, esun) ==
  [symbol |-> "requested", start |-> 2, target |-> 3, missing |-> missing,
   failure |-> "timeout", evidence |-> "verified", twse |-> twse, esun |-> esun,
   requested |-> Instrument, returned |-> Instrument, boundary |-> SecurityInvariants]

ByPayload == {OpenGates(m, t, e) : m \in SUBSET {2, 3}, t \in TwsePayloads, e \in Payloads}

Identities ==
  {NoIdentity, Instrument} \cup {[Instrument EXCEPT ![f] = "other"] : f \in DOMAIN Instrument}

ByGate ==
  {[OpenGates(m, <<>>, e) EXCEPT !.failure = f, !.evidence = v, !.requested = q,
                                 !.returned = r, !.boundary = SecurityInvariants \ b] :
     m \in {{}, {3}}, e \in {<<>>, <<GoodRow(3, 1)>>, <<GoodRow(3, 1), GoodRow(3, 1)>>},
     f \in {"timeout", "permanent"}, v \in {"absent", "verified", "unverified"},
     q \in {NoIdentity, Instrument}, r \in Identities, b \in {{}, {"https"}}}

MCSupplements == ByPayload \cup ByGate

(******************************************************************************)
(* Securities on date 2, with at most one row in each table; and the          *)
(* requested dates 1 .. 4, of which 3 is a weekend.                           *)
(******************************************************************************)
AtMostOne(rows) == {{}} \cup {{r} : r \in rows}
Names == {"A", "B"}

MCSecurities ==
  {[evidence |-> [identity |-> i, trading |-> t, valuation |-> v, delisting |-> d],
    stable |-> class, day |-> 2] :
     i \in AtMostOne([name : Names, listed : {1, 3}]),
     t \in AtMostOne([name : Names, priced : BOOLEAN]),
     v \in AtMostOne([name : Names]),
     d \in AtMostOne([name : {"A", "B", noName}, on : {1, 3}]),
     class \in {"none", "common_equity", "etf", "tdr"}}

MCWeekend == {3}
MCDays == [requested : 1 .. 4, latest : {noDate} \cup (1 .. 5)]

(******************************************************************************)
(* Rows of a symbol for the dates 1 .. 4, read as of date 3.                  *)
(******************************************************************************)
StoredPrice(source) == [source |-> source, role |-> "canonical", close |-> 1, volume |-> 1]

Metric(date, value) == [name |-> "pe_ratio", date |-> date, value |-> value, source |-> "twse"]

Run(id, created, target, status, outcome, differ) ==
  [id |-> id, created |-> created, target |-> target, status |-> status,
   outcome |-> outcome, differ |-> differ]

PriceTables ==
  UNION {[dates -> {StoredPrice(s) : s \in {"twse", "esun", Synthetic}}] : dates \in SUBSET (1 .. 4)}

MetricTables ==
  {{}, {Metric(1, 10)}, {Metric(1, 10), Metric(3, 11)}, {Metric(1, 10), Metric(4, 12)}}

RunTables ==
  {{}, {Run(1, 1, 3, "success", "matched", {})}, {Run(1, 1, 3, "failed", "matched", {})},
   {Run(1, 1, 3, "success", "matched", {}), Run(2, 2, 3, "success", "discrepancy", {"close"})},
   {Run(1, 1, 2, "success", "discrepancy", {"market_date"})}}

MCStores ==
  [stored : [prices : PriceTables, metrics : MetricTables, runs : RunTables], asOf : {3}]

(******************************************************************************)
(* Versions of up to four dates that end with date 4: provisional ones hold   *)
(* a supplement, the others none.                                             *)
(******************************************************************************)
VersionPrices ==
  UNION {[dates -> {[source |-> "twse", role |-> "canonical", close |-> 1, volume |-> 1],
                    [source |-> "esun", role |-> "supplemental", close |-> 1, volume |-> 1]}] :
           dates \in {s \in SUBSET (1 .. 4) : 4 \in s}}

MCVersions ==
  {v \in [asOf : {4}, prices : VersionPrices,
          status : {"canonical_complete", "provisional_mixed", "reconciled"},
          validating : {[d \in {} |-> 0], [d \in {4} |-> 1], [d \in {4} |-> 2]}] :
     v.status = "provisional_mixed" <=> InRole(v.prices, "supplemental") # {}}

MCWindows == 1 .. 4

(******************************************************************************)
(* Histories of five and six observations, one more than each stage needs.    *)
(******************************************************************************)
Observation == [close : 1 .. 3, volume : {1, 4}]

MCHistories ==
  [1 .. 5 -> [close : 1 .. 3, volume : {1}]]
    \cup {[i \in 1 .. 6 |-> [close |-> c[i], volume |-> v[i]]] :
            c \in [1 .. 6 -> 1 .. 2], v \in [1 .. 6 -> {0, 4}]}

(******************************************************************************)
(* A scan of two symbols as of date 6.  The rows of a symbol are six quiet    *)
(* days, or a last day that jumps, or none, or too few days; with or without  *)
(* a valuation, a comparison, or a row that no policy admits.                 *)
(******************************************************************************)
Quiet == [d \in 1 .. 6 |-> [StoredPrice("twse") EXCEPT !.close = 100, !.volume = 10]]
Jumped(close, volume) ==
  [Quiet EXCEPT ![6] = [StoredPrice("twse") EXCEPT !.close = close, !.volume = volume]]
Without(prices, dates) == [d \in DOMAIN prices \ dates |-> prices[d]]

Compared(outcome) == {Run(1, 1, 6, "success", outcome, {})}

Rows6(prices, metrics, runs) == [prices |-> prices, metrics |-> metrics, runs |-> runs]

ScreenStores ==
  {Rows6(Quiet, {}, {}),
   Rows6(Quiet, {Metric(6, 12)}, Compared("matched")),
   Rows6(Quiet, {Metric(5, 10)}, Compared("discrepancy")),
   Rows6(Jumped(110, 10), {}, {}),
   Rows6(Jumped(110, 10), {Metric(6, 12)}, Compared("discrepancy")),
   Rows6(Jumped(110, 100), {Metric(6, 10)}, {}),
   Rows6(Without(Jumped(90, 30), 1 .. 3), {}, Compared("matched")),
   Rows6(Without(Quiet, {6}), {Metric(6, 12)}, {}),
   Rows6([Quiet EXCEPT ![2].source = "esun"], {}, {}),
   Rows6(Without(Quiet, 1 .. 6), {}, {})}

Pe(value) == [c \in Components |-> IF c = "pe_ratio" THEN value ELSE noNumber]

MCScreens ==
  {[limit |-> l, asOf |-> 6, previous |-> p, then |-> s, later |-> [s EXCEPT ![1] = t]] :
     l \in {1, 2}, p \in {NoValuation, Pe(10), Pe(noNumber)},
     s \in [{1, 2} -> ScreenStores], t \in ScreenStores}
=============================================================================
