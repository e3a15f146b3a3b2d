----------------------------- MODULE Stage1Screen -----------------------------
(******************************************************************************)
(* Stage 1 of the screener (app/screener/stage1.py): eight metrics of one     *)
(* symbol, the twelve rules of STAGE1_METHODOLOGY_V1 over them, and the       *)
(* shortlist of the symbols that trigger a primary rule.                      *)
(*                                                                            *)
(* A snapshot is [status, prices, current, previous]: prices are a sequence   *)
(* of [close, volume], oldest first; current and previous are valuations,     *)
(* functions from Components to a number or NoNumber, or NoValuation.  The    *)
(* numbers are integers: every quotient is rounded to 1/Places, as _q rounds  *)
(* to metric_decimal_places, and a metric's values count 1/Places.  Symbols   *)
(* are numbers, in their lexical order.                                       *)
(*                                                                            *)
(* Left out: units, the dates attached to metrics, names and methodology      *)
(* versions, and the checks of types.                                         *)
(******************************************************************************)
EXTENDS Integers, Sequences, FiniteSets, SequencesExt

CONSTANTS
  VolumeWindow, ReturnWindow, VolatilityWindow, MaWindow,  \* in observations
  AnnualizationDays,  \* trading days of a year
  Places,             \* 10 ^ metric_decimal_places
  NoNumber            \* a value that is not there

ASSUME Stage1Assumption ==
  /\ VolumeWindow \in Nat \ {0} /\ ReturnWindow \in Nat \ {0} /\ MaWindow \in Nat \ {0}
  /\ VolatilityWindow \in Nat \ {0, 1} /\ AnnualizationDays \in Nat \ {0}
  /\ Places \in Nat \ {0} /\ Places % 2 = 0 /\ NoNumber \notin Int

Components == {"pe_ratio", "pb_ratio", "dividend_yield"}
NoValuation == <<>>

\* history_observations: the longest look-back of any metric.
HistoryObservations ==
  LET needs == {3, VolumeWindow + 2, ReturnWindow + 2, VolatilityWindow + 2, MaWindow + 1}
  IN  CHOOSE n \in needs : \A m \in needs : m =< n

(******************************************************************************)
(* Arithmetic, rounded as _q rounds.                                          *)
(******************************************************************************)
Size(n) == IF n < 0 THEN -n ELSE n
Total(s) == FoldLeft(LAMBDA a, b : a + b, 0, s)
Quotient(n, d) == (2 * n * Places + d) \div (2 * d)
Percent(new, old) == Quotient(100 * (new - old), old)
Root(n) ==
  FoldLeft(LAMBDA r, bit : IF (r + bit) * (r + bit) =< n THEN r + bit ELSE r,
           0, [i \in 1 .. 16 |-> 2 ^ (16 - i)])

(******************************************************************************)
(* Metrics.                                                                   *)
(******************************************************************************)
Unavailable(why) ==
  [status |-> why, previous |-> NoNumber, current |-> NoNumber, delta |-> NoNumber]

Available(previous, current, delta) ==
  [status |-> "available", previous |-> previous, current |-> current, delta |-> delta]

Measured(prices, needed, broken, previous, current) ==
  IF Len(prices) < needed THEN Unavailable("insufficient_history")
  ELSE IF broken THEN Unavailable("invalid_denominator")
  ELSE Available(previous, current, current - previous)

\* Both count back from the last observation, which is number 0.
Close(prices, k) == prices[Len(prices) - k].close
Volume(prices, k) == prices[Len(prices) - k].volume
Earlier(prices, k, n) == SubSeq(prices, Len(prices) - k - n, Len(prices) - k - 1)

PriceChange(prices) ==
  Measured(prices, 3, \E k \in 0 .. 2 : Close(prices, k) =< 0,
           Percent(Close(prices, 1), Close(prices, 2)),
           Percent(Close(prices, 0), Close(prices, 1)))

Baseline(prices, k) ==
  LET rows == Earlier(prices, k, VolumeWindow)
  IN  Total([i \in DOMAIN rows |-> rows[i].volume])

VolumeRatio(prices, k) == Quotient(Volume(prices, k) * VolumeWindow, Baseline(prices, k))

VolumeAnomaly(prices) ==
  Measured(prices, VolumeWindow + 2, Baseline(prices, 0) =< 0 \/ Baseline(prices, 1) =< 0,
           VolumeRatio(prices, 1), VolumeRatio(prices, 0))

(* Mutant: the return starts one observation late. *)
ReturnLate(prices, k) == Percent(Close(prices, k), Close(prices, k + ReturnWindow - 1))

ReturnOver(prices, k) == Percent(Close(prices, k), Close(prices, k + ReturnWindow))

ReturnChange(prices) ==
  Measured(prices, ReturnWindow + 2,
           \E k \in {0, 1, ReturnWindow, ReturnWindow + 1} : Close(prices, k) =< 0,
           ReturnOver(prices, 1), ReturnOver(prices, 0))

\* The annualized sample deviation of the returns up to observation k.
Volatility(prices, k) ==
  LET n == VolatilityWindow
      returns == [i \in 1 .. n |-> Percent(Close(prices, k + i - 1), Close(prices, k + i))]
      squares == Total([i \in 1 .. n |-> returns[i] * returns[i]])
  IN  Root((AnnualizationDays * (n * squares - Total(returns) * Total(returns)))
             \div (n * (n - 1)))

VolatilityRegime(prices) ==
  Measured(prices, VolatilityWindow + 2,
           \E k \in 0 .. VolatilityWindow + 1 : Close(prices, k) =< 0,
           Volatility(prices, 1), Volatility(prices, 0))

MaDistance(prices, k) ==
  LET sum == Total([i \in 1 .. MaWindow |-> Close(prices, k + i - 1)])
  IN  Percent(Close(prices, k) * MaWindow, sum)

MaDistanceChange(prices) ==
  Measured(prices, MaWindow + 1, \E k \in 0 .. MaWindow : Close(prices, k) =< 0,
           MaDistance(prices, 1), MaDistance(prices, 0))

ValuationUpdate(snapshot, component) ==
  LET old == snapshot.previous[component]
      new == snapshot.current[component]
  IN  IF NoValuation \in {snapshot.previous, snapshot.current} THEN Unavailable("valuation_unavailable")
      ELSE IF old = NoNumber /\ new = NoNumber THEN Unavailable("valuation_unavailable")
      ELSE IF NoNumber \in {old, new} THEN Available(old, new, NoNumber)
      ELSE IF component = "dividend_yield" THEN Available(old, new, new - old)
      ELSE IF old =< 0 \/ new =< 0 THEN Unavailable("invalid_denominator")
      ELSE Available(old, new, Percent(new, old))

PriceMetrics == {"price_change_1d", "volume_anomaly", "return_20d_change",
                 "volatility_regime_change", "ma_distance_change"}

PriceMetric(prices, metric) ==
  CASE metric = "price_change_1d" -> PriceChange(prices)
    [] metric = "volume_anomaly" -> VolumeAnomaly(prices)
    [] metric = "return_20d_change" -> ReturnChange(prices)
    [] metric = "volatility_regime_change" -> VolatilityRegime(prices)
    [] metric = "ma_distance_change" -> MaDistanceChange(prices)

Metrics(snapshot) ==
  [metric \in PriceMetrics \cup Components |->
     IF metric \in Components THEN ValuationUpdate(snapshot, metric)
     ELSE IF snapshot.status # "available" THEN Unavailable(snapshot.status)
     ELSE PriceMetric(snapshot.prices, metric)]

(******************************************************************************)
(* Rules.                                                                     *)
(******************************************************************************)
Rule(metric, primary, operator, threshold, class) ==
  [metric |-> metric, primary |-> primary, operator |-> operator,
   threshold |-> threshold, class |-> class]

Rules ==
  << Rule("price_change_1d", TRUE, "abs_current_gte", 3 * Places, 10),
     Rule("volume_anomaly", TRUE, "current_gte", 2 * Places, 20),
     Rule("volume_anomaly", FALSE, "current_lte", Places \div 2, 90),
     Rule("return_20d_change", TRUE, "abs_delta_gte", Places, 30),
     Rule("volatility_regime_change", TRUE, "abs_delta_gte", Places, 40),
     Rule("ma_distance_change", TRUE, "abs_delta_gte", Places, 30),
     Rule("pe_ratio", TRUE, "availability_changed", NoNumber, 50),
     Rule("pe_ratio", TRUE, "abs_delta_gte", 10 * Places, 50),
     Rule("pb_ratio", TRUE, "availability_changed", NoNumber, 50),
     Rule("pb_ratio", TRUE, "abs_delta_gte", 10 * Places, 50),
     Rule("dividend_yield", TRUE, "availability_changed", NoNumber, 50),
     Rule("dividend_yield", TRUE, "abs_delta_gte", Places \div 2, 50) >>

\* The number a rule compares with its threshold.
Tested(rule, m) ==
  CASE rule.operator \in {"current_gte", "current_lte"} -> m.current
    [] rule.operator = "abs_current_gte" ->
         IF m.current = NoNumber THEN NoNumber ELSE Size(m.current)
    [] rule.operator = "abs_delta_gte" ->
         IF m.delta = NoNumber THEN NoNumber ELSE Size(m.delta)

Matches(rule, m) ==
  /\ m.status = "available"
  /\ IF rule.operator = "availability_changed"
     THEN (m.previous = NoNumber) # (m.current = NoNumber)
     ELSE /\ Tested(rule, m) # NoNumber
          /\ IF rule.operator = "current_lte" THEN Tested(rule, m) =< rule.threshold
             ELSE Tested(rule, m) >= rule.threshold

Multiple(rule, m) ==
  IF rule.operator = "availability_changed" THEN Places
  ELSE IF rule.operator # "current_lte" THEN Quotient(Tested(rule, m), rule.threshold)
  ELSE IF m.current > 0 THEN Quotient(rule.threshold, m.current)
  ELSE Places

\* A reason is the rule that matched, with its metric and its multiple.
Reasons(metrics) ==
  {[rule |-> Rules[i], metric |-> metrics[Rules[i].metric],
    multiple |-> Multiple(Rules[i], metrics[Rules[i].metric])] :
     i \in {j \in DOMAIN Rules : Matches(Rules[j], metrics[Rules[j].metric])}}

Primary(reasons) == {r \in reasons : r.rule.primary}
Triggered(reasons) == Primary(reasons) # {}

(******************************************************************************)
(* The shortlist: triggered symbols in the order of research priority.        *)
(******************************************************************************)
Least(S) == CHOOSE x \in S : \A y \in S : x =< y
Greatest(S) == CHOOSE x \in S : \A y \in S : y =< x

Precedes(k, l) ==
  \E i \in DOMAIN k : k[i] < l[i] /\ \A j \in 1 .. i - 1 : k[j] = l[j]

PriorityKey(symbol, reasons) ==
  << -Cardinality(Primary(reasons)),
     Least({r.rule.class : r \in Primary(reasons)}),
     -Greatest({r.multiple : r \in Primary(reasons)}),
     symbol >>

\* The i-th of the sorted members is the one that i - 1 others come before.
Sorted(S, Before(_, _)) ==
  [i \in 1 .. Cardinality(S) |-> CHOOSE x \in S : Cardinality({y \in S : Before(y, x)}) = i - 1]

Shortlist(reasons, limit) ==
  LET Before(s, t) == Precedes(PriorityKey(s, reasons[s]), PriorityKey(t, reasons[t]))
      ranked == Sorted({s \in DOMAIN reasons : Triggered(reasons[s])}, Before)
  IN  SubSeq(ranked, 1, IF limit < Len(ranked) THEN limit ELSE Len(ranked))
=============================================================================
