---------------------------- MODULE Stage2Research ----------------------------
(******************************************************************************)
(* Stage 2 of the screener (app/screener/stage2.py): one candidate of the     *)
(* shortlist researched over a longer history, with the indicators of         *)
(* HistoricalResearchAnalyzer (app/analysis/historical.py), and the final     *)
(* order of the candidates.                                                   *)
(*                                                                            *)
(* A dataset is [status, prices, valuation, validation]: prices as in         *)
(* Stage1Screen, valuation a function from the components it has to numbers,  *)
(* validation the status of the validation read.  A candidate keeps what      *)
(* Stage 1 found: its rank, reasons and metrics.                              *)
(*                                                                            *)
(* Left out: provenance, dates and observation counts of the metrics, and     *)
(* the values a reason repeats.                                               *)
(******************************************************************************)
EXTENDS Stage1Screen

CONSTANTS
  Short, Middle, Long, Longest    \* the windows of the analyzer, 20 to 250 observations

ASSUME Stage2Assumption ==
  /\ {Short, Middle, Long, Longest} \subseteq Nat \ {0, 1}
  /\ Short < Middle /\ Middle < Long /\ Long < Longest

\* history_observations of Stage 2.
DeepObservations == Longest

(******************************************************************************)
(* HistoricalResearchAnalyzer.analyze; NoNumber where the history is short.   *)
(******************************************************************************)
WindowReturn(prices, w) ==
  IF Len(prices) > w THEN Percent(Close(prices, 0), Close(prices, w)) ELSE NoNumber

\* The population deviation of the daily returns of the volatility window.
DailyVolatility(prices) ==
  LET n == VolatilityWindow
      returns == [i \in 1 .. n |-> Percent(Close(prices, i - 1), Close(prices, i))]
      squares == Total([i \in 1 .. n |-> returns[i] * returns[i]])
  IN  IF Len(prices) =< n THEN NoNumber
      ELSE Root(n * squares - Total(returns) * Total(returns)) \div n

\* The deepest fall from an earlier, or the same, close of the window.
MaxDrawdown(prices, w) ==
  IF Len(prices) < w THEN NoNumber
  ELSE Least(UNION {{Percent(Close(prices, last), Close(prices, peak)) : last \in 0 .. peak} :
                      peak \in 0 .. w - 1})

DeepVolumeRatio(prices) ==
  LET sum == Total([i \in 1 .. Short |-> Volume(prices, i - 1)])
  IN  IF Len(prices) < Short \/ sum = 0 THEN NoNumber
      ELSE Quotient(Volume(prices, 0) * Short, sum)

DistanceToMa(prices, w) ==
  LET sum == Total([i \in 1 .. w |-> Close(prices, i - 1)])
  IN  IF Len(prices) < w THEN NoNumber ELSE Percent(Close(prices, 0) * w, sum)

DeepMetricNames ==
  {<<"return", w>> : w \in {Short, Middle, Long}} \cup {<<"volatility">>, <<"volume_ratio">>}
    \cup {<<kind, w>> : kind \in {"max_drawdown", "ma_distance"},
                        w \in {Short, Middle, Long, Longest}}

Indicator(prices, name) ==
  CASE name[1] = "return" -> WindowReturn(prices, name[2])
    [] name[1] = "volatility" -> DailyVolatility(prices)
    [] name[1] = "volume_ratio" -> DeepVolumeRatio(prices)
    [] name[1] = "max_drawdown" -> MaxDrawdown(prices, name[2])
    [] name[1] = "ma_distance" -> DistanceToMa(prices, name[2])

(******************************************************************************)
(* Metrics: the indicator of the history, and of the history without its last *)
(* observation.                                                               *)
(******************************************************************************)
DeepMetric(prices, name) ==
  LET current == Indicator(prices, name)
      previous == IF Len(prices) > 1 THEN Indicator(SubSeq(prices, 1, Len(prices) - 1), name)
                  ELSE NoNumber
  IN  IF current = NoNumber THEN Unavailable("insufficient_history")
      ELSE Available(previous, current,
                     IF previous = NoNumber THEN NoNumber ELSE current - previous)

\* The previous value and the change are the ones Stage 1 found.
ConfirmedValuation(candidate, dataset, component) ==
  IF component \notin DOMAIN dataset.valuation THEN Unavailable("valuation_unavailable")
  ELSE Available(candidate.metrics[component].previous, dataset.valuation[component],
                 candidate.metrics[component].delta)

DeepMetrics(candidate, dataset) ==
  [name \in DeepMetricNames \cup {<<c>> : c \in Components} |->
     IF name[1] \in Components THEN ConfirmedValuation(candidate, dataset, name[1])
     ELSE IF dataset.status # "available" THEN Unavailable(dataset.status)
     ELSE DeepMetric(dataset.prices, name)]

(******************************************************************************)
(* Rules.                                                                     *)
(******************************************************************************)
DeepRule(metric, kind, operator, threshold, class) ==
  [metric |-> metric, kind |-> kind, operator |-> operator,
   threshold |-> threshold, class |-> class]

NumericRules ==
  { DeepRule(<<"max_drawdown", Long>>, "research_change", "abs_delta_gte", Places, 20),
    DeepRule(<<"volatility">>, "research_change", "abs_delta_gte", Places, 20),
    DeepRule(<<"return", Middle>>, "research_change", "abs_delta_gte", Places, 30),
    DeepRule(<<"return", Long>>, "research_change", "abs_current_gte", 10 * Places, 40),
    DeepRule(<<"ma_distance", Middle>>, "research_change", "abs_delta_gte", Places, 50),
    DeepRule(<<"volume_ratio">>, "research_change", "current_gte", 2 * Places, 60) }

QualityRule(state) == DeepRule(<<state>>, "data_quality", "status_equals", state, 10)

ValuationRule(component) ==
  DeepRule(<<component>>, "research_change", "stage1_transition_confirmed", NoNumber, 70)

QualityStates(dataset) ==
  (IF dataset.validation = "source_discrepancy" THEN {"source_discrepancy"} ELSE {})
    \cup (IF "market_date_mismatch" \in {dataset.status, dataset.validation}
          THEN {"market_date_mismatch"} ELSE {})

\* The first primary reason of Stage 1 about this component, in rule order.
Stage1Finding(candidate, component) ==
  {r \in Primary(candidate.reasons) : r.rule.metric = component}

First(reasons) ==
  CHOOSE r \in reasons : \A s \in reasons :
    (CHOOSE i \in DOMAIN Rules : Rules[i] = r.rule)
      =< (CHOOSE i \in DOMAIN Rules : Rules[i] = s.rule)

Confirmed(candidate, metric, component) ==
  LET finding == Stage1Finding(candidate, component)
  IN  /\ finding # {}
      /\ metric.status = "available"
      /\ First(finding).metric.current = metric.current

DeepReasons(candidate, dataset) ==
  LET metrics == DeepMetrics(candidate, dataset)
      Reason(rule, multiple) == [rule |-> rule, multiple |-> multiple]
  IN  {Reason(QualityRule(state), Places) : state \in QualityStates(dataset)}
        \cup {Reason(r, Quotient(Tested(r, metrics[r.metric]), r.threshold)) :
                r \in {x \in NumericRules : Matches(x, metrics[x.metric])}}
        \cup {Reason(ValuationRule(c), First(Stage1Finding(candidate, c)).multiple) :
                c \in {x \in Components : Confirmed(candidate, metrics[<<x>>], x)}}

OfKind(reasons, kind) == {r \in reasons : r.rule.kind = kind}

(******************************************************************************)
(* Candidates.                                                                *)
(******************************************************************************)
QualityStatus(dataset) ==
  IF dataset.status # "available" THEN "blocked"
  ELSE IF dataset.validation = "available" THEN "clean"
  ELSE "warning"

Researched(candidate, dataset) ==
  LET found == DeepReasons(candidate, dataset)
      quality == QualityStatus(dataset)
  IN  [candidate |-> candidate, reasons |-> found, quality |-> quality,
       kind |-> IF quality = "blocked" \/ OfKind(found, "data_quality") # {}
                THEN "data_quality_candidate" ELSE "research_candidate"]

\* failed_stage2_candidate: the read or the research raised.
Failed(candidate) ==
  [candidate |-> candidate, reasons |-> {}, quality |-> "failed",
   kind |-> "data_quality_candidate"]

QualityPriority(c) ==
  CASE c.quality = "failed" -> 0
    [] c.quality = "blocked" -> 1
    [] c.quality = "warning" -> IF c.kind = "data_quality_candidate" THEN 2 ELSE 4
    [] c.quality = "clean" -> 4

DeepPriorityKey(c) ==
  << QualityPriority(c),
     -Cardinality(OfKind(c.reasons, "research_change")),
     -Cardinality(Primary(c.candidate.reasons)),
     Least({r.rule.class : r \in c.reasons} \cup {999}),
     -Greatest({r.multiple : r \in c.reasons} \cup {0}),
     c.candidate.rank,
     c.candidate.symbol >>

\* finalize_stage2_result.
Ranked(candidates) ==
  LET Before(c, d) == Precedes(DeepPriorityKey(c), DeepPriorityKey(d))
  IN  Sorted(candidates, Before)
=============================================================================
