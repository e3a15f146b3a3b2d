------------------------------- MODULE Decisions -------------------------------
(******************************************************************************)
(* The decisions that app takes without any state of its own, put as          *)
(* questions: may a supplement be used, which date and which securities does  *)
(* a day have, what does a read show, what do the two stages of the screener  *)
(* find.  A behaviour asks one question; the invariants say what every answer *)
(* must be.                                                                   *)
(******************************************************************************)
EXTENDS SupplementalEligibility, MarketUniverse, TradingDay, ScreenerReads

CONSTANTS
  Supplements,  \* candidates of evaluate_supplemental
  Securities,   \* [evidence, stable, day]: a security on a market date
  Days,         \* [requested, latest]: a requested date and what is published
  Stores,       \* [stored, asOf]: the rows of a symbol in the database
  Versions,     \* dataset versions
  Windows,      \* numbers of observations a read asks for
  Histories,    \* sequences of prices, of HistoryObservations or more
  Screens       \* [limit, asOf, previous, then, later]: a scan, with the rows it
                \* finds by symbol when Stage 1 reads and when Stage 2 does

(* A scan is of a universe of symbols, whose rows may change but not vanish,  *)
(* with a positive candidate_limit.                                           *)
ScreenInput(screen) ==
  /\ screen.limit \in Nat \ {0} /\ screen.asOf \in Nat
  /\ screen.previous = NoValuation
       \/ screen.previous \in [Components -> Int \cup {NoNumber}]
  /\ DOMAIN screen.then \subseteq Int /\ IsFiniteSet(DOMAIN screen.then)
  /\ DOMAIN screen.later = DOMAIN screen.then
  /\ \A s \in DOMAIN screen.then : StoredRows(screen.then[s]) /\ StoredRows(screen.later[s])

(******************************************************************************)
(* The questions are asked of what the types of the code admit: candidates as *)
(* SupplementalCandidateInput holds them, dates, rows that do not disagree    *)
(* within a table (_index_records raises when they do), rows as the tables    *)
(* and contracts admit them, and enough positive closes.                      *)
(******************************************************************************)
ASSUME QuestionAssumption ==
  /\ \A c \in Supplements : CandidateInput(c)
  /\ \A d \in Days : d.requested \in Int /\ d.latest \in Int \cup {NoDate}
  /\ \A s \in Securities :
       /\ s.evidence \in Evidence /\ ~Conflicting(s.evidence)
       /\ s.stable \in Classifications /\ s.day \in Nat
  /\ NoDate \notin Int /\ NoName \notin {"A", "B"}
  /\ \A s \in Stores : StoredRows(s.stored) /\ s.asOf \in Nat
  /\ \A v \in Versions : IsVersion(v)
  /\ Windows \subseteq Nat \ {0}
  /\ \A prices \in Histories :
       /\ prices \in Seq([close : Nat \ {0}, volume : Nat])
       /\ Len(prices) >= HistoryObservations
  /\ \A screen \in Screens : ScreenInput(screen)

VARIABLE question   \* [kind, of] and what a scan has found, or NoQuestion

NoQuestion == [kind |-> "none"]

Ask(kind, inputs) ==
  /\ question = NoQuestion
  /\ \E of \in inputs : question' = [kind |-> kind, of |-> of]

AskSupplement == Ask("supplement", {c \in Supplements : ValidCandidate(c)})
AskSecurity == Ask("security", Securities)
AskDay == Ask("day", Days)
AskStore == Ask("store", Stores)
AskVersion == Ask("version", Versions)
AskHistory == Ask("history", Histories)
AskScreen == Ask("screen", Screens)

(******************************************************************************)
(* A scan: Stage 1 reads every symbol, Stage 2 the shortlist.                 *)
(******************************************************************************)
Scan ==
  /\ question.kind = "screen"
  /\ LET screen == question.of
         Read(s) == ScreeningRead(screen.then[s], screen.asOf)
     IN  /\ \A s \in DOMAIN screen.then : Translates(Read(s), screen.previous)
         /\ question' = [kind |-> "scanned", of |-> screen,
                         metrics |-> [s \in DOMAIN screen.then |->
                                        Metrics(SnapshotOf(Read(s), screen.previous))]]

Select ==
  /\ question.kind = "scanned"
  /\ LET found == [s \in DOMAIN question.metrics |-> Reasons(question.metrics[s])]
     IN  question' = [kind |-> "selected", of |-> question.of, metrics |-> question.metrics,
                      found |-> found, list |-> Shortlist(found, question.of.limit)]

Candidate(i) ==
  LET symbol == question.list[i]
  IN  [symbol |-> symbol, rank |-> i, reasons |-> question.found[symbol],
       metrics |-> question.metrics[symbol]]

Research ==
  /\ question.kind = "selected"
  /\ LET drafts == {Draft(Candidate(i), question.of.later[question.list[i]], question.of.asOf) :
                       i \in DOMAIN question.list}
     IN  question' = [kind |-> "researched", of |-> question.of, found |-> question.found,
                      list |-> question.list, drafts |-> drafts]

Rank ==
  /\ question.kind = "researched"
  /\ question' = [kind |-> "ranked", of |-> question.of, found |-> question.found,
                  list |-> question.list, ranked |-> Ranked(question.drafts)]

Init == question = NoQuestion

Next ==
  \/ AskSupplement \/ AskSecurity \/ AskDay \/ AskStore
  \/ AskVersion \/ AskHistory \/ AskScreen
  \/ Scan \/ Select \/ Research \/ Rank

Spec == Init /\ [][Next]_question

(******************************************************************************)
(* DecidesSafely, of every candidate that SupplementalCandidateInput accepts: *)
(* evaluate_supplemental uses E.SUN rows exactly when the five conditions of  *)
(* docs/dual-source-resilience.md hold, whatever the order of its tests.      *)
(******************************************************************************)
EligibleExactlyWhenSafe == question.kind = "supplement" => DecidesSafely(question.of)

(******************************************************************************)
(* A security is scanned exactly when the official list names it, under the   *)
(* name all tables give it and from a date not in the future, it was traded   *)
(* and valued that day, and it is no fund or receipt.                         *)
(******************************************************************************)
ScannedExactlyWhenListed(s) ==
  LET e == s.evidence
  IN  DayStatus(e, s.stable, s.day) = "eligible" <=>
        /\ e.identity # {} /\ e.valuation # {}
        /\ \E r \in e.trading : r.priced
        /\ \A r \in e.identity : r.listed =< s.day
        /\ \A r, t \in e.identity \cup e.trading \cup e.valuation : r.name = t.name
        /\ s.stable \notin {"etf", "tdr"}

(* A universe taken over by a later day reads the same evidence the same way. *)
CarriedOver(s) ==
  LET class == DayClass(s.evidence, s.stable)
      status == DayStatus(s.evidence, s.stable, s.day)
  IN  Enumerated(s.evidence, class) /\ status # "unresolved" =>
        DayStatus(s.evidence, StableClass(status, class), s.day) = status

(* A requested date resolves to a published date that is not before it; a     *)
(* weekend never resolves, and never asks the exchange.                       *)
ResolvesPublished(d) ==
  LET r == ResolveTradingDay(d.requested, d.latest)
  IN  /\ (r.status = "resolved") <=> (r.resolved # NoDate)
      /\ r.resolved # NoDate => r.resolved = d.latest /\ r.resolved >= d.requested
      /\ ~r.asked <=> d.requested \in Weekend
      /\ d.requested \in Weekend => r.resolved = NoDate

(******************************************************************************)
(* The date and the securities of a day: ResolvesPublished of                 *)
(* resolve_trading_day, ScannedExactlyWhenListed and CarriedOver of           *)
(* _acquire_universe and build_market_universe.                               *)
(******************************************************************************)
DayDecided ==
  /\ question.kind = "day" => ResolvesPublished(question.of)
  /\ question.kind = "security" =>
       ScannedExactlyWhenListed(question.of) /\ CarriedOver(question.of)

(* No read shows a later date, a shorter read is the tail of a longer one,    *)
(* and the number of observations asked for never decides whether it fails.   *)
StoreReadsAgree(s) ==
  LET Read(n) == BaselineRead(s.stored, [asOf |-> s.asOf, history |-> n])
      whole == Read(All)
  IN  \A n \in Windows :
        /\ Read(n).refused <=> whole.refused
        /\ ~whole.refused =>
             /\ DOMAIN Read(n).history.prices = Latest(DOMAIN whole.history.prices, n)
             /\ \A d \in DOMAIN whole.history.prices : d =< s.asOf
             /\ Read(n).history.status = whole.history.status
             /\ Read(n).history.status = "available" <=> s.asOf \in DOMAIN s.stored.prices
             /\ Read(n).valuation = whole.valuation
             /\ \A name \in DOMAIN whole.valuation : whole.valuation[name].date =< s.asOf
             /\ Read(n).validation = whole.validation

(* A version can be read when every supplement it holds is among the rows     *)
(* asked for, and some canonical row is selected; then the read is its tail.  *)
VersionReadsAgree(v) ==
  \A n \in Windows :
    LET read == VersionRead(v, [asOf |-> v.asOf, history |-> n])
        tail == Latest(DOMAIN v.prices, n)
    IN  /\ ~read.refused <=>
             InRole(v.prices, "supplemental") \subseteq tail /\ InRole(v.prices, "canonical") # {}
        /\ ~read.refused => DOMAIN read.history.prices = tail

(* HistoryObservations prices are enough for every metric of Stage 1, fewer   *)
(* are not, and earlier prices change nothing.                                *)
Suffices(prices) ==
  LET n == HistoryObservations
      tail == SubSeq(prices, Len(prices) - n + 1, Len(prices))
      Short1(p) == \E m \in PriceMetrics : PriceMetric(p, m).status = "insufficient_history"
  IN  /\ ~Short1(tail) /\ Short1(Tail(tail))
      /\ \A m \in PriceMetrics : PriceMetric(prices, m) = PriceMetric(tail, m)

(* Stage 2 finds a number for every rule in its own history. *)
DeepSuffices(prices) ==
  Len(prices) >= DeepObservations =>
    \A r \in NumericRules \ {x \in NumericRules : x.metric = <<"volume_ratio">>} :
      Tested(r, DeepMetric(prices, r.metric)) # NoNumber

(* Where both stages measure a return or a distance over the same window they *)
(* find the same.                                                             *)
StagesMeasureAlike(prices) ==
  /\ ReturnWindow = Short =>
       ReturnChange(prices).current = DeepMetric(prices, <<"return", Short>>).current
  /\ MaWindow = Short =>
       MaDistanceChange(prices).current = DeepMetric(prices, <<"ma_distance", Short>>).current

(* Every symbol of the shortlist is ranked, the ones whose data is in doubt   *)
(* first, and none cut from it has more triggers than one on it; a symbol     *)
(* whose price triggered has its price in Stage 2; and when no row changed in *)
(* between, Stage 2 repeats exactly the changes of valuation that Stage 1 saw *)
(* and that left a value.                                                     *)
RankingHolds(q) ==
  LET listed == {q.list[i] : i \in DOMAIN q.list}
      results == {q.ranked[i] : i \in DOMAIN q.ranked}
      Unchanged(symbol) == q.of.then[symbol] = q.of.later[symbol]
  IN  /\ {r.candidate.symbol : r \in results} = listed /\ Len(q.ranked) = Len(q.list)
      /\ \A i, j \in DOMAIN q.ranked :
           /\ q.ranked[i].kind = "data_quality_candidate"
           /\ q.ranked[j].kind = "research_candidate"
           => i < j
      /\ \A s \in DOMAIN q.found \ listed, t \in listed :
           Cardinality(Primary(q.found[s])) =< Cardinality(Primary(q.found[t]))
      /\ \A r \in {x \in results : Unchanged(x.candidate.symbol)} :
           /\ r.quality # "failed"
           /\ (\E f \in Primary(r.candidate.reasons) : f.rule.metric \in PriceMetrics)
                => r.quality # "blocked"
           /\ \A c \in Components :
                LET seen == Stage1Finding(r.candidate, c)
                IN  (\E f \in r.reasons : f.rule = ValuationRule(c)) <=>
                      \E f \in seen : f.metric.current # NoNumber

(******************************************************************************)
(* What the screener reads and finds: StoreReadsAgree and VersionReadsAgree   *)
(* of the research datasets; Suffices, DeepSuffices and StagesMeasureAlike of *)
(* the metrics of stage1.py, stage2.py and HistoricalResearchAnalyzer;        *)
(* RankingHolds of the two priority orders.                                   *)
(******************************************************************************)
ScreenSound ==
  /\ question.kind = "store" => StoreReadsAgree(question.of)
  /\ question.kind = "version" => VersionReadsAgree(question.of)
  /\ question.kind = "history" =>
       Suffices(question.of) /\ DeepSuffices(question.of) /\ StagesMeasureAlike(question.of)
  /\ question.kind = "ranked" => RankingHolds(question)
=============================================================================
