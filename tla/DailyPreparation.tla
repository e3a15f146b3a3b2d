-------------------------- MODULE DailyPreparation --------------------------
(***************************************************************************)
(* Preparation of a market date for the screener: ProductionDailyData-     *)
(* Preparer.prepare of app/deployment/daily_preparation.py, called by      *)
(* processes that overlap and die anywhere, while the exchange publishes   *)
(* and amends its tables and other pipelines write the same symbols.       *)
(*                                                                         *)
(* The date's universe is a file, written once; a preparation that finds   *)
(* it adopts it if every eligible symbol can be read, or else has to get   *)
(* the same universe again from the exchange.  Then each eligible symbol   *)
(* needs a successful pipeline run of the exchange for the date.           *)
(*                                                                         *)
(* A price is known by the issue of the tables it was taken from.  Left    *)
(* out: the claim and the completion of a pipeline run below the level of  *)
(* its transactions (PipelineRun), the months of a history                 *)
(* (HistoricalSync), temporary files, and retries inside one request.      *)
(***************************************************************************)
EXTENDS MarketUniverse, Sequences

CONSTANTS
    Symbols,        \* securities the tables can name, numbers in symbol order
    Days,           \* market dates, consecutive numbers
    Targets,        \* the dates that are prepared
    ClosedDays,     \* weekends, and dates given as non-market dates
    Issues,         \* evidence on every symbol, one function per issue of the tables
    BaseClass,      \* stable class of every symbol in the configured base universe
    Others,         \* symbols that the daily batch works on too
    Processes       \* the processes that prepare

ASSUME PreparationAssumption ==
    /\ Symbols \subseteq Nat /\ Days \subseteq Nat /\ Targets \cup ClosedDays \subseteq Days
    /\ \E first \in Days : \A d \in Days : first =< d
    /\ Others \subseteq Symbols
    /\ Issues \in Seq([Symbols -> Evidence]) /\ Issues # << >>

VARIABLES
    exchange,       \* dates of the two daily tables, and the issue on line
    file,           \* the universe file of each target date
    universes,      \* market_universe_runs: the universes persisted
    prun,           \* pipeline_runs of each target date and symbol
    batch,          \* target dates and symbols the daily batch is working on
    price,          \* daily_prices row and newest history of each date and symbol
    worker          \* where each process is, and its locals

preparationVars == <<exchange, file, universes, prun, batch, price, worker>>

Issue == DOMAIN Issues

(* A universe is told apart by the dates of its two daily tables and the   *)
(* issues it was taken from: one for the trading table, read first, and    *)
(* one for the others.                                                     *)
Snapshot == [trading : Days, valuation : Days, traded : Issue, issue : Issue]
NoSnapshot == <<>>

EvidenceOf(snapshot) ==
    [s \in Symbols |-> [Issues[snapshot.issue][s] EXCEPT
                            !.trading = Issues[snapshot.traded][s].trading]]

Run == [status : {"none", "running", "success", "failed"}, provider : {"twse", "esun"}]

(* daily: the issue of the exchange's row in daily_prices; history: of the *)
(* row in the newest history; 0 is no row of the exchange.                 *)
Price == [daily : Issue \cup {0}, history : Issue \cup {0}]

Stages == {"off", "locking", "opening", "acquiring", "valuing", "filing", "persisting", "stocking",
           "fetching", "checking", "screening", "reporting", "json", "markdown", "releasing"}

At(w, stage) == worker[w].at = stage

DayOf(w) == worker[w].day

Goto(w, stage) == worker' = [worker EXCEPT ![w].at = stage]

Eligible(snapshot) == EligibleOf(EvidenceOf(snapshot), BaseClass, snapshot.trading)

----------------------------------------------------------------------------

(* What the screener's dataset reads of a symbol on a date: the daily row  *)
(* and the history merged, which raises where they disagree.               *)
PricesRead(d, s) == {price[d][s].daily, price[d][s].history} \ {0}

Readable(d, s) == Cardinality(PricesRead(d, s)) = 1

(* _readiness: every eligible symbol can be read up to the date. *)
Ready(d, snapshot) == \A s \in Eligible(snapshot) : Readable(d, s)

(* prepare, up to the first request. *)
Open(w) ==
    LET d == DayOf(w)
    IN /\ At(w, "opening")
       /\ worker' = [worker EXCEPT
            ![w].at = IF file[d] # NoSnapshot /\ Ready(d, file[d]) THEN "persisting"
                      ELSE "acquiring",
            ![w].adopts = file[d] # NoSnapshot /\ Ready(d, file[d]),
            ![w].seen = file[d],
            ![w].snapshot = file[d]]
       /\ UNCHANGED <<exchange, file, universes, prun, batch, price>>

(* The trading table is requested first.                                   *)
AcquireTrading(w) ==
    /\ At(w, "acquiring")
    /\ worker' = [worker EXCEPT ![w].at = "valuing",
            ![w].snapshot = [trading |-> exchange.trading, valuation |-> exchange.valuation,
                             traded |-> exchange.issue, issue |-> exchange.issue]]
    /\ UNCHANGED <<exchange, file, universes, prun, batch, price>>

(* Then the valuation table and the lists, which may be of a later issue.  *)
Acquired(w) ==
    [worker[w].snapshot EXCEPT !.valuation = exchange.valuation, !.issue = exchange.issue]

(* Mutant: only the date of the trading table is compared. *)
TradingDated(snapshot, d) == snapshot.trading = d

(* Both daily tables are of the target date. *)
TablesDated(snapshot, d) == snapshot.trading = d /\ snapshot.valuation = d

(* The universe is taken unless a security of it is unresolved, or an      *)
(* earlier attempt filed another one.                                      *)
Acquire(w) ==
    /\ At(w, "valuing")
    /\ TablesDated(Acquired(w), DayOf(w))
    /\ Usable(EvidenceOf(Acquired(w)), BaseClass, DayOf(w))
    /\ worker[w].seen \in {NoSnapshot, Acquired(w)}
    /\ worker' = [worker EXCEPT ![w].at = "filing", ![w].snapshot = Acquired(w)]
    /\ UNCHANGED <<exchange, file, universes, prun, batch, price>>

(* _persist_snapshot_file. *)
FileUniverse(w) ==
    /\ At(w, "filing")
    /\ file[DayOf(w)] \in {NoSnapshot, worker[w].snapshot}
    /\ file' = [file EXCEPT ![DayOf(w)] = worker[w].snapshot]
    /\ Goto(w, "persisting")
    /\ UNCHANGED <<exchange, universes, prun, batch, price>>

(* SQLiteMarketUniverseRepository.persist. *)
PersistUniverse(w) ==
    /\ At(w, "persisting")
    /\ universes' = universes \cup {worker[w].snapshot}
    /\ Goto(w, IF worker[w].adopts THEN "screening" ELSE "stocking")
    /\ UNCHANGED <<exchange, file, prun, batch, price>>

----------------------------------------------------------------------------

Owned(w) == prun[DayOf(w)][worker[w].symbol]

Pending(w) == Eligible(worker[w].snapshot) \ worker[w].done

(* The loop of _prepare_stage1_inputs, in symbol order: a success of the   *)
(* exchange is replayed, and any other run of the exchange is claimed,     *)
(* even from a process that is working on it.                              *)
Replay(w, s) ==
    /\ prun[DayOf(w)][s] = [status |-> "success", provider |-> "twse"]
    /\ worker' = [worker EXCEPT ![w].done = @ \cup {s}]
    /\ UNCHANGED prun

(* Mutant: the loop goes on with the symbol of an earlier round. *)
ClaimNameless(w, s) ==
    /\ prun[DayOf(w)][s].status # "success"
    /\ prun[DayOf(w)][s].status # "none" => prun[DayOf(w)][s].provider = "twse"
    /\ prun' = [prun EXCEPT ![DayOf(w)][s] = [status |-> "running", provider |-> "twse"]]
    /\ Goto(w, "fetching")

Claim(w, s) ==
    /\ prun[DayOf(w)][s].status # "success"
    /\ prun[DayOf(w)][s].status # "none" => prun[DayOf(w)][s].provider = "twse"
    /\ prun' = [prun EXCEPT ![DayOf(w)][s] = [status |-> "running", provider |-> "twse"]]
    /\ worker' = [worker EXCEPT ![w].at = "fetching", ![w].symbol = s]

Stock(w) ==
    /\ At(w, "stocking")
    /\ \E s \in Pending(w) :
        /\ \A t \in Pending(w) : s =< t
        /\ Replay(w, s) \/ Claim(w, s)
    /\ UNCHANGED <<exchange, file, universes, batch, price>>

StockEnd(w) ==
    /\ At(w, "stocking") /\ Pending(w) = {}
    /\ Goto(w, "checking")
    /\ UNCHANGED <<exchange, file, universes, prun, batch, price>>

(* The exchange answers for a symbol that both tables name and that traded. *)
Answers(d, s) ==
    /\ exchange.trading = d /\ exchange.valuation = d
    /\ Scannable(Issues[exchange.issue][s])

(* Prices, note and status in one transaction, if the run still runs. *)
StoreSymbol(w) ==
    LET d == DayOf(w)
        s == worker[w].symbol
    IN /\ At(w, "fetching")
       /\ Answers(d, s) /\ Owned(w).status = "running"
       /\ prun' = [prun EXCEPT ![d][s].status = "success"]
       /\ price' = [price EXCEPT ![d][s].daily = exchange.issue]
       /\ worker' = [worker EXCEPT ![w].at = "stocking", ![w].done = @ \cup {s},
                                   ![w].symbol = 0]
       /\ UNCHANGED <<exchange, file, universes, batch>>

(* The request fails, or the run is no longer running. *)
LoseSymbol(w) ==
    /\ At(w, "fetching")
    /\ prun' = IF Owned(w).status = "running"
               THEN [prun EXCEPT ![DayOf(w)][worker[w].symbol].status = "failed"]
               ELSE prun
    /\ Goto(w, "releasing")
    /\ UNCHANGED <<exchange, file, universes, batch, price>>

Check(w) ==
    /\ At(w, "checking")
    /\ Ready(DayOf(w), worker[w].snapshot)
    /\ Goto(w, "screening")
    /\ UNCHANGED <<exchange, file, universes, prun, batch, price>>

(* Any of these steps raises: a request or a write fails, a guard refuses. *)
GiveUp(w) ==
    /\ worker[w].at \in {"opening", "acquiring", "valuing", "filing", "persisting",
                         "stocking", "checking", "screening", "reporting", "json", "markdown"}
    /\ Goto(w, "releasing")
    /\ UNCHANGED <<exchange, file, universes, prun, batch, price>>

Prepare(w) ==
    \/ Open(w) \/ AcquireTrading(w) \/ Acquire(w) \/ FileUniverse(w) \/ PersistUniverse(w)
    \/ Stock(w) \/ StockEnd(w) \/ StoreSymbol(w) \/ LoseSymbol(w) \/ Check(w) \/ GiveUp(w)

----------------------------------------------------------------------------

(* The exchange: the trading table of the next date comes first, then the  *)
(* valuation table; both can be amended at any time.                       *)
PublishTrading ==
    /\ exchange.trading + 1 \in Days \ ClosedDays /\ exchange.valuation = exchange.trading
    /\ exchange' = [exchange EXCEPT !.trading = @ + 1]

PublishValuation ==
    /\ exchange.valuation # exchange.trading
    /\ exchange' = [exchange EXCEPT !.valuation = exchange.trading]

Amend ==
    /\ exchange.issue + 1 \in Issue
    /\ exchange' = [exchange EXCEPT !.issue = @ + 1]

Publish ==
    /\ PublishTrading \/ PublishValuation \/ Amend
    /\ UNCHANGED <<file, universes, prun, batch, price, worker>>

(* The daily batch runs a symbol for the date with its own provider. *)
BatchStart(d, s, provider) ==
    /\ <<d, s>> \notin batch
    /\ \/ prun[d][s].status = "none"
       \/ prun[d][s] = [status |-> "failed", provider |-> provider]
    /\ prun' = [prun EXCEPT ![d][s] = [status |-> "running", provider |-> provider]]
    /\ batch' = batch \cup {<<d, s>>}
    /\ UNCHANGED price

(* A row of the other provider hides the exchange's from the screener. *)
BatchStore(d, s) ==
    /\ <<d, s>> \in batch
    /\ prun[d][s].status = "running"
    /\ prun[d][s].provider = "twse" => Answers(d, s)
    /\ prun' = [prun EXCEPT ![d][s].status = "success"]
    /\ price' = [price EXCEPT ![d][s].daily =
                    IF prun[d][s].provider = "twse" THEN exchange.issue ELSE 0]
    /\ batch' = batch \ {<<d, s>>}

BatchLose(d, s) ==
    /\ <<d, s>> \in batch
    /\ prun' = IF prun[d][s].status = "running"
               THEN [prun EXCEPT ![d][s].status = "failed"] ELSE prun
    /\ batch' = batch \ {<<d, s>>}
    /\ UNCHANGED price

BatchDie(d, s) ==
    /\ <<d, s>> \in batch
    /\ batch' = batch \ {<<d, s>>}
    /\ UNCHANGED <<prun, price>>

(* A history of the symbol is synchronized up to the date: it writes the   *)
(* daily row too.                                                          *)
History(d, s) ==
    /\ price[d][s].history = 0 /\ exchange.trading >= d
    /\ price' = [price EXCEPT ![d][s] = [daily |-> exchange.issue,
                                         history |-> exchange.issue]]
    /\ UNCHANGED <<prun, batch>>

Elsewhere ==
    /\ \E d \in Targets \ ClosedDays, s \in Others :
        \/ \E provider \in {"twse", "esun"} : BatchStart(d, s, provider)
        \/ BatchStore(d, s) \/ BatchLose(d, s) \/ BatchDie(d, s) \/ History(d, s)
    /\ UNCHANGED <<exchange, file, universes, worker>>

PreparationInit ==
    /\ exchange = [trading |-> CHOOSE d \in Days : \A e \in Days : d =< e,
                   valuation |-> CHOOSE d \in Days : \A e \in Days : d =< e, issue |-> 1]
    /\ file = [d \in Targets |-> NoSnapshot]
    /\ universes = {}
    /\ prun = [d \in Targets |-> [s \in Symbols |-> [status |-> "none",
                                                     provider |-> "twse"]]]
    /\ batch = {}
    /\ price = [d \in Targets |-> [s \in Symbols |-> [daily |-> 0, history |-> 0]]]
=============================================================================
