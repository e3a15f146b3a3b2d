---------------------------- MODULE HistoricalSync -----------------------------
(******************************************************************************)
(* The resumable month-by-month download of one stock's price history:        *)
(* src/app/pipelines/historical_sync.py over src/app/storage/history.py.      *)
(*                                                                            *)
(* A contract (source, target date) has one row of historical_sync_runs; the  *)
(* download walks back from the month of the target, one month per provider   *)
(* call, and each month is a transaction of its own: source rows, the hash of *)
(* the artifact, for TWSE the canonical prices, and the cursor.  Workers are  *)
(* processes over the same database; a worker may die between two steps.      *)
(*                                                                            *)
(* Days are numbered from 1, DaysPerMonth to a month; the OHLCV of a day is   *)
(* one price.  The transactions of storage/history.py read before they write, *)
(* but their last UPDATE is conditional, so each is one step.  Left out: the  *)
(* symbol (one), timestamps, endpoints, the retries within one provider call  *)
(* (RetryPolicy), the text of the note, and what the daily pipeline writes to *)
(* the canonical prices.                                                      *)
(******************************************************************************)
EXTENDS Integers, FiniteSets

CONSTANTS
  Workers,        \* processes that run the pipeline
  Targets,        \* the target dates of the contracts, days
  DaysPerMonth,
  Listed,         \* the first day the stock trades
  TwsePrices,     \* the prices TWSE may report
  EsunPrices,     \* the prices E.SUN may report
  Legacy,         \* the contracts that may have a row of the schema before 0006
  Needed,         \* target_observations
  MaxMonths,      \* max_months
  MaxStarts       \* bound: how often one row is started

ASSUME HistoryAssumption ==
  /\ DaysPerMonth \in Nat \ {0} /\ Listed \in Nat \ {0}
  /\ Targets \subseteq Nat \ {0} /\ IsFiniteSet(Targets)
  /\ Needed \in Nat \ {0} /\ MaxMonths \in Nat \ {0} /\ MaxStarts \in Nat

VARIABLES
  history,        \* historical_sync_runs with its observations and artifacts
  canonical,      \* daily_prices: the days with a price, and the price
  job             \* the call of HistoricalSyncPipeline.run in each worker

historyVars == <<history, canonical, job>>

Sources == {"twse", "esun"}
Contracts == [source : Sources, target : Targets]
MonthOf(day) == (day - 1) \div DaysPerMonth
DayPrices == [day : Nat, price : TwsePrices \cup EsunPrices]

NoRow(c) ==
  [status |-> "none", cursor |-> MonthOf(c.target), months |-> 0, count |-> 0,
   rows |-> {}, evidence |-> {}, error |-> "none", notes |-> 0, starts |-> 0]

\* A row of the schema before 0006: its cursor moved, its observations are not kept.
LegacyRow(c) ==
  [NoRow(c) EXCEPT !.status = "failed", !.error = "other",
                   !.cursor = MonthOf(c.target) - 1, !.months = 1]

NoJob ==
  [at |-> "idle", of |-> [source |-> "twse", target |-> 0], resume |-> "none",
   cursor |-> 0, months |-> 0, count |-> 0, batch |-> {}, error |-> "none"]

Init ==
  /\ \E old \in SUBSET (Legacy \cap Contracts) :
       history = [c \in Contracts |-> IF c \in old THEN LegacyRow(c) ELSE NoRow(c)]
  /\ canonical = {}
  /\ job = [w \in Workers |-> NoJob]

At(j, place, why) == [NoJob EXCEPT !.of = j.of, !.at = place, !.error = why]
Returned(j) == At(j, "returned", "none")
Raised(j, why) == At(j, "raised", why)
Failing(j, why) == At(j, "fail", why)

(******************************************************************************)
(* run: get_or_create inserts the row before the resume id is compared with   *)
(* it, so a call that is refused for its id leaves the row behind.            *)
(******************************************************************************)
Call(w, c, resume) ==
  LET start == [NoJob EXCEPT !.of = c, !.resume = resume]
  IN  /\ job[w].at = "idle"
      /\ resume = "this" => history[c].status # "none"
      /\ history' = [history EXCEPT ![c].status = IF @ = "none" THEN "pending" ELSE @]
      /\ job' = [job EXCEPT ![w] =
                   IF resume = "other" THEN Raised(start, "conflict")
                   ELSE IF history[c].status = "success" THEN Returned(start)
                   ELSE [start EXCEPT !.at = "claim"]]
      /\ UNCHANGED canonical

(******************************************************************************)
(* The head of the loop, on the worker's own copy of the row.                 *)
(******************************************************************************)
LoopHead(j, row) ==
  LET copy == [j EXCEPT !.cursor = row.cursor, !.months = row.months,
                        !.count = row.count, !.batch = {}]
  IN  IF row.count >= Needed THEN [copy EXCEPT !.at = "finish"]
      ELSE IF row.months >= MaxMonths THEN Failing(copy, "other")
      ELSE [copy EXCEPT !.at = "fetch"]

Started(row) ==
  [row EXCEPT !.status = "running", !.error = "none", !.starts = @ + 1,
              !.count = Cardinality(row.rows)]

\* A cursor that moved, and neither rows nor artifacts of every month it passed.
Unproved(row) ==
  row.rows = {} /\ row.months > 0 /\ Cardinality(row.evidence) < row.months

Claim(w) ==
  LET j == job[w]
      row == history[j.of]
  IN  /\ j.at = "claim"
      /\ UNCHANGED canonical
      /\ \/ /\ \/ row.status = "success"
               \/ row.status = "running" /\ j.resume # "this"
               \/ Unproved(row)
            /\ job' = [job EXCEPT ![w] =
                         Raised(j, IF row.status = "running" THEN "in_progress" ELSE "state")]
            /\ UNCHANGED history
         \/ /\ row.status \in {"pending", "failed"} \/ (row.status = "running" /\ j.resume = "this")
            /\ ~Unproved(row) /\ row.starts < MaxStarts
            /\ history' = [history EXCEPT ![j.of] = Started(row)]
            /\ job' = [job EXCEPT ![w] = LoopHead(j, Started(row))]

(******************************************************************************)
(* One provider call: rows of the month, up to the target; any failure; and   *)
(* of TWSE "no usable data", the best a month before the listing can get.  A  *)
(* month of rows without prices is one of the other failures: the provider    *)
(* and the normalizer refuse it before there is anything to store.            *)
(******************************************************************************)
TradedIn(month, target) ==
  {day \in Listed .. target : MonthOf(day) = month}

PricesOf(source) == IF source = "twse" THEN TwsePrices ELSE EsunPrices

Batches(c, month) ==
  {{[day |-> d, price |-> p] : d \in days} :
     days \in (SUBSET TradedIn(month, c.target)) \ {{}}, p \in PricesOf(c.source)}

Fetch(w) ==
  LET j == job[w]
  IN  /\ j.at = "fetch"
      /\ \/ \E batch \in Batches(j.of, j.cursor) :
              job' = [job EXCEPT ![w] = [j EXCEPT !.at = "checkpoint", !.batch = batch]]
         \/ \E why \in IF j.of.source = "twse" THEN {"no_usable_data", "other"} ELSE {"other"} :
              job' = [job EXCEPT ![w] = Failing(j, why)]
      /\ UNCHANGED <<history, canonical>>

(******************************************************************************)
(* checkpoint_month: the rows, the artifact, the canonical prices (never of   *)
(* E.SUN) and the cursor, if the run still runs at the month downloaded.      *)
(******************************************************************************)
Upsert(prices, batch) ==
  {x \in prices : \A y \in batch : y.day # x.day} \cup batch

(* Mutant: the checkpoint does not compare the month with the durable cursor. *)
MatchesCursorAnyway(row, j) == row.status = "running"

MatchesCursor(row, j) == row.status = "running" /\ row.cursor = j.cursor

Advanced(row, batch, month) ==
  [row EXCEPT !.rows = @ \cup batch, !.evidence = @ \cup {month}, !.cursor = month - 1,
              !.months = @ + 1, !.count = Cardinality(row.rows \cup batch)]

CheckpointMonth(w) ==
  LET j == job[w]
      row == history[j.of]
      next == Advanced(row, j.batch, j.cursor)
  IN  /\ j.at = "checkpoint"
      /\ IF MatchesCursor(row, j)
         THEN /\ history' = [history EXCEPT ![j.of] = next]
              /\ canonical' = IF j.of.source = "twse" THEN Upsert(canonical, j.batch)
                              ELSE canonical
              /\ job' = [job EXCEPT ![w] = LoopHead(j, next)]
         ELSE /\ job' = [job EXCEPT ![w] = Failing(j, "state")]
              /\ UNCHANGED <<history, canonical>>

(******************************************************************************)
(* The completion unit: enough stored rows, one note, the success of a run    *)
(* that still runs.                                                           *)
(******************************************************************************)
MayComplete(row) == row.status = "running" /\ Cardinality(row.rows) >= Needed

Finish(w) ==
  LET j == job[w]
      row == history[j.of]
  IN  /\ j.at = "finish"
      /\ IF MayComplete(row)
         THEN /\ history' = [history EXCEPT ![j.of] =
                   [row EXCEPT !.status = "success", !.notes = @ + 1, !.count = Needed]]
              /\ job' = [job EXCEPT ![w] = Returned(j)]
         ELSE /\ job' = [job EXCEPT ![w] = Failing(j, "state")]
              /\ UNCHANGED history
      /\ UNCHANGED canonical

FailsRun(row) == row.status = "running"

\* mark_failed; its own refusal replaces the error it was to record.
MarkFailed(w) ==
  LET j == job[w]
      row == history[j.of]
  IN  /\ j.at = "fail"
      /\ IF FailsRun(row)
         THEN /\ history' = [history EXCEPT ![j.of] =
                               [row EXCEPT !.status = "failed", !.error = j.error]]
              /\ job' = [job EXCEPT ![w] = Raised(j, j.error)]
         ELSE /\ job' = [job EXCEPT ![w] = Raised(j, "state")]
              /\ UNCHANGED history
      /\ UNCHANGED canonical

\* The caller takes the result.
Return(w) ==
  /\ job[w].at \in {"returned", "raised"}
  /\ job' = [job EXCEPT ![w] = NoJob]
  /\ UNCHANGED <<history, canonical>>

\* The process dies: the rows stay as the last transaction left them.
Die(w) ==
  /\ job[w].at # "idle"
  /\ job' = [job EXCEPT ![w] = NoJob]
  /\ UNCHANGED <<history, canonical>>

Step(w) == Claim(w) \/ Fetch(w) \/ CheckpointMonth(w) \/ Finish(w) \/ MarkFailed(w)

Next ==
  \E w \in Workers :
    \/ \E c \in Contracts, resume \in {"none", "this", "other"} : Call(w, c, resume)
    \/ Step(w) \/ Return(w) \/ Die(w)

Spec == Init /\ [][Next]_historyVars

(******************************************************************************)
(* What a stored history is worth.                                            *)
(******************************************************************************)
\* The months passed are those from the target back to the cursor.
Contiguous(c, row) ==
  row.evidence # {} =>
    /\ row.evidence = row.cursor + 1 .. MonthOf(c.target)
    /\ row.months = Cardinality(row.evidence)

\* Every row is of a month passed, and what is stored of a month passed is one
\* download of it, whole: or nothing, for storage/history.py allows a month of which
\* TWSE has only rows without prices.
RowsOfContract(c, row) ==
  /\ \A x \in row.rows : MonthOf(x.day) \in row.evidence
  /\ \A month \in row.evidence :
       {x \in row.rows : MonthOf(x.day) = month} \in Batches(c, month) \cup {{}}

CompleteWhenSuccessful(row) ==
  IF row.status = "success" THEN Cardinality(row.rows) >= Needed /\ row.notes = 1
  ELSE row.notes = 0

\* Every row is whole, and daily_prices repeats TWSE rows, never an E.SUN one:
\* checkpoint_month and the completion unit are atomic and conditional, so neither
\* a death between two months nor two workers on one run leaves a gap behind the
\* cursor, a month put together of two downloads, a day of a wrong month, a success
\* that is short, or a second note.
HistoryIsWhole ==
  /\ \A c \in Contracts :
       /\ Contiguous(c, history[c]) /\ RowsOfContract(c, history[c])
       /\ CompleteWhenSuccessful(history[c])
  /\ \A x \in canonical : \E c \in Contracts : c.source = "twse" /\ x \in history[c].rows
  /\ \A x, y \in canonical : x.day = y.day => x = y

\* A successful row never changes again: no call restarts it, and no failure of a
\* worker that lost it to another reaches it.
SuccessfulHistoryStands ==
  \A c \in Contracts : history[c].status = "success" => history'[c] = history[c]
=============================================================================
