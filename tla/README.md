# Verification of the investment research assistant

TLA+ models of the program under `src/`, checked with TLC, and theorems about
them, proved with TLAPS. The program downloads end-of-day data of the Taiwan
exchange, researches a watchlist of symbols each day, and records everything in
one SQLite database. No server runs: processes are started by the Windows task
scheduler or by hand, several may run at once, and any of them may die. What can
go wrong is therefore almost always about rows of the database: who writes which
row, in which transaction, after having read what.

## The system

| # | Part | State it keeps | Operations | Properties that make it correct |
|---|------|----------------|------------|---------------------------------|
| 1 | Operations repository, `app/storage/operations.py`, migration 0009 | invocations, leases | create, start, finish an invocation; acquire, renew, release a lease | one active lease per key, takeover only after expiry, closed leases never change |
| 2 | EOD scheduler, `app/operations/scheduler.py` | locals of a process; the batch child | `run_once`: lease, wait for data, CLI, reports, verdict | exclusion while leases last, one batch per date, verdict before release, every run ends |
| 3 | Daily batch, `app/storage/batch_run.py`, `app/pipelines/batch_runner.py`, migration 0007 | watchlists, revisions, batches, symbol runs | run, resume, replay; start, finish a batch; start, succeed, fail a symbol | truthful batch status, succeeded symbols not run again, frozen revision |
| 4 | Pipeline run, `app/storage/sqlite.py`, `app/pipelines/daily_research.py`, migration 0002 | pipeline runs, notes, prices | open, claim, complete, fail | success final and published once, exclusive claims |
| 5 | Trading day, calendar, retry policy | none | pure functions | resolution agrees with the evidence; bounded retries |
| 6 | Historical sync and validation, cross validation | runs with a checkpoint per month | claim, checkpoint, finish, fail | resumes where it stopped, success final |
| 7 | Daily reports, `app/storage/daily_report.py`, `app/reports/` | reports of a batch | generate, replay | a report is final; one per symbol and template |
| 8 | Screener, `app/screener/`, `app/storage/candidate_persistence.py`, `screener_replay.py`, `universe_persistence.py` | universe, screener runs, candidate checkpoints | create run, persist candidate, retry, finalize, replay | final run immutable, run status agrees with its candidates |
| 9 | S6B daily runner and report artifacts, `app/daily_runner.py`, `app/reporting/` | a lock file, two artifacts | lock, run the screener, write, replay | one runner at a time, artifacts agree with the run |
| 10 | Dataset versions and reconciliation, `app/storage/dataset_versions.py`, `reconciliation.py`, `app/data_contracts/` | immutable dataset versions | save, replay, reconcile | identity decides content, lineage has one leaf |
| 11 | DS6 preparation and readiness, `app/deployment/` | a cache; dataset versions | prepare, retry, fall back, reconcile | unambiguous consumable version per symbol and date |
| 12 | Research dataset reads, providers, analysis, normalization, configuration | none | read, fetch, parse, compute | no read shows a later date; a longer read extends a shorter one |

**How they interact.** The scheduler (2) calls the operations repository (1) and
spawns the batch CLI, a process of its own, that runs the batch runner (3). The
runner calls the research pipeline (4) for each symbol. Scheduler, CLI and a
person's shell share nothing but the database. The S6B runner (9) decides whether
the date is a market day (5), takes the lock of the date, has it prepared (11),
starts a screener run (8) and writes its report. The screener reads each symbol
through the research dataset (12) and, before a candidate is read, brings its
history up to date (6). DS6 (11) publishes versions (10) of a symbol's history.

**What is hard.** Python's `sqlite3` opens a transaction only at the first
write, so in most methods of (3) and (4) a SELECT, the check made on it and the
UPDATE that follows are not atomic; `acquire_lease` alone takes the write lock
first. Some UPDATEs repeat the check in their WHERE clause and some do not.
Every process may die between two transactions, and the batch child survives its
scheduler. Leases expire by the clock while their holders work on, and the
scheduler acquires with a reading of the clock that may be old. The exchange
publishes its tables one by one and amends them between two requests, a source
answers for less than it was asked, and a preparation looks at the store long
before it saves. The list of
hazards is in `PROJECT.json`, each at the line where it bites, with the
properties that guard it.

## Modules

| Module | Models | Uses |
|--------|--------|------|
| `ExclusiveLease` | what a lease promises, without tables or transactions (abstract) | |
| `OperationLease` | part 1, one action per repository method | |
| `EodScheduler` | part 2 over part 1; the batch as the status of its row | `OperationLease` |
| `EodScheduler_proofs` | theorems about `OperationLease` and `EodScheduler` | `EodScheduler`, TLAPS |
| `PipelineRun` | part 4 | |
| `BatchRunner` | part 3 over part 4 | `PipelineRun` |
| `BatchRunner_proofs` | theorems about `PipelineRun` and `BatchRunner` | `BatchRunner`, TLAPS |
| `ScreenerCheckpoint` | part 8, the rows of one screener run | |
| `ScreenerOrchestration` | part 8, calls of `DailyScreenerOrchestrator.run` | `ScreenerCheckpoint` |
| `ScreenerOrchestration_proofs` | theorems about `ScreenerCheckpoint` and `ScreenerOrchestration` | `ScreenerOrchestration`, TLAPS |
| `SupplementalEligibility` | part 10, may E.SUN fill the gaps of TWSE (operators) | |
| `SupplementalEligibility_proofs` | lemmas about it, and about finite sets of dates | `SupplementalEligibility`, TLAPS |
| `DualSource` | part 10, what a version is, when it is legal, the three builders (operators) | |
| `DatasetLedger` | what the store of versions promises (abstract) | |
| `DatasetPreparation` | part 11, DS6 preparation of one symbol and date | `DualSource`, `SupplementalEligibility` |
| `DatasetPreparation_proofs` | theorems about `DatasetPreparation` | `DatasetPreparation`, TLAPS |
| `HistoricalSync` | part 6, the download of a history month by month | |
| `CandidateHistory` | parts 6 and 11, a candidate's two histories and their comparison | `HistoricalSync` |
| `CandidateHistory_proofs` | theorems about `CandidateHistory` | `CandidateHistory`, TLAPS |
| `MarketUniverse` | parts 8 and 11, which securities a date has (operators) | |
| `DailyPreparation` | part 11, preparation of a market date | `MarketUniverse` |
| `DailyRunner` | part 9 over part 11 | `DailyPreparation` |
| `DailyRunner_proofs` | theorems about `DailyRunner` | `DailyRunner`, TLAPS |
| `TradingDay` | part 5, which date a requested date stands for (operators) | |
| `ResearchRead` | part 12, what is read of a symbol as of a date (operators) | |
| `Stage1Screen`, `Stage2Research` | part 8, metrics, rules and orders of the stages (operators) | |
| `ScreenerReads` | part 8, what the stages make of a read (operators) | `ResearchRead`, `Stage2Research` |
| `Decisions` | asks the operators every question | `SupplementalEligibility`, `MarketUniverse`, `TradingDay`, `ScreenerReads` |
| `Decisions_proofs` | theorems about `Decisions` | `Decisions`, `SupplementalEligibility_proofs` |
| `MC...` | constants for TLC | the module they are named for |

Operators whose comment begins with *Mutant* are wrong on purpose: each stands
for a plausible bug of the definition it precedes, and shows that some property
would notice it. No specification uses them.

### OperationLease

`invocation` and `lease` are the two tables of migration 0009, as functions from
ids to rows; status `"none"` is a row that was not inserted. An action is a
method, hence a transaction. `AcquireFree` and `AcquireExpired` are the two
successful outcomes of `acquire_lease`, `Blocked` the refusal, which writes
nothing. Timestamps are arguments, chosen freely: the repository reads no clock,
and callers pass readings of any age. The partial unique index on active leases
is *not* modelled; `OneActiveLeasePerKey` shows that the code never needs it.
`ExclusiveLease` is the abstract specification: a key has at most one holder, who
loses it by giving it up or by being replaced at or after its deadline.

### EodScheduler

`pc`, `run` and `child` are one process of `run_once`, its locals and the CLI
process it spawned; `batch` is the status column of the batches for the date.
`Acquire` uses `run[p].now`, read at `Start`, as the code does. A step is a
repository transaction or an external call. `Raises` is an exception anywhere in
the try block, `Handle` the except clause, `TimeOut` the CLI timeout, `Crash` the
death of the scheduler process alone, `Restart` that of the machine. The child is
`ChildBegins`, `ChildEnds`, `ChildDies`: it finds or creates a batch, finishes
it, or dies. `overrun` is a history variable: a lease was taken over from a run,
or a run's child, still at work.

### PipelineRun

`prun` is the `pipeline_runs` row of each symbol for the date with the number of
research notes published for it, `job` the call each worker is in. `Open`,
`ReadForClaim` and `Claim` are `get_or_create_pipeline_run` and the two halves of
`start_pipeline_run`; `Complete` is the transaction of `successful_pipeline_run`;
`MarkRunFailed` the except clause. `LockTimeout` is a transaction that fails
because the database stays locked: the run it should have closed stays `running`.

### BatchRunner

`members` is the watchlist, `batches` the batch rows with the members of their
revision, `srun` the symbol runs, `ctl` the program counter and locals of each
runner. `FindExisting`, `CreateRevision` and `InsertBatch` are the transactions
of `run`, which another runner or an edit of the watchlist may come between;
`StartBatchRead`/`Write`, `StartSymbolRead`/`Write` and `FinishBatchRead`/`Write`
the methods that read before they write. `Pipeline` takes any step of
`PipelineRun` that belongs to the runner's worker.

### ScreenerCheckpoint

`run` is the `screener_runs` row of one run, `candidate` its rows in
`screener_candidates`, known by their Stage 1 rank. `CreateRun`,
`PersistCandidate` and `FinalizeRun` are the methods that write, each one
`BEGIN IMMEDIATE` transaction; the candidate status `running` exists only inside
one. A *bundle* stands for what is stored with a candidate (reasons, metrics,
provenance, snapshot) and for the hash over it. `Replays` is the outcome that
finds the bundle stored already. Bundles are chosen freely: the locator the
production factory stores names a symbol and a date, so nothing makes two
attempts at a candidate agree. `Weight` is the priority key of a bundle without
its last parts, the Stage 1 rank and symbol, which break ties. `seal` is
`canonical_sha256`, modelled as what was hashed.

### ScreenerOrchestration

`call` is one process in `run`: its place, the list of `_stored_candidates`, the
candidates left of the loop, and the answer it gave last. `Probe`/`ProbeStatus`
and `Recheck`/`RecheckStatus` are the two calls of `_try_replay`, each of which
reads the run, and the status again if it was not sealed. `ListCandidates`,
`LoadRow` and `LoadChildren` are the reads of `_stored_candidates`, which are
statements of their own, so that writes of others come between; it is called
again when finalization fails (`after`). `Reuse`, `RetryRaises` and `Work` are
the three ways a candidate is handled, in the order of the shortlist, by what was
listed (`Retries`). `Finalize` and `ReportFailures` end the call. `late`,
`shared` and `failures` remember what the properties compare. `Crash` is also a hook that
raises outside the isolated Stage 2 call.

### SupplementalEligibility, DualSource, DatasetPreparation

`Evaluate` is `evaluate_supplemental`, an ordered chain of early returns over a
candidate that its constructor accepts (`ValidCandidate`); it returns the reason
and the dates that E.SUN may fill. `DualSource` has a version as a record of rows
`[date, role, run]`, counts, states, artifacts and a parent; `LegalVersion` is
what `DatasetCoverage` and `DatasetVersionIdentity` check on construction, and
`CanonicalVersion`, `ProvisionalVersion` and `ReconciledVersion` are the builders.
A hash is the thing hashed: the version id is `Identity(v)`.

`DatasetPreparation` is `_prepare_symbol`. `versions` is the table, `cache` the
id each coordinator remembers, `call` the locals of its call. `ReplayOrRefuse`,
`ReplayStored` and `Begin` are the three outcomes of the look at the store;
`Fetch` is one answer of TWSE, any that `DS6SourcePreparation` accepts, or an
exception turned into one, followed by another request or not; the three
`Publish...` actions build and save. `Save` puts a version if its identity is
absent. Between the look and the save anything may happen: `stale` marks a call
behind whose back a version was saved. `GiveUp` is every way a call ends without
a version, the death of its process included, and `Restart` loses the cache.
`overlapped`, `repeated` and `narrowed` are history variables that say which
of the three things that spoil the store have happened. `DatasetLedger` is what
the readers of the store rely on: versions are only added, one per identity, a
child only to an open one.

### HistoricalSync, CandidateHistory

`history` is a row of `historical_sync_runs` per contract (source, target date)
with its observations and month artifacts, `canonical` is `daily_prices`, and
`job` the call of `HistoricalSyncPipeline.run` in each worker. `Claim`,
`CheckpointMonth`, `Finish` and `MarkFailed` are the transactions; each reads
first, but ends in a conditional UPDATE, hence one step. `Fetch` is one month of
a provider. `LegacyRow` is a row of the schema before 0006, whose rows are not
kept. `CandidateHistory` is what the daily run does with it: `Read` decides with
the newest run whether a short history is legal (`LegalShort`), then E.SUN and
TWSE are downloaded and `OpenPair`, `StartPair`, `CompletePair` and `FailPair`
compare them in a row of `historical_validation_runs`. `Exit` is the end of a
process between any two steps.

### MarketUniverse, DailyPreparation, DailyRunner

`MemberStatus` is `build_market_universe` for one security, from the set of its
rows in the four official tables and its class in an earlier universe;
`DayClass` and `DayEvidence` are what `_acquire_universe` makes of them first.
`DailyPreparation` is `ProductionDailyDataPreparer.prepare`: `Open` adopts the
universe file of the date or not, `AcquireTrading` and `Acquire` are the
requests, between which the exchange may publish or amend (`Publish`),
`FileUniverse` and `PersistUniverse` keep the result, `Stock`, `StoreSymbol` and
`LoseSymbol` are the loop over the eligible symbols and `Check` the final
readiness. `Elsewhere` is the daily batch and the history download of the symbols
they share. `DailyRunner` is `DailyRunner.run` around it: `Start` (the gate of the
market date), `Lock`, `Screen`, `Report`, `WriteFile` for each of the two files,
`Release`, and `Die`, upon which the operating system frees the lock. The screener
is one step here, as `ScreenerOrchestration` shows what it does inside.

### TradingDay, ResearchRead, Stage1Screen, Stage2Research, ScreenerReads, Decisions

The functions without state. `ResolveTradingDay` is `resolve_trading_day`.
`BaselineRead` and `VersionRead` are the two datasets behind one interface, which
refuse a read or give a history, a valuation and a validation. `PriceMetric` and
`DeepMetric` are the metrics of the two stages, with numbers as integers counting
1/`Places`; the rules, the shortlist and the final order are translated in full.
The square root of the volatility is the integer one.
`Decisions` asks one question per behaviour, and one of them is
a small state machine: `Scan`, `Select`, `Research` and `Rank` are a screener run
over rows that may change between the stages.

## Runs

| Run | Bounds | Shows |
|-----|--------|-------|
| `scheduler` | 2 runs, 2 batches, clock 0..2, lease of 2, backoff 2 | the repository's invariants and its refinement of `ExclusiveLease`; exclusion, one batch, justified overlap, verdicts, bounded waiting; every run that starts ends or dies |
| `batch` | 2 symbols, 2 batches; 1 runner at a time with 4 starts, or 2 runners over a growing watchlist | one batch, truthful status, no rerun of a success; a succeeded symbol run has a succeeded pipeline run, claimed exclusively, with one note, and that for good |
| `batch_rerun` | 2 runners, 1 symbol | *violation*: a succeeded symbol is run again |
| `batch_interrupted` | 1 runner, 2 starts | *violation*: an interrupted symbol is refused for ever |
| `batch_revision` | 1 runner, an edited watchlist | *violation*: what is run is not what was frozen |
| `screener` | 2 processes, 3 calls, 2 candidates, 2 retries | status, seal, ranks and attempts agree; what is reported stays true; what a crash leaves is taken up |
| `screener_alarm` | 2 processes, 2 calls, 1 candidate | *violation*: an integrity error without damage |
| `dataset` | 2 preparers, 3 calls, 2 attempts, 2 dates, 2 runs of each source | versions say what their rows are; lineages keep evidence; the store is ambiguous only where it is explained; it implements `DatasetLedger` |
| `dataset_stuck` | 1 preparer | *violation*: a provisional date that can no longer be reconciled |
| `history` | 2 processes, 3 calls, 2 targets, months of 3 days, 4 days needed | a history has no gap, a short one is whole, success and comparison stand |
| `daily` | 2 processes, 3 calls, 2 securities, 3 issues of the tables, 4 dates | the lock, the universe on file, sealed runs and reports agree; what is on record stays |
| `decisions` | see below | the decisions without state are what they should be |

The properties of the runs are stated in the modules, each with the sentence it
stands for. Those less obvious:

- `VersionsTellTheTruth`: a reconciled child's counts are computed from its
  parent's and never recounted, and agree with its rows all the same.
- `NeverAmbiguous`: two consumable versions, or two open leaves, can come only
  from a save behind another preparer's back or from a second provisional beside
  an open one. Both happen; `dataset_stuck` shows the second with one preparer.
- `VersionsCoverWindow`: every version covers the window, unless a source that
  raised was answered for by `_failure_preparation`, which names the target date
  alone and so narrowed the request, or a provisional was built for the gaps of
  an open one.
- `VerdictsStand`: `finish_invocation` does not look at the verdict it replaces,
  and two situations make it replace one: a run whose lease was taken over records
  its own verdict over the `warning` of the takeover, and an exception after a
  verdict leads to a second `_finish`, with a hard failure. `VerdictKept` says
  that there is no third.
- `HistoriesHold`: `HistoryIsWhole` (no gap behind the cursor, of each month what
  one download brought or nothing, no E.SUN price in `daily_prices`) and
  `ShortIsWhole` (a history let through although it is short has every month since
  the listing on evidence). It does not ask for rows in every month; see
  disagreement 6.
- `HistoryStands`: successes never change; and an E.SUN run left `running` by a
  process that died stays so (see below).
- `DailyHolds`: `LockIsHeld`, `FiledOnEvidence` (the file of a date was made of
  tables of that date and leaves nothing unresolved), `SealedOnEvidence` (a sealed
  run stands on the universe on file and on one price per security) and
  `ReportsHold` (a success has both files, of its own run).
- `DayDecided`: a security is scanned exactly when it is listed under one name,
  traded and valued, and no fund; a universe carried over to a later day reads
  the same evidence the same way.
- `ScreenSound`: reads end at their date and a shorter one is the tail of a longer
  one; each stage asks for as many observations as its metrics need; where both
  stages measure the same they find the same; the final order is complete, and
  Stage 2 repeats the changes of valuation that Stage 1 saw if no row changed.
- `ReportMatchesRun` and `NeverRefused` are about calls that had the run to
  themselves since they began (`shared` is false), whatever came before; with a
  second call under way a report may be overtaken and a write refused.

**Why the bounds are enough.** The hazards need two parties, and the runs have
two. In `scheduler` a lease lives two ticks, so that it can expire under a live
run, be renewed, and be taken over. Two batches are enough to have a second one,
which is what `OneBatch...` forbids; batches of other dates and watchlists do not
meet. Symbols are handled one after another and share no row, so two suffice to
have a batch that is partly done. The constraint of `batch` (`MCScope`) keeps the
two scenarios apart: four starts one after another, under every resolution of the
trading day, or two runners that start once each while the watchlist grows. A
screener run with two candidates can be half done, half failed, and retried out
of order, and its two bundles of success, of different weight, make them rank by
weight as well as tie. Two bundles of each kind let two attempts at a candidate
differ. A retry needs a second call; a third comes after both.

In `dataset` two dates let a source answer for a part, one E.SUN run agrees with
TWSE and one differs on one date, so that a child may be discrepant or not, and
the third call meets what two others left. In `history` a month has three days
and the stock is listed on day 2: of the targets 4 and 6 the first is short by
law and the second may be complete with a day to spare; TWSE misses no day, E.SUN
may miss one or have another price throughout, and the third call runs alone
(`MCScope`). In `daily` the first issue of the tables scans both securities, the
second finds one suspended, and the third has one that nobody can classify; one
date of the four is closed, and the batch shares one security. In `decisions` the
windows of the metrics shrink to 2 to 5 observations; supplements fill around two
dates with every payload of two rows and every gate; a security has at most one
row in each table and every class; a store has rows on up to four dates, one of
them later than the read; histories have one observation more than needed; a scan
has two symbols, ten stores for each, and a symbol whose rows may change between
the stages. Processes, runners and preparers are taken up to permutation where
the configuration names a symmetry.

**Deadlock** is not checked: every system here may stop when its calls are over.

**Fairness.** Only `scheduler` assumes any (`FairSpec`): time passes, and a run
that can take a step takes one (`WF` of `Tick` and of `RunStep(p)`). `run_once` is
straight-line code, whose loop is bounded and whose external calls have timeouts.
Nothing is assumed of the batch child: it may hang, and the CLI timeout ends the
wait. A crash is always possible and never required. Batches, preparations and
pipeline runs promise no liveness: a symbol whose run was interrupted is refused
for ever (see below), and one process keeps no other waiting.

## Disagreements between the code and its documentation

Three sentences of the docstring of `batch_runner.py`, a comment of
`orchestration.py` and a sentence of `docs/dual-source-resilience.md` are not
what the code does; each has a run whose counterexample shows it. A sixth, a
comment of `history.py`, has none.

1. *"Enforce idempotency: a batch/symbol already succeeded is never re-run."*
   (line 8) `start_symbol_run` checks for success in a SELECT and writes in an
   UPDATE without a condition (`batch_run.py:509`). Two runners of one batch:
   the first's success comes between the two, and the symbol runs again. With one
   runner at a time the sentence holds (`AloneNeverRerun`).
2. *"Checkpoint every step so interrupted runs can be resumed."* (line 7) The
   runner passes the run to resume only if its id was stored in the symbol row,
   and it is stored only on success (`batch_runner.py:296`). A process that dies
   inside a pipeline run leaves it `running`, and every later attempt is refused.
3. *"Freeze a watchlist revision at batch start."* (line 4) The symbols executed
   are read at line 123, the revision is a second reading at line 163.

4. *"A sealed success that cannot be reconstructed is not a resumable partial
   run. Keep tamper/frozen-state failures fail-closed."* (`orchestration.py:585`)
   `_try_replay` takes a run for a damaged one when `replay_run` says it is not
   sealed and `_run_status`, which reads it once more, says `success`. Another
   process that seals the run between the two reads causes the same, and a call
   that could have replayed a good run raises `ScreenerReplayIntegrityError`. It
   takes two calls of `run` at once, which the lock of the S6B runner prevents for
   its own; nothing is written, and the next call replays.
5. *"When later TWSE observations resolve a provisional gap, reconciliation
   creates a new immutable child dataset"* (`dual-source-resilience.md:48`).
   Preparing a provisional date again while TWSE still fails builds a second
   provisional version over the narrower dates, without a parent, beside the open
   one (`ds6_daily_preparation.py:655`). From then on every preparation of the
   date is refused as ambiguous, also after TWSE has answered.
6. *"A completed official month may contain only all-OHLC-missing rows. Such a
   checkpoint has no price observations by design, but it is resumable when every
   advanced month retains its hash-only official source artifact."*
   (`storage/history.py:238`) The storage accepts such a month, but none reaches
   it: of a month whose every row lacks its prices the TWSE provider raises "TWSE
   historical month contains no trading data in requested range"
   (`twse_history.py:195`), and the normalizer refuses a batch without prices
   (`normalization.py:94`). The download fails at that month, and so does every
   retry, which resumes at the same cursor. That text is not the one by which
   `LegalShort` knows a month before the listing, so the short history is not let
   through either, and a stock with a whole month of such rows gets no history
   beyond it. The comment says what may happen and not what will, and the refusals
   are in parts modelled by their outcomes (in `Fetch` such a month is one of the
   failures); there is no run for it. `HistoriesHold` allows a month without rows,
   as the comment does, and does not rest on the two refusals.

What else the models show, without a sentence of the documentation against it:

- `_sync_esun` passes no resume id, so an E.SUN run that a process left `running`
  is never resumed and its pair never validated (`HistoryStands` says it stays).
- A date whose universe was filed, but not all of whose symbols were stocked when
  the tables were amended or the next date published, cannot be finished: the
  universe has to be acquired again and be the same.
- The files of a version 1 report are named by their date alone. A run of the
  same date over other prices is sealed, and its report is refused for good.
- A version with a supplement earlier than the observations asked for cannot be
  read (`research_dataset.py:832`); Stage 1 asks for 62 observations and Stage 2
  for 250, so one may read what the other is refused. `VersionReadsAgree` states
  the condition.
- The production composition passes no previous valuations, so that the valuation
  rules of Stage 1 never fire there; those of Stage 2 do.

## Theorems

The proofs hold for any values of the constants that satisfy the assumptions:

- `LeaseAssumption`: there are keys and invocations; NULL and "no lease" are no
  ids.
- `SchedulerAssumption`: a run has one invocation and may acquire one lease;
  batches are numbered in the order of creation; the lease length and the number
  of attempts are positive, the backoff after each attempt is a natural number,
  and timestamps are large enough for every lease.
- `PipelineAssumption` and `BatchAssumption`: a worker that is in no call has no
  symbol; symbols are numbers, watchlists are not empty, and the trading day
  resolves to one of the statuses the code knows.
- `ScreenerAssumption` and `OrchestrationAssumption`: weights are natural
  numbers, no bundle is of a success and of a failure, and "not written yet" is
  no bundle.
- `PreparationAssumption` of `DatasetPreparation`: the window is a finite set of
  dates and not empty, no run is of both sources (a run is identified with its
  source), and there is at least one attempt.
- `HistoryAssumption`: a month has days, targets are a finite set of days, and at
  least one day is needed.
- `PreparationAssumption` of `DailyPreparation` and `RunnerAssumption`: dates and
  securities are numbers, there is a first date and an issue of the tables; a
  free lock names no process.
- `QuestionAssumption`: what is asked is of the types the code admits. A candidate
  is one that `SupplementalCandidateInput` can hold, of any length; rows do not
  disagree within a table, where the code raises; stored rows are those the
  columns and their checks admit, and versions those `DualSource` builds; a
  history has at least as many positive closes as Stage 1 asks for; a scan has a
  positive limit and a finite universe, whose symbols have rows in both stages.
- `Stage1Assumption` and `Stage2Assumption`: windows are positive and longer ones
  are longer.

The inductive invariants below were checked with TLC on the instances of the runs
before they were proved.

**Repository** (`EodScheduler_proofs`). `StoreTypeCorrect`, `LeaseExclusive`,
`ClosedLeasesFrozen`, `ExpiryJustified`, `LeaseOwnersExist` and
`LeaseRefinement`, the refinement of `ExclusiveLease`. Each method is first
reduced to what it does to the rows (`AcquireExpiredEffect` ...); the invariants
are then inductive with the types. The key of the argument is that a key with no
active row, or with one that the same step closes, gets one active row.
Arbitrary timestamps are allowed throughout, so these facts cannot depend on
well-behaved callers.

**Scheduler** (`EodScheduler_proofs`). `SchedulerUsesStore` shows that every
behaviour of the scheduler is a behaviour of the repository (`StoreStep`: each
step is one of its calls, or none), so that its theorems carry over
(`SchedulerLeasesExclusive`). `StepMoves` sums up what a step can do to one run,
its lease and its invocation in nine cases; the rest uses only that summary.
`LeaseInv` ties the place of a run to the state of its lease: no lease before it
is acquired, an active or expired one while at work, released only when done,
expired only once its time is past, verdict recorded before the release. It also
needs `NowIsPast`: a run's reading of the clock is old but never from the future,
which is why a takeover with an old reading cannot close a lease early. From it
follow `HoldersExclusive`, `VerdictsPrecedeReleases` and `OverlapIsJustified`.
`VerdictsKept` needs `VerdictInv` besides: a lease belongs to the run it is named
after, so that a takeover which writes a verdict closes that run's lease in the
same step; a run with a verdict on record and no lease lost has recorded it itself
and is past it, or handles an exception with a hard failure in hand
(`VerdictPhases`). `VerdictMoves` sums up the steps for it in six cases.
`WaitIsBounded` needs only `WaitStep`. For
`OneBatchPerDate`, `BatchInv` says that while no lease was taken from a run or
child still at work, all of these hold the active lease (so there is one at
most), that no batch appears between the scheduler's look and its child's first
step, and hence that there is one batch.

**Pipeline run** (`BatchRunner_proofs`). `PipelineTypeCorrect`, `NotesAgree`,
`ClaimsExclusive`, `ReturnsSuccess`, `SuccessFinal`. `PipelineInv` adds to the
checked invariants that a worker about to claim has not read `success`, and that
the run of a worker inside it, never claimed while running, is `running`: the
conditional UPDATE of the claim can then only meet a row nobody is inside.

**Daily batch** (`BatchRunner_proofs`). `BatchTypeCorrect`, `SuccessHasRun`,
`BatchClaimsExclusive`, `BatchNotesAgree`, `BatchSuccessStands`,
`AloneOneBatch`, `AloneKeepsSuccess`, `AloneVerdict`. `BatchInv` adds to the types and to
`PipelineInv` a `Place(r)` for each runner: the batch it works on exists, the
symbol at hand is one of its list, and a pipeline call, if there is one, is for
that symbol. `Moves(r)` sums up every step, and the theorems about pipeline runs
follow because a step of the runner is one of `PipelineRun` or none
(`PipelineInvMove`, `PipelineInvStutter`). `AloneInv` is what holds until a second
runner is on: no batch exists when the runner inserts one, and the symbol it
starts has not succeeded. `AloneVerdict` is about behaviours in which nobody edits
the watchlist. Its `VerdictInv` says what the runner knows of the batch it works
on, through crashes and restarts: every revision is the watchlist, the row is
`running` while there is work, each symbol the loop has passed is settled in its
row, and the status computed before the last write is still that of the rows.

**Screener store** (`ScreenerOrchestration_proofs`). `ScreenerTypeCorrect`,
`StatusTruthful`, `SealReplayable`, `RanksComplete`, `SuccessKept`,
`SealedNeverChanges`. `CheckpointInv` adds to the checked invariants what a row
says of itself: its bundle is of the kind its status says, and it has no more
attempts than the run. Types need it, because a rank or a count must stay in its
range. For the ranks, `PrecedesIsAnOrder` shows that weights with ties broken by
the Stage 1 rank order the candidates, so that a better one has more candidates
after it; `FinalRank` is therefore injective on a finite set, and hence onto it.

**Orchestration** (`ScreenerOrchestration_proofs`). `OrchestrationUsesStore`
shows that calls write only through the repository, whose theorems then hold.
`RowsKept` says what never changes under a call: checkpointed candidates stay
checkpointed, bundles of success and sealed runs stay as they are. `PlaceInv`
relates what a call remembers to the rows, by things `RowsKept` preserves only,
and so stays true while others move: loaded successes are the rows', whatever was
listed as checkpointed is, whatever the loop has passed is, and a call begun after
the seal has come no further than a replay. `AnswerInv` is then true when an
answer is given, and afterwards. `OrchestrationTypeCorrect`,
`SuccessReportsAgree`, `LateCallsReplay` and `PartialReportsHold` follow.
`ReportsMatch` and `NobodyIsRefused` are about calls that nobody joined. `AloneInv`
says that such a call knows more than `PlaceInv` grants: its list is exactly what
the rows are, the failed rows up to its place in the loop are its own failures,
and the status it saw is the run's. No write of its own can then be refused, and
what it reports is what it leaves.

**Dataset preparation** (`DatasetPreparation_proofs`). `PreparationTypeCorrect`,
`LineageKept`, `LedgerRefined`, `AmbiguityExplained`, `VersionsTruthful`,
`SupplementsJustified`, `WindowCovered`. `LedgerInv` says of every
version that it is `Sound` (an open one has dates left to E.SUN, a child extends
a stored provisional), and of every call that what it asked for is among the
dates its open version owes. A complete answer then covers such a date, so that
the child has strictly fewer. Every step either publishes one version
(`Publishes`) or none (`Waits`). For `NeverAmbiguous`, `UniqueInv` adds that a
call behind whose back nothing was saved still sees what it saw when it began:
nothing to consume, and its own open version or none. For the content of versions,
`EvidenceInv` says of every version that its counts, states and discrepancies are
those of its rows and its supplements rest on verified payloads, and of every
answer of TWSE that only a TWSE run stands behind it; each of the three builders
is shown to keep it, the reconciled child by adding disjoint counts to its
parent's. `CoverInv` follows how far a call has narrowed its request.

**Candidate history** (`CandidateHistory_proofs`). `CandidateTypes`,
`HistoriesAreWhole`, `HistoriesStand`. `SyncInv` adds two things to the checked
invariants: a row without evidence is untouched or a failed legacy row, which no
call restarts, and the batch a worker is about to store is one of its own month,
wherever other calls have taken the row meanwhile. The months passed are an
interval that ends above the cursor, so that the month stored next is not among
them: its rows are the batch alone, and it leaves no gap. `RowFacts` draws from it
that no day has two rows. A call that
compares relies on both histories having succeeded; `Moves` says what it may rely
on while others write: rows are only added, and a success stays as it is.
`CandidateInv` adds that a validation accounts for exactly the needed days of two
successful histories.

**Decisions** (`Decisions_proofs`, `SupplementalEligibility_proofs`).
`SupplementsDecided`, `DaysDecided`, `ScreenHolds`. The invariant, `QuestionInv`,
only says what is asked and that each step of a scan holds what the stages make of
its rows; the work is in the lemmas about each answer.
`DecisionSafe` goes through the eleven early returns of `evaluate_supplemental`, of
which each rules out one way to be unsafe, for payloads of any length; it needs
that a finite set of dates can be put in order (`OrderExists`). For `ScreenSound`,
`StoreAgrees` and `VersionAgrees` show that the length asked for does not decide
what a read answers, `HistorySuffices` that the five metrics see the same last
closes and volumes in a history as in its tail, and `DeepEnough` that the window
and the moving average of Stage 2 lie within what it reads. The order of the final
list is the longest argument. Its keys must be tuples of integers for any rows,
so every metric is typed first (`MetricsType`, `DeepMetricsType`), down to the
folds `Total` and `Root` (`FoldTyped`). Such keys, which end in the symbol, are
strictly ordered (`LexicalOrder`, `KeysOrder`), and `Sorted` then lists a finite
set in that order without loss (`RankedInOrder`). `ResearchRepeats` follows a
change of valuation from Stage 1's finding through Stage 2 to the reason it
gives when no row changed in between.

**Daily runner** (`DailyRunner_proofs`). `DailyTypeCorrect`, `DailyAgrees`,
`RecordsStand`. `DailyInv` has a `PlaceInv(w)` for each process, which relates the
universe it holds to the one on file (adopted, or taken from tables of the date),
and the run it reports to the sealed ones. The others' places survive a step
because files, universes, sealed runs and reports only grow (`Grows`), and because
the lock admits one process to a date. The steps fall into those inside the lock,
those that leave the records alone, the two ends of the lock, and what others do.

Every safety property of the passing runs, invariant or action property, is a
theorem. Only model-checked: `EveryRunEnds`, which is liveness under fairness and
so, like `ENABLED` and recursive operators, out of reach of the prover; no module
here needs a recursive operator. Induction is available only as the existence of
a minimal element (`WFMin` of `WellFoundedInduction`, which takes no operator as a
parameter): a least counterexample is picked and contradicted. That gives least
and greatest members of finite sets, their orderings, and that a fold over a
finite set exists and keeps the type of its step; what number a fold computes
stays with TLC.

## What is not modelled

Of the parts in the table: the daily reports (7), which are rows rendered from a
finished batch; the retry policy (5), arithmetic on delays whose callers are in
the models; the cross validation of a single date (6), which writes one row per
call; `readiness.py` (11), which inspects a database read-only and rehearses
migrations on copies; providers, parsing, rendering and configuration (12), which
are input and output; the wording and layout of the screener's reports (9); and
the registration of the scheduled task, which builds a command line. The read
models of the dashboard and the migration of old screener tables are left out of
(8), and so is the comparability check on a previous screener result. Inside the
modelled parts: log rows, error texts, counters
and timestamps no code reads back, `mark_symbol_skipped` (no caller), and the
bootstrap of symbols. Their outcomes, where they matter, are nondeterministic: a
probe may answer anything, a fetch may fail, a transaction may find the database
locked.

## Plan

What is left, in order of what it would add.

1. `DailyReport`: part 7's state, a report that is final once generated.
2. The cross validation of a single date, beside `CandidateHistory`.
