----------------------------- MODULE BatchRunner -----------------------------
(***************************************************************************)
(* The daily batch: the tables of app/storage/batch_run.py and the runner  *)
(* of app/pipelines/batch_runner.py that drives them, for one watchlist    *)
(* and one requested date, over the pipeline runs of PipelineRun.  Runners *)
(* are processes: started by the scheduler or by hand, several at once,    *)
(* and dying anywhere.                                                     *)
(*                                                                         *)
(* As in PipelineRun a method that reads before it writes is two steps:    *)
(* start_batch_run, start_symbol_run and finish_batch_run.                 *)
(*                                                                         *)
(* Left out: counters and timestamps; the resolved date, which is the      *)
(* requested one (a pipeline run per symbol); an empty watchlist.          *)
(***************************************************************************)
EXTENDS PipelineRun, FiniteSets

CONSTANTS
    MaxBatches,     \* bound: batch rows created
    MaxStarts,      \* bound: runs started
    Watchlists,     \* the member sets the watchlist may be given
    Resolutions     \* what resolve_trading_day may answer

Runners == Workers

BatchIds == 1..MaxBatches

NoId == 0

SkipStatuses == {"skipped_non_trading_day", "skipped_no_new_market_date"}

DoneStatuses == SkipStatuses \cup {"success"}

DailyBatchStatuses ==
    DoneStatuses \cup {"absent", "pending", "running", "partial_success", "failed",
                       "deferred_awaiting_market_data"}

ASSUME BatchAssumption ==
    /\ Symbols \subseteq Nat /\ MaxBatches \in Nat /\ MaxStarts \in Nat
    /\ Watchlists \subseteq (SUBSET Symbols) \ {{}} /\ Watchlists # {}
    /\ Resolutions # {}
    /\ Resolutions \subseteq
          SkipStatuses \cup {"resolved", "deferred_awaiting_market_data"}

VARIABLES
    members,    \* active members of the watchlist
    batches,    \* daily_batch_runs, with the members of its revision
    srun,       \* daily_symbol_runs
    ctl,        \* where each runner is, and its local variables
    starts,     \* runs started so far
    shared      \* history: two runners have been on at once

vars == <<pipelineVars, members, batches, srun, ctl, starts, shared>>

BatchRow == [status : DailyBatchStatuses, revision : SUBSET Symbols]

(* attempts counts up to two, all that is asked of it; linked: the row has *)
(* a pipeline_run_id; error: the exception recorded with a failure.        *)
SymbolRow == [status : {"none", "pending", "running", "success", "failed"},
              attempts : 0..2, linked : BOOLEAN, error : Errors]

NoSymbolRow == [status |-> "none", attempts |-> 0, linked |-> FALSE, error |-> "none"]

RunnerLocations ==
    {"off", "enter", "find", "revise", "insert", "execute", "start_write", "next",
     "symbol_read", "symbol_write", "pipeline", "symbol_failed",
     "finish_write"}

(* symbols: the list the runner works through; todo: what is left of it;   *)
(* current: the symbol at hand; resuming: the batch was running when it    *)
(* was read; final: the status finish_batch_run computed.                  *)
Control ==
    [at : RunnerLocations, resolution : Resolutions, batch : BatchIds \cup {NoId},
     symbols : SUBSET Symbols, todo : SUBSET Symbols, current : Symbols \cup {NoSymbol},
     resuming : BOOLEAN, final : DailyBatchStatuses]

Idle ==
    [at |-> "off", resolution |-> CHOOSE x \in Resolutions : TRUE, batch |-> NoId, symbols |-> {},
     todo |-> {}, current |-> NoSymbol, resuming |-> FALSE, final |-> "absent"]

Existing == {b \in BatchIds : batches[b].status # "absent"}

(* ORDER BY created_at DESC LIMIT 1: rows are numbered as they are created. *)
IsNewest(b) == b \in Existing /\ \A c \in Existing : c =< b

IsFirst(s, S) == s \in S /\ \A t \in S : s =< t

Batch(r) == batches[ctl[r].batch]

SymbolRun(r) == srun[ctl[r].batch][ctl[r].current]

Here(r, location) == ctl[r].at = location

Goto(r, location) == ctl' = [ctl EXCEPT ![r].at = location]

(* run() returns, or raises: either way the process ends. *)
Leave(r) == ctl' = [ctl EXCEPT ![r] = Idle]

SetBatchStatus(r, status) ==
    batches' = [batches EXCEPT ![ctl[r].batch].status = status]

SetSymbolRun(r, row) ==
    srun' = [srun EXCEPT ![ctl[r].batch][ctl[r].current] = row]

----------------------------------------------------------------------------

Init ==
    /\ PipelineInit
    /\ members \in Watchlists
    /\ batches = [b \in BatchIds |-> [status |-> "absent", revision |-> {}]]
    /\ srun = [b \in BatchIds |-> [s \in Symbols |-> NoSymbolRow]]
    /\ ctl = [r \in Runners |-> Idle]
    /\ starts = 0
    /\ shared = FALSE

(* set_watchlist_members, by the bootstrap of another invocation. *)
SetWatchlistMembers ==
    /\ \E S \in Watchlists : S # members /\ members' = S
    /\ UNCHANGED <<pipelineVars, batches, srun, ctl, starts, shared>>

(* A process starts, perhaps beside another. *)
StartProcess(r) ==
    /\ Here(r, "off") /\ starts < MaxStarts /\ starts' = starts + 1
    /\ shared' = (shared \/ \E q \in Runners : ~ Here(q, "off"))

(* run() without a batch to resume: the trading day first, then the        *)
(* symbols of the watchlist.                                               *)
RunAfresh(r) ==
    /\ StartProcess(r)
    /\ \E x \in Resolutions :
          ctl' = [ctl EXCEPT ![r].at = "enter", ![r].resolution = x]
    /\ UNCHANGED <<pipelineVars, members, batches, srun>>

ReadSymbols(r) ==
    /\ Here(r, "enter")
    /\ ctl' = [ctl EXCEPT ![r].at = "find", ![r].symbols = members]
    /\ UNCHANGED <<pipelineVars, members, batches, srun, starts, shared>>

(* What a runner remembers of a batch row it goes on with. *)
Adopt(r, b) ==
    ctl' = [ctl EXCEPT ![r].at = "execute", ![r].batch = b,
                       ![r].symbols = batches[b].revision,
                       ![r].resuming = (batches[b].status = "running")]

(* Mutant: only a batch that is done counts as existing. *)
FindDone(r) ==
    /\ Here(r, "find")
    /\ \/ /\ \A b \in BatchIds : IsNewest(b) => batches[b].status \notin DoneStatuses
          /\ Goto(r, "revise")
       \/ \E b \in BatchIds : /\ IsNewest(b) /\ batches[b].status \in DoneStatuses
                              /\ Leave(r)
    /\ UNCHANGED <<pipelineVars, members, batches, srun, starts, shared>>

(* find_existing_batch: replay what is done, adopt what is not. *)
FindExisting(r) ==
    /\ Here(r, "find")
    /\ \/ Existing = {} /\ Goto(r, "revise")
       \/ \E b \in BatchIds : /\ IsNewest(b) /\ batches[b].status \in DoneStatuses
                              /\ Leave(r)
       \/ \E b \in BatchIds : /\ IsNewest(b) /\ batches[b].status \notin DoneStatuses
                              /\ Adopt(r, b)
    /\ UNCHANGED <<pipelineVars, members, batches, srun, starts, shared>>

(* create_revision snapshots the members anew; todo holds the snapshot     *)
(* until the batch row is inserted.                                        *)
CreateRevision(r) ==
    /\ Here(r, "revise")
    /\ ctl' = [ctl EXCEPT ![r].at = "insert", ![r].todo = members]
    /\ UNCHANGED <<pipelineVars, members, batches, srun, starts, shared>>

(* get_or_create_batch_run: the revision is new, so the row always is. *)
InsertBatch(r) ==
    /\ Here(r, "insert")
    /\ \E b \in BatchIds \ Existing :
          /\ \A c \in BatchIds \ Existing : b =< c
          /\ batches' = [batches EXCEPT ![b] =
                            [status |-> "pending", revision |-> ctl[r].todo]]
          /\ ctl' = [ctl EXCEPT ![r].at = "execute", ![r].batch = b, ![r].todo = {}]
    /\ UNCHANGED <<pipelineVars, members, srun, starts, shared>>

(* run() with a batch to resume. *)
RunResuming(r) ==
    /\ StartProcess(r)
    /\ \E b \in Existing, x \in Resolutions :
          IF batches[b].status \in DoneStatuses THEN UNCHANGED ctl
          ELSE ctl' = [ctl EXCEPT ![r] =
                  [Idle EXCEPT !.at = "execute", !.resolution = x, !.batch = b,
                               !.symbols = batches[b].revision,
                               !.resuming = (batches[b].status = "running")]]
    /\ UNCHANGED <<pipelineVars, members, batches, srun>>

(* mark_batch_skipped writes only a row that is pending or running. *)
SkipBatch(r) ==
    /\ Here(r, "execute") /\ ctl[r].resolution # "resolved"
    /\ \/ /\ Batch(r).status \in {"pending", "running"}
          /\ SetBatchStatus(r, ctl[r].resolution)
       \/ /\ Batch(r).status \notin {"pending", "running"}
          /\ UNCHANGED batches
    /\ Leave(r)
    /\ UNCHANGED <<pipelineVars, members, srun, starts, shared>>

(* start_batch_run, the SELECT and its two refusals. *)
StartBatchRead(r) ==
    /\ Here(r, "execute") /\ ctl[r].resolution = "resolved"
    /\ \/ Batch(r).status \in DoneStatuses /\ Leave(r)
       \/ Batch(r).status = "running" /\ ~ ctl[r].resuming /\ Leave(r)
       \/ /\ Batch(r).status \notin DoneStatuses
          /\ Batch(r).status = "running" => ctl[r].resuming
          /\ Goto(r, "start_write")
    /\ UNCHANGED <<pipelineVars, members, batches, srun, starts, shared>>

(* start_batch_run, the UPDATE, which has no condition on the status. *)
StartBatchWrite(r) ==
    /\ Here(r, "start_write")
    /\ SetBatchStatus(r, "running")
    /\ ctl' = [ctl EXCEPT ![r].at = "next", ![r].todo = ctl[r].symbols]
    /\ UNCHANGED <<pipelineVars, members, srun, starts, shared>>

(* Mutant: get_or_create_symbol_run resets the row it finds. *)
NextSymbolReset(r) ==
    /\ Here(r, "next")
    /\ \E s \in Symbols :
          /\ IsFirst(s, ctl[r].todo)
          /\ ctl' = [ctl EXCEPT ![r].todo = @ \ {s}, ![r].at = "symbol_read",
                                ![r].current = s]
          /\ srun' = [srun EXCEPT ![ctl[r].batch][s].status = "pending"]
    /\ UNCHANGED <<pipelineVars, members, batches, starts, shared>>

(* get_or_create_symbol_run of the next symbol; one that succeeded is      *)
(* passed over.                                                            *)
NextSymbol(r) ==
    /\ Here(r, "next")
    /\ \E s \in Symbols :
          LET row == srun[ctl[r].batch][s]
              taken == [ctl EXCEPT ![r].todo = @ \ {s}] IN
          /\ IsFirst(s, ctl[r].todo)
          /\ \/ row.status = "success" /\ ctl' = taken /\ UNCHANGED srun
             \/ /\ row.status # "success"
                /\ ctl' = [taken EXCEPT ![r].at = "symbol_read", ![r].current = s]
                /\ srun' = IF row.status # "none" THEN srun ELSE
                            [srun EXCEPT ![ctl[r].batch][s].status = "pending"]
    /\ UNCHANGED <<pipelineVars, members, batches, starts, shared>>

(* start_symbol_run, the SELECT; its refusal is outside any try block. *)
StartSymbolRead(r) ==
    /\ Here(r, "symbol_read")
    /\ \/ SymbolRun(r).status = "success" /\ Leave(r)
       \/ SymbolRun(r).status # "success" /\ Goto(r, "symbol_write")
    /\ UNCHANGED <<pipelineVars, members, batches, srun, starts, shared>>

Incremented(n) == IF n < 2 THEN n + 1 ELSE n

(* start_symbol_run, the UPDATE without condition, and the pipeline call;  *)
(* the run's id is passed on only if an earlier attempt stored it.         *)
StartSymbolWrite(r) ==
    /\ Here(r, "symbol_write")
    /\ LET row == [SymbolRun(r) EXCEPT !.status = "running", !.error = "none",
                                       !.attempts = Incremented(@)] IN
       /\ SetSymbolRun(r, row)
       /\ Call(r, ctl[r].current, row.attempts > 1 /\ row.linked)
    /\ Goto(r, "pipeline")
    /\ UNCHANGED <<members, batches, starts, shared>>

Pipeline(r) ==
    /\ PipelineStep(r)
    /\ UNCHANGED <<members, batches, srun, ctl, starts, shared>>

SymbolDone(r) == ctl' = [ctl EXCEPT ![r].at = "next", ![r].current = NoSymbol]

(* Mutant: the exception of the pipeline is swallowed. *)
MarkSymbolSuccessAnyway(r) ==
    /\ Here(r, "pipeline") /\ (At(r, "returned") \/ At(r, "raised"))
    /\ SymbolRun(r).status = "running"
    /\ SetSymbolRun(r, [SymbolRun(r) EXCEPT !.status = "success", !.linked = TRUE,
                                            !.error = "none"])
    /\ SymbolDone(r) /\ TakeOutcome(r)
    /\ UNCHANGED <<members, batches, starts, shared>>

(* mark_symbol_success: only a running row moves; if the row is then not   *)
(* success, or the transaction fails, the except clause follows.           *)
MarkSymbolSuccess(r) ==
    /\ Here(r, "pipeline") /\ At(r, "returned")
    /\ \/ /\ SymbolRun(r).status = "running"
          /\ SetSymbolRun(r, [SymbolRun(r) EXCEPT !.status = "success", !.linked = TRUE,
                                                  !.error = "none"])
          /\ SymbolDone(r) /\ TakeOutcome(r)
       \/ /\ SymbolRun(r).status = "success"
          /\ SymbolDone(r) /\ TakeOutcome(r)
          /\ UNCHANGED srun
       \/ /\ Goto(r, "symbol_failed")
          /\ job' = [job EXCEPT ![r].stage = "raised", ![r].error = "state"]
          /\ UNCHANGED <<prun, resumed, srun>>
    /\ UNCHANGED <<members, batches, starts, shared>>

PipelineRaised(r) ==
    /\ Here(r, "pipeline") /\ At(r, "raised")
    /\ Goto(r, "symbol_failed")
    /\ UNCHANGED <<pipelineVars, members, batches, srun, starts, shared>>

(* mark_symbol_failed: only a running row moves. *)
MarkSymbolFailed(r) ==
    /\ Here(r, "symbol_failed")
    /\ \/ /\ SymbolRun(r).status = "running"
          /\ SetSymbolRun(r, [SymbolRun(r) EXCEPT !.status = "failed",
                                                  !.error = job[r].error])
       \/ /\ SymbolRun(r).status # "running"
          /\ UNCHANGED srun
    /\ SymbolDone(r) /\ TakeOutcome(r)
    /\ UNCHANGED <<members, batches, starts, shared>>

(* Mutant: a failed symbol is forgotten when another succeeded. *)
FinalStatusOptimistic(b) ==
    IF \E s \in Symbols : srun[b][s].status = "success" THEN "success" ELSE "failed"

(* Mutant: the scheduler's word for a batch with failed symbols. *)
FinalStatusMisnamed(b) ==
    IF \E s \in Symbols : srun[b][s].status = "failed" THEN "partial_failure" ELSE "success"

(* The status finish_batch_run computes from the symbol runs it counts. *)
FinalStatus(b) ==
    LET ok   == \E s \in Symbols : srun[b][s].status = "success"
        fail == \E s \in Symbols : srun[b][s].status = "failed"
    IN  IF fail THEN (IF ok THEN "partial_success" ELSE "failed") ELSE "success"

(* finish_batch_run, the SELECT of the counts. *)
FinishBatchRead(r) ==
    /\ Here(r, "next") /\ ctl[r].todo = {}
    /\ ctl' = [ctl EXCEPT ![r].at = "finish_write", ![r].final = FinalStatus(ctl[r].batch)]
    /\ UNCHANGED <<pipelineVars, members, batches, srun, starts, shared>>

(* finish_batch_run, the UPDATE of a row still running. *)
FinishBatchWrite(r) ==
    /\ Here(r, "finish_write")
    /\ \/ Batch(r).status = "running" /\ SetBatchStatus(r, ctl[r].final)
       \/ Batch(r).status # "running" /\ UNCHANGED batches
    /\ Leave(r)
    /\ UNCHANGED <<pipelineVars, members, srun, starts, shared>>

(* The process dies, or an exception of the repository leaves run().  The  *)
(* rows stay as they are.                                                  *)
Crash(r) ==
    /\ ~ Here(r, "off")
    /\ Leave(r)
    /\ job' = [job EXCEPT ![r] = NoJob]
    /\ UNCHANGED <<prun, resumed, members, batches, srun, starts, shared>>

RunnerStep(r) ==
    \/ ReadSymbols(r) \/ FindExisting(r) \/ CreateRevision(r) \/ InsertBatch(r)
    \/ SkipBatch(r) \/ StartBatchRead(r) \/ StartBatchWrite(r) \/ NextSymbol(r)
    \/ StartSymbolRead(r) \/ StartSymbolWrite(r) \/ Pipeline(r) \/ MarkSymbolSuccess(r)
    \/ PipelineRaised(r) \/ MarkSymbolFailed(r) \/ FinishBatchRead(r)
    \/ FinishBatchWrite(r)

Next ==
    \/ SetWatchlistMembers
    \/ \E r \in Runners :
          RunAfresh(r) \/ RunResuming(r) \/ RunnerStep(r) \/ Crash(r)

Spec == Init /\ [][Next]_vars

----------------------------------------------------------------------------

(* Every variable keeps its type. *)
BatchTypeOK ==
    /\ PipelineTypeOK
    /\ members \in Watchlists
    /\ batches \in [BatchIds -> BatchRow]
    /\ srun \in [BatchIds -> [Symbols -> SymbolRow]]
    /\ ctl \in [Runners -> Control]
    /\ starts \in 0..MaxStarts
    /\ shared \in BOOLEAN

(* A symbol run is recorded as succeeded only if the pipeline run of the   *)
(* symbol is, however many runners, batches and crashes there are: the two *)
(* rows are written in different transactions, in that order.              *)
SucceededSymbolHasRun ==
    \A b \in BatchIds, s \in Symbols :
        srun[b][s].status = "success" => prun[s].status = "success"

(* With one runner at a time, crashing and restarting, a date has one      *)
(* batch: the runner that finds none is the only one that creates.         *)
OneBatchPerDate == ~ shared => \A b, c \in Existing : b = c

(* With one runner at a time, over a watchlist that nobody edits, the      *)
(* status a batch finished with agrees with its symbol runs, for every     *)
(* symbol of its frozen revision: success means all succeeded, failed that *)
(* none did, and nothing is left running.                                  *)
VerdictMatchesSymbols ==
    ~ shared => \A b \in Existing :
        LET Having(status) == {s \in batches[b].revision : srun[b][s].status = status}
            settled == Having("success") \cup Having("failed") = batches[b].revision
        IN  /\ batches[b].status = "success" => Having("success") = batches[b].revision
            /\ batches[b].status = "failed" => Having("failed") = batches[b].revision
            /\ batches[b].status = "partial_success" =>
                  settled /\ Having("success") # {} /\ Having("failed") # {}

(* "A batch/symbol already succeeded is never re-run": a symbol run that   *)
(* succeeded stays so.                                                     *)
SucceededNeverRerun ==
    [][\A b \in BatchIds, s \in Symbols :
          srun[b][s].status = "success" => srun'[b][s].status = "success"]_srun

(* It does so as long as no two runners were on at once: crashes, restarts *)
(* and resumed batches alone never run a succeeded symbol again.           *)
AloneNeverRerun ==
    [][~ shared' => \A b \in BatchIds, s \in Symbols :
          srun[b][s].status = "success" => srun'[b][s].status = "success"]_vars

(* "Interrupted runs can be resumed": a symbol is refused as in progress   *)
(* only while some runner is inside its pipeline run.                      *)
InterruptedRunResumable ==
    [][\A r \in Runners :
          /\ job[r].stage \in {"reading", "claiming"}
          /\ job'[r].error = "in_progress"
          => \E q \in Runners \ {r} : job[q].symbol = job[r].symbol]_job

(* "Freeze a watchlist revision at batch start": what a batch runs is what *)
(* its revision froze.                                                     *)
RevisionIsExecuted ==
    \A b \in BatchIds, s \in Symbols :
        srun[b][s].status # "none" => s \in batches[b].revision
=============================================================================
