----------------------------- MODULE PipelineRun -----------------------------
(***************************************************************************)
(* The pipeline run of a symbol for one target date: the pipeline_runs row *)
(* with its checkpoint transitions (app/storage/sqlite.py) and the code    *)
(* that drives it, DailyResearchPipeline.run (daily_research.py), called   *)
(* by several workers at once.  UNIQUE (symbol, target_date) makes the row *)
(* one per symbol.                                                         *)
(*                                                                         *)
(* sqlite3 opens a transaction at the first write, so a SELECT before it   *)
(* is a step of its own: start_pipeline_run reads, then writes.            *)
(*                                                                         *)
(* Left out: prices, metrics and artifacts, written in the transaction of  *)
(* the research note, which stands for them; a second provider or range    *)
(* for the same row (a contract conflict raised before anything changes);  *)
(* the retries inside one fetch, whose outcome is success or failure.      *)
(***************************************************************************)
EXTENDS Naturals

CONSTANTS
    Symbols,    \* the symbols
    Workers,    \* callers of DailyResearchPipeline.run
    NoSymbol    \* a worker that is not in a call

ASSUME PipelineAssumption == NoSymbol \notin Symbols

VARIABLES
    prun,       \* pipeline_runs: status, and the notes stored for the run
    job,        \* the call each worker is in
    resumed     \* history: symbols whose run was claimed while running

pipelineVars == <<prun, job, resumed>>

RunStatuses == {"none", "pending", "running", "success", "failed"}

(* The stages of a call; "returned" and "raised" hold its outcome until    *)
(* the caller takes it.                                                    *)
Stages == {"off", "opening", "reading", "claiming", "fetching", "completing",
           "failing", "returned", "raised"}

Errors == {"none", "in_progress", "failed", "state", "locked"}

(* resume: the caller passed the run's id as resume_run_id; observed: the  *)
(* status start_pipeline_run read; error: what the call raised.            *)
Job == [stage : Stages, symbol : Symbols \cup {NoSymbol}, resume : BOOLEAN,
        observed : RunStatuses, error : Errors]

NoJob == [stage |-> "off", symbol |-> NoSymbol, resume |-> FALSE,
          observed |-> "none", error |-> "none"]

(* The row of the worker's call. *)
Status(w) == prun[job[w].symbol].status

At(w, stage) == job[w].stage = stage

SetStage(w, stage) == job' = [job EXCEPT ![w].stage = stage]

Raise(w, error) == job' = [job EXCEPT ![w].stage = "raised", ![w].error = error]

Inside(w) == job[w].stage \in {"fetching", "completing", "failing"}

SetStatus(w, status) == prun' = [prun EXCEPT ![job[w].symbol].status = status]

----------------------------------------------------------------------------

PipelineInit ==
    /\ prun = [s \in Symbols |-> [status |-> "none", notes |-> 0]]
    /\ job = [w \in Workers |-> NoJob]
    /\ resumed = {}

(* The caller may name the run only if it has seen it. *)
Call(w, s, resume) ==
    /\ At(w, "off")
    /\ resume => prun[s].status # "none"
    /\ job' = [job EXCEPT ![w] = [NoJob EXCEPT !.stage = "opening", !.symbol = s,
                                               !.resume = resume]]
    /\ UNCHANGED <<prun, resumed>>

(* Mutant: a run in progress is replayed like a successful one. *)
OpenReplaying(w) ==
    /\ At(w, "opening")
    /\ \/ Status(w) = "none" /\ SetStatus(w, "pending") /\ SetStage(w, "reading")
       \/ Status(w) \in {"running", "success"} /\ SetStage(w, "returned") /\ UNCHANGED prun
       \/ /\ Status(w) \in {"pending", "failed"}
          /\ SetStage(w, "reading") /\ UNCHANGED prun
    /\ UNCHANGED resumed

(* get_or_create_pipeline_run.  A successful run is replayed. *)
Open(w) ==
    /\ At(w, "opening")
    /\ \/ Status(w) = "none" /\ SetStatus(w, "pending") /\ SetStage(w, "reading")
       \/ Status(w) = "success" /\ SetStage(w, "returned") /\ UNCHANGED prun
       \/ /\ Status(w) \notin {"none", "success"}
          /\ SetStage(w, "reading") /\ UNCHANGED prun
    /\ UNCHANGED resumed

(* start_pipeline_run, the SELECT and its two refusals. *)
ReadForClaim(w) ==
    /\ At(w, "reading")
    /\ \/ Status(w) = "success" /\ Raise(w, "state")
       \/ Status(w) = "running" /\ ~ job[w].resume /\ Raise(w, "in_progress")
       \/ /\ Status(w) # "success"
          /\ Status(w) = "running" => job[w].resume
          /\ job' = [job EXCEPT ![w].stage = "claiming", ![w].observed = Status(w)]
    /\ UNCHANGED <<prun, resumed>>

(* Mutant: the UPDATE does not compare the status. *)
ClaimUnchecked(w) ==
    /\ At(w, "claiming")
    /\ SetStatus(w, "running") /\ SetStage(w, "fetching")
    /\ resumed' = IF job[w].observed = "running" THEN resumed \cup {job[w].symbol}
                                               ELSE resumed

(* start_pipeline_run, the UPDATE ... WHERE status = <status read>. *)
Claim(w) ==
    /\ At(w, "claiming")
    /\ \/ /\ Status(w) = job[w].observed
          /\ SetStatus(w, "running") /\ SetStage(w, "fetching")
          /\ resumed' = IF Status(w) = "running" THEN resumed \cup {job[w].symbol}
                                               ELSE resumed
       \/ /\ Status(w) # job[w].observed
          /\ Raise(w, "in_progress") /\ UNCHANGED <<prun, resumed>>

(* Fetch, normalise and validate: no database access. *)
Fetch(w) ==
    /\ At(w, "fetching")
    /\ SetStage(w, "completing") \/ SetStage(w, "failing")
    /\ UNCHANGED <<prun, resumed>>

(* Mutant: the note is stored whatever the status of the run. *)
CompleteUnchecked(w) ==
    /\ At(w, "completing")
    /\ prun' = [prun EXCEPT ![job[w].symbol].status = "success",
                            ![job[w].symbol].notes = @ + 1]
    /\ SetStage(w, "returned")
    /\ UNCHANGED resumed

(* successful_pipeline_run: data, note and status in one transaction.  It  *)
(* is refused, and all of it rolled back, unless the run is still running; *)
(* the status is checked first and again by the last UPDATE, so that the   *)
(* transaction takes effect at the step that decides.                      *)
Complete(w) ==
    /\ At(w, "completing")
    /\ \/ /\ Status(w) = "running"
          /\ prun' = [prun EXCEPT ![job[w].symbol].status = "success",
                                  ![job[w].symbol].notes = @ + 1]
          /\ SetStage(w, "returned")
       \/ SetStage(w, "failing") /\ UNCHANGED prun
    /\ UNCHANGED resumed

(* Mutant: the UPDATE does not ask for a running run. *)
MarkRunFailedUnchecked(w) ==
    /\ At(w, "failing")
    /\ SetStatus(w, "failed") /\ Raise(w, "failed")
    /\ UNCHANGED resumed

(* Mutant: the kind of the error is stored as the status. *)
MarkRunFailedRaw(w) ==
    /\ At(w, "failing")
    /\ SetStatus(w, "in_progress") /\ Raise(w, "failed")
    /\ UNCHANGED resumed

(* mark_pipeline_run_failed, in the except clause of run, which re-raises. *)
MarkRunFailed(w) ==
    /\ At(w, "failing")
    /\ \/ Status(w) = "running" /\ SetStatus(w, "failed") /\ Raise(w, "failed")
       \/ Status(w) # "running" /\ Raise(w, "state") /\ UNCHANGED prun
    /\ UNCHANGED resumed

(* A transaction outside the try block, or the one that records a failure, *)
(* cannot get the database lock in time; nothing is written.               *)
LockTimeout(w) ==
    /\ job[w].stage \in {"opening", "reading", "claiming", "failing"}
    /\ Raise(w, "locked")
    /\ UNCHANGED <<prun, resumed>>

(* The caller takes the outcome. *)
TakeOutcome(w) ==
    /\ job[w].stage \in {"returned", "raised"}
    /\ job' = [job EXCEPT ![w] = NoJob]
    /\ UNCHANGED <<prun, resumed>>

(* The worker's process dies and leaves the row as it is. *)
Abandon(w) ==
    /\ ~ At(w, "off")
    /\ job' = [job EXCEPT ![w] = NoJob]
    /\ UNCHANGED <<prun, resumed>>

PipelineStep(w) ==
    \/ Open(w) \/ ReadForClaim(w) \/ Claim(w) \/ Fetch(w) \/ Complete(w)
    \/ MarkRunFailed(w) \/ LockTimeout(w)

PipelineNext ==
    \E w \in Workers :
        \/ PipelineStep(w)
        \/ \E s \in Symbols, resume \in BOOLEAN : Call(w, s, resume)
        \/ TakeOutcome(w)
        \/ Abandon(w)

PipelineSpec == PipelineInit /\ [][PipelineNext]_pipelineVars

----------------------------------------------------------------------------

(* Rows and calls have the shape the code gives them. *)
PipelineTypeOK ==
    /\ prun \in [Symbols -> [status : RunStatuses, notes : Nat]]
    /\ job \in [Workers -> Job]
    /\ resumed \subseteq Symbols
    /\ \A w \in Workers : job[w].stage # "off" => job[w].symbol \in Symbols

(* A successful run has its research note and only that one; a run in any  *)
(* other state has none, whatever failed, crashed or ran twice before.     *)
OneNotePerSuccess ==
    \A s \in Symbols : prun[s].notes = IF prun[s].status = "success" THEN 1 ELSE 0

(* A successful run never changes again: the UPDATE that claims a run is   *)
(* conditional on the status it read, which was not success.               *)
SuccessIsFinal ==
    [][\A s \in Symbols : prun[s].status = "success" => prun'[s] = prun[s]]_prun

(* A run that was never resumed while running has one worker inside it at  *)
(* most: two workers that both read the same free row cannot both claim it *)
(* and publish, or fail, the run under each other.                         *)
ClaimExclusive ==
    \A v, w \in Workers :
        /\ Inside(v) /\ Inside(w)
        /\ job[v].symbol = job[w].symbol /\ job[v].symbol \notin resumed
        => v = w

(* A call that returns has a successful run behind it, even when the call  *)
(* that made it successful was another worker's.                           *)
ReturnedMeansSuccess ==
    \A w \in Workers : job[w].stage = "returned" => Status(w) = "success"

(* A call returns only with a successful run behind it, and that run is    *)
(* never changed again, by whatever worker still holds an older reading.   *)
SuccessStands ==
    [][/\ ReturnedMeansSuccess'
       /\ \A s \in Symbols : prun[s].status = "success" => prun'[s] = prun[s]]_pipelineVars
=============================================================================
