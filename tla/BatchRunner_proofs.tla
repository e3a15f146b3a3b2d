------------------------ MODULE BatchRunner_proofs ------------------------
(***************************************************************************)
(* Theorems about PipelineRun, for any numbers of symbols and workers, and *)
(* about BatchRunner, for any watchlist, any number of runners, batches    *)
(* and starts.                                                             *)
(***************************************************************************)
EXTENDS BatchRunner, TLAPS

(***************************************************************************)
(* The pipeline run of a symbol.                                           *)
(***************************************************************************)
USE PipelineAssumption

RunRow == [status : RunStatuses, notes : Nat]

(* What the updates of one job, or of one row, do. *)
LEMMA SetStageEffect ==
    job \in [Workers -> Job] =>
    \A w \in Workers, stage \in Stages :
       SetStage(w, stage) =>
       /\ job' \in [Workers -> Job]
       /\ job'[w].stage = stage /\ job'[w].symbol = job[w].symbol
       /\ \A v \in Workers \ {w} : job'[v] = job[v]
BY DEF SetStage, Job

LEMMA RaiseEffect ==
    job \in [Workers -> Job] =>
    \A w \in Workers, error \in Errors :
       Raise(w, error) =>
       /\ job' \in [Workers -> Job]
       /\ job'[w].stage = "raised" /\ job'[w].symbol = job[w].symbol
       /\ \A v \in Workers \ {w} : job'[v] = job[v]
<1> SUFFICES ASSUME job \in [Workers -> Job], NEW w \in Workers, NEW error \in Errors,
                    Raise(w, error)
             PROVE  /\ job' \in [Workers -> Job]
                    /\ job'[w].stage = "raised" /\ job'[w].symbol = job[w].symbol
                    /\ \A v \in Workers \ {w} : job'[v] = job[v]
  OBVIOUS
<1> DEFINE mid == [job EXCEPT ![w].stage = "raised"]
<1>1. mid \in [Workers -> Job] /\ mid[w].stage = "raised" /\ mid[w].symbol = job[w].symbol
  BY DEF Job, Stages
<1>2. \A v \in Workers \ {w} : mid[v] = job[v]
  OBVIOUS
<1>3. job' = [mid EXCEPT ![w].error = error]
  BY DEF Raise
<1> HIDE DEF mid
<1> QED
  BY <1>1, <1>2, <1>3 DEF Job

LEMMA SetStatusEffect ==
    prun \in [Symbols -> RunRow] =>
    \A w \in Workers, status \in RunStatuses :
       SetStatus(w, status) /\ job[w].symbol \in Symbols =>
       /\ prun' \in [Symbols -> RunRow]
       /\ prun'[job[w].symbol].status = status
       /\ prun'[job[w].symbol].notes = prun[job[w].symbol].notes
       /\ \A s \in Symbols \ {job[w].symbol} : prun'[s] = prun[s]
BY DEF SetStatus, RunRow

----------------------------------------------------------------------------

(* The ways a worker moves, with what the step does to the row it works on.*)
Quiet(w) ==
    /\ UNCHANGED <<prun, resumed>>
    /\ job'[w].stage \notin {"returned", "claiming"}
    /\ Inside(w)' => Inside(w) /\ job'[w].symbol = job[w].symbol

Creates(w) ==
    /\ UNCHANGED resumed
    /\ Status(w) = "none" /\ prun'[job[w].symbol].status = "pending"
    /\ prun'[job[w].symbol].notes = prun[job[w].symbol].notes
    /\ job'[w].stage = "reading"

Replays(w) ==
    /\ UNCHANGED <<prun, resumed>>
    /\ Status(w) = "success"
    /\ job'[w].stage = "returned" /\ job'[w].symbol = job[w].symbol

Observes(w) ==
    /\ UNCHANGED <<prun, resumed>>
    /\ job'[w].stage = "claiming" /\ job'[w].observed # "success"

Claims(w) ==
    /\ job[w].stage = "claiming" /\ Status(w) = job[w].observed
    /\ prun'[job[w].symbol].status = "running"
    /\ prun'[job[w].symbol].notes = prun[job[w].symbol].notes
    /\ job'[w].stage = "fetching" /\ job'[w].symbol = job[w].symbol
    /\ resumed' = IF Status(w) = "running" THEN resumed \cup {job[w].symbol} ELSE resumed

Publishes(w) ==
    /\ Inside(w) /\ UNCHANGED resumed
    /\ Status(w) = "running" /\ prun'[job[w].symbol].status = "success"
    /\ prun'[job[w].symbol].notes = prun[job[w].symbol].notes + 1
    /\ job'[w].stage = "returned" /\ job'[w].symbol = job[w].symbol

Fails(w) ==
    /\ Inside(w) /\ UNCHANGED resumed
    /\ Status(w) = "running" /\ prun'[job[w].symbol].status = "failed"
    /\ prun'[job[w].symbol].notes = prun[job[w].symbol].notes
    /\ job'[w].stage = "raised"

WorkerMoves(w) ==
    /\ \A v \in Workers \ {w} : job'[v] = job[v]
    /\ \A s \in Symbols \ {job[w].symbol} : prun'[s] = prun[s]
    /\ \/ Quiet(w)
       \/ /\ job[w].stage # "off"
          /\ \/ Creates(w) \/ Replays(w) \/ Observes(w) \/ Claims(w) \/ Publishes(w)
             \/ Fails(w)

(* The types a step leaves, and what a symbol needs. *)
StepOK(w) ==
    /\ prun' \in [Symbols -> RunRow] /\ job' \in [Workers -> Job]
    /\ resumed' \subseteq Symbols
    /\ job'[w].stage # "off" => job'[w].symbol \in Symbols
    /\ WorkerMoves(w)

LEMMA OpenMoves == PipelineTypeOK => \A w \in Workers : Open(w) => StepOK(w)
<1> SUFFICES ASSUME PipelineTypeOK, NEW w \in Workers, Open(w) PROVE StepOK(w)
  OBVIOUS
<1> USE DEF PipelineTypeOK, RunRow
<1>1. job[w].stage = "opening" /\ job[w].symbol \in Symbols /\ UNCHANGED resumed
  BY DEF Open, At
<1>2. CASE Status(w) = "none" /\ SetStatus(w, "pending") /\ SetStage(w, "reading")
  <2>1. /\ job' \in [Workers -> Job]
        /\ job'[w].stage = "reading" /\ job'[w].symbol = job[w].symbol
        /\ \A v \in Workers \ {w} : job'[v] = job[v]
    BY <1>2, SetStageEffect DEF Stages
  <2>2. /\ prun' \in [Symbols -> RunRow] /\ prun'[job[w].symbol].status = "pending"
        /\ prun'[job[w].symbol].notes = prun[job[w].symbol].notes
        /\ \A s \in Symbols \ {job[w].symbol} : prun'[s] = prun[s]
    BY <1>1, <1>2, SetStatusEffect DEF RunStatuses
  <2> QED
    BY <1>1, <1>2, <2>1, <2>2 DEF StepOK, WorkerMoves, Creates
<1>3. ASSUME NEW stage \in {"returned", "reading"}, SetStage(w, stage), UNCHANGED prun,
             stage = "returned" => Status(w) = "success"
      PROVE  StepOK(w)
  <2>1. /\ job' \in [Workers -> Job]
        /\ job'[w].stage = stage /\ job'[w].symbol = job[w].symbol
        /\ \A v \in Workers \ {w} : job'[v] = job[v]
    BY <1>3, SetStageEffect DEF Stages
  <2>2. Quiet(w) \/ Replays(w)
    BY <1>1, <1>3, <2>1 DEF Quiet, Replays, Inside
  <2> QED
    BY <1>1, <1>3, <2>1, <2>2 DEF StepOK, WorkerMoves
<1> QED
  BY <1>2, <1>3 DEF Open

LEMMA ReadMoves == PipelineTypeOK => \A w \in Workers : ReadForClaim(w) => StepOK(w)
<1> SUFFICES ASSUME PipelineTypeOK, NEW w \in Workers, ReadForClaim(w) PROVE StepOK(w)
  OBVIOUS
<1> USE DEF PipelineTypeOK, RunRow
<1>1. /\ job[w].stage = "reading" /\ job[w].symbol \in Symbols
      /\ UNCHANGED <<prun, resumed>> /\ Status(w) \in RunStatuses
  BY DEF ReadForClaim, At, Status
<1>2. ASSUME NEW error \in Errors, Raise(w, error) PROVE StepOK(w)
  <2>1. /\ job' \in [Workers -> Job]
        /\ job'[w].stage = "raised" /\ job'[w].symbol = job[w].symbol
        /\ \A v \in Workers \ {w} : job'[v] = job[v]
    BY <1>2, RaiseEffect
  <2> QED
    BY <1>1, <2>1 DEF StepOK, WorkerMoves, Quiet, Inside
<1>3. ASSUME Status(w) # "success",
             job' = [job EXCEPT ![w].stage = "claiming", ![w].observed = Status(w)]
      PROVE  StepOK(w)
  <2> DEFINE mid == [job EXCEPT ![w].stage = "claiming"]
  <2>1. /\ mid \in [Workers -> Job] /\ mid[w].stage = "claiming"
        /\ mid[w].symbol = job[w].symbol /\ \A v \in Workers \ {w} : mid[v] = job[v]
    BY DEF Job, Stages
  <2>2. job' = [mid EXCEPT ![w].observed = Status(w)]
    BY <1>3
  <2> HIDE DEF mid
  <2>3. PICK status \in RunStatuses \ {"success"} :
            job' = [mid EXCEPT ![w].observed = status]
    BY <1>1, <1>3, <2>2
  <2>4. /\ job' \in [Workers -> Job] /\ job'[w].stage = mid[w].stage
        /\ job'[w].symbol = mid[w].symbol /\ job'[w].observed = status
        /\ \A v \in Workers \ {w} : job'[v] = mid[v]
    BY <2>1, <2>3 DEF Job
  <2> QED
    BY <1>1, <2>1, <2>4 DEF StepOK, WorkerMoves, Observes
<1> QED
  BY <1>2, <1>3 DEF ReadForClaim, Errors

LEMMA ClaimMoves == PipelineTypeOK => \A w \in Workers : Claim(w) => StepOK(w)
<1> SUFFICES ASSUME PipelineTypeOK, NEW w \in Workers, Claim(w) PROVE StepOK(w)
  OBVIOUS
<1> USE DEF PipelineTypeOK, RunRow
<1>1. job[w].stage = "claiming" /\ job[w].symbol \in Symbols
  BY DEF Claim, At
<1>2. CASE /\ Status(w) = job[w].observed
           /\ SetStatus(w, "running") /\ SetStage(w, "fetching")
           /\ resumed' = IF Status(w) = "running" THEN resumed \cup {job[w].symbol}
                                                ELSE resumed
  <2>1. /\ job' \in [Workers -> Job]
        /\ job'[w].stage = "fetching" /\ job'[w].symbol = job[w].symbol
        /\ \A v \in Workers \ {w} : job'[v] = job[v]
    BY <1>2, SetStageEffect DEF Stages
  <2>2. /\ prun' \in [Symbols -> RunRow] /\ prun'[job[w].symbol].status = "running"
        /\ prun'[job[w].symbol].notes = prun[job[w].symbol].notes
        /\ \A s \in Symbols \ {job[w].symbol} : prun'[s] = prun[s]
    BY <1>1, <1>2, SetStatusEffect DEF RunStatuses
  <2> QED
    BY <1>1, <1>2, <2>1, <2>2 DEF StepOK, WorkerMoves, Claims
<1>3. CASE Raise(w, "in_progress") /\ UNCHANGED <<prun, resumed>>
  <2>1. /\ job' \in [Workers -> Job]
        /\ job'[w].stage = "raised" /\ job'[w].symbol = job[w].symbol
        /\ \A v \in Workers \ {w} : job'[v] = job[v]
    BY <1>3, RaiseEffect DEF Errors
  <2> QED
    BY <1>1, <1>3, <2>1 DEF StepOK, WorkerMoves, Quiet, Inside
<1> QED
  BY <1>2, <1>3 DEF Claim

LEMMA CompleteMoves == PipelineTypeOK => \A w \in Workers : Complete(w) => StepOK(w)
<1> SUFFICES ASSUME PipelineTypeOK, NEW w \in Workers, Complete(w) PROVE StepOK(w)
  OBVIOUS
<1> USE DEF PipelineTypeOK, RunRow
<1>1. job[w].stage = "completing" /\ job[w].symbol \in Symbols /\ UNCHANGED resumed
  BY DEF Complete, At
<1>2. CASE /\ Status(w) = "running"
           /\ prun' = [prun EXCEPT ![job[w].symbol].status = "success",
                                   ![job[w].symbol].notes = @ + 1]
           /\ SetStage(w, "returned")
  <2>1. /\ job' \in [Workers -> Job]
        /\ job'[w].stage = "returned" /\ job'[w].symbol = job[w].symbol
        /\ \A v \in Workers \ {w} : job'[v] = job[v]
    BY <1>2, SetStageEffect DEF Stages
  <2>2. /\ prun' \in [Symbols -> RunRow] /\ prun'[job[w].symbol].status = "success"
        /\ prun'[job[w].symbol].notes = prun[job[w].symbol].notes + 1
        /\ \A s \in Symbols \ {job[w].symbol} : prun'[s] = prun[s]
    BY <1>1, <1>2 DEF RunStatuses
  <2> QED
    BY <1>1, <1>2, <2>1, <2>2 DEF StepOK, WorkerMoves, Publishes, Inside
<1>3. CASE SetStage(w, "failing") /\ UNCHANGED prun
  <2>1. /\ job' \in [Workers -> Job]
        /\ job'[w].stage = "failing" /\ job'[w].symbol = job[w].symbol
        /\ \A v \in Workers \ {w} : job'[v] = job[v]
    BY <1>3, SetStageEffect DEF Stages
  <2> QED
    BY <1>1, <1>3, <2>1 DEF StepOK, WorkerMoves, Quiet, Inside
<1> QED
  BY <1>2, <1>3 DEF Complete

LEMMA FailMoves == PipelineTypeOK => \A w \in Workers : MarkRunFailed(w) => StepOK(w)
<1> SUFFICES ASSUME PipelineTypeOK, NEW w \in Workers, MarkRunFailed(w) PROVE StepOK(w)
  OBVIOUS
<1> USE DEF PipelineTypeOK, RunRow
<1>1. job[w].stage = "failing" /\ job[w].symbol \in Symbols /\ UNCHANGED resumed
  BY DEF MarkRunFailed, At
<1>2. /\ job' \in [Workers -> Job]
      /\ job'[w].stage = "raised" /\ job'[w].symbol = job[w].symbol
      /\ \A v \in Workers \ {w} : job'[v] = job[v]
  BY RaiseEffect DEF Errors, MarkRunFailed
<1>3. CASE Status(w) = "running" /\ SetStatus(w, "failed")
  <2>1. /\ prun' \in [Symbols -> RunRow] /\ prun'[job[w].symbol].status = "failed"
        /\ prun'[job[w].symbol].notes = prun[job[w].symbol].notes
        /\ \A s \in Symbols \ {job[w].symbol} : prun'[s] = prun[s]
    BY <1>1, <1>3, SetStatusEffect DEF RunStatuses
  <2> QED
    BY <1>1, <1>2, <1>3, <2>1 DEF StepOK, WorkerMoves, Fails, Inside
<1>4. CASE UNCHANGED prun
  BY <1>1, <1>2, <1>4 DEF StepOK, WorkerMoves, Quiet, Inside
<1> QED
  BY <1>3, <1>4 DEF MarkRunFailed

LEMMA OtherMoves == PipelineTypeOK =>
    \A w \in Workers :
       \/ Fetch(w) \/ LockTimeout(w) \/ TakeOutcome(w) \/ Abandon(w)
       \/ \E s \in Symbols, resume \in BOOLEAN : Call(w, s, resume)
       => StepOK(w)
<1> SUFFICES ASSUME PipelineTypeOK, NEW w \in Workers,
                    \/ Fetch(w) \/ LockTimeout(w) \/ TakeOutcome(w) \/ Abandon(w)
                    \/ \E s \in Symbols, resume \in BOOLEAN : Call(w, s, resume)
             PROVE  StepOK(w)
  OBVIOUS
<1> USE DEF PipelineTypeOK, RunRow
<1>1. UNCHANGED <<prun, resumed>>
  BY DEF Fetch, LockTimeout, TakeOutcome, Abandon, Call
<1>2. CASE Fetch(w)
  <2>1. job[w].stage = "fetching" /\ job[w].symbol \in Symbols
    BY <1>2 DEF Fetch, At
  <2>2. PICK stage \in {"completing", "failing"} : SetStage(w, stage)
    BY <1>2 DEF Fetch
  <2>3. /\ job' \in [Workers -> Job]
        /\ job'[w].stage = stage /\ job'[w].symbol = job[w].symbol
        /\ \A v \in Workers \ {w} : job'[v] = job[v]
    BY <2>2, SetStageEffect DEF Stages
  <2> QED
    BY <1>1, <2>1, <2>3 DEF StepOK, WorkerMoves, Quiet, Inside
<1>3. CASE LockTimeout(w)
  <2>1. job[w].symbol \in Symbols /\ Raise(w, "locked")
    BY <1>3 DEF LockTimeout
  <2>2. /\ job' \in [Workers -> Job]
        /\ job'[w].stage = "raised" /\ job'[w].symbol = job[w].symbol
        /\ \A v \in Workers \ {w} : job'[v] = job[v]
    BY <2>1, RaiseEffect DEF Errors
  <2> QED
    BY <1>1, <2>1, <2>2 DEF StepOK, WorkerMoves, Quiet, Inside
<1>4. CASE TakeOutcome(w) \/ Abandon(w)
  <2>1. job' = [job EXCEPT ![w] = NoJob]
    BY <1>4 DEF TakeOutcome, Abandon
  <2>2. NoJob \in Job /\ NoJob.stage = "off"
    BY DEF NoJob, Job, Stages, RunStatuses, Errors
  <2> QED
    BY <1>1, <2>1, <2>2 DEF StepOK, WorkerMoves, Quiet, Inside
<1>5. ASSUME NEW s \in Symbols, NEW resume \in BOOLEAN, Call(w, s, resume)
      PROVE  StepOK(w)
  <2> DEFINE new == [NoJob EXCEPT !.stage = "opening", !.symbol = s, !.resume = resume]
  <2>1. job' = [job EXCEPT ![w] = new]
    BY <1>5 DEF Call
  <2>2. new \in Job /\ new.stage = "opening" /\ new.symbol = s
    BY DEF NoJob, Job, Stages, RunStatuses, Errors
  <2> HIDE DEF new
  <2> QED
    BY <1>1, <2>1, <2>2 DEF StepOK, WorkerMoves, Quiet, Inside
<1> QED
  BY <1>2, <1>3, <1>4, <1>5

(* Every step is a move of one worker. *)
LEMMA PipelineMoves == PipelineTypeOK /\ PipelineNext => \E w \in Workers : StepOK(w)
BY OpenMoves, ReadMoves, ClaimMoves, CompleteMoves, FailMoves, OtherMoves
DEF PipelineNext, PipelineStep

LEMMA PipelineTypeInit == PipelineInit => PipelineTypeOK
<1> SUFFICES ASSUME PipelineInit PROVE PipelineTypeOK
  OBVIOUS
<1>1. NoJob \in Job /\ NoJob.stage = "off"
  BY DEF NoJob, Job, Stages, RunStatuses, Errors
<1> QED
  BY <1>1 DEF PipelineInit, PipelineTypeOK, RunStatuses

LEMMA PipelineTypeStep ==
    PipelineTypeOK /\ [PipelineNext]_pipelineVars => PipelineTypeOK'
<1>1. ASSUME PipelineTypeOK, NEW w \in Workers, StepOK(w) PROVE PipelineTypeOK'
  BY <1>1 DEF PipelineTypeOK, StepOK, WorkerMoves, RunRow
<1>2. PipelineTypeOK /\ UNCHANGED pipelineVars => PipelineTypeOK'
  BY DEF PipelineTypeOK, pipelineVars
<1> QED
  BY <1>1, <1>2, PipelineMoves

(* Rows and calls keep their types. *)
THEOREM PipelineTypeCorrect == PipelineSpec => []PipelineTypeOK
BY PipelineTypeInit, PipelineTypeStep, PTL DEF PipelineSpec

----------------------------------------------------------------------------

(* A worker about to claim a run has not read that it had succeeded. *)
ClaimsObserved == \A w \in Workers : At(w, "claiming") => job[w].observed # "success"

(* A worker inside a run that was not claimed twice finds it running. *)
InsideIsRunning ==
    \A w \in Workers : Inside(w) /\ job[w].symbol \notin resumed => Status(w) = "running"

PipelineInv ==
    /\ PipelineTypeOK
    /\ ClaimsObserved /\ OneNotePerSuccess /\ ReturnedMeansSuccess
    /\ InsideIsRunning /\ ClaimExclusive

LEMMA PipelineInvInit == PipelineInit => PipelineInv
<1> SUFFICES ASSUME PipelineInit PROVE PipelineInv
  OBVIOUS
<1>1. \A w \in Workers : job[w].stage = "off"
  BY DEF PipelineInit, NoJob
<1>2. \A s \in Symbols : prun[s].status = "none" /\ prun[s].notes = 0
  BY DEF PipelineInit
<1>3. PipelineTypeOK
  BY PipelineTypeInit
<1> QED
  BY <1>1, <1>2, <1>3
  DEF PipelineInv, ClaimsObserved, OneNotePerSuccess, ReturnedMeansSuccess,
      InsideIsRunning, ClaimExclusive, At, Inside

(* A run that has succeeded is left as it is. *)
LEMMA SuccessStays ==
    ASSUME PipelineTypeOK, ClaimsObserved, NEW w \in Workers, WorkerMoves(w),
           NEW s \in Symbols, prun[s].status = "success"
    PROVE  prun'[s] = prun[s]
<1>1. CASE s # job[w].symbol \/ UNCHANGED prun
  BY <1>1 DEF WorkerMoves
<1>2. CASE s = job[w].symbol
  <2>1. Status(w) = "success"
    BY <1>2 DEF Status
  <2>2. ~ (Creates(w) \/ Publishes(w) \/ Fails(w) \/ Claims(w))
    BY <2>1 DEF Creates, Publishes, Fails, Claims, ClaimsObserved, At
  <2>3. UNCHANGED prun
    BY <2>2 DEF WorkerMoves, Quiet, Replays, Observes
  <2> QED
    BY <2>3
<1> QED
  BY <1>1, <1>2

LEMMA NotesStep ==
    ASSUME PipelineInv, NEW w \in Workers, WorkerMoves(w)
    PROVE  OneNotePerSuccess'
<1> SUFFICES ASSUME NEW s \in Symbols
             PROVE  prun'[s].notes = IF prun'[s].status = "success" THEN 1 ELSE 0
  BY DEF OneNotePerSuccess
<1>1. prun[s].notes = IF prun[s].status = "success" THEN 1 ELSE 0
  BY DEF PipelineInv, OneNotePerSuccess
<1>2. CASE s # job[w].symbol \/ UNCHANGED prun
  BY <1>1, <1>2 DEF WorkerMoves
<1>3. CASE s = job[w].symbol /\ (Creates(w) \/ Fails(w) \/ Publishes(w))
  BY <1>1, <1>3 DEF Creates, Fails, Publishes, Status
<1>4. CASE s = job[w].symbol /\ Claims(w)
  BY <1>1, <1>4 DEF Claims, Status, PipelineInv, ClaimsObserved, At
<1> QED
  BY <1>2, <1>3, <1>4 DEF WorkerMoves, Quiet, Replays, Observes

LEMMA ReturnedStep ==
    ASSUME PipelineInv, NEW w \in Workers, StepOK(w)
    PROVE  ReturnedMeansSuccess'
<1> SUFFICES ASSUME NEW v \in Workers, job'[v].stage = "returned"
             PROVE  prun'[job'[v].symbol].status = "success"
  BY DEF ReturnedMeansSuccess, Status
<1>1. CASE v # w
  <2>1. job'[v] = job[v] /\ job[v].symbol \in Symbols /\ prun[job[v].symbol].status = "success"
    BY <1>1 DEF StepOK, WorkerMoves, PipelineInv, PipelineTypeOK, ReturnedMeansSuccess, Status
  <2> QED
    BY <2>1, SuccessStays DEF StepOK, PipelineInv
<1>2. CASE v = w
  <2>1. Replays(w) \/ Publishes(w)
    BY <1>2 DEF StepOK, WorkerMoves, Quiet, Creates, Observes, Claims, Fails
  <2> QED
    BY <1>2, <2>1 DEF Replays, Publishes, Status
<1> QED
  BY <1>1, <1>2

(* Who is inside a run after a step was inside it before, and the run goes *)
(* on, or claims it now.                                                   *)
LEMMA InsideStep ==
    ASSUME PipelineInv, NEW w \in Workers, StepOK(w)
    PROVE  InsideIsRunning' /\ ClaimExclusive'
<1> USE DEF PipelineInv
<1>1. /\ \A v \in Workers \ {w} : job'[v] = job[v]
      /\ \A s \in Symbols \ {job[w].symbol} : prun'[s] = prun[s]
      /\ resumed \subseteq resumed'
  BY DEF StepOK, WorkerMoves, Quiet, Creates, Replays, Observes, Claims, Publishes, Fails
<1>2. \A v \in Workers : Inside(v) => job[v].stage # "off" /\ job[v].symbol \in Symbols
  BY DEF PipelineTypeOK, Inside
<1>3. \A v \in Workers \ {w} : Inside(v)' <=> Inside(v)
  BY <1>1 DEF Inside
<1>4. CASE UNCHANGED <<prun, resumed>> /\ (Inside(w)' => Inside(w) /\ job'[w].symbol = job[w].symbol)
  BY <1>1, <1>3, <1>4 DEF InsideIsRunning, ClaimExclusive, Status
<1>5. CASE Publishes(w) \/ Fails(w)
  <2>1. Inside(w) /\ ~ Inside(w)' /\ UNCHANGED resumed
    BY <1>5 DEF Publishes, Fails, Inside
  <2>2. \A v \in Workers : Inside(v)' /\ job'[v].symbol \notin resumed' =>
            v # w /\ job[v].symbol # job[w].symbol
    BY <1>1, <1>3, <2>1 DEF ClaimExclusive
  <2> QED
    BY <1>1, <1>2, <1>3, <2>1, <2>2 DEF InsideIsRunning, ClaimExclusive, Status
<1>6. CASE Creates(w)
  <2>1. ~ Inside(w)' /\ UNCHANGED resumed /\ Status(w) = "none"
    BY <1>6 DEF Creates, Inside
  <2>2. \A v \in Workers : Inside(v)' /\ job'[v].symbol \notin resumed' =>
            v # w /\ job[v].symbol # job[w].symbol
    BY <1>1, <1>3, <2>1 DEF InsideIsRunning, Status
  <2> QED
    BY <1>1, <1>2, <1>3, <2>1, <2>2 DEF InsideIsRunning, ClaimExclusive, Status
<1>7. CASE Claims(w)
  <2>1. /\ prun'[job[w].symbol].status = "running" /\ job'[w].symbol = job[w].symbol
        /\ ~ Inside(w)
    BY <1>7 DEF Claims, Inside
  <2>2. \A v \in Workers \ {w} : Inside(v)' /\ job'[v].symbol \notin resumed' =>
            job[v].symbol # job[w].symbol
    <3>1. CASE Status(w) = "running"
      BY <1>1, <1>7, <3>1 DEF Claims
    <3>2. CASE Status(w) # "running"
      BY <1>1, <1>3, <3>2 DEF InsideIsRunning, Status
    <3> QED
      BY <3>1, <3>2
  <2> QED
    BY <1>1, <1>2, <1>3, <2>1, <2>2 DEF InsideIsRunning, ClaimExclusive, Status
<1>8. Quiet(w) \/ Replays(w) \/ Observes(w) =>
          UNCHANGED <<prun, resumed>> /\ (Inside(w)' => Inside(w) /\ job'[w].symbol = job[w].symbol)
  BY DEF Quiet, Replays, Observes, Inside
<1> QED
  BY <1>4, <1>5, <1>6, <1>7, <1>8 DEF StepOK, WorkerMoves

(* A move of one worker keeps the invariant, whoever decides that it moves.*)
LEMMA PipelineInvMove ==
    ASSUME PipelineInv, NEW w \in Workers, StepOK(w)
    PROVE  PipelineInv'
<1>1. PipelineTypeOK'
  BY DEF PipelineInv, PipelineTypeOK, StepOK, WorkerMoves, RunRow
<1>2. ClaimsObserved'
  BY DEF PipelineInv, ClaimsObserved, At, StepOK, WorkerMoves, Quiet, Creates, Replays,
     Observes, Claims, Publishes, Fails
<1>3. OneNotePerSuccess' /\ ReturnedMeansSuccess' /\ InsideIsRunning' /\ ClaimExclusive'
  BY NotesStep, ReturnedStep, InsideStep DEF StepOK
<1> QED
  BY <1>1, <1>2, <1>3 DEF PipelineInv

LEMMA PipelineInvStutter == PipelineInv /\ UNCHANGED pipelineVars => PipelineInv'
BY DEF PipelineInv, PipelineTypeOK, ClaimsObserved, OneNotePerSuccess, ReturnedMeansSuccess,
   InsideIsRunning, ClaimExclusive, At, Inside, Status, pipelineVars

LEMMA PipelineInvStep == PipelineInv /\ [PipelineNext]_pipelineVars => PipelineInv'
<1>1. PipelineInv /\ PipelineNext => PipelineInv'
  BY PipelineMoves, PipelineInvMove DEF PipelineInv
<1> QED
  BY <1>1, PipelineInvStutter

THEOREM PipelineInvariant == PipelineSpec => []PipelineInv
BY PipelineInvInit, PipelineInvStep, PTL DEF PipelineSpec

(* A successful run has one research note, a run in any other state none.  *)
THEOREM NotesAgree == PipelineSpec => []OneNotePerSuccess
<1>1. PipelineInv => OneNotePerSuccess
  BY DEF PipelineInv
<1> QED
  BY <1>1, PipelineInvariant, PTL

(* No two workers are inside a run that was never claimed while running.   *)
THEOREM ClaimsExclusive == PipelineSpec => []ClaimExclusive
<1>1. PipelineInv => ClaimExclusive
  BY DEF PipelineInv
<1> QED
  BY <1>1, PipelineInvariant, PTL

(* A call that returns leaves a successful run behind.                     *)
THEOREM ReturnsSuccess == PipelineSpec => []ReturnedMeansSuccess
<1>1. PipelineInv => ReturnedMeansSuccess
  BY DEF PipelineInv
<1> QED
  BY <1>1, PipelineInvariant, PTL

(* A successful run never changes again.                                   *)
THEOREM SuccessFinal == PipelineSpec => SuccessIsFinal
<1>1. PipelineInv /\ [PipelineNext]_pipelineVars =>
          [\A s \in Symbols : prun[s].status = "success" => prun'[s] = prun[s]]_prun
  BY PipelineMoves, SuccessStays DEF PipelineInv, StepOK, pipelineVars
<1> QED
  BY <1>1, PipelineInvariant, PTL DEF PipelineSpec, SuccessIsFinal

(* SuccessStands holds for any number of workers and symbols.              *)
THEOREM SuccessHolds == PipelineSpec => SuccessStands
<1>1. /\ ReturnedMeansSuccess'
      /\ [\A s \in Symbols : prun[s].status = "success" => prun'[s] = prun[s]]_prun
      => [/\ ReturnedMeansSuccess'
          /\ \A s \in Symbols :
                prun[s].status = "success" => prun'[s] = prun[s]]_pipelineVars
  OBVIOUS
<1> QED
  BY <1>1, ReturnsSuccess, SuccessFinal, PTL DEF SuccessStands, SuccessIsFinal

(***************************************************************************)
(* The batch.                                                              *)
(***************************************************************************)
HIDE PipelineAssumption
USE BatchAssumption

InBatch == {"execute", "start_write", "next", "symbol_read", "symbol_write", "pipeline",
            "symbol_failed", "finish_write"}

AtSymbol == {"symbol_read", "symbol_write", "pipeline", "symbol_failed"}

(* What a runner stands on where it is: the batch it works on exists, it   *)
(* has a symbol while it handles one, the pipeline call is for it.         *)
Place(r) ==
    /\ ctl[r].at \in InBatch => ctl[r].batch \in Existing
    /\ ctl[r].at \in AtSymbol => ctl[r].current \in Symbols
    /\ ctl[r].at = "finish_write" => ctl[r].final # "absent"
    /\ ctl[r].at = "pipeline" /\ job[r].stage # "off" => job[r].symbol = ctl[r].current

PlacesHold == \A r \in Runners : Place(r)

Rows == [BatchIds -> [Symbols -> SymbolRow]]

(* The ways a symbol row changes. *)
Writes(r) ==
    \A b \in BatchIds, s \in Symbols :
       \/ srun'[b][s] = srun[b][s]
       \/ srun[b][s].status = "none" /\ srun'[b][s].status = "pending"
       \/ /\ ctl[r].at = "symbol_write" /\ b = ctl[r].batch /\ s = ctl[r].current
          /\ srun'[b][s].status = "running"
       \/ /\ ctl[r].at = "pipeline" /\ At(r, "returned") /\ s = ctl[r].current
          /\ srun'[b][s].status = "success"
       \/ srun[b][s].status = "running" /\ srun'[b][s].status = "failed"

(* A batch row appears only at the insert, one at a time. *)
Inserts(r) ==
    /\ Existing \subseteq Existing'
    /\ \/ Existing' = Existing
       \/ ctl[r].at = "insert" /\ \E b \in BatchIds : Existing' = Existing \cup {b}

(* What has been looked at on the way to a place where nothing asks again. *)
Looks(r) ==
    \/ UNCHANGED <<ctl, batches, srun>>
    \/ /\ ctl'[r].at = "revise" => Existing' = {}
       /\ ctl'[r].at = "insert" => ctl[r].at = "revise" /\ UNCHANGED batches
       /\ ctl'[r].at = "symbol_write" =>
             /\ SymbolRun(r).status # "success" /\ UNCHANGED srun
             /\ ctl'[r].batch = ctl[r].batch /\ ctl'[r].current = ctl[r].current

(* A step of one runner. *)
Moves(r) ==
    /\ StepOK(r) \/ UNCHANGED pipelineVars
    /\ UNCHANGED members /\ starts' \in 0..MaxStarts /\ shared' \in BOOLEAN
    /\ batches' \in [BatchIds -> BatchRow] /\ srun' \in Rows
    /\ ctl' \in [Runners -> Control]
    /\ \A q \in Runners \ {r} : ctl'[q] = ctl[q]
    /\ Place(r)' /\ Writes(r) /\ Inserts(r) /\ Looks(r)

(* A runner that starts knows whether another is on. *)
Notices(r) ==
    \/ shared' = shared /\ ctl[r].at # "off"
    \/ shared' = (shared \/ \E q \in Runners : ctl[q].at # "off")

BatchBase == BatchTypeOK /\ PlacesHold

----------------------------------------------------------------------------

LEMMA IdleIsControl == Idle \in Control /\ Idle.at = "off"
BY DEF Idle, Control, RunnerLocations, DailyBatchStatuses, DoneStatuses, SkipStatuses

(* Leaving, or going somewhere with nothing else to remember. *)
LEMMA LeaveEffect ==
    ASSUME BatchTypeOK, NEW r \in Runners, Leave(r)
    PROVE  /\ ctl' \in [Runners -> Control] /\ ctl'[r].at = "off"
           /\ \A q \in Runners \ {r} : ctl'[q] = ctl[q]
BY IdleIsControl DEF BatchTypeOK, Leave

LEMMA GotoEffect ==
    ASSUME BatchTypeOK, NEW r \in Runners, NEW location \in RunnerLocations, Goto(r, location)
    PROVE  /\ ctl' \in [Runners -> Control]
           /\ ctl'[r].at = location
           /\ ctl'[r].batch = ctl[r].batch /\ ctl'[r].current = ctl[r].current
           /\ \A q \in Runners \ {r} : ctl'[q] = ctl[q]
<1> DEFINE row == [ctl[r] EXCEPT !.at = location]
<1>1. /\ row \in Control /\ row.at = location
      /\ row.batch = ctl[r].batch /\ row.current = ctl[r].current
  <2>1. ctl[r] \in Control
    BY DEF BatchTypeOK
  <2> QED
    BY <2>1 DEF Control
<1>2. ctl' = [ctl EXCEPT ![r] = row]
  BY DEF Goto
<1> HIDE DEF row
<1> QED
  BY <1>1, <1>2 DEF BatchTypeOK

(* Steps that change the control of a runner only. *)
LEMMA ControlMoves ==
    ASSUME BatchBase, NEW r \in Runners,
           UNCHANGED <<members, batches, srun, starts, shared, pipelineVars>>,
           ctl' \in [Runners -> Control], \A q \in Runners \ {r} : ctl'[q] = ctl[q],
           Place(r)', Looks(r)
    PROVE  Moves(r)
<1>1. Existing' = Existing
  BY DEF Existing
<1> QED
  BY <1>1 DEF BatchBase, BatchTypeOK, Moves, Writes, Inserts, Rows, PipelineTypeOK

LEMMA LeavingMoves ==
    ASSUME BatchBase, NEW r \in Runners, Leave(r),
           UNCHANGED <<members, batches, srun, starts, shared, pipelineVars>>
    PROVE  Moves(r)
<1>1. Place(r)' /\ Looks(r)
  BY LeaveEffect DEF BatchBase, Place, Looks, InBatch, AtSymbol
<1> QED
  BY <1>1, LeaveEffect, ControlMoves DEF BatchBase

LEMMA StartMoves ==
    ASSUME BatchBase, NEW r \in Runners, RunAfresh(r) \/ RunResuming(r)
    PROVE  Moves(r) /\ Notices(r)
<1> USE DEF BatchBase, BatchTypeOK
<1>1. /\ UNCHANGED <<members, batches, srun, pipelineVars>> /\ Existing' = Existing
      /\ StartProcess(r)
  BY DEF RunAfresh, RunResuming, Existing
<1>2. starts' \in 0..MaxStarts /\ ctl[r].at = "off"
  BY <1>1 DEF StartProcess, Here
<1>3. shared' \in BOOLEAN /\ Notices(r)
  BY <1>1, Zenon DEF StartProcess, Notices, Here
<1>4. /\ ctl' \in [Runners -> Control]
      /\ \A q \in Runners \ {r} : ctl'[q] = ctl[q]
      /\ Place(r)' /\ ctl'[r].at \notin {"revise", "insert", "symbol_write"}
  <2>1. CASE RunAfresh(r)
    <3>1. PICK x \in Resolutions :
              ctl' = [ctl EXCEPT ![r].at = "enter", ![r].resolution = x]
      BY <2>1 DEF RunAfresh
    <3> DEFINE new == [ctl[r] EXCEPT !.at = "enter", !.resolution = x]
    <3>2. new \in Control /\ new.at = "enter"
      <4>1. ctl[r] \in Control
        OBVIOUS
      <4> QED
        BY <4>1 DEF Control, RunnerLocations
    <3>3. ctl' = [ctl EXCEPT ![r] = new]
      BY <3>1
    <3> HIDE DEF new
    <3> QED
      BY <3>2, <3>3 DEF Place, InBatch, AtSymbol
  <2>2. CASE RunResuming(r)
    <3>1. PICK b \in Existing, x \in Resolutions :
              IF batches[b].status \in DoneStatuses THEN UNCHANGED ctl
              ELSE ctl' = [ctl EXCEPT ![r] =
                      [Idle EXCEPT !.at = "execute", !.resolution = x, !.batch = b,
                                   !.symbols = batches[b].revision,
                                   !.resuming = (batches[b].status = "running")]]
      BY <2>2 DEF RunResuming
    <3>2. CASE batches[b].status \in DoneStatuses
      BY <1>2, <3>1, <3>2 DEF Place, InBatch, AtSymbol
    <3>3. CASE batches[b].status \notin DoneStatuses
      <4> DEFINE new == [Idle EXCEPT !.at = "execute", !.resolution = x, !.batch = b,
                                   !.symbols = batches[b].revision,
                                   !.resuming = (batches[b].status = "running")]
      <4>1. new \in Control /\ new.at = "execute" /\ new.batch = b
        BY IdleIsControl DEF Idle, Control, RunnerLocations, Existing, BatchRow
      <4>2. ctl' = [ctl EXCEPT ![r] = new]
        BY <3>1, <3>3
      <4> HIDE DEF new
      <4> QED
        BY <1>1, <4>1, <4>2 DEF Place, InBatch, AtSymbol
    <3> QED
      BY <3>2, <3>3
  <2> QED
    BY <2>1, <2>2
<1> QED
  BY <1>1, <1>2, <1>3, <1>4 DEF Moves, Writes, Inserts, Looks, Rows

(* A step that gives one runner a new control record.                      *)
LEMMA RowMoves ==
    ASSUME BatchBase, NEW r \in Runners, NEW row \in Control, ctl' = [ctl EXCEPT ![r] = row]
    PROVE  /\ ctl' \in [Runners -> Control] /\ ctl'[r] = row
           /\ \A q \in Runners \ {r} : ctl'[q] = ctl[q]
BY DEF BatchBase, BatchTypeOK

(* What is known of the runner that moves. *)
LEMMA Stand ==
    ASSUME BatchBase, NEW r \in Runners
    PROVE  /\ ctl[r] \in Control /\ Place(r)
           /\ job[r].stage # "off" => job[r].symbol \in Symbols
           /\ job \in [Workers -> Job] /\ members \in SUBSET Symbols
           /\ \A b \in Existing : b \in BatchIds /\ batches[b] \in BatchRow
           /\ NoSymbol \notin Symbols
BY PipelineAssumption
DEF BatchBase, BatchTypeOK, PlacesHold, PipelineTypeOK, Existing, Runners

LEMMA ReadingMoves ==
    ASSUME BatchBase, NEW r \in Runners, ReadSymbols(r) \/ CreateRevision(r)
    PROVE  Moves(r)
<1>1. ctl[r] \in Control /\ members \in SUBSET Symbols
  BY Stand
<1>2. CASE ReadSymbols(r)
  <2> DEFINE row == [ctl[r] EXCEPT !.at = "find", !.symbols = members]
  <2>1. row \in Control /\ row.at = "find"
    BY <1>1 DEF Control, RunnerLocations
  <2>2. ctl' = [ctl EXCEPT ![r] = row]
    BY <1>2 DEF ReadSymbols
  <2> HIDE DEF row
  <2>3. /\ ctl' \in [Runners -> Control] /\ ctl'[r] = row
        /\ \A q \in Runners \ {r} : ctl'[q] = ctl[q]
    BY <2>1, <2>2, RowMoves
  <2>4. Place(r)' /\ Looks(r)
    BY <2>1, <2>3 DEF Place, Looks, InBatch, AtSymbol
  <2> QED
    BY <1>2, <2>3, <2>4, ControlMoves DEF ReadSymbols
<1>3. CASE CreateRevision(r)
  <2> DEFINE row == [ctl[r] EXCEPT !.at = "insert", !.todo = members]
  <2>1. row \in Control /\ row.at = "insert"
    BY <1>1 DEF Control, RunnerLocations
  <2>2. ctl' = [ctl EXCEPT ![r] = row] /\ ctl[r].at = "revise" /\ UNCHANGED batches
    BY <1>3 DEF CreateRevision, Here
  <2> HIDE DEF row
  <2>3. /\ ctl' \in [Runners -> Control] /\ ctl'[r] = row
        /\ \A q \in Runners \ {r} : ctl'[q] = ctl[q]
    BY <2>1, <2>2, RowMoves
  <2>4. Place(r)' /\ Looks(r)
    BY <2>1, <2>2, <2>3 DEF Place, Looks, InBatch, AtSymbol
  <2> QED
    BY <1>3, <2>3, <2>4, ControlMoves DEF CreateRevision
<1> QED
  BY <1>2, <1>3

LEMMA FindMoves ==
    ASSUME BatchBase, NEW r \in Runners, FindExisting(r)
    PROVE  Moves(r)
<1>1. ctl[r] \in Control /\ \A b \in Existing : b \in BatchIds /\ batches[b] \in BatchRow
  BY Stand
<1>2. UNCHANGED <<pipelineVars, members, batches, srun, starts, shared>> /\ Existing' = Existing
  BY DEF FindExisting, Existing
<1>3. CASE Existing = {} /\ Goto(r, "revise")
  <2>1. /\ ctl' \in [Runners -> Control] /\ ctl'[r].at = "revise"
        /\ \A q \in Runners \ {r} : ctl'[q] = ctl[q]
    BY <1>3, GotoEffect DEF RunnerLocations, BatchBase
  <2>2. Place(r)' /\ Looks(r)
    BY <1>2, <1>3, <2>1 DEF Place, Looks, InBatch, AtSymbol
  <2> QED
    BY <1>2, <2>1, <2>2, ControlMoves
<1>4. CASE Leave(r)
  BY <1>2, <1>4, LeavingMoves
<1>5. ASSUME NEW b \in BatchIds, IsNewest(b), Adopt(r, b)
      PROVE  Moves(r)
  <2> DEFINE row == [ctl[r] EXCEPT !.at = "execute", !.batch = b,
                                   !.symbols = batches[b].revision,
                                   !.resuming = (batches[b].status = "running")]
  <2>1. b \in Existing
    BY <1>5 DEF IsNewest
  <2>2. row \in Control /\ row.at = "execute" /\ row.batch = b
    BY <1>1, <2>1 DEF Control, RunnerLocations, BatchRow
  <2>3. ctl' = [ctl EXCEPT ![r] = row]
    BY <1>5 DEF Adopt
  <2> HIDE DEF row
  <2>4. /\ ctl' \in [Runners -> Control] /\ ctl'[r] = row
        /\ \A q \in Runners \ {r} : ctl'[q] = ctl[q]
    BY <2>2, <2>3, RowMoves
  <2>5. Place(r)' /\ Looks(r)
    BY <1>2, <2>1, <2>2, <2>4 DEF Place, Looks, InBatch, AtSymbol
  <2> QED
    BY <1>2, <2>4, <2>5, ControlMoves
<1> QED
  BY <1>3, <1>4, <1>5 DEF FindExisting

LEMMA InsertMoves ==
    ASSUME BatchBase, NEW r \in Runners, InsertBatch(r)
    PROVE  Moves(r)
<1>1. ctl[r] \in Control
  BY Stand
<1>2. PICK b \in BatchIds \ Existing :
          /\ batches' = [batches EXCEPT ![b] =
                            [status |-> "pending", revision |-> ctl[r].todo]]
          /\ ctl' = [ctl EXCEPT ![r].at = "execute", ![r].batch = b, ![r].todo = {}]
  BY DEF InsertBatch
<1>3. /\ ctl[r].at = "insert" /\ UNCHANGED <<pipelineVars, members, srun, starts, shared>>
  BY DEF InsertBatch, Here
<1>4. /\ batches' \in [BatchIds -> BatchRow] /\ Existing' = Existing \cup {b}
  <2>1. [status |-> "pending", revision |-> ctl[r].todo] \in BatchRow
    BY <1>1 DEF BatchRow, Control, DailyBatchStatuses
  <2>2. batches \in [BatchIds -> BatchRow]
    BY DEF BatchBase, BatchTypeOK
  <2>3. batches' \in [BatchIds -> BatchRow] /\ batches'[b].status = "pending"
        /\ \A c \in BatchIds \ {b} : batches'[c] = batches[c]
    BY <1>2, <2>1, <2>2
  <2> QED
    BY <2>3 DEF Existing
<1> DEFINE row == [ctl[r] EXCEPT !.at = "execute", !.batch = b, !.todo = {}]
<1>5. row \in Control /\ row.at = "execute" /\ row.batch = b
  BY <1>1 DEF Control, RunnerLocations
<1>6. ctl' = [ctl EXCEPT ![r] = row]
  BY <1>2
<1> HIDE DEF row
<1>7. /\ ctl' \in [Runners -> Control] /\ ctl'[r] = row
      /\ \A q \in Runners \ {r} : ctl'[q] = ctl[q]
  BY <1>5, <1>6, RowMoves
<1>8. Place(r)' /\ Looks(r) /\ Inserts(r)
  BY <1>3, <1>4, <1>5, <1>7 DEF Place, Looks, Inserts, InBatch, AtSymbol
<1> QED
  BY <1>3, <1>4, <1>7, <1>8 DEF Moves, Writes, BatchBase, BatchTypeOK, Rows

(* The updates of the batch row: the row was there and stays there.        *)
LEMMA StatusKept ==
    ASSUME BatchBase, NEW r \in Runners, ctl[r].batch \in Existing,
           NEW status \in DailyBatchStatuses \ {"absent"}, SetBatchStatus(r, status)
    PROVE  batches' \in [BatchIds -> BatchRow] /\ Existing' = Existing
<1> DEFINE b == ctl[r].batch
<1>1. b \in BatchIds /\ batches[b] \in BatchRow /\ batches[b].status # "absent"
  BY DEF Existing, BatchBase, BatchTypeOK
<1>2. /\ batches' = [batches EXCEPT ![b] = [batches[b] EXCEPT !.status = status]]
      /\ batches \in [BatchIds -> BatchRow]
  BY DEF SetBatchStatus, BatchBase, BatchTypeOK
<1>3. [batches[b] EXCEPT !.status = status] \in BatchRow
  BY <1>1 DEF BatchRow
<1> HIDE DEF b
<1>4. batches' \in [BatchIds -> BatchRow] /\ batches'[b].status # "absent"
      /\ \A c \in BatchIds \ {b} : batches'[c] = batches[c]
  BY <1>1, <1>2, <1>3
<1> QED
  BY <1>1, <1>4 DEF Existing

LEMMA BatchRowMoves ==
    ASSUME BatchBase, NEW r \in Runners,
           UNCHANGED <<pipelineVars, members, srun, starts, shared>>,
           batches' \in [BatchIds -> BatchRow], Existing' = Existing,
           ctl' \in [Runners -> Control], \A q \in Runners \ {r} : ctl'[q] = ctl[q],
           Place(r)', Looks(r)
    PROVE  Moves(r)
BY DEF BatchBase, BatchTypeOK, Moves, Writes, Inserts, Rows

LEMMA SkipMoves ==
    ASSUME BatchBase, NEW r \in Runners, SkipBatch(r)
    PROVE  Moves(r)
<1>1. ctl[r] \in Control /\ ctl[r].batch \in Existing
  BY Stand DEF SkipBatch, Here, Place, InBatch
<1>2. /\ UNCHANGED <<pipelineVars, members, srun, starts, shared>> /\ Leave(r)
      /\ ctl[r].resolution # "resolved"
      /\ UNCHANGED batches \/ SetBatchStatus(r, ctl[r].resolution)
  BY DEF SkipBatch
<1>3. ctl[r].resolution \in DailyBatchStatuses \ {"absent"}
  BY <1>1, <1>2 DEF Control, DailyBatchStatuses, DoneStatuses, SkipStatuses
<1>4. batches' \in [BatchIds -> BatchRow] /\ Existing' = Existing
  BY <1>1, <1>2, <1>3, StatusKept DEF BatchBase, BatchTypeOK, Existing
<1>5. /\ ctl' \in [Runners -> Control] /\ \A q \in Runners \ {r} : ctl'[q] = ctl[q]
      /\ Place(r)' /\ Looks(r)
  BY <1>2, LeaveEffect DEF BatchBase, Place, Looks, InBatch, AtSymbol
<1> QED
  BY <1>2, <1>4, <1>5, BatchRowMoves

LEMMA StartReadMoves ==
    ASSUME BatchBase, NEW r \in Runners, StartBatchRead(r)
    PROVE  Moves(r)
<1>1. /\ \/ ctl[r].batch \in Existing /\ Leave(r)
         \/ Goto(r, "start_write")
      /\ UNCHANGED <<pipelineVars, members, batches, srun, starts, shared>>
  BY Stand DEF StartBatchRead, Here, Place, InBatch
<1>2. CASE Goto(r, "start_write")
  <2>1. /\ ctl' \in [Runners -> Control]
        /\ ctl'[r].at = "start_write" /\ ctl'[r].batch = ctl[r].batch
        /\ \A q \in Runners \ {r} : ctl'[q] = ctl[q]
    BY <1>2, GotoEffect DEF RunnerLocations, BatchBase
  <2>2. Place(r)' /\ Looks(r)
    BY <1>1, <2>1, Stand DEF Place, Looks, InBatch, AtSymbol, Existing, StartBatchRead, Here
  <2> QED
    BY <1>1, <2>1, <2>2, ControlMoves
<1> QED
  BY <1>1, <1>2, LeavingMoves

LEMMA StartWriteMoves ==
    ASSUME BatchBase, NEW r \in Runners, StartBatchWrite(r)
    PROVE  Moves(r)
<1>1. ctl[r] \in Control /\ ctl[r].batch \in Existing
  BY Stand DEF StartBatchWrite, Here, Place, InBatch
<1>2. batches' \in [BatchIds -> BatchRow] /\ Existing' = Existing
  BY <1>1, StatusKept DEF StartBatchWrite, DailyBatchStatuses
<1> DEFINE row == [ctl[r] EXCEPT !.at = "next", !.todo = ctl[r].symbols]
<1>3. row \in Control /\ row.at = "next" /\ row.batch = ctl[r].batch
  BY <1>1 DEF Control, RunnerLocations
<1>4. ctl' = [ctl EXCEPT ![r] = row]
  BY DEF StartBatchWrite
<1> HIDE DEF row
<1>5. /\ ctl' \in [Runners -> Control] /\ ctl'[r] = row
      /\ \A q \in Runners \ {r} : ctl'[q] = ctl[q]
  BY <1>3, <1>4, RowMoves
<1>6. Place(r)' /\ Looks(r)
  BY <1>1, <1>2, <1>3, <1>5 DEF Place, Looks, InBatch, AtSymbol
<1> QED
  BY <1>2, <1>5, <1>6, BatchRowMoves DEF StartBatchWrite

LEMMA FinishReadMoves ==
    ASSUME BatchBase, NEW r \in Runners, FinishBatchRead(r)
    PROVE  Moves(r)
<1>1. ctl[r] \in Control /\ ctl[r].batch \in Existing
  BY Stand DEF FinishBatchRead, Here, Place, InBatch
<1> DEFINE row == [ctl[r] EXCEPT !.at = "finish_write", !.final = FinalStatus(ctl[r].batch)]
<1>2. FinalStatus(ctl[r].batch) \in DailyBatchStatuses \ {"absent"}
  BY DEF FinalStatus, DailyBatchStatuses, DoneStatuses
<1>3. /\ row \in Control /\ row.at = "finish_write" /\ row.batch = ctl[r].batch
      /\ row.final # "absent"
  BY <1>1, <1>2 DEF Control, RunnerLocations
<1>4. ctl' = [ctl EXCEPT ![r] = row] /\ Existing' = Existing
  BY DEF FinishBatchRead, Existing
<1> HIDE DEF row
<1>5. /\ ctl' \in [Runners -> Control] /\ ctl'[r] = row
      /\ \A q \in Runners \ {r} : ctl'[q] = ctl[q]
  BY <1>3, <1>4, RowMoves
<1>6. Place(r)' /\ Looks(r)
  BY <1>1, <1>3, <1>4, <1>5 DEF Place, Looks, InBatch, AtSymbol
<1> QED
  BY <1>5, <1>6, ControlMoves DEF FinishBatchRead

LEMMA FinishWriteMoves ==
    ASSUME BatchBase, NEW r \in Runners, FinishBatchWrite(r)
    PROVE  Moves(r)
<1>1. ctl[r] \in Control /\ ctl[r].batch \in Existing /\ ctl[r].final # "absent"
  BY Stand DEF FinishBatchWrite, Here, Place, InBatch
<1>2. /\ UNCHANGED <<pipelineVars, members, srun, starts, shared>> /\ Leave(r)
      /\ UNCHANGED batches \/ SetBatchStatus(r, ctl[r].final)
  BY DEF FinishBatchWrite
<1>3. batches' \in [BatchIds -> BatchRow] /\ Existing' = Existing
  BY <1>1, <1>2, StatusKept DEF BatchBase, BatchTypeOK, Existing, Control
<1>4. /\ ctl' \in [Runners -> Control] /\ \A q \in Runners \ {r} : ctl'[q] = ctl[q]
      /\ Place(r)' /\ Looks(r)
  BY <1>2, LeaveEffect DEF BatchBase, Place, Looks, InBatch, AtSymbol
<1> QED
  BY <1>2, <1>3, <1>4, BatchRowMoves

(* The updates of a symbol row.                                            *)
RowSet(b, s, row) == srun' = [srun EXCEPT ![b][s] = row]

LEMMA SymbolRowSet ==
    ASSUME BatchBase, NEW b \in BatchIds, NEW s \in Symbols, NEW row \in SymbolRow,
           RowSet(b, s, row)
    PROVE  /\ srun' \in Rows /\ srun'[b][s] = row
           /\ \A c \in BatchIds, t \in Symbols :
                 c # b \/ t # s => srun'[c][t] = srun[c][t]
<1>1. srun \in Rows /\ srun[b] \in [Symbols -> SymbolRow]
  BY DEF BatchBase, BatchTypeOK, Rows
<1> DEFINE new == [srun[b] EXCEPT ![s] = row]
<1>2. /\ new \in [Symbols -> SymbolRow] /\ new[s] = row
      /\ \A t \in Symbols \ {s} : new[t] = srun[b][t]
  BY <1>1
<1>3. srun' = [srun EXCEPT ![b] = new]
  BY DEF RowSet
<1> HIDE DEF new
<1> QED
  BY <1>1, <1>2, <1>3 DEF Rows

LEMMA SymbolStand ==
    ASSUME BatchBase, NEW r \in Runners, ctl[r].at \in AtSymbol
    PROVE  /\ ctl[r].batch \in BatchIds /\ ctl[r].batch \in Existing
           /\ ctl[r].current \in Symbols /\ SymbolRun(r) \in SymbolRow
<1>1. ctl[r].batch \in Existing /\ ctl[r].current \in Symbols
  BY Stand DEF Place, InBatch, AtSymbol
<1> QED
  BY <1>1 DEF Existing, SymbolRun, BatchBase, BatchTypeOK

LEMMA NextMoves ==
    ASSUME BatchBase, NEW r \in Runners, NextSymbol(r)
    PROVE  Moves(r)
<1>1. /\ ctl[r] \in Control /\ ctl[r].batch \in Existing /\ ctl[r].batch \in BatchIds
      /\ srun \in Rows
  BY Stand DEF NextSymbol, Here, Place, InBatch, Existing, BatchBase, BatchTypeOK, Rows
<1>2. /\ UNCHANGED <<pipelineVars, members, batches, starts, shared>> /\ Existing' = Existing
      /\ ctl[r].at = "next"
  BY DEF NextSymbol, Existing, Here
<1>3. PICK s \in Symbols :
          LET row == srun[ctl[r].batch][s]
              taken == [ctl EXCEPT ![r].todo = @ \ {s}] IN
          \/ row.status = "success" /\ ctl' = taken /\ UNCHANGED srun
          \/ /\ row.status # "success"
             /\ ctl' = [taken EXCEPT ![r].at = "symbol_read", ![r].current = s]
             /\ srun' = IF row.status # "none" THEN srun ELSE
                         [srun EXCEPT ![ctl[r].batch][s].status = "pending"]
  BY DEF NextSymbol
<1> DEFINE taken == [ctl[r] EXCEPT !.todo = @ \ {s}]
           found == [taken EXCEPT !.at = "symbol_read", !.current = s]
<1>4. CASE ctl' = [ctl EXCEPT ![r] = taken] /\ UNCHANGED srun
  <2>1. taken \in Control /\ taken.at = "next" /\ taken.batch = ctl[r].batch
    BY <1>1, <1>2 DEF Control
  <2> HIDE DEF taken
  <2>2. /\ ctl' \in [Runners -> Control] /\ ctl'[r] = taken
        /\ \A q \in Runners \ {r} : ctl'[q] = ctl[q]
    BY <1>4, <2>1, RowMoves
  <2>3. Place(r)' /\ Looks(r)
    BY <1>1, <1>2, <2>1, <2>2 DEF Place, Looks, InBatch, AtSymbol
  <2> QED
    BY <1>2, <1>4, <2>2, <2>3, ControlMoves
<1>5. CASE /\ ctl' = [ctl EXCEPT ![r] = found]
           /\ srun' = IF srun[ctl[r].batch][s].status # "none" THEN srun ELSE
                        [srun EXCEPT ![ctl[r].batch][s].status = "pending"]
  <2>1. /\ found \in Control /\ found.at = "symbol_read" /\ found.batch = ctl[r].batch
        /\ found.current = s
    BY <1>1 DEF Control, RunnerLocations
  <2> HIDE DEF found
  <2>2. /\ ctl' \in [Runners -> Control] /\ ctl'[r] = found
        /\ \A q \in Runners \ {r} : ctl'[q] = ctl[q]
    BY <1>5, <2>1, RowMoves
  <2>3. Place(r)' /\ Looks(r)
    BY <1>1, <1>2, <2>1, <2>2 DEF Place, Looks, InBatch, AtSymbol
  <2>4. srun' \in Rows /\ Writes(r)
    <3>1. CASE UNCHANGED srun
      BY <1>1, <3>1 DEF Writes
    <3>2. CASE /\ srun[ctl[r].batch][s].status = "none"
               /\ srun' = [srun EXCEPT ![ctl[r].batch][s].status = "pending"]
      <4> DEFINE row == [srun[ctl[r].batch][s] EXCEPT !.status = "pending"]
      <4>1. row \in SymbolRow /\ row.status = "pending"
        <5>1. srun[ctl[r].batch][s] \in SymbolRow
          BY <1>1 DEF Rows
        <5> QED
          BY <5>1 DEF SymbolRow
      <4>2. RowSet(ctl[r].batch, s, row)
        BY <3>2 DEF RowSet
      <4> HIDE DEF row
      <4>3. /\ srun' \in Rows /\ srun'[ctl[r].batch][s] = row
            /\ \A c \in BatchIds, t \in Symbols :
                  c # ctl[r].batch \/ t # s => srun'[c][t] = srun[c][t]
        BY <1>1, <4>1, <4>2, SymbolRowSet
      <4> QED
        BY <3>2, <4>1, <4>3 DEF Writes
    <3> QED
      BY <1>5, <3>1, <3>2
  <2> QED
    BY <1>2, <2>2, <2>3, <2>4 DEF Moves, Inserts, BatchBase, BatchTypeOK
<1> QED
  BY <1>3, <1>4, <1>5

LEMMA SymbolReadMoves ==
    ASSUME BatchBase, NEW r \in Runners, StartSymbolRead(r)
    PROVE  Moves(r)
<1>1. /\ ctl[r].batch \in Existing /\ ctl[r].current \in Symbols
      /\ UNCHANGED <<pipelineVars, members, batches, srun, starts, shared>>
      /\ Leave(r) \/ (Goto(r, "symbol_write") /\ SymbolRun(r).status # "success")
      /\ Existing' = Existing
  BY SymbolStand DEF StartSymbolRead, Here, AtSymbol, Existing
<1>2. CASE Goto(r, "symbol_write") /\ SymbolRun(r).status # "success"
  <2>1. /\ ctl' \in [Runners -> Control] /\ ctl'[r].at = "symbol_write"
        /\ ctl'[r].batch = ctl[r].batch /\ ctl'[r].current = ctl[r].current
        /\ \A q \in Runners \ {r} : ctl'[q] = ctl[q]
    BY <1>2, GotoEffect DEF RunnerLocations, BatchBase
  <2>2. Place(r)' /\ Looks(r)
    BY <1>1, <1>2, <2>1 DEF Place, Looks, InBatch, AtSymbol
  <2> QED
    BY <1>1, <2>1, <2>2, ControlMoves
<1> QED
  BY <1>1, <1>2, LeavingMoves

LEMMA SymbolWriteMoves ==
    ASSUME BatchBase, NEW r \in Runners, StartSymbolWrite(r)
    PROVE  Moves(r)
<1> DEFINE s == ctl[r].current
           row == [SymbolRun(r) EXCEPT !.status = "running", !.error = "none",
                                       !.attempts = Incremented(@)]
           resume == row.attempts > 1 /\ row.linked
<1>1. /\ ctl[r].at = "symbol_write" /\ ctl[r].batch \in BatchIds /\ ctl[r].batch \in Existing
      /\ s \in Symbols /\ SymbolRun(r) \in SymbolRow /\ Existing' = Existing
  BY SymbolStand DEF StartSymbolWrite, Here, AtSymbol, Existing
<1>2. /\ Call(r, s, resume) /\ Goto(r, "pipeline")
      /\ UNCHANGED <<members, batches, starts, shared>>
  BY DEF StartSymbolWrite
<1>3. RowSet(ctl[r].batch, s, row)
  BY DEF StartSymbolWrite, SetSymbolRun, RowSet
<1>4. row \in SymbolRow /\ row.status = "running"
  <2>1. \A n \in 0..2 : Incremented(n) \in 0..2
    BY DEF Incremented
  <2> QED
    BY <1>1, <2>1 DEF SymbolRow, Errors
<1> HIDE DEF row, resume
<1>5. /\ srun' \in Rows /\ srun'[ctl[r].batch][s] = row
      /\ \A c \in BatchIds, t \in Symbols :
            c # ctl[r].batch \/ t # s => srun'[c][t] = srun[c][t]
  BY <1>1, <1>4, <1>3, SymbolRowSet
<1>6. /\ ctl' \in [Runners -> Control] /\ ctl'[r].at = "pipeline"
      /\ ctl'[r].batch = ctl[r].batch /\ ctl'[r].current = s
      /\ \A q \in Runners \ {r} : ctl'[q] = ctl[q]
  BY <1>2, GotoEffect DEF RunnerLocations, BatchBase
<1>7. StepOK(r)
  <2>1. resume \in BOOLEAN
    BY DEF resume
  <2> QED
    BY <1>1, <1>2, <2>1, OtherMoves DEF BatchBase, BatchTypeOK, Runners
<1>8. job'[r].symbol = s
  <2> DEFINE new == [NoJob EXCEPT !.stage = "opening", !.symbol = s, !.resume = resume]
  <2>1. new.symbol = s
    BY DEF NoJob
  <2>2. job' = [job EXCEPT ![r] = new] /\ job \in [Workers -> Job]
    BY <1>2, Stand DEF Call
  <2> HIDE DEF new
  <2> QED
    BY <2>1, <2>2 DEF Runners
<1>9. Writes(r)
  BY <1>1, <1>4, <1>5 DEF Writes
<1>10. Place(r)' /\ Looks(r)
  BY <1>1, <1>6, <1>8 DEF Place, Looks, InBatch, AtSymbol
<1> QED
  BY <1>1, <1>2, <1>5, <1>6, <1>7, <1>9, <1>10 DEF Moves, Inserts, BatchBase, BatchTypeOK

(* A step inside a pipeline call stays with the symbol of the call.        *)
LEMMA CallKeepsSymbol ==
    ASSUME PipelineTypeOK, NEW w \in Workers, PipelineStep(w)
    PROVE  job'[w].symbol = job[w].symbol /\ job[w].stage # "off"
<1>1. job \in [Workers -> Job]
  BY DEF PipelineTypeOK
<1>2. job[w].stage # "off"
  BY DEF PipelineStep, Open, ReadForClaim, Claim, Fetch, Complete, MarkRunFailed, LockTimeout, At
<1>3. ASSUME NEW stage \in Stages, SetStage(w, stage) PROVE job'[w].symbol = job[w].symbol
  BY <1>1, <1>3, SetStageEffect
<1>4. ASSUME NEW error \in Errors, Raise(w, error) PROVE job'[w].symbol = job[w].symbol
  BY <1>1, <1>4, RaiseEffect
<1>5. ASSUME job' = [job EXCEPT ![w].stage = "claiming", ![w].observed = Status(w)]
      PROVE  job'[w].symbol = job[w].symbol
  <2> DEFINE new == [job[w] EXCEPT !.stage = "claiming", !.observed = Status(w)]
  <2>1. new.symbol = job[w].symbol
    BY <1>1 DEF Job
  <2>2. job' = [job EXCEPT ![w] = new]
    BY <1>5
  <2> HIDE DEF new
  <2> QED
    BY <1>1, <2>1, <2>2
<1>6. \/ \E stage \in Stages : SetStage(w, stage)
      \/ \E error \in Errors : Raise(w, error)
      \/ job' = [job EXCEPT ![w].stage = "claiming", ![w].observed = Status(w)]
  <2>1. CASE Open(w)
    BY <2>1 DEF Open, Stages
  <2>2. CASE ReadForClaim(w)
    BY <2>2 DEF ReadForClaim, Errors
  <2>3. CASE Claim(w)
    BY <2>3 DEF Claim, Stages, Errors
  <2>4. CASE Fetch(w) \/ Complete(w)
    BY <2>4 DEF Fetch, Complete, Stages
  <2>5. CASE MarkRunFailed(w) \/ LockTimeout(w)
    BY <2>5 DEF MarkRunFailed, LockTimeout, Errors
  <2> QED
    BY <2>1, <2>2, <2>3, <2>4, <2>5 DEF PipelineStep
<1> QED
  BY <1>2, <1>3, <1>4, <1>5, <1>6

LEMMA PipelineCallMoves ==
    ASSUME BatchBase, NEW r \in Runners, Pipeline(r)
    PROVE  Moves(r)
<1>1. /\ PipelineStep(r) /\ UNCHANGED <<members, batches, srun, ctl, starts, shared>>
      /\ PipelineTypeOK /\ r \in Workers
  BY DEF Pipeline, BatchBase, BatchTypeOK, Runners
<1>2. StepOK(r)
  BY <1>1, OpenMoves, ReadMoves, ClaimMoves, CompleteMoves, FailMoves, OtherMoves
  DEF PipelineStep
<1>3. job'[r].symbol = job[r].symbol /\ job[r].stage # "off" /\ Existing' = Existing
  BY <1>1, CallKeepsSymbol DEF Existing
<1>4. Place(r)'
  BY <1>1, <1>3, Stand DEF Place
<1>5. Looks(r) /\ Writes(r) /\ Inserts(r)
  BY <1>1, <1>3 DEF Looks, Writes, Inserts
<1> QED
  BY <1>1, <1>2, <1>4, <1>5 DEF Moves, Rows, BatchBase, BatchTypeOK

(* After a symbol, with its row written or not.                            *)
LEMMA DoneMoves ==
    ASSUME BatchBase, NEW r \in Runners, ctl[r].at \in {"pipeline", "symbol_failed"},
           SymbolDone(r), TakeOutcome(r), srun' \in Rows, Writes(r),
           UNCHANGED <<members, batches, starts, shared>>
    PROVE  Moves(r)
<1> DEFINE row == [ctl[r] EXCEPT !.at = "next", !.current = NoSymbol]
<1>1. ctl[r] \in Control /\ ctl[r].batch \in Existing /\ Existing' = Existing
  BY Stand DEF Place, InBatch, Existing
<1>2. row \in Control /\ row.at = "next" /\ row.batch = ctl[r].batch
  BY <1>1 DEF Control, RunnerLocations
<1>3. ctl' = [ctl EXCEPT ![r] = row]
  BY DEF SymbolDone
<1> HIDE DEF row
<1>4. /\ ctl' \in [Runners -> Control] /\ ctl'[r] = row
      /\ \A q \in Runners \ {r} : ctl'[q] = ctl[q]
  BY <1>2, <1>3, RowMoves
<1>5. Place(r)' /\ Looks(r)
  BY <1>1, <1>2, <1>4 DEF Place, Looks, InBatch, AtSymbol
<1>6. StepOK(r)
  BY OtherMoves DEF BatchBase, BatchTypeOK, Runners
<1> QED
  BY <1>1, <1>4, <1>5, <1>6 DEF Moves, Inserts, BatchBase, BatchTypeOK

LEMMA SuccessMoves ==
    ASSUME BatchBase, NEW r \in Runners, MarkSymbolSuccess(r)
    PROVE  Moves(r)
<1>1. /\ ctl[r].at = "pipeline" /\ At(r, "returned")
      /\ UNCHANGED <<members, batches, starts, shared>>
  BY DEF MarkSymbolSuccess, Here
<1>2. /\ ctl[r].batch \in BatchIds /\ ctl[r].batch \in Existing /\ ctl[r].current \in Symbols
      /\ SymbolRun(r) \in SymbolRow /\ srun \in Rows /\ Existing' = Existing
  BY <1>1, SymbolStand DEF AtSymbol, BatchBase, BatchTypeOK, Rows, Existing
<1> DEFINE row == [SymbolRun(r) EXCEPT !.status = "success", !.linked = TRUE, !.error = "none"]
<1>3. CASE RowSet(ctl[r].batch, ctl[r].current, row) /\ SymbolDone(r) /\ TakeOutcome(r)
  <2>1. row \in SymbolRow /\ row.status = "success"
    BY <1>2 DEF SymbolRow, Errors
  <2> HIDE DEF row
  <2>2. /\ srun' \in Rows /\ srun'[ctl[r].batch][ctl[r].current] = row
        /\ \A c \in BatchIds, t \in Symbols :
              c # ctl[r].batch \/ t # ctl[r].current => srun'[c][t] = srun[c][t]
    BY <1>2, <1>3, <2>1, SymbolRowSet
  <2>3. Writes(r)
    BY <1>1, <2>1, <2>2 DEF Writes
  <2> QED
    BY <1>1, <1>3, <2>2, <2>3, DoneMoves
<1>4. CASE SymbolDone(r) /\ TakeOutcome(r) /\ UNCHANGED srun
  BY <1>1, <1>2, <1>4, DoneMoves DEF Writes
<1>5. CASE Goto(r, "symbol_failed") /\ Raise(r, "state") /\ UNCHANGED <<prun, resumed, srun>>
  <2>1. /\ ctl' \in [Runners -> Control] /\ ctl'[r].at = "symbol_failed"
        /\ ctl'[r].batch = ctl[r].batch /\ ctl'[r].current = ctl[r].current
        /\ \A q \in Runners \ {r} : ctl'[q] = ctl[q]
    BY <1>5, GotoEffect DEF RunnerLocations, BatchBase
  <2>2. PipelineTypeOK /\ job[r].stage # "off" /\ job[r].symbol \in Symbols /\ r \in Workers
    BY <1>1, Stand DEF BatchBase, BatchTypeOK, At, Runners
  <2>3. /\ job' \in [Workers -> Job]
        /\ job'[r].stage = "raised" /\ job'[r].symbol = job[r].symbol
        /\ \A v \in Workers \ {r} : job'[v] = job[v]
    BY <1>5, <2>2, RaiseEffect DEF Errors, PipelineTypeOK
  <2>4. StepOK(r)
    BY <1>5, <2>2, <2>3 DEF StepOK, WorkerMoves, Quiet, Inside, PipelineTypeOK, RunRow
  <2>5. Place(r)' /\ Looks(r)
    BY <1>2, <2>1 DEF Place, Looks, InBatch, AtSymbol
  <2> QED
    BY <1>1, <1>2, <1>5, <2>1, <2>4, <2>5 DEF Moves, Writes, Inserts, BatchBase, BatchTypeOK
<1> QED
  BY <1>1, <1>3, <1>4, <1>5 DEF MarkSymbolSuccess, Raise, SetSymbolRun, RowSet

LEMMA RaisedMoves ==
    ASSUME BatchBase, NEW r \in Runners, PipelineRaised(r)
    PROVE  Moves(r)
<1>1. /\ ctl[r].batch \in Existing /\ ctl[r].current \in Symbols
      /\ UNCHANGED <<pipelineVars, members, batches, srun, starts, shared>>
      /\ Existing' = Existing /\ Goto(r, "symbol_failed")
  BY SymbolStand DEF PipelineRaised, Here, AtSymbol, Existing
<1>2. /\ ctl' \in [Runners -> Control] /\ ctl'[r].at = "symbol_failed"
      /\ ctl'[r].batch = ctl[r].batch /\ ctl'[r].current = ctl[r].current
      /\ \A q \in Runners \ {r} : ctl'[q] = ctl[q]
  BY <1>1, GotoEffect DEF RunnerLocations, BatchBase
<1>3. Place(r)' /\ Looks(r)
  BY <1>1, <1>2 DEF Place, Looks, InBatch, AtSymbol
<1> QED
  BY <1>1, <1>2, <1>3, ControlMoves

LEMMA FailedMoves ==
    ASSUME BatchBase, NEW r \in Runners, MarkSymbolFailed(r)
    PROVE  Moves(r)
<1>1. /\ ctl[r].at = "symbol_failed" /\ SymbolDone(r) /\ TakeOutcome(r)
      /\ UNCHANGED <<members, batches, starts, shared>>
  BY DEF MarkSymbolFailed, Here
<1>2. /\ ctl[r].batch \in BatchIds /\ ctl[r].current \in Symbols
      /\ SymbolRun(r) \in SymbolRow /\ srun \in Rows /\ job[r].error \in Errors
  BY <1>1, SymbolStand, Stand DEF AtSymbol, BatchBase, BatchTypeOK, Rows, Job, Runners
<1> DEFINE row == [SymbolRun(r) EXCEPT !.status = "failed", !.error = job[r].error]
<1>3. CASE SymbolRun(r).status = "running" /\ RowSet(ctl[r].batch, ctl[r].current, row)
  <2>1. row \in SymbolRow /\ row.status = "failed"
    BY <1>2 DEF SymbolRow
  <2> HIDE DEF row
  <2>2. /\ srun' \in Rows /\ srun'[ctl[r].batch][ctl[r].current] = row
        /\ \A c \in BatchIds, t \in Symbols :
              c # ctl[r].batch \/ t # ctl[r].current => srun'[c][t] = srun[c][t]
    BY <1>2, <1>3, <2>1, SymbolRowSet
  <2>3. Writes(r)
    BY <1>3, <2>1, <2>2 DEF Writes, SymbolRun
  <2> QED
    BY <1>1, <2>2, <2>3, DoneMoves
<1>4. CASE UNCHANGED srun
  BY <1>1, <1>2, <1>4, DoneMoves DEF Writes
<1> QED
  BY <1>3, <1>4 DEF MarkSymbolFailed, SetSymbolRun, RowSet

LEMMA CrashMoves ==
    ASSUME BatchBase, NEW r \in Runners, Crash(r)
    PROVE  Moves(r)
<1>1. /\ Leave(r) /\ job' = [job EXCEPT ![r] = NoJob]
      /\ UNCHANGED <<prun, resumed, members, batches, srun, starts, shared>>
      /\ Existing' = Existing
  BY DEF Crash, Existing
<1>2. /\ ctl' \in [Runners -> Control] /\ \A q \in Runners \ {r} : ctl'[q] = ctl[q]
      /\ Place(r)' /\ Looks(r)
  BY <1>1, LeaveEffect DEF BatchBase, Place, Looks, InBatch, AtSymbol
<1>3. StepOK(r)
  <2>1. NoJob \in Job /\ NoJob.stage = "off"
    BY DEF NoJob, Job, Stages, RunStatuses, Errors
  <2>2. PipelineTypeOK /\ r \in Workers
    BY DEF BatchBase, BatchTypeOK, Runners
  <2> QED
    BY <1>1, <2>1, <2>2 DEF StepOK, WorkerMoves, Quiet, Inside, PipelineTypeOK, RunRow
<1> QED
  BY <1>1, <1>2, <1>3 DEF Moves, Writes, Inserts, Rows, BatchBase, BatchTypeOK

(* Every step is one of a runner, or an edit of the watchlist.             *)
LEMMA RunnerMoves ==
    ASSUME BatchBase, NEW r \in Runners, RunnerStep(r) \/ Crash(r)
    PROVE  /\ Moves(r) /\ shared' = shared
           /\ (ctl[r].at # "off" \/ UNCHANGED <<ctl, batches, srun>>)
<1>1. shared' = shared /\ (ctl[r].at # "off" \/ UNCHANGED <<ctl, batches, srun>>)
  BY DEF Here, RunnerStep, Crash, ReadSymbols, FindExisting, CreateRevision, InsertBatch, SkipBatch,
     StartBatchRead, StartBatchWrite, NextSymbol, StartSymbolRead, StartSymbolWrite, Pipeline,
     MarkSymbolSuccess, PipelineRaised, MarkSymbolFailed, FinishBatchRead, FinishBatchWrite
<1> QED
  BY <1>1, ReadingMoves, FindMoves, InsertMoves, SkipMoves, StartReadMoves, StartWriteMoves,
     NextMoves, SymbolReadMoves, SymbolWriteMoves, PipelineCallMoves, SuccessMoves,
     RaisedMoves, FailedMoves, FinishReadMoves, FinishWriteMoves, CrashMoves
  DEF RunnerStep

(* What others stand on does not move under them. *)
LEMMA BaseStep ==
    ASSUME BatchBase, NEW r \in Runners, Moves(r)
    PROVE  BatchBase'
<1>1. PipelineTypeOK'
  <2>1. CASE StepOK(r)
    BY <2>1 DEF BatchBase, BatchTypeOK, PipelineTypeOK, StepOK, WorkerMoves, RunRow
  <2>2. CASE UNCHANGED pipelineVars
    BY <2>2 DEF BatchBase, BatchTypeOK, PipelineTypeOK, pipelineVars
  <2> QED
    BY <2>1, <2>2 DEF Moves
<1>2. BatchTypeOK'
  BY <1>1 DEF BatchBase, BatchTypeOK, Moves, Rows
<1>3. ASSUME NEW q \in Runners \ {r} PROVE Place(q)'
  <2>1. ctl'[q] = ctl[q] /\ Existing \subseteq Existing' /\ Place(q)
    BY DEF Moves, Inserts, BatchBase, PlacesHold
  <2>2. job'[q] = job[q]
    BY DEF Moves, StepOK, WorkerMoves, pipelineVars, Runners
  <2> QED
    BY <2>1, <2>2 DEF Place
<1>4. PlacesHold'
  BY <1>3 DEF PlacesHold, Moves
<1> QED
  BY <1>2, <1>4 DEF BatchBase

LEMMA BaseInit == Init => BatchBase
<1> SUFFICES ASSUME Init PROVE BatchBase
  OBVIOUS
<1>1. PipelineTypeOK
  BY PipelineTypeInit DEF Init
<1>2. batches \in [BatchIds -> BatchRow] /\ members \in Watchlists
  BY DEF Init, BatchRow, DailyBatchStatuses
<1>3. srun \in [BatchIds -> [Symbols -> SymbolRow]]
  BY DEF Init, NoSymbolRow, SymbolRow, Errors
<1>4. ctl \in [Runners -> Control] /\ \A r \in Runners : ctl[r].at = "off"
  BY IdleIsControl DEF Init
<1>5. PlacesHold
  BY <1>4 DEF PlacesHold, Place, InBatch, AtSymbol
<1>6. starts \in 0..MaxStarts
  BY DEF Init
<1>7. shared \in BOOLEAN
  BY Zenon DEF Init
<1> QED
  BY <1>1, <1>2, <1>3, <1>4, <1>5, <1>6, <1>7 DEF BatchBase, BatchTypeOK

----------------------------------------------------------------------------

(* With the pipeline's own invariant, whose call a runner marks as         *)
(* succeeded only when it has returned.                                    *)
BatchInv == BatchBase /\ PipelineInv /\ SucceededSymbolHasRun

LEMMA RunStays ==
    ASSUME BatchInv, NEW r \in Runners, Moves(r), NEW s \in Symbols,
           prun[s].status = "success"
    PROVE  prun'[s] = prun[s]
<1>1. CASE StepOK(r)
  BY <1>1, SuccessStays DEF BatchInv, PipelineInv, StepOK, Runners
<1>2. CASE UNCHANGED pipelineVars
  BY <1>2 DEF pipelineVars
<1> QED
  BY <1>1, <1>2 DEF Moves

LEMMA BatchInvStep ==
    ASSUME BatchInv, NEW r \in Runners, Moves(r)
    PROVE  BatchInv'
<1>1. BatchBase'
  BY BaseStep DEF BatchInv
<1>2. PipelineInv'
  <2>1. CASE StepOK(r)
    BY <2>1, PipelineInvMove DEF BatchInv, Runners
  <2>2. CASE UNCHANGED pipelineVars
    BY <2>2, PipelineInvStutter DEF BatchInv
  <2> QED
    BY <2>1, <2>2 DEF Moves
<1>3. ASSUME NEW b \in BatchIds, NEW s \in Symbols, srun'[b][s].status = "success"
      PROVE  prun'[s].status = "success"
  <2>1. CASE srun[b][s].status = "success"
    BY <2>1, RunStays DEF BatchInv, SucceededSymbolHasRun
  <2>2. CASE srun[b][s].status # "success"
    <3>1. ctl[r].at = "pipeline" /\ At(r, "returned") /\ s = ctl[r].current
      BY <1>3, <2>2 DEF Moves, Writes
    <3>2. job[r].symbol = s
      BY <3>1, Stand DEF BatchInv, Place, At
    <3>3. prun[s].status = "success"
      BY <3>1, <3>2 DEF BatchInv, PipelineInv, ReturnedMeansSuccess, At, Status, Runners
    <3> QED
      BY <3>3, RunStays
  <2> QED
    BY <2>1, <2>2
<1> QED
  BY <1>1, <1>2, <1>3 DEF BatchInv, SucceededSymbolHasRun

(* Edits of the watchlist, and no step at all. *)
LEMMA BatchInvQuiet ==
    ASSUME BatchInv, SetWatchlistMembers \/ UNCHANGED vars
    PROVE  BatchInv'
<1>1. UNCHANGED <<pipelineVars, batches, srun, ctl, starts, shared>> /\ members' \in Watchlists
  BY DEF SetWatchlistMembers, vars, BatchInv, BatchBase, BatchTypeOK
<1>2. UNCHANGED <<prun, job, resumed>> /\ Existing' = Existing
  BY <1>1 DEF pipelineVars, Existing
<1>3. PipelineInv'
  BY <1>1, PipelineInvStutter DEF BatchInv
<1>4. BatchTypeOK' /\ PlacesHold'
  BY <1>1, <1>2, <1>3
  DEF BatchInv, BatchBase, BatchTypeOK, PlacesHold, Place, PipelineInv
<1> QED
  BY <1>1, <1>2, <1>3, <1>4 DEF BatchInv, BatchBase, SucceededSymbolHasRun

LEMMA BatchSteps ==
    ASSUME BatchBase, [Next]_vars
    PROVE  \/ SetWatchlistMembers \/ UNCHANGED vars
           \/ \E r \in Runners : Moves(r) /\ Notices(r)
           \/ \E r \in Runners : Moves(r) /\ shared' = shared /\ UNCHANGED <<ctl, batches, srun>>
BY StartMoves, RunnerMoves DEF Next, Notices

THEOREM BatchInvariant == Spec => []BatchInv
<1>1. Init => BatchInv
  <2>1. Init => SucceededSymbolHasRun
    BY DEF Init, SucceededSymbolHasRun, NoSymbolRow
  <2> QED
    BY <2>1, BaseInit, PipelineInvInit DEF Init, BatchInv
<1>2. BatchInv /\ [Next]_vars => BatchInv'
  BY BatchSteps, BatchInvStep, BatchInvQuiet DEF BatchInv
<1> QED
  BY <1>1, <1>2, PTL DEF Spec

(* Watchlist, batches, symbol runs and the runners' locals keep their      *)
(* types.                                                                  *)
THEOREM BatchTypeCorrect == Spec => []BatchTypeOK
<1>1. BatchInv => BatchTypeOK
  BY DEF BatchInv, BatchBase
<1> QED
  BY <1>1, BatchInvariant, PTL

(* A symbol run has succeeded only if the pipeline run of the symbol has.  *)
THEOREM SuccessHasRun == Spec => []SucceededSymbolHasRun
<1>1. BatchInv => SucceededSymbolHasRun
  BY DEF BatchInv
<1> QED
  BY <1>1, BatchInvariant, PTL

(* Whatever the batch tables suffer, a pipeline run publishes one note.    *)
THEOREM BatchNotesAgree == Spec => []OneNotePerSuccess
<1>1. BatchInv => OneNotePerSuccess
  BY DEF BatchInv, PipelineInv
<1> QED
  BY <1>1, BatchInvariant, PTL

(* No two runners are inside a pipeline run never claimed while running.   *)
THEOREM BatchClaimsExclusive == Spec => []ClaimExclusive
<1>1. BatchInv => ClaimExclusive
  BY DEF BatchInv, PipelineInv
<1> QED
  BY <1>1, BatchInvariant, PTL

(* A call returns with a successful run behind it, which stays as it is.   *)
THEOREM BatchSuccessStands == Spec => SuccessStands
<1>1. BatchInv /\ BatchInv' /\ [Next]_vars =>
          [/\ ReturnedMeansSuccess'
           /\ \A s \in Symbols : prun[s].status = "success" => prun'[s] = prun[s]]_pipelineVars
  <2> SUFFICES ASSUME BatchInv, BatchInv', [Next]_vars, ~ UNCHANGED pipelineVars
               PROVE  /\ ReturnedMeansSuccess'
                      /\ \A s \in Symbols : prun[s].status = "success" => prun'[s] = prun[s]
    OBVIOUS
  <2>1. ReturnedMeansSuccess'
    BY DEF BatchInv, PipelineInv
  <2>2. \E r \in Runners : Moves(r)
    BY BatchSteps DEF SetWatchlistMembers, vars, BatchInv
  <2> QED
    BY <2>1, <2>2, RunStays
<1> QED
  BY <1>1, BatchInvariant, PTL DEF Spec, SuccessStands

----------------------------------------------------------------------------

(* As long as no two runners were on at once: the one that is on has found *)
(* no batch when it creates one, and no success when it starts a symbol.   *)
AloneInv ==
    ~ shared =>
    /\ \A q, r \in Runners : ctl[q].at # "off" /\ ctl[r].at # "off" => q = r
    /\ \A b, c \in Existing : b = c
    /\ \A r \in Runners :
          /\ ctl[r].at \in {"revise", "insert"} => Existing = {}
          /\ ctl[r].at = "symbol_write" => SymbolRun(r).status # "success"

(* A runner that moves, with nobody else on. *)
LEMMA AloneMoves ==
    ASSUME AloneInv, NEW r \in Runners, Moves(r), Notices(r), ~ shared'
    PROVE  ~ shared /\ \A q \in Runners \ {r} : ctl[q].at = "off" /\ ctl'[q] = ctl[q]
BY DEF AloneInv, Moves, Notices

LEMMA AloneStep ==
    ASSUME AloneInv, NEW r \in Runners, Moves(r), Notices(r)
    PROVE  AloneInv'
<1> SUFFICES ASSUME ~ shared' PROVE AloneInv'
  BY DEF AloneInv
<1>1. ~ shared /\ \A q \in Runners \ {r} : ctl[q].at = "off" /\ ctl'[q].at = "off"
  BY AloneMoves
<1>2. \A b, c \in Existing' : b = c
  BY <1>1 DEF AloneInv, Moves, Inserts
<1>3. ctl'[r].at \in {"revise", "insert"} => Existing' = {}
  <2>1. UNCHANGED batches => Existing' = Existing
    BY DEF Existing
  <2> QED
    BY <1>1, <2>1 DEF AloneInv, Moves, Looks
<1>4. ctl'[r].at = "symbol_write" => SymbolRun(r)'.status # "success"
  BY <1>1 DEF AloneInv, Moves, Looks, SymbolRun
<1> QED
  BY <1>1, <1>2, <1>3, <1>4 DEF AloneInv

LEMMA AloneQuiet ==
    ASSUME AloneInv, shared' = shared, UNCHANGED <<ctl, batches, srun>>
    PROVE  AloneInv'
BY DEF AloneInv, Existing, SymbolRun

LEMMA AloneInvariant == Spec => []AloneInv
<1>1. Init => AloneInv
  BY IdleIsControl DEF Init, AloneInv, Existing
<1>2. BatchInv /\ AloneInv /\ [Next]_vars => AloneInv'
  BY BatchSteps, AloneStep, AloneQuiet DEF BatchInv, SetWatchlistMembers, vars
<1> QED
  BY <1>1, <1>2, BatchInvariant, PTL DEF Spec

(* One runner at a time, crashing and restarting: a date has one batch.    *)
THEOREM AloneOneBatch == Spec => []OneBatchPerDate
<1>1. AloneInv => OneBatchPerDate
  BY DEF AloneInv, OneBatchPerDate
<1> QED
  BY <1>1, AloneInvariant, PTL

(* One runner at a time: a symbol run that has succeeded stays so.         *)
THEOREM AloneKeepsSuccess == Spec => AloneNeverRerun
<1> DEFINE Kept == ~ shared' => \A b \in BatchIds, s \in Symbols :
                       srun[b][s].status = "success" => srun'[b][s].status = "success"
<1>1. BatchInv /\ AloneInv /\ [Next]_vars => [Kept]_vars
  <2>1. ASSUME BatchInv, AloneInv, NEW r \in Runners, Moves(r), Notices(r)
        PROVE  Kept
    <3> SUFFICES ASSUME ~ shared', NEW b \in BatchIds, NEW s \in Symbols,
                        srun[b][s].status = "success"
                 PROVE  srun'[b][s].status = "success"
      OBVIOUS
    <3>1. ~ shared
      BY <2>1, AloneMoves
    <3>2. ~ (ctl[r].at = "symbol_write" /\ b = ctl[r].batch /\ s = ctl[r].current)
      BY <2>1, <3>1 DEF AloneInv, SymbolRun
    <3> QED
      BY <2>1, <3>2 DEF Moves, Writes
  <2>2. UNCHANGED srun => Kept
    OBVIOUS
  <2> QED
    BY <2>1, <2>2, BatchSteps DEF BatchInv, SetWatchlistMembers
<1> QED
  BY <1>1, BatchInvariant, AloneInvariant, PTL DEF Spec, AloneNeverRerun
----------------------------------------------------------------------------

(* What a symbol run comes to. *)
Settled(b, s) == srun[b][s].status \in {"success", "failed"}

Working == {"next", "finish_write"} \cup AtSymbol

(* What the one runner that is on knows of the batch it works on.  The     *)
(* row is running; the symbols it has been through are settled, but for    *)
(* the one at hand; the status it is about to write is that of the rows.   *)
WorkPlace(r) ==
    /\ ctl[r].at \notin {"off", "enter"} => ctl[r].symbols = members
    /\ ctl[r].at = "insert" => ctl[r].todo = members
    /\ ctl[r].at \in Working =>
          /\ Batch(r).status = "running" /\ ctl[r].todo \subseteq members
          /\ \A s \in members \ ctl[r].todo :
                \/ Settled(ctl[r].batch, s)
                \/ ctl[r].at \in AtSymbol /\ s = ctl[r].current
    /\ ctl[r].at \in AtSymbol => ctl[r].current \in members
    /\ ctl[r].at \in {"pipeline", "symbol_failed"} => SymbolRun(r).status = "running"
    /\ ctl[r].at = "finish_write" =>
          ctl[r].todo = {} /\ ctl[r].final = FinalStatus(ctl[r].batch)

FrozenRevisions == \A b \in Existing : batches[b].revision = members

MembersOnly == \A b \in BatchIds, s \in Symbols : srun[b][s].status # "none" => s \in members

(* Over a watchlist nobody edits, as long as no two runners were on.       *)
VerdictInv ==
    ~ shared =>
    /\ FrozenRevisions /\ MembersOnly /\ VerdictMatchesSymbols
    /\ \A r \in Runners : WorkPlace(r)

(* A step of the one runner that is on. *)
MovesAlone(r) ==
    /\ BatchBase /\ AloneInv /\ VerdictInv
    /\ Moves(r) /\ Notices(r) /\ ~ shared' /\ UNCHANGED members

LEMMA AloneStand ==
    ASSUME NEW r \in Runners, MovesAlone(r)
    PROVE  /\ ~ shared /\ FrozenRevisions /\ MembersOnly /\ VerdictMatchesSymbols
           /\ WorkPlace(r) /\ members \in SUBSET Symbols
           /\ ctl[r] \in Control /\ Place(r)
           /\ \A b, c \in Existing : b = c
BY AloneMoves, Stand DEF MovesAlone, VerdictInv, AloneInv

LEMMA VerdictKept ==
    ASSUME NEW r \in Runners, MovesAlone(r), WorkPlace(r)', FrozenRevisions',
           MembersOnly', VerdictMatchesSymbols'
    PROVE  VerdictInv'
<1>1. ASSUME NEW q \in Runners \ {r} PROVE WorkPlace(q)'
  <2>1. ctl'[q].at = "off"
    BY AloneMoves DEF MovesAlone
  <2> QED
    BY <2>1 DEF WorkPlace, Working, AtSymbol
<1> QED
  BY <1>1 DEF VerdictInv

(* Steps that write neither batches nor symbol runs. *)
LEMMA ReadsKeepVerdict ==
    ASSUME NEW r \in Runners, MovesAlone(r), UNCHANGED <<batches, srun>>, WorkPlace(r)'
    PROVE  VerdictInv'
<1>1. FrozenRevisions' /\ MembersOnly'
  BY AloneStand DEF FrozenRevisions, MembersOnly, Existing, MovesAlone
<1>2. VerdictMatchesSymbols'
  BY AloneStand DEF VerdictMatchesSymbols, Existing
<1> QED
  BY <1>1, <1>2, VerdictKept

LEMMA LeavingKeepsVerdict ==
    ASSUME NEW r \in Runners, MovesAlone(r), UNCHANGED <<batches, srun>>, Leave(r)
    PROVE  VerdictInv'
<1>1. ctl'[r].at = "off"
  BY LeaveEffect DEF MovesAlone, BatchBase
<1>2. WorkPlace(r)'
  BY <1>1 DEF WorkPlace, Working, AtSymbol
<1> QED
  BY <1>2, ReadsKeepVerdict

(* Going to another place with the locals as they are. *)
LEMMA GotoKeepsLocals ==
    ASSUME NEW r \in Runners, MovesAlone(r), NEW location \in RunnerLocations,
           Goto(r, location)
    PROVE  /\ ctl'[r].at = location
           /\ ctl'[r].batch = ctl[r].batch /\ ctl'[r].current = ctl[r].current
           /\ ctl'[r].symbols = ctl[r].symbols /\ ctl'[r].todo = ctl[r].todo
           /\ ctl'[r].final = ctl[r].final
<1> DEFINE row == [ctl[r] EXCEPT !.at = location]
<1>1. /\ row.at = location /\ row.batch = ctl[r].batch /\ row.current = ctl[r].current
      /\ row.symbols = ctl[r].symbols /\ row.todo = ctl[r].todo /\ row.final = ctl[r].final
  <2>1. ctl[r] \in Control
    BY AloneStand
  <2> QED
    BY <2>1 DEF Control
<1>2. ctl' = [ctl EXCEPT ![r] = row] /\ ctl \in [Runners -> Control]
  BY DEF Goto, MovesAlone, BatchBase, BatchTypeOK
<1> HIDE DEF row
<1> QED
  BY <1>1, <1>2

LEMMA StartKeepsVerdict ==
    ASSUME NEW r \in Runners, MovesAlone(r), RunAfresh(r) \/ RunResuming(r)
    PROVE  VerdictInv'
<1>1. UNCHANGED <<batches, srun>> /\ ctl[r].at = "off" /\ ctl \in [Runners -> Control]
  BY DEF RunAfresh, RunResuming, StartProcess, Here, MovesAlone, BatchBase, BatchTypeOK
<1>2. CASE UNCHANGED ctl
  <2>1. WorkPlace(r)'
    BY <1>1, <1>2 DEF WorkPlace, Working, AtSymbol
  <2> QED
    BY <1>1, <2>1, ReadsKeepVerdict
<1>3. ASSUME NEW x \in Resolutions,
             ctl' = [ctl EXCEPT ![r].at = "enter", ![r].resolution = x]
      PROVE  VerdictInv'
  <2> DEFINE row == [ctl[r] EXCEPT !.at = "enter", !.resolution = x]
  <2>1. row.at = "enter"
    BY <1>1 DEF Control
  <2>2. ctl' = [ctl EXCEPT ![r] = row]
    BY <1>3
  <2> HIDE DEF row
  <2>3. ctl'[r].at = "enter"
    BY <1>1, <2>1, <2>2
  <2>4. WorkPlace(r)'
    BY <2>3 DEF WorkPlace, Working, AtSymbol
  <2> QED
    BY <1>1, <2>4, ReadsKeepVerdict
<1>4. ASSUME NEW b \in Existing, NEW x \in Resolutions,
             ctl' = [ctl EXCEPT ![r] =
                  [Idle EXCEPT !.at = "execute", !.resolution = x, !.batch = b,
                               !.symbols = batches[b].revision,
                               !.resuming = (batches[b].status = "running")]]
      PROVE  VerdictInv'
  <2> DEFINE row == [Idle EXCEPT !.at = "execute", !.resolution = x, !.batch = b,
                                 !.symbols = batches[b].revision,
                                 !.resuming = (batches[b].status = "running")]
  <2>1. row.at = "execute" /\ row.symbols = batches[b].revision
    BY DEF Idle
  <2>2. ctl' = [ctl EXCEPT ![r] = row]
    BY <1>4
  <2> HIDE DEF row
  <2>3. ctl'[r].at = "execute" /\ ctl'[r].symbols = members
    BY <1>1, <2>1, <2>2, AloneStand DEF FrozenRevisions
  <2>4. WorkPlace(r)'
    BY <2>3 DEF WorkPlace, Working, AtSymbol, MovesAlone
  <2> QED
    BY <1>1, <2>4, ReadsKeepVerdict
<1> QED
  BY <1>2, <1>3, <1>4 DEF RunAfresh, RunResuming

LEMMA ReadingKeepsVerdict ==
    ASSUME NEW r \in Runners, MovesAlone(r), ReadSymbols(r) \/ CreateRevision(r)
    PROVE  VerdictInv'
<1>1. UNCHANGED <<batches, srun>> /\ ctl \in [Runners -> Control] /\ members' = members
  BY DEF ReadSymbols, CreateRevision, MovesAlone, BatchBase, BatchTypeOK
<1>2. CASE ReadSymbols(r)
  <2> DEFINE row == [ctl[r] EXCEPT !.at = "find", !.symbols = members]
  <2>1. row.at = "find" /\ row.symbols = members
    BY <1>1 DEF Control
  <2>2. ctl' = [ctl EXCEPT ![r] = row]
    BY <1>2 DEF ReadSymbols
  <2> HIDE DEF row
  <2>3. ctl'[r].at = "find" /\ ctl'[r].symbols = members
    BY <1>1, <2>1, <2>2
  <2>4. WorkPlace(r)'
    BY <1>1, <2>3 DEF WorkPlace, Working, AtSymbol
  <2> QED
    BY <1>1, <2>4, ReadsKeepVerdict
<1>3. CASE CreateRevision(r)
  <2> DEFINE row == [ctl[r] EXCEPT !.at = "insert", !.todo = members]
  <2>1. row.at = "insert" /\ row.todo = members /\ row.symbols = ctl[r].symbols
    BY <1>1 DEF Control
  <2>2. ctl' = [ctl EXCEPT ![r] = row] /\ ctl[r].at = "revise"
    BY <1>3 DEF CreateRevision, Here
  <2> HIDE DEF row
  <2>3. ctl'[r].at = "insert" /\ ctl'[r].todo = members /\ ctl'[r].symbols = ctl[r].symbols
    BY <1>1, <2>1, <2>2
  <2>4. WorkPlace(r)'
    BY <1>1, <2>2, <2>3, AloneStand DEF WorkPlace, Working, AtSymbol
  <2> QED
    BY <1>1, <2>4, ReadsKeepVerdict
<1> QED
  BY <1>2, <1>3

LEMMA FindKeepsVerdict ==
    ASSUME NEW r \in Runners, MovesAlone(r), FindExisting(r)
    PROVE  VerdictInv'
<1>1. /\ UNCHANGED <<batches, srun>> /\ ctl \in [Runners -> Control] /\ members' = members
      /\ ctl[r].at = "find"
  BY DEF FindExisting, MovesAlone, BatchBase, BatchTypeOK, Here
<1>2. CASE Leave(r)
  BY <1>1, <1>2, LeavingKeepsVerdict
<1>3. CASE Goto(r, "revise")
  <2>1. ctl'[r].at = "revise" /\ ctl'[r].symbols = ctl[r].symbols
    BY <1>3, GotoKeepsLocals DEF RunnerLocations
  <2>2. WorkPlace(r)'
    BY <1>1, <2>1, AloneStand DEF WorkPlace, Working, AtSymbol
  <2> QED
    BY <1>1, <2>2, ReadsKeepVerdict
<1>4. ASSUME NEW b \in BatchIds, IsNewest(b), Adopt(r, b)
      PROVE  VerdictInv'
  <2> DEFINE row == [ctl[r] EXCEPT !.at = "execute", !.batch = b,
                                   !.symbols = batches[b].revision,
                                   !.resuming = (batches[b].status = "running")]
  <2>1. row.at = "execute" /\ row.symbols = batches[b].revision
    BY <1>1 DEF Control
  <2>2. ctl' = [ctl EXCEPT ![r] = row]
    BY <1>4 DEF Adopt
  <2> HIDE DEF row
  <2>3. ctl'[r].at = "execute" /\ ctl'[r].symbols = members
    BY <1>1, <1>4, <2>1, <2>2, AloneStand DEF FrozenRevisions, IsNewest
  <2>4. WorkPlace(r)'
    BY <1>1, <2>3 DEF WorkPlace, Working, AtSymbol
  <2> QED
    BY <1>1, <2>4, ReadsKeepVerdict
<1> QED
  BY <1>2, <1>3, <1>4 DEF FindExisting

(* The row inserted has no verdict yet, and the members of its revision.   *)
LEMMA InsertKeepsVerdict ==
    ASSUME NEW r \in Runners, MovesAlone(r), InsertBatch(r)
    PROVE  VerdictInv'
<1>1. /\ ctl[r].at = "insert" /\ UNCHANGED <<srun, members>>
      /\ ctl \in [Runners -> Control] /\ batches \in [BatchIds -> BatchRow]
      /\ ctl[r].todo = members /\ ctl[r].symbols = members
  BY AloneStand DEF InsertBatch, Here, MovesAlone, BatchBase, BatchTypeOK, WorkPlace
<1>2. PICK b \in BatchIds \ Existing :
          /\ batches' = [batches EXCEPT ![b] =
                            [status |-> "pending", revision |-> ctl[r].todo]]
          /\ ctl' = [ctl EXCEPT ![r].at = "execute", ![r].batch = b, ![r].todo = {}]
  BY DEF InsertBatch
<1>3. /\ batches'[b].status = "pending" /\ batches'[b].revision = members
      /\ \A c \in BatchIds \ {b} : batches'[c] = batches[c]
  BY <1>1, <1>2
<1> DEFINE row == [ctl[r] EXCEPT !.at = "execute", !.batch = b, !.todo = {}]
<1>4. row.at = "execute" /\ row.symbols = ctl[r].symbols
  BY <1>1 DEF Control
<1>5. ctl' = [ctl EXCEPT ![r] = row]
  BY <1>2
<1> HIDE DEF row
<1>6. ctl'[r].at = "execute" /\ ctl'[r].symbols = members
  BY <1>1, <1>4, <1>5
<1>7. WorkPlace(r)'
  BY <1>1, <1>6 DEF WorkPlace, Working, AtSymbol
<1>8. FrozenRevisions' /\ MembersOnly'
  BY <1>1, <1>3, AloneStand DEF FrozenRevisions, MembersOnly, Existing
<1>9. VerdictMatchesSymbols'
  <2> SUFFICES ASSUME NEW c \in Existing', c # b
               PROVE  c \in Existing /\ batches'[c] = batches[c]
    BY <1>1, <1>3, AloneStand DEF VerdictMatchesSymbols
  <2> QED
    BY <1>3 DEF Existing
<1> QED
  BY <1>7, <1>8, <1>9, VerdictKept

(* Updates of the one batch there is. *)
LEMMA StatusWritten ==
    ASSUME NEW r \in Runners, MovesAlone(r), ctl[r].batch \in Existing,
           NEW status \in DailyBatchStatuses \ {"absent"}, SetBatchStatus(r, status)
    PROVE  /\ Existing' = Existing /\ FrozenRevisions'
           /\ batches'[ctl[r].batch].status = status
           /\ batches'[ctl[r].batch].revision = members
           /\ \A c \in Existing : c = ctl[r].batch
<1> DEFINE b == ctl[r].batch
           row == [batches[b] EXCEPT !.status = status]
<1>1. /\ batches' = [batches EXCEPT ![b] = row] /\ batches \in [BatchIds -> BatchRow]
      /\ b \in BatchIds
  BY DEF SetBatchStatus, MovesAlone, BatchBase, BatchTypeOK, Existing
<1>2. row.status = status /\ row.revision = batches[b].revision
  BY <1>1 DEF BatchRow
<1>3. Existing' = Existing
  BY StatusKept DEF MovesAlone
<1>4. batches'[b] = row /\ batches[b].revision = members /\ members' = members
  BY <1>1, AloneStand DEF FrozenRevisions, MovesAlone
<1> HIDE DEF row
<1>5. \A c \in Existing : c = b
  BY AloneStand
<1> QED
  BY <1>2, <1>3, <1>4, <1>5 DEF FrozenRevisions

LEMMA SkipKeepsVerdict ==
    ASSUME NEW r \in Runners, MovesAlone(r), SkipBatch(r)
    PROVE  VerdictInv'
<1>1. /\ UNCHANGED <<srun, members>> /\ Leave(r) /\ ctl[r].batch \in Existing
      /\ ctl[r].resolution \in {"deferred_awaiting_market_data"} \cup SkipStatuses
      /\ UNCHANGED batches \/ SetBatchStatus(r, ctl[r].resolution)
  BY AloneStand DEF SkipBatch, MovesAlone, Here, Place, InBatch, Control
<1>2. CASE UNCHANGED batches
  BY <1>1, <1>2, LeavingKeepsVerdict
<1>3. CASE SetBatchStatus(r, ctl[r].resolution)
  <2>1. ctl[r].resolution \in DailyBatchStatuses \ {"absent"}
    BY <1>1 DEF DailyBatchStatuses, DoneStatuses, SkipStatuses
  <2>2. /\ Existing' = Existing /\ FrozenRevisions'
        /\ batches'[ctl[r].batch].status = ctl[r].resolution
        /\ \A c \in Existing : c = ctl[r].batch
    BY <1>1, <1>3, <2>1, StatusWritten
  <2>3. VerdictMatchesSymbols'
    BY <1>1, <2>2 DEF VerdictMatchesSymbols, SkipStatuses
  <2>4. WorkPlace(r)'
    BY <1>1, LeaveEffect DEF WorkPlace, Working, AtSymbol, MovesAlone, BatchBase
  <2>5. MembersOnly'
    BY <1>1, AloneStand DEF MembersOnly
  <2> QED
    BY <2>2, <2>3, <2>4, <2>5, VerdictKept
<1> QED
  BY <1>1, <1>2, <1>3

LEMMA StartReadKeepsVerdict ==
    ASSUME NEW r \in Runners, MovesAlone(r), StartBatchRead(r)
    PROVE  VerdictInv'
<1>1. /\ UNCHANGED <<batches, srun, members>> /\ ctl[r].at = "execute"
      /\ Leave(r) \/ Goto(r, "start_write")
  BY DEF StartBatchRead, Here
<1>2. CASE Goto(r, "start_write")
  <2>1. ctl'[r].at = "start_write" /\ ctl'[r].symbols = ctl[r].symbols
    BY <1>2, GotoKeepsLocals DEF RunnerLocations
  <2>2. WorkPlace(r)'
    BY <1>1, <2>1, AloneStand DEF WorkPlace, Working, AtSymbol
  <2> QED
    BY <1>1, <2>2, ReadsKeepVerdict
<1> QED
  BY <1>1, <1>2, LeavingKeepsVerdict

(* The batch is running again, and every symbol is still to do. *)
LEMMA StartWriteKeepsVerdict ==
    ASSUME NEW r \in Runners, MovesAlone(r), StartBatchWrite(r)
    PROVE  VerdictInv'
<1>1. /\ UNCHANGED <<srun, members>> /\ ctl[r].batch \in Existing
      /\ SetBatchStatus(r, "running") /\ ctl[r].symbols = members
      /\ ctl \in [Runners -> Control]
  BY AloneStand DEF StartBatchWrite, Here, Place, InBatch, WorkPlace, MovesAlone,
     BatchBase, BatchTypeOK
<1>2. /\ Existing' = Existing /\ FrozenRevisions'
      /\ batches'[ctl[r].batch].status = "running"
      /\ \A c \in Existing : c = ctl[r].batch
  BY <1>1, StatusWritten DEF DailyBatchStatuses
<1>3. VerdictMatchesSymbols' /\ MembersOnly'
  BY <1>1, <1>2, AloneStand DEF VerdictMatchesSymbols, MembersOnly
<1> DEFINE row == [ctl[r] EXCEPT !.at = "next", !.todo = ctl[r].symbols]
<1>4. /\ row.at = "next" /\ row.todo = members /\ row.symbols = members
      /\ row.batch = ctl[r].batch
  BY <1>1 DEF Control
<1>5. ctl' = [ctl EXCEPT ![r] = row]
  BY DEF StartBatchWrite
<1> HIDE DEF row
<1>6. /\ ctl'[r].at = "next" /\ ctl'[r].todo = members /\ ctl'[r].symbols = members
      /\ ctl'[r].batch = ctl[r].batch
  BY <1>1, <1>4, <1>5
<1>7. WorkPlace(r)'
  BY <1>1, <1>2, <1>6 DEF WorkPlace, Working, AtSymbol, Batch
<1> QED
  BY <1>2, <1>3, <1>7, VerdictKept

LEMMA FinishReadKeepsVerdict ==
    ASSUME NEW r \in Runners, MovesAlone(r), FinishBatchRead(r)
    PROVE  VerdictInv'
<1>1. /\ UNCHANGED <<batches, srun, members>> /\ ctl[r].at = "next" /\ ctl[r].todo = {}
      /\ ctl \in [Runners -> Control]
  BY DEF FinishBatchRead, Here, MovesAlone, BatchBase, BatchTypeOK
<1> DEFINE final == FinalStatus(ctl[r].batch)
           row == [ctl[r] EXCEPT !.at = "finish_write", !.final = final]
<1> HIDE DEF final
<1>3. /\ row.at = "finish_write" /\ row.todo = {} /\ row.symbols = ctl[r].symbols
      /\ row.batch = ctl[r].batch /\ row.final = final
  BY <1>1 DEF Control
<1>4. ctl' = [ctl EXCEPT ![r] = row]
  BY DEF FinishBatchRead, final
<1> HIDE DEF row
<1>5. /\ ctl'[r].at = "finish_write" /\ ctl'[r].todo = {} /\ ctl'[r].symbols = ctl[r].symbols
      /\ ctl'[r].batch = ctl[r].batch /\ ctl'[r].final = final
  BY <1>1, <1>3, <1>4
<1>6. FinalStatus(ctl[r].batch)' = final
  BY <1>1, <1>5 DEF FinalStatus, final
<1>7. WorkPlace(r)'
  BY <1>1, <1>5, <1>6, AloneStand DEF WorkPlace, Working, AtSymbol, Batch, Settled
<1> QED
  BY <1>1, <1>7, ReadsKeepVerdict

(* Every symbol is settled, and the status written is that of the rows.    *)
LEMMA FinishWriteKeepsVerdict ==
    ASSUME NEW r \in Runners, MovesAlone(r), FinishBatchWrite(r)
    PROVE  VerdictInv'
<1>1. /\ UNCHANGED <<srun, members>> /\ Leave(r) /\ ctl[r].at = "finish_write"
      /\ ctl[r].batch \in Existing
      /\ UNCHANGED batches \/ SetBatchStatus(r, ctl[r].final)
  BY AloneStand DEF FinishBatchWrite, Here, Place, InBatch
<1>2. CASE UNCHANGED batches
  BY <1>1, <1>2, LeavingKeepsVerdict
<1>3. CASE SetBatchStatus(r, ctl[r].final)
  <2> DEFINE b == ctl[r].batch
  <2>1. ctl[r].final \in DailyBatchStatuses \ {"absent"} /\ ctl[r].final = FinalStatus(b)
    BY <1>1, AloneStand DEF Control, Place, WorkPlace
  <2>2. /\ Existing' = Existing /\ FrozenRevisions'
        /\ batches'[b].status = FinalStatus(b) /\ batches'[b].revision = members
        /\ \A c \in Existing : c = b
    BY <1>1, <1>3, <2>1, StatusWritten
  <2>3. /\ \A s \in members : srun[b][s].status \in {"success", "failed"}
        /\ \A s \in Symbols : srun[b][s].status # "none" => s \in members
        /\ members \in SUBSET Symbols
    BY <1>1, AloneStand DEF WorkPlace, Working, AtSymbol, Settled, MembersOnly, Existing
  <2> HIDE DEF b
  <2> DEFINE Having(status) == {s \in members : srun[b][s].status = status}
  <2>4. /\ FinalStatus(b) = "success" => Having("success") = members
        /\ FinalStatus(b) = "failed" => Having("failed") = members
        /\ FinalStatus(b) = "partial_success" =>
              /\ Having("success") \cup Having("failed") = members
              /\ Having("success") # {} /\ Having("failed") # {}
    <3>1. \A s \in Symbols : srun[b][s].status \in {"success", "failed"} => s \in members
      BY <2>3
    <3>2. CASE FinalStatus(b) = "success"
      BY <2>3, <3>2 DEF FinalStatus
    <3>3. CASE FinalStatus(b) = "failed"
      BY <2>3, <3>3 DEF FinalStatus
    <3>4. CASE FinalStatus(b) = "partial_success"
      BY <2>3, <3>1, <3>4 DEF FinalStatus
    <3> QED
      BY <3>2, <3>3, <3>4
  <2>7. VerdictMatchesSymbols'
    BY <1>1, <2>2, <2>4 DEF VerdictMatchesSymbols
  <2>5. WorkPlace(r)'
    BY <1>1, LeaveEffect DEF WorkPlace, Working, AtSymbol, MovesAlone, BatchBase
  <2>6. MembersOnly'
    BY <1>1, AloneStand DEF MembersOnly
  <2> QED
    BY <2>2, <2>5, <2>6, <2>7, VerdictKept
<1> QED
  BY <1>1, <1>2, <1>3

(* Steps while the batch is running: no batch has a verdict. *)
LEMMA SymbolsKeepVerdict ==
    ASSUME NEW r \in Runners, MovesAlone(r), ctl[r].at \in Working, UNCHANGED batches,
           MembersOnly', WorkPlace(r)'
    PROVE  VerdictInv'
<1>1. FrozenRevisions' /\ Existing' = Existing
  BY AloneStand DEF FrozenRevisions, Existing, MovesAlone
<1>2. /\ ctl[r].batch \in Existing /\ batches[ctl[r].batch].status = "running"
      /\ \A c \in Existing : c = ctl[r].batch
  BY AloneStand DEF Place, InBatch, WorkPlace, Working, AtSymbol, Batch
<1>3. VerdictMatchesSymbols'
  BY <1>1, <1>2 DEF VerdictMatchesSymbols
<1> QED
  BY <1>1, <1>3, VerdictKept

(* A write to the row of a member.                                         *)
LEMMA RowWritten ==
    ASSUME NEW r \in Runners, MovesAlone(r), ctl[r].at \in Working, NEW s \in members,
           NEW row \in SymbolRow, RowSet(ctl[r].batch, s, row)
    PROVE  /\ MembersOnly' /\ srun'[ctl[r].batch][s] = row
           /\ \A t \in members \ {s} : srun'[ctl[r].batch][t] = srun[ctl[r].batch][t]
<1>1. /\ ctl[r].batch \in BatchIds /\ s \in Symbols /\ members \in SUBSET Symbols
      /\ members' = members /\ MembersOnly
  BY AloneStand DEF Place, InBatch, Working, AtSymbol, Existing, MovesAlone
<1>2. /\ srun'[ctl[r].batch][s] = row
      /\ \A c \in BatchIds, t \in Symbols :
            c # ctl[r].batch \/ t # s => srun'[c][t] = srun[c][t]
  BY <1>1, SymbolRowSet DEF MovesAlone
<1> QED
  BY <1>1, <1>2 DEF MembersOnly

LEMMA NextKeepsVerdict ==
    ASSUME NEW r \in Runners, MovesAlone(r), NextSymbol(r)
    PROVE  VerdictInv'
<1> DEFINE b == ctl[r].batch
<1>1. /\ UNCHANGED <<batches, members>> /\ ctl[r].at = "next" /\ ctl[r].at \in Working
      /\ ctl \in [Runners -> Control] /\ srun \in Rows /\ b \in BatchIds
  BY AloneStand DEF NextSymbol, Here, MovesAlone, BatchBase, BatchTypeOK, Working, Rows,
     Place, InBatch, Existing
<1>2. PICK s \in Symbols :
          LET row == srun[b][s]
              taken == [ctl EXCEPT ![r].todo = @ \ {s}] IN
          /\ IsFirst(s, ctl[r].todo)
          /\ \/ row.status = "success" /\ ctl' = taken /\ UNCHANGED srun
             \/ /\ row.status # "success"
                /\ ctl' = [taken EXCEPT ![r].at = "symbol_read", ![r].current = s]
                /\ srun' = IF row.status # "none" THEN srun ELSE
                            [srun EXCEPT ![b][s].status = "pending"]
  BY DEF NextSymbol
<1>3. /\ s \in ctl[r].todo /\ s \in members /\ ctl[r].todo \subseteq members
      /\ ctl[r].symbols = members /\ batches[b].status = "running"
      /\ \A t \in members \ ctl[r].todo : Settled(b, t)
  BY <1>1, <1>2, AloneStand DEF IsFirst, WorkPlace, Working, AtSymbol, Batch
<1> DEFINE taken == [ctl[r] EXCEPT !.todo = @ \ {s}]
           found == [taken EXCEPT !.at = "symbol_read", !.current = s]
<1>4. CASE /\ ctl' = [ctl EXCEPT ![r] = taken] /\ UNCHANGED srun
           /\ srun[b][s].status = "success"
  <2>1. /\ taken.at = "next" /\ taken.batch = b /\ taken.symbols = members
        /\ taken.todo = ctl[r].todo \ {s}
    BY <1>1, <1>3 DEF Control
  <2> HIDE DEF taken
  <2>2. /\ ctl'[r].at = "next" /\ ctl'[r].batch = b /\ ctl'[r].symbols = members
        /\ ctl'[r].todo = ctl[r].todo \ {s}
    BY <1>1, <1>4, <2>1
  <2> HIDE DEF b
  <2>3. \A t \in members \ ctl'[r].todo : Settled(b, t)
    BY <1>3, <1>4, <2>2 DEF Settled
  <2>4. WorkPlace(r)'
    BY <1>1, <1>3, <1>4, <2>2, <2>3 DEF WorkPlace, Working, AtSymbol, Batch, Settled
  <2> QED
    BY <1>1, <1>4, <2>4, ReadsKeepVerdict
<1>5. CASE /\ ctl' = [ctl EXCEPT ![r] = found]
           /\ srun' = IF srun[b][s].status # "none" THEN srun ELSE
                        [srun EXCEPT ![b][s].status = "pending"]
  <2>1. /\ found.at = "symbol_read" /\ found.batch = b /\ found.symbols = members
        /\ found.todo = ctl[r].todo \ {s} /\ found.current = s
    BY <1>1, <1>3 DEF Control
  <2> HIDE DEF found
  <2>2. /\ ctl'[r].at = "symbol_read" /\ ctl'[r].batch = b /\ ctl'[r].symbols = members
        /\ ctl'[r].todo = ctl[r].todo \ {s} /\ ctl'[r].current = s
    BY <1>1, <1>5, <2>1
  <2>3. MembersOnly' /\ \A t \in members \ {s} : srun'[b][t] = srun[b][t]
    <3>1. CASE UNCHANGED srun
      BY <1>1, <3>1, AloneStand DEF MembersOnly
    <3>2. CASE srun' = [srun EXCEPT ![b][s].status = "pending"]
      <4> DEFINE row == [srun[b][s] EXCEPT !.status = "pending"]
      <4>1. srun[b][s] \in SymbolRow
        BY <1>1 DEF Rows
      <4>2. row \in SymbolRow
        BY <4>1 DEF SymbolRow
      <4>3. RowSet(b, s, row)
        BY <3>2 DEF RowSet
      <4> HIDE DEF row
      <4> QED
        BY <1>1, <1>3, <4>2, <4>3, RowWritten
    <3> QED
      BY <1>5, <3>1, <3>2
  <2> HIDE DEF b
  <2>4. WorkPlace(r)'
    BY <1>1, <1>3, <2>2, <2>3 DEF WorkPlace, Working, AtSymbol, Batch, Settled
  <2> QED
    BY <1>1, <2>3, <2>4, SymbolsKeepVerdict
<1> QED
  BY <1>2, <1>4, <1>5

(* Where the one at hand is: its batch, itself and the others.             *)
LEMMA AtSymbolStand ==
    ASSUME NEW r \in Runners, MovesAlone(r), ctl[r].at \in AtSymbol
    PROVE  /\ ctl[r].at \in Working /\ Batch(r).status = "running"
           /\ ctl[r].current \in members /\ ctl[r].symbols = members
           /\ ctl[r].todo \subseteq members /\ members' = members
           /\ \A t \in members \ ctl[r].todo :
                 Settled(ctl[r].batch, t) \/ t = ctl[r].current
           /\ SymbolRun(r) \in SymbolRow /\ ctl \in [Runners -> Control]
BY AloneStand, SymbolStand
DEF WorkPlace, Working, AtSymbol, MovesAlone, BatchBase, BatchTypeOK

LEMMA SymbolReadKeepsVerdict ==
    ASSUME NEW r \in Runners, MovesAlone(r), StartSymbolRead(r)
    PROVE  VerdictInv'
<1>1. /\ UNCHANGED <<batches, srun>> /\ ctl[r].at = "symbol_read" /\ ctl[r].at \in AtSymbol
      /\ Leave(r) \/ Goto(r, "symbol_write")
  BY DEF StartSymbolRead, Here, AtSymbol
<1>2. CASE Goto(r, "symbol_write")
  <2>1. /\ ctl'[r].at = "symbol_write"
        /\ ctl'[r].batch = ctl[r].batch /\ ctl'[r].current = ctl[r].current
        /\ ctl'[r].symbols = ctl[r].symbols /\ ctl'[r].todo = ctl[r].todo
    BY <1>2, GotoKeepsLocals DEF RunnerLocations
  <2>2. WorkPlace(r)'
    BY <1>1, <2>1, AtSymbolStand DEF WorkPlace, Working, AtSymbol, Batch, Settled
  <2> QED
    BY <1>1, <2>2, ReadsKeepVerdict
<1> QED
  BY <1>1, <1>2, LeavingKeepsVerdict

LEMMA SymbolWriteKeepsVerdict ==
    ASSUME NEW r \in Runners, MovesAlone(r), StartSymbolWrite(r)
    PROVE  VerdictInv'
<1> DEFINE s == ctl[r].current
           b == ctl[r].batch
           row == [SymbolRun(r) EXCEPT !.status = "running", !.error = "none",
                                       !.attempts = Incremented(@)]
<1>1. /\ ctl[r].at = "symbol_write" /\ ctl[r].at \in AtSymbol
      /\ Goto(r, "pipeline") /\ UNCHANGED batches /\ RowSet(b, s, row)
  BY DEF StartSymbolWrite, Here, AtSymbol, SetSymbolRun, RowSet
<1>2. row \in SymbolRow /\ row.status = "running"
  <2>1. \A n \in 0..2 : Incremented(n) \in 0..2
    BY DEF Incremented
  <2>2. SymbolRun(r) \in SymbolRow
    BY <1>1, AtSymbolStand
  <2> QED
    BY <2>1, <2>2 DEF SymbolRow, Errors
<1> HIDE DEF row
<1>3. /\ MembersOnly' /\ srun'[b][s] = row
      /\ \A t \in members \ {s} : srun'[b][t] = srun[b][t]
  BY <1>1, <1>2, AtSymbolStand, RowWritten
<1>4. /\ ctl'[r].at = "pipeline" /\ ctl'[r].batch = b /\ ctl'[r].current = s
      /\ ctl'[r].symbols = ctl[r].symbols /\ ctl'[r].todo = ctl[r].todo
  BY <1>1, GotoKeepsLocals DEF RunnerLocations
<1>5. WorkPlace(r)'
  BY <1>1, <1>2, <1>3, <1>4, AtSymbolStand
  DEF WorkPlace, Working, AtSymbol, Batch, Settled, SymbolRun
<1> QED
  BY <1>1, <1>3, <1>5, AtSymbolStand, SymbolsKeepVerdict

(* The symbol at hand is settled, and the runner goes on to the next.      *)
LEMMA DoneKeepsVerdict ==
    ASSUME NEW r \in Runners, MovesAlone(r), ctl[r].at \in AtSymbol, UNCHANGED batches,
           SymbolDone(r), NEW row \in SymbolRow, row.status \in {"success", "failed"},
           RowSet(ctl[r].batch, ctl[r].current, row)
    PROVE  VerdictInv'
<1> DEFINE s == ctl[r].current
           b == ctl[r].batch
           done == [ctl[r] EXCEPT !.at = "next", !.current = NoSymbol]
<1>1. /\ MembersOnly' /\ srun'[b][s] = row
      /\ \A t \in members \ {s} : srun'[b][t] = srun[b][t]
  BY AtSymbolStand, RowWritten
<1>2. /\ done.at = "next" /\ done.batch = b /\ done.symbols = members
      /\ done.todo = ctl[r].todo
  BY AtSymbolStand DEF Control
<1>3. ctl' = [ctl EXCEPT ![r] = done]
  BY DEF SymbolDone
<1> HIDE DEF done
<1>4. /\ ctl'[r].at = "next" /\ ctl'[r].batch = b /\ ctl'[r].symbols = members
      /\ ctl'[r].todo = ctl[r].todo
  BY <1>2, <1>3, AtSymbolStand
<1> HIDE DEF s, b
<1>5. \A t \in members \ ctl[r].todo : srun'[b][t].status \in {"success", "failed"}
  BY <1>1, AtSymbolStand DEF Settled, s, b
<1>6. WorkPlace(r)'
  BY <1>4, <1>5, AtSymbolStand DEF WorkPlace, Working, AtSymbol, Batch, Settled, b
<1> QED
  BY <1>1, <1>6, AtSymbolStand, SymbolsKeepVerdict

LEMMA SuccessKeepsVerdict ==
    ASSUME NEW r \in Runners, MovesAlone(r), MarkSymbolSuccess(r)
    PROVE  VerdictInv'
<1> DEFINE row == [SymbolRun(r) EXCEPT !.status = "success", !.linked = TRUE, !.error = "none"]
<1>1. /\ ctl[r].at = "pipeline" /\ ctl[r].at \in AtSymbol /\ UNCHANGED batches
      /\ SymbolRun(r).status = "running"
      /\ \/ SymbolDone(r) /\ RowSet(ctl[r].batch, ctl[r].current, row)
         \/ Goto(r, "symbol_failed") /\ UNCHANGED srun
  BY AloneStand DEF MarkSymbolSuccess, Here, AtSymbol, SetSymbolRun, RowSet, WorkPlace
<1>2. CASE SymbolDone(r) /\ RowSet(ctl[r].batch, ctl[r].current, row)
  <2>1. row \in SymbolRow /\ row.status = "success"
    BY <1>1, AtSymbolStand DEF SymbolRow, Errors
  <2> HIDE DEF row
  <2> QED
    BY <1>1, <1>2, <2>1, DoneKeepsVerdict
<1>3. CASE Goto(r, "symbol_failed") /\ UNCHANGED srun
  <2>1. /\ ctl'[r].at = "symbol_failed"
        /\ ctl'[r].batch = ctl[r].batch /\ ctl'[r].current = ctl[r].current
        /\ ctl'[r].symbols = ctl[r].symbols /\ ctl'[r].todo = ctl[r].todo
    BY <1>3, GotoKeepsLocals DEF RunnerLocations
  <2>2. WorkPlace(r)'
    BY <1>1, <1>3, <2>1, AtSymbolStand
    DEF WorkPlace, Working, AtSymbol, Batch, Settled, SymbolRun
  <2> QED
    BY <1>1, <1>3, <2>2, ReadsKeepVerdict
<1> QED
  BY <1>1, <1>2, <1>3

LEMMA RaisedKeepsVerdict ==
    ASSUME NEW r \in Runners, MovesAlone(r), PipelineRaised(r)
    PROVE  VerdictInv'
<1>1. /\ UNCHANGED <<batches, srun>> /\ ctl[r].at = "pipeline" /\ ctl[r].at \in AtSymbol
      /\ Goto(r, "symbol_failed") /\ SymbolRun(r).status = "running"
  BY AloneStand DEF PipelineRaised, Here, AtSymbol, WorkPlace
<1>2. /\ ctl'[r].at = "symbol_failed"
      /\ ctl'[r].batch = ctl[r].batch /\ ctl'[r].current = ctl[r].current
      /\ ctl'[r].symbols = ctl[r].symbols /\ ctl'[r].todo = ctl[r].todo
  BY <1>1, GotoKeepsLocals DEF RunnerLocations
<1>3. WorkPlace(r)'
  BY <1>1, <1>2, AtSymbolStand DEF WorkPlace, Working, AtSymbol, Batch, Settled, SymbolRun
<1> QED
  BY <1>1, <1>3, ReadsKeepVerdict

LEMMA FailedKeepsVerdict ==
    ASSUME NEW r \in Runners, MovesAlone(r), MarkSymbolFailed(r)
    PROVE  VerdictInv'
<1> DEFINE row == [SymbolRun(r) EXCEPT !.status = "failed", !.error = job[r].error]
<1>1. /\ ctl[r].at = "symbol_failed" /\ ctl[r].at \in AtSymbol /\ UNCHANGED batches
      /\ SymbolDone(r) /\ RowSet(ctl[r].batch, ctl[r].current, row)
  BY AloneStand DEF MarkSymbolFailed, Here, AtSymbol, SetSymbolRun, RowSet, WorkPlace
<1>2. job[r].error \in Errors
  BY Stand DEF MovesAlone, Job, Runners
<1>3. row \in SymbolRow /\ row.status = "failed"
  BY <1>1, <1>2, AtSymbolStand DEF SymbolRow
<1> HIDE DEF row
<1> QED
  BY <1>1, <1>3, DoneKeepsVerdict

LEMMA RunnerKeepsVerdict ==
    ASSUME NEW r \in Runners, MovesAlone(r),
           RunAfresh(r) \/ RunResuming(r) \/ RunnerStep(r) \/ Crash(r)
    PROVE  VerdictInv'
<1>1. CASE Crash(r)
  BY <1>1, LeavingKeepsVerdict DEF Crash
<1>2. CASE Pipeline(r)
  <2>1. UNCHANGED <<batches, srun, ctl, members>>
    BY <1>2 DEF Pipeline
  <2>2. WorkPlace(r)'
    BY <2>1, AloneStand DEF WorkPlace, Batch, Settled, SymbolRun, FinalStatus
  <2> QED
    BY <2>1, <2>2, ReadsKeepVerdict
<1> QED
  BY <1>1, <1>2, StartKeepsVerdict, ReadingKeepsVerdict, FindKeepsVerdict, InsertKeepsVerdict,
     SkipKeepsVerdict, StartReadKeepsVerdict, StartWriteKeepsVerdict, NextKeepsVerdict,
     SymbolReadKeepsVerdict, SymbolWriteKeepsVerdict, SuccessKeepsVerdict,
     RaisedKeepsVerdict, FailedKeepsVerdict, FinishReadKeepsVerdict, FinishWriteKeepsVerdict
  DEF RunnerStep

LEMMA VerdictStep ==
    ASSUME BatchBase, AloneInv, VerdictInv, Next, UNCHANGED members
    PROVE  VerdictInv'
<1>1. CASE SetWatchlistMembers
  BY <1>1 DEF SetWatchlistMembers
<1>2. ASSUME NEW r \in Runners, RunAfresh(r) \/ RunResuming(r) \/ RunnerStep(r) \/ Crash(r)
      PROVE  VerdictInv'
  <2>1. CASE shared'
    BY <2>1 DEF VerdictInv
  <2>2. CASE UNCHANGED <<ctl, batches, srun>> /\ shared' = shared
    <3>1. CASE shared
      BY <2>2, <3>1 DEF VerdictInv
    <3>2. CASE ~ shared
      <4>1. FrozenRevisions' /\ MembersOnly' /\ VerdictMatchesSymbols'
        BY <2>2, <3>2 DEF VerdictInv, FrozenRevisions, MembersOnly, VerdictMatchesSymbols,
           Existing
      <4>2. ASSUME NEW q \in Runners PROVE WorkPlace(q)'
        BY <2>2, <3>2 DEF VerdictInv, WorkPlace, Batch, Settled, SymbolRun, FinalStatus
      <4> QED
        BY <4>1, <4>2 DEF VerdictInv
    <3> QED
      BY <3>1, <3>2
  <2>3. CASE ~ shared' /\ ~ (UNCHANGED <<ctl, batches, srun>> /\ shared' = shared)
    <3>1. Moves(r) /\ Notices(r)
      BY <1>2, <2>3, StartMoves, RunnerMoves DEF Notices
    <3> QED
      BY <1>2, <2>3, <3>1, RunnerKeepsVerdict DEF MovesAlone
  <2> QED
    BY <2>1, <2>2, <2>3
<1> QED
  BY <1>1, <1>2 DEF Next

(* One runner at a time, over a watchlist nobody edits: the status a batch *)
(* finished with is that of the symbols of its revision.                   *)
THEOREM AloneVerdict ==
    Spec /\ [][members' = members]_vars => []VerdictMatchesSymbols
<1>1. Init => VerdictInv
  <2> SUFFICES ASSUME Init PROVE VerdictInv
    OBVIOUS
  <2>1. Existing = {} /\ \A b \in BatchIds, s \in Symbols : srun[b][s].status = "none"
    BY DEF Init, Existing, NoSymbolRow
  <2>2. \A r \in Runners : ctl[r].at = "off"
    BY IdleIsControl DEF Init
  <2>3. \A r \in Runners : WorkPlace(r)
    BY <2>2 DEF WorkPlace, Working, AtSymbol
  <2> QED
    BY <2>1, <2>3 DEF VerdictInv, FrozenRevisions, MembersOnly, VerdictMatchesSymbols
<1>2. BatchInv /\ AloneInv /\ VerdictInv /\ [Next]_vars /\ [members' = members]_vars
          => VerdictInv'
  <2>1. UNCHANGED vars /\ VerdictInv => VerdictInv'
    BY DEF vars, VerdictInv, FrozenRevisions, MembersOnly, VerdictMatchesSymbols, WorkPlace,
       Existing, Batch, Settled, SymbolRun, FinalStatus
  <2> QED
    BY <2>1, VerdictStep DEF BatchInv
<1>3. VerdictInv => VerdictMatchesSymbols
  BY DEF VerdictInv, VerdictMatchesSymbols
<1> QED
  BY <1>1, <1>2, <1>3, BatchInvariant, AloneInvariant, PTL DEF Spec
===========================================================================
