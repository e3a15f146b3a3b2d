--------------------------- MODULE CandidateHistory ----------------------------
(******************************************************************************)
(* How the daily run brings the history of one candidate up to date, and the  *)
(* cross-check of its two sources: CandidatePreparingDataset in               *)
(* src/app/deployment/daily_preparation.py, the coordinator in                *)
(* src/app/pipelines/historical_validation.py and its rows in                 *)
(* src/app/storage/historical_validation.py, over HistoricalSync.             *)
(*                                                                            *)
(* A call reads the newest TWSE run at or before its date, downloads E.SUN    *)
(* and TWSE, and compares them.  A candidate listed too recently to have      *)
(* Needed days is told apart from a short history by the listing date.  A     *)
(* process remembers the E.SUN runs it saw succeed.  A row of                 *)
(* historical_validation_runs belongs to the pair of runs of one date.        *)
(*                                                                            *)
(* The successful pipeline run of the date, without which a short history is  *)
(* not accepted, is taken as given: Stage 1 is prepared before candidates     *)
(* are read.  Left out: the dataset returned to the screener, its evidence    *)
(* lists, and the run without an E.SUN configuration.                         *)
(******************************************************************************)
EXTENDS HistoricalSync

CONSTANTS MaxCalls    \* bound: calls for a candidate, over all processes

VARIABLES
  validation,     \* historical_validation_runs and their discrepancies, by date
  call,           \* the call in progress in each process
  memory,         \* in each process: the dates whose E.SUN run it saw succeed
  calls           \* how many calls were made

candidateVars == <<history, canonical, job, validation, call, memory, calls>>

Twse(d) == [source |-> "twse", target |-> d]
Esun(d) == [source |-> "esun", target |-> d]

NoValidation ==
  [status |-> "none", outcome |-> "none", starts |-> 0, notes |-> 0,
   twseOnly |-> {}, esunOnly |-> {}, differing |-> {}, matched |-> 0]

NoCall == [at |-> "idle", date |-> 0, resume |-> "none", esun |-> FALSE]

CandidateInit ==
  /\ Init
  /\ validation = [d \in Targets |-> NoValidation]
  /\ call = [w \in Workers |-> NoCall]
  /\ memory = [w \in Workers |-> {}]
  /\ calls = 0

(******************************************************************************)
(* _historical_run and _is_legal_short_checkpoint.                            *)
(******************************************************************************)
RunsUpTo(d) == {t \in Targets : t <= d /\ history[Twse(t)].status # "none"}
NewestRun(d) == CHOOSE t \in RunsUpTo(d) : \A u \in RunsUpTo(d) : u <= t

LegalShort(row, target) ==
  LET days == {x.day : x \in row.rows}
  IN  /\ row.status = "failed" /\ row.error = "no_usable_data"
      /\ row.count > 0 /\ row.count < Needed /\ row.count = Cardinality(row.rows)
      /\ row.months > 0 /\ Cardinality(row.evidence) >= row.months
      /\ Listed \in days /\ target \in days /\ \A d \in days : d >= Listed
      /\ row.cursor < MonthOf(Listed)

ShortUpTo(d) ==
  RunsUpTo(d) # {} /\ LegalShort(history[Twse(NewestRun(d))], NewestRun(d))

Now(w, place) == call' = [call EXCEPT ![w].at = place]
EndCall(w) == call' = [call EXCEPT ![w] = NoCall]

(******************************************************************************)
(* read, or ensure_candidate_validation of a date this process has not        *)
(* settled; the resume id is the one of the newest run, whatever its date.    *)
(******************************************************************************)
ResumeOf(d) ==
  IF RunsUpTo(d) = {} \/ history[Twse(NewestRun(d))].status # "running" THEN "none"
  ELSE IF NewestRun(d) = d THEN "this" ELSE "other"

Read(w, d) ==
  /\ call[w].at = "idle" /\ calls < MaxCalls
  /\ calls' = calls + 1
  /\ IF ShortUpTo(d) THEN UNCHANGED call
     ELSE call' = [call EXCEPT ![w] =
            [NoCall EXCEPT !.date = d, !.resume = ResumeOf(d), !.esun = d \in memory[w],
                           !.at = IF d \in memory[w] THEN "twse" ELSE "esun"]]
  /\ UNCHANGED <<history, canonical, job, validation, memory>>

\* _sync_esun never passes a resume id.
CallEsun(w) ==
  /\ call[w].at = "esun"
  /\ Call(w, Esun(call[w].date), "none")
  /\ Now(w, "esun_syncing")
  /\ UNCHANGED <<validation, memory, calls>>

EsunDone(w) ==
  LET good == job[w].at = "returned"
  IN  /\ call[w].at = "esun_syncing" /\ Return(w)
      /\ call' = [call EXCEPT ![w].at = "twse", ![w].esun = good]
      /\ memory' = IF good THEN [memory EXCEPT ![w] = @ \cup {call[w].date}] ELSE memory
      /\ UNCHANGED <<validation, calls>>

CallTwse(w) ==
  /\ call[w].at = "twse"
  /\ Call(w, Twse(call[w].date), call[w].resume)
  /\ Now(w, "twse_syncing")
  /\ UNCHANGED <<validation, memory, calls>>

\* A failed download ends the call, whether the history it leaves is legally short
\* or not; without E.SUN the call ends too.  With it, _validate_historical_pair takes
\* the id of a validation that it finds running as the one to resume.
TwseDone(w) ==
  LET good == job[w].at = "returned" /\ call[w].esun
      running == validation[call[w].date].status = "running"
  IN  /\ call[w].at = "twse_syncing" /\ Return(w)
      /\ IF good
         THEN call' = [call EXCEPT ![w].at = "open",
                                   ![w].resume = IF running THEN "this" ELSE "none"]
         ELSE EndCall(w)
      /\ UNCHANGED <<validation, memory, calls>>

(******************************************************************************)
(* The coordinator downloads both sources again, which replays two successful *)
(* runs, and opens the row of the pair.                                       *)
(******************************************************************************)
\* get_or_create: a pair of successful runs, compared once.
OpenPair(w) ==
  LET d == call[w].date
  IN  /\ call[w].at = "open"
      /\ history[Twse(d)].status = "success" /\ history[Esun(d)].status = "success"
      /\ IF validation[d].status = "success"
         THEN EndCall(w) /\ UNCHANGED validation
         ELSE /\ validation' =
                   [validation EXCEPT ![d].status = IF @ = "none" THEN "pending" ELSE @]
              /\ Now(w, "start")
      /\ UNCHANGED <<history, canonical, job, memory, calls>>

StartPair(w) ==
  LET d == call[w].date
      refused == \/ validation[d].status = "success"
                 \/ validation[d].status = "running" /\ call[w].resume # "this"
  IN  /\ call[w].at = "start"
      /\ \/ /\ refused /\ EndCall(w) /\ UNCHANGED validation
         \/ /\ ~refused /\ validation[d].starts < MaxStarts
            /\ validation' = [validation EXCEPT ![d].status = "running", ![d].starts = @ + 1]
            /\ Now(w, "compare")
      /\ UNCHANGED <<history, canonical, job, memory, calls>>

(******************************************************************************)
(* _compare, over the latest Needed rows of each source.                      *)
(******************************************************************************)
Latest(c) ==
  {x \in history[c].rows :
     Cardinality({y \in history[c].rows : y.day > x.day}) < Needed}

Days(rows) == {x.day : x \in rows}

(* Mutant: the sources are compared over all their rows. *)
ComparedWhole(d) ==
  LET left == history[Twse(d)].rows
      right == history[Esun(d)].rows
      common == Days(left) \cap Days(right)
      equal == Days(left \cap right)
  IN  [twseOnly |-> Days(left) \ Days(right), esunOnly |-> Days(right) \ Days(left),
       differing |-> common \ equal, matched |-> Cardinality(equal)]

Compared(d) ==
  LET left == Latest(Twse(d))
      right == Latest(Esun(d))
      common == Days(left) \cap Days(right)
      equal == Days(left \cap right)
  IN  [twseOnly |-> Days(left) \ Days(right), esunOnly |-> Days(right) \ Days(left),
       differing |-> common \ equal, matched |-> Cardinality(equal)]

(* Mutant: the outcome is not written with the success. *)
OutcomeMissing(result) == "none"

Outcome(result) ==
  IF result.twseOnly \cup result.esunOnly \cup result.differing = {}
  THEN "match" ELSE "discrepancy"

MayCompletePair(d) == validation[d].status = "running"

\* The discrepancy rows, the note and the success, in one transaction.
CompletePair(w) ==
  LET d == call[w].date
      result == Compared(d)
  IN  /\ call[w].at = "compare" /\ MayCompletePair(d)
      /\ validation' = [validation EXCEPT ![d] =
           [@ EXCEPT !.status = "success", !.outcome = Outcome(result),
                     !.notes = validation[d].notes + 1,
                     !.twseOnly = result.twseOnly, !.esunOnly = result.esunOnly,
                     !.differing = result.differing, !.matched = result.matched]]
      /\ EndCall(w)
      /\ UNCHANGED <<history, canonical, job, memory, calls>>

\* The transaction raises, or finds the run taken over: mark_failed, if it still runs.
FailPair(w) ==
  LET d == call[w].date
  IN  /\ call[w].at = "compare"
      /\ validation' = [validation EXCEPT ![d].status = IF @ = "running" THEN "failed" ELSE @]
      /\ EndCall(w)
      /\ UNCHANGED <<history, canonical, job, memory, calls>>

\* The process ends, with what it knew.
Exit(w) ==
  /\ memory[w] # {} \/ call[w].at # "idle"
  /\ call' = [call EXCEPT ![w] = NoCall] /\ memory' = [memory EXCEPT ![w] = {}]
  /\ job' = [job EXCEPT ![w] = NoJob]
  /\ UNCHANGED <<history, canonical, validation, calls>>

Sync(w) ==
  /\ Step(w)
  /\ UNCHANGED <<validation, call, memory, calls>>

CandidateNext ==
  \E w \in Workers :
    \/ \E d \in Targets : Read(w, d)
    \/ CallEsun(w) \/ EsunDone(w) \/ CallTwse(w) \/ TwseDone(w) \/ Sync(w)
    \/ OpenPair(w) \/ StartPair(w) \/ CompletePair(w) \/ FailPair(w)
    \/ Exit(w)

CandidateSpec == CandidateInit /\ [][CandidateNext]_candidateVars

(******************************************************************************)
(* Properties.                                                                *)
(******************************************************************************)
HistoryRows ==
  [status : {"none", "pending", "running", "success", "failed"}, cursor : Int,
   months : Nat, count : Nat, rows : SUBSET DayPrices, evidence : SUBSET Int,
   error : {"none", "no_usable_data", "other", "state"}, notes : Nat, starts : Nat]

Jobs ==
  [at : {"idle", "claim", "fetch", "checkpoint", "finish", "fail", "returned", "raised"},
   of : [source : Sources, target : Nat], resume : {"none", "this", "other"}, cursor : Int,
   months : Nat, count : Nat, batch : SUBSET DayPrices,
   error : {"none", "no_usable_data", "other", "state", "conflict", "in_progress"}]

\* The rows, the calls and the validations keep their types, and a validation has
\* an outcome exactly when it succeeded.
CandidateTypeOK ==
  /\ history \in [Contracts -> HistoryRows] /\ canonical \subseteq DayPrices
  /\ job \in [Workers -> Jobs]
  /\ \A d \in Targets :
       (validation[d].status = "success") <=> validation[d].outcome \in {"match", "discrepancy"}
  /\ \A w \in Workers : memory[w] \subseteq Targets /\ call[w].date \in Targets \cup {0}

\* A candidate that is let through with fewer days than Needed has them all: every
\* month from the listing to the target of the run was downloaded.  The listing
\* date tells it apart from a history that stopped at a month without data.
ShortIsWhole ==
  \A d \in Targets : ShortUpTo(d) =>
    LET target == NewestRun(d)
    IN  MonthOf(Listed) .. MonthOf(target) \subseteq history[Twse(target)].evidence

\* What is stored of a candidate is whole, the short histories included.
HistoriesHold == HistoryIsWhole /\ ShortIsWhole

\* A validation that succeeded accounts for exactly Needed days of each source, the
\* latest that each stored, and says "match" only when all of them agree.
ValidationAddsUp(d) ==
  LET v == validation[d]
      common == v.matched + Cardinality(v.differing)
  IN  v.status = "success" =>
        /\ v.notes = 1
        /\ common + Cardinality(v.twseOnly) = Needed /\ common + Cardinality(v.esunOnly) = Needed
        /\ \A day \in v.differing :
             \E x \in history[Twse(d)].rows, y \in history[Esun(d)].rows :
               x.day = day /\ y.day = day /\ x.price # y.price
        /\ (v.outcome = "match") <=> (v.matched = Needed)

\* What succeeded stands: no later call, of this process or of another that took the
\* run over, changes a successful history or a successful validation, and every
\* validation adds up against histories that no longer change.  (The reverse holds
\* of E.SUN as well: _sync_esun passes no resume id, so a run that a process left
\* running stays as it is, and its pair is never validated.)
HistoryStands ==
  [][/\ SuccessfulHistoryStands
     /\ \A d \in Targets : validation[d].status = "success" => validation'[d] = validation[d]
     /\ \A d \in Targets : ValidationAddsUp(d)'
     /\ \A d \in Targets :
          /\ history[Esun(d)].status = "running"
          /\ \A w \in Workers : job[w].of # Esun(d) \/ job[w].at \in {"claim", "returned", "raised"}
          => history'[Esun(d)] = history[Esun(d)]
    ]_candidateVars
=============================================================================
