------------------------ MODULE ScreenerOrchestration ------------------------
(***************************************************************************)
(* DailyScreenerOrchestrator.run of app/screener/orchestration.py, over    *)
(* the rows of ScreenerCheckpoint: replay what is sealed, else create the  *)
(* run, read which candidates are checkpointed, research the others, and   *)
(* finalize.  A call is one process; calls overlap, and die anywhere.  The *)
(* list of checkpoints is read once and used until the end, and several    *)
(* reads that belong together are transactions of their own.               *)
(*                                                                         *)
(* Universe, Stage 1 and Stage 2 are hooks: before the first write a hook  *)
(* that raises ends the call like a crash; Stage 2 may answer any bundle.  *)
(* Left out: what tells runs of other inputs apart.                        *)
(***************************************************************************)
EXTENDS ScreenerCheckpoint

CONSTANTS
    Processes,      \* callers of run()
    MaxCalls        \* bound: calls of run()

ASSUME OrchestrationAssumption == MaxCalls \in Nat

VARIABLES
    call,           \* where each process is in run(), its locals, its answer
    calls           \* calls made so far

vars == <<screenerVars, call, calls>>

Locations ==
    {"off", "probe", "probe_status", "expect", "create", "recheck", "recheck_status",
     "list", "load", "children", "work"}

Errors == {"none", "unknown_run", "integrity", "load", "refused", "unfinished"}

(* failed: failed_candidates; output: the candidates with their ranks.     *)
Answer ==
    [status : {"none", "success", "partial_success", "failed", "error"},
     error : Errors, failed : SUBSET Candidates, output : Output \cup {NoSeal}]

NoAnswer == [status |-> "none", error |-> "none", failed |-> {}, output |-> NoSeal]

(* explicit: expected_screener_run_id was given; after: finalization has   *)
(* failed; listed, loaded: _stored_candidates; todo: the candidates left   *)
(* of the loop; row: the row load_candidate has read; failures: the set    *)
(* failed_symbols; late: the run was sealed when the call began; shared:   *)
(* another call has been under way since it began.                         *)
Call ==
    [at : Locations, explicit : BOOLEAN, after : BOOLEAN,
     listed : [Candidates -> {"none", "pending", "success", "failed"}],
     loaded : [Candidates -> Bundles \cup {NoBundle}], todo : SUBSET Candidates,
     row : Bundles \cup {NoBundle}, failures : SUBSET Candidates, late : BOOLEAN,
     shared : BOOLEAN, answer : Answer]

NoCall ==
    [at |-> "off", explicit |-> FALSE, after |-> FALSE,
     listed |-> [c \in Candidates |-> "none"], loaded |-> [c \in Candidates |-> NoBundle],
     todo |-> {}, row |-> NoBundle, failures |-> {}, late |-> FALSE,
     shared |-> FALSE, answer |-> NoAnswer]

Here(p, location) == call[p].at = location

Become(p, local) == call' = [call EXCEPT ![p] = local]

Goto(p, location) == Become(p, [call[p] EXCEPT !.at = location])

IsFirst(c, S) == c \in S /\ \A d \in S : c =< d

(* run() is left, with a result or an exception. *)
Leave(p, answer) ==
    Become(p, [NoCall EXCEPT !.failures = call[p].failures, !.late = call[p].late,
                             !.shared = call[p].shared, !.answer = answer])

Raise(p, error) == Leave(p, [NoAnswer EXCEPT !.status = "error", !.error = error])

ReturnSealed(p, output) ==
    Leave(p, [NoAnswer EXCEPT !.status = "success", !.output = output])

----------------------------------------------------------------------------

Init == ScreenerInit /\ call = [p \in Processes |-> NoCall] /\ calls = 0

(* run() is called, with the id of the run given, known from the cache or  *)
(* the resolver, or unknown.                                               *)
Start(p) ==
    /\ Here(p, "off") /\ calls < MaxCalls
    /\ calls' = calls + 1
    /\ \E known \in {"explicit", "cached", "unknown"} :
          call' = [q \in Processes |->
                     IF q # p THEN [call[q] EXCEPT !.shared = TRUE]
                     ELSE [NoCall EXCEPT !.at = IF known = "unknown" THEN "create" ELSE "probe",
                                         !.explicit = known = "explicit",
                                         !.late = run.status = "success",
                                         !.shared = \E r \in Processes \ {p} : ~ Here(r, "off")]]
    /\ UNCHANGED screenerVars

(* _try_replay of the requested run: a sealed run is the answer.  Nothing  *)
(* changes in a sealed run, so that its rows are as good as read at once.  *)
Probe(p) ==
    /\ Here(p, "probe")
    /\ \/ run.status = "success" /\ ReturnSealed(p, run.seal)
       \/ run.status = "none" /\ Goto(p, IF call[p].explicit THEN "expect" ELSE "create")
       \/ run.status \notin {"none", "success"} /\ Goto(p, "probe_status")
    /\ UNCHANGED <<screenerVars, calls>>

(* The replay failed for want of a seal: the status is read again, to tell *)
(* an open run from a sealed one that is damaged.                          *)
ProbeStatus(p) ==
    /\ Here(p, "probe_status")
    /\ \/ run.status = "success" /\ Raise(p, "integrity")
       \/ run.status # "success" /\ Goto(p, "create")
    /\ UNCHANGED <<screenerVars, calls>>

(* A run that is expected by its id must be there. *)
ExpectRun(p) ==
    /\ Here(p, "expect")
    /\ \/ run.status = "none" /\ Raise(p, "unknown_run")
       \/ run.status # "none" /\ Goto(p, "create")
    /\ UNCHANGED <<screenerVars, calls>>

(* Mutant: the run is not replayed once it is known to exist. *)
CreateOnly(p) ==
    /\ Here(p, "create") /\ CreateRun /\ Goto(p, "list")
    /\ UNCHANGED calls

(* _prepare, then create_run. *)
Create(p) ==
    /\ Here(p, "create") /\ CreateRun /\ Goto(p, "recheck")
    /\ UNCHANGED calls

(* _try_replay again, before any Stage 2 hook is called. *)
Recheck(p) ==
    /\ Here(p, "recheck")
    /\ \/ run.status = "success" /\ ReturnSealed(p, run.seal)
       \/ run.status # "success" /\ Goto(p, "recheck_status")
    /\ UNCHANGED <<screenerVars, calls>>

RecheckStatus(p) ==
    /\ Here(p, "recheck_status")
    /\ \/ run.status = "success" /\ Raise(p, "integrity")
       \/ run.status # "success" /\ Goto(p, "list")
    /\ UNCHANGED <<screenerVars, calls>>

(* _stored_candidates, the SELECT of ids and statuses. *)
ListCandidates(p) ==
    /\ Here(p, "list")
    /\ Become(p, [call[p] EXCEPT
                    !.at = "load",
                    !.listed = [c \in Candidates |-> candidate[c].status],
                    !.todo = Having(candidate, "success") \cup Having(candidate, "failed")])
    /\ UNCHANGED <<screenerVars, calls>>

(* load_candidate of the next terminal one: its row, which has no rank     *)
(* unless the run was sealed meanwhile.                                    *)
LoadRow(p) ==
    /\ Here(p, "load")
    /\ \E c \in Candidates :
          /\ IsFirst(c, call[p].todo)
          /\ \/ candidate[c].rank # 0 /\ Raise(p, "load")
             \/ /\ candidate[c].rank = 0
                /\ Become(p, [call[p] EXCEPT !.at = "children", !.row = candidate[c].bundle])
    /\ UNCHANGED <<screenerVars, calls>>

(* Then its reasons, metrics and artifacts, which must hash to the row's.  *)
LoadChildren(p) ==
    /\ Here(p, "children")
    /\ \E c \in Candidates :
          /\ IsFirst(c, call[p].todo)
          /\ \/ candidate[c].bundle # call[p].row /\ Raise(p, "load")
             \/ /\ candidate[c].bundle = call[p].row
                /\ Become(p, [call[p] EXCEPT
                                !.at = "load", !.row = NoBundle, !.todo = @ \ {c},
                                !.loaded = [call[p].loaded EXCEPT ![c] = call[p].row]])
    /\ UNCHANGED <<screenerVars, calls>>

(* All are loaded: the loop over the shortlist begins. *)
BeginWork(p) ==
    /\ Here(p, "load") /\ call[p].todo = {} /\ ~ call[p].after
    /\ Become(p, [call[p] EXCEPT !.at = "work", !.todo = Candidates])
    /\ UNCHANGED <<screenerVars, calls>>

(* Mutant: a candidate that failed before is passed over as well. *)
ReuseTerminal(p) ==
    /\ Here(p, "work")
    /\ \E c \in Candidates :
          /\ IsFirst(c, call[p].todo) /\ call[p].listed[c] \in {"success", "failed"}
          /\ Become(p, [call[p] EXCEPT !.todo = @ \ {c}])
    /\ UNCHANGED <<screenerVars, calls>>

(* A candidate listed as a success is not researched again. *)
Reuse(p) ==
    /\ Here(p, "work")
    /\ \E c \in Candidates :
          /\ IsFirst(c, call[p].todo) /\ call[p].listed[c] = "success"
          /\ Become(p, [call[p] EXCEPT !.todo = @ \ {c}])
    /\ UNCHANGED <<screenerVars, calls>>

(* Stage 2 raises on a retry: the failed checkpoint stays as it is. *)
RetryRaises(p) ==
    /\ Here(p, "work")
    /\ \E c \in Candidates :
          /\ IsFirst(c, call[p].todo) /\ call[p].listed[c] = "failed"
          /\ Become(p, [call[p] EXCEPT !.todo = @ \ {c}, !.failures = @ \cup {c}])
    /\ UNCHANGED <<screenerVars, calls>>

(* Mutant: a retry is not announced as one. *)
RetriesNever(p, c) == FALSE

(* retry_failed: by what was listed, however long ago. *)
Retries(p, c) == call[p].listed[c] = "failed"

(* Stage 2 answers b, or raises on a first attempt, which makes a failure  *)
(* of it; the bundle is written, or found to be there.                     *)
Research(p, c, b) ==
    /\ \/ PersistCandidate(c, b, Retries(p, c))
       \/ Replays(c, b, Retries(p, c)) /\ UNCHANGED screenerVars
    /\ Become(p, [call[p] EXCEPT !.todo = @ \ {c}, !.failures = @ \cup IF b \in Failures THEN {c} ELSE {}])

(* persist_candidate refuses, because the candidate is no longer as it was *)
(* listed: an error of the repository is fatal.                            *)
Refused(p, c, b) ==
    /\ ~ Writes(c, Retries(p, c)) /\ ~ Replays(c, b, Retries(p, c))
    /\ Raise(p, "refused")
    /\ UNCHANGED screenerVars

Work(p) ==
    /\ Here(p, "work")
    /\ \E c \in Candidates, b \in Bundles :
          /\ IsFirst(c, call[p].todo) /\ call[p].listed[c] # "success"
          /\ Research(p, c, b) \/ Refused(p, c, b)
    /\ UNCHANGED calls

(* finalize_run, which seals the run, finds it sealed, or raises because   *)
(* it is not complete; then the candidates are read again.                 *)
Finalize(p) ==
    /\ Here(p, "work") /\ call[p].todo = {}
    /\ \/ FinalizeRun /\ ReturnSealed(p, run'.seal)
       \/ run.status = "success" /\ ReturnSealed(p, run.seal) /\ UNCHANGED screenerVars
       \/ /\ ~ Finalizable /\ run.status # "success"
          /\ Become(p, [call[p] EXCEPT !.at = "list", !.after = TRUE])
          /\ UNCHANGED screenerVars
    /\ UNCHANGED calls

(* Mutant: the result uses a word of its own. *)
PartialStatusMisnamed(p, failed) == "partial"

PartialStatus(p, failed) ==
    IF \E c \in Candidates \ failed : call[p].loaded[c] # NoBundle
    THEN "partial_success" ELSE "failed"

(* The result of a run that is not complete: the failures are those listed *)
(* now, without one the finalization's exception is raised again.          *)
ReportFailures(p) ==
    /\ Here(p, "load") /\ call[p].todo = {} /\ call[p].after
    /\ LET failed == {c \in Candidates : call[p].listed[c] = "failed"} IN
       \/ failed = {} /\ Raise(p, "unfinished")
       \/ /\ failed # {}
          /\ Leave(p, [status |-> PartialStatus(p, failed), error |-> "none", failed |-> failed,
                       output |-> [c \in Candidates |-> [rank |-> 0, bundle |-> call[p].loaded[c]]]])
    /\ UNCHANGED <<screenerVars, calls>>

(* The process dies, or a hook raises outside the isolated Stage 2 call. *)
Crash(p) ==
    /\ ~ Here(p, "off")
    /\ Become(p, NoCall)
    /\ UNCHANGED <<screenerVars, calls>>

CallStep(p) ==
    \/ Probe(p) \/ ProbeStatus(p) \/ ExpectRun(p) \/ Create(p) \/ Recheck(p)
    \/ RecheckStatus(p) \/ ListCandidates(p) \/ LoadRow(p) \/ LoadChildren(p)
    \/ BeginWork(p) \/ Reuse(p) \/ RetryRaises(p) \/ Work(p) \/ Finalize(p)
    \/ ReportFailures(p)

Next == \E p \in Processes : Start(p) \/ CallStep(p) \/ Crash(p)

Spec == Init /\ [][Next]_vars

----------------------------------------------------------------------------

(* Every variable keeps its type. *)
OrchestrationTypeOK ==
    /\ ScreenerTypeOK
    /\ call \in [Processes -> Call]
    /\ calls \in 0..MaxCalls

(* However many processes work on a run, the result of each that reports   *)
(* success is the sealed one: they cannot report different rankings.       *)
SuccessReportIsSeal ==
    \A p \in Processes :
        call[p].answer.status = "success" =>
            run.status = "success" /\ call[p].answer.output = run.seal

(* A call that begins after the run was sealed replays it, whether or not  *)
(* it knows the id of the run.                                             *)
ReplayAfterSeal ==
    \A p \in Processes :
        call[p].late /\ call[p].answer.status # "none" => call[p].answer.status = "success"

(* A partial result covers the shortlist, and what it says of a candidate  *)
(* that succeeded stays true, whatever other processes do.                 *)
PartialReportHolds ==
    \A p \in Processes, c \in Candidates :
        call[p].answer.status \in {"partial_success", "failed"} =>
            LET bundle == call[p].answer.output[c].bundle IN
            /\ bundle # NoBundle
            /\ bundle \in Successes => candidate[c].bundle = bundle

(* The result of a call that had the run to itself, after whatever calls   *)
(* before it died of, says what the tables say: the status of the run, and *)
(* which candidates failed, which are those that failed in this very call. *)
ReportMatchesRun ==
    \A p \in Processes :
        call[p].answer.status \in {"success", "partial_success", "failed"} /\ ~ call[p].shared =>
            /\ call[p].answer.status = run.status
            /\ call[p].answer.failed = Having(candidate, "failed")
            /\ call[p].answer.failed = call[p].failures

(* Whatever crashes and overlapping calls left behind can be taken up by a *)
(* call that has the run to itself: its only error is to expect a run that *)
(* does not exist.                                                         *)
NeverRefused ==
    \A p \in Processes : ~ call[p].shared => call[p].answer.error \in {"none", "unknown_run"}

(* "A sealed success that cannot be reconstructed" is what an integrity    *)
(* error means: no rows are damaged here, so there should be none.         *)
NoFalseAlarm == \A p \in Processes : call[p].answer.error # "integrity"

(* What any call reported stays true of the tables, whatever other calls   *)
(* do: a success is the seal, a partial result holds for its successes,    *)
(* and a call that began after the seal replays it.                        *)
ReportsHold == SuccessReportIsSeal /\ ReplayAfterSeal /\ PartialReportHolds
=============================================================================
