---------------------------- MODULE DailyRunner ----------------------------
(***************************************************************************)
(* One production day of the screener: DailyRunner.run of                  *)
(* app/daily_runner.py with PreparedProductionS5 as its screener, the      *)
(* report of a sealed run, and the two report files written by             *)
(* ScreenerReportArtifactWriter (app/reporting/screener_report.py).        *)
(*                                                                         *)
(* A process decides whether the date is a market day, takes the operating *)
(* system's lock of the date or gives up, prepares the date                *)
(* (DailyPreparation), screens, and replaces the missing report files one  *)
(* by one.  It may die between any two steps; the system then frees the    *)
(* lock, and whatever was filed, sealed or written stays.                  *)
(*                                                                         *)
(* The screener is DailyScreenerOrchestrator, modelled in                  *)
(* ScreenerOrchestration: here its whole call is one step that seals a     *)
(* run, finds it sealed, or ends otherwise.  Left out: durations, the      *)
(* evidence file (written, never read), the metadata in the lock file,     *)
(* which never decides ownership, and the file names of reports of version *)
(* 2, which carry the run and so cannot collide.                           *)
(***************************************************************************)
EXTENDS DailyPreparation

CONSTANTS
    Limits,         \* candidate limits the operator may configure
    NoProcess,      \* a lock that nobody holds
    MaxStarts       \* bound: calls of DailyRunner.run

ASSUME RunnerAssumption == NoProcess \notin Processes /\ MaxStarts \in Nat

VARIABLES
    lock,           \* the process that holds the lock of each date
    sealed,         \* the screener runs that are sealed
    reports,        \* the report files
    result,         \* what the last call of each process returned
    starts          \* calls made so far

runnerVars == <<lock, sealed, reports, result, starts>>
vars == <<preparationVars, runnerVars>>

(* A run is told apart by its universe, its limit and the prices Stage 1   *)
(* read: they are all part of the screener run's identity.                 *)
ScreenerRun == [day : Targets, snapshot : Snapshot, limit : Limits,
                prices : UNION {[S -> Issue] : S \in SUBSET Symbols}]
NoRun == <<>>

Formats == {"json", "markdown"}

Outcomes == {"none", "success", "success_replay", "skipped", "already_running", "failed"}

(* seen: the universe file found; snapshot: the one in use; adopts: the    *)
(* file is adopted; done: symbols stocked; run: what the screener          *)
(* returned; outcome: the execution status so far.                         *)
NoWork ==
    [at |-> "off", day |-> 0, limit |-> 0, seen |-> NoSnapshot, snapshot |-> NoSnapshot,
     adopts |-> FALSE, symbol |-> 0, done |-> {}, run |-> NoRun, outcome |-> "failed"]

NoResult == [outcome |-> "none", day |-> 0, run |-> NoRun]

Init ==
    /\ PreparationInit
    /\ worker = [w \in Processes |-> NoWork]
    /\ lock = [d \in Targets |-> NoProcess]
    /\ sealed = {} /\ reports = {}
    /\ result = [w \in Processes |-> NoResult]
    /\ starts = 0

Inside(w) == worker[w].at \notin {"off", "locking"}

Answer(w, outcome, d, run) ==
    result' = [result EXCEPT ![w] = [outcome |-> outcome, day |-> d, run |-> run]]

----------------------------------------------------------------------------

(* The newest date the exchange publishes; the probe can find none: no     *)
(* answer, or two tables of different dates.                               *)
ProbeAnswers(latest) ==
    \/ latest = 0
    \/ exchange.trading = exchange.valuation /\ latest = exchange.trading

(* DeterministicMarketDatePolicy.resolve: a weekday is a market day only   *)
(* if the exchange has published exactly that date.                        *)
Decision(d, latest) ==
    IF d \in ClosedDays THEN "non_market_day"
    ELSE IF latest = d THEN "market_day" ELSE "unknown"

Start(w, d, limit) ==
    /\ At(w, "off") /\ starts < MaxStarts
    /\ starts' = starts + 1
    /\ \E latest \in Days \cup {0} :
        /\ ProbeAnswers(latest)
        /\ \/ /\ Decision(d, latest) = "non_market_day"
              /\ Answer(w, "skipped", d, NoRun) /\ UNCHANGED worker
           \/ /\ Decision(d, latest) = "unknown"
              /\ Answer(w, "failed", d, NoRun) /\ UNCHANGED worker
           \/ /\ Decision(d, latest) = "market_day"
              /\ worker' = [worker EXCEPT ![w] =
                    [NoWork EXCEPT !.at = "locking", !.day = d, !.limit = limit]]
              /\ Answer(w, "none", d, NoRun)
    /\ UNCHANGED <<exchange, file, universes, prun, batch, price, lock, sealed, reports>>

(* DailyRunLock.try_acquire. *)
Lock(w) ==
    /\ At(w, "locking")
    /\ \/ /\ lock[DayOf(w)] = NoProcess
          /\ lock' = [lock EXCEPT ![DayOf(w)] = w]
          /\ Goto(w, "opening") /\ UNCHANGED result
       \/ /\ lock[DayOf(w)] # NoProcess
          /\ Answer(w, "already_running", DayOf(w), NoRun)
          /\ worker' = [worker EXCEPT ![w] = NoWork] /\ UNCHANGED lock
    /\ UNCHANGED <<exchange, file, universes, prun, batch, price, sealed, reports, starts>>

(* The run the screener would make of what it reads now. *)
RunOf(w) ==
    [day |-> DayOf(w), snapshot |-> worker[w].snapshot, limit |-> worker[w].limit,
     prices |-> [s \in Eligible(worker[w].snapshot) |->
                    CHOOSE p \in PricesRead(DayOf(w), s) : TRUE]]

(* The screener succeeds: its run is sealed, or was.  It can also end in   *)
(* part or raise, sealing nothing (GiveUp).                                *)
Screen(w) ==
    /\ At(w, "screening")
    /\ Ready(DayOf(w), worker[w].snapshot)
    /\ sealed' = sealed \cup {RunOf(w)}
    /\ worker' = [worker EXCEPT ![w].at = "reporting", ![w].run = RunOf(w),
            ![w].outcome = IF RunOf(w) \in sealed THEN "success_replay" ELSE "success"]
    /\ UNCHANGED <<exchange, file, universes, prun, batch, price, lock, reports, result,
                   starts>>

----------------------------------------------------------------------------

(* _resolve_output_paths: the files of a report are named by its date. *)
PathOf(run) == run.day

ReportFile(run, format) == [path |-> PathOf(run), format |-> format, run |-> run]

Occupied(run, format) ==
    \E f \in reports : f.path = PathOf(run) /\ f.format = format

(* Mutant: a file that is already there is taken for the report. *)
FreeOccupied(run, format) == Occupied(run, format) \/ ~ Occupied(run, format)

(* The file of a report is missing, or holds this very report. *)
Free(run, format) == Occupied(run, format) => ReportFile(run, format) \in reports

(* generate, and the preflight of write: nothing is written unless both    *)
(* files are free.                                                         *)
Report(w) ==
    /\ At(w, "reporting")
    /\ worker[w].run \in sealed
    /\ \A format \in Formats : Free(worker[w].run, format)
    /\ Goto(w, "json")
    /\ UNCHANGED <<exchange, file, universes, prun, batch, price, lock, sealed, reports,
                   result, starts>>

(* Each file is looked at again and put in place if it is still missing. *)
WriteFile(w, format, next) ==
    /\ At(w, format)
    /\ Free(worker[w].run, format)
    /\ reports' = {f \in reports : f.path # PathOf(worker[w].run) \/ f.format # format}
                    \cup {ReportFile(worker[w].run, format)}
    /\ Goto(w, next)
    /\ UNCHANGED <<exchange, file, universes, prun, batch, price, lock, sealed, result, starts>>

(* lock.release in the finally clause: the outcome is the report's only if *)
(* the process got to its end, and the release is not refused.             *)
Release(w) ==
    /\ worker[w].at \in {"releasing", "written"}
    /\ lock' = [lock EXCEPT ![DayOf(w)] = NoProcess]
    /\ \/ At(w, "written") /\ Answer(w, worker[w].outcome, DayOf(w), worker[w].run)
       \/ Answer(w, "failed", DayOf(w), NoRun)
    /\ worker' = [worker EXCEPT ![w] = NoWork]
    /\ UNCHANGED <<exchange, file, universes, prun, batch, price, sealed, reports, starts>>

(* The process dies: the operating system frees its lock. *)
Die(w) ==
    /\ ~ At(w, "off")
    /\ lock' = [d \in Targets |-> IF lock[d] = w THEN NoProcess ELSE lock[d]]
    /\ worker' = [worker EXCEPT ![w] = NoWork]
    /\ result' = [result EXCEPT ![w] = NoResult]
    /\ UNCHANGED <<exchange, file, universes, prun, batch, price, sealed, reports, starts>>

Next ==
    \/ \E w \in Processes :
        \/ \E d \in Targets, limit \in Limits : Start(w, d, limit)
        \/ Lock(w)
        \/ Prepare(w) /\ UNCHANGED runnerVars
        \/ Screen(w) \/ Report(w) \/ Release(w) \/ Die(w)
        \/ WriteFile(w, "json", "markdown") \/ WriteFile(w, "markdown", "written")
    \/ Publish /\ UNCHANGED runnerVars
    \/ Elsewhere /\ UNCHANGED runnerVars

Spec == Init /\ [][Next]_vars

----------------------------------------------------------------------------

(* Rows, files, locks and results have the shape the code gives them. *)
DailyTypeOK ==
    /\ exchange \in [trading : Days, valuation : Days, issue : Issue]
    /\ \A d \in Targets : file[d] # NoSnapshot => file[d] \in Snapshot
    /\ universes \subseteq Snapshot
    /\ prun \in [Targets -> [Symbols -> Run]]
    /\ price \in [Targets -> [Symbols -> Price]]
    /\ batch \subseteq Targets \X Others
    /\ lock \in [Targets -> Processes \cup {NoProcess}]
    /\ \A w \in Processes :
        /\ worker[w].at \in Stages \cup {"written"}
        /\ worker[w].at = "fetching" => worker[w].symbol \in Symbols
        /\ result[w].outcome \in Outcomes

(* The process inside a date is the one that holds its lock, so there is   *)
(* one at most; a lock is never left held by a process that is gone.       *)
LockIsHeld ==
    \A w \in Processes, d \in Targets : lock[d] = w <=> Inside(w) /\ DayOf(w) = d

(* The universe on file for a date was taken from tables that were both of *)
(* that date, whatever was published or amended between the requests, and  *)
(* leaves no security unresolved.                                          *)
FiledOnEvidence ==
    \A d \in Targets :
        file[d] # NoSnapshot =>
            /\ file[d].trading = d /\ file[d].valuation = d
            /\ Usable(EvidenceOf(file[d]), BaseClass, d)

(* Every sealed run stands on the one universe on file for its date, and   *)
(* has read one price of the exchange for every security that universe     *)
(* scans, whatever others wrote meanwhile.                                 *)
SealedOnEvidence ==
    \A run \in sealed :
        /\ file[run.day] = run.snapshot /\ run.snapshot \in universes
        /\ DOMAIN run.prices = Eligible(run.snapshot)
        /\ \A s \in DOMAIN run.prices :
            Scannable(EvidenceOf(run.snapshot)[s]) /\ run.prices[s] \in Issue

(* Every report file holds a sealed run, and a call that answered success  *)
(* has left both files of its own run on a market day.                     *)
ReportsHold ==
    /\ \A f \in reports : f.run \in sealed
    /\ \A w \in Processes :
        result[w].outcome \in {"success", "success_replay"} =>
            /\ \A format \in Formats : ReportFile(result[w].run, format) \in reports
            /\ result[w].run.day = result[w].day /\ result[w].day \notin ClosedDays

(* The locks, the files, the sealed runs and the reports agree. *)
DailyHolds == LockIsHeld /\ FiledOnEvidence /\ SealedOnEvidence /\ ReportsHold

(* What a date has put on record stays as it is: its universe file, its    *)
(* persisted universes, its sealed runs and every report file; and a       *)
(* report file appears only while its date's lock is held.                 *)
DailyStands ==
    [][/\ \A d \in Targets : file[d] # NoSnapshot => file'[d] = file[d]
       /\ universes \subseteq universes' /\ sealed \subseteq sealed'
       /\ reports \subseteq reports'
       /\ \A f \in reports' \ reports : lock[f.run.day] # NoProcess]_vars
=============================================================================
