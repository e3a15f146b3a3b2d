------------------------- MODULE DailyRunner_proofs -------------------------
(***************************************************************************)
(* Theorems about DailyRunner, for any number of processes, securities,    *)
(* dates, issues of the tables and calls.                                  *)
(***************************************************************************)
EXTENDS DailyRunner, FiniteSetTheorems, TLAPS

USE PreparationAssumption, RunnerAssumption

----------------------------------------------------------------------------

(* What the variables hold. *)
Work == [at : Stages \cup {"written"}, day : Targets \cup {0}, limit : Limits \cup {0},
         seen : Snapshot \cup {NoSnapshot}, snapshot : Snapshot \cup {NoSnapshot},
         adopts : BOOLEAN, symbol : Symbols \cup {0}, done : SUBSET Symbols,
         run : ScreenerRun \cup {NoRun}, outcome : Outcomes]

Result == [outcome : Outcomes, day : Targets \cup {0}, run : ScreenerRun \cup {NoRun}]

TablesType ==
    /\ exchange \in [trading : Days, valuation : Days, issue : Issue]
    /\ prun \in [Targets -> [Symbols -> Run]]
    /\ price \in [Targets -> [Symbols -> Price]]
    /\ batch \subseteq Targets \X Others

RecordsType ==
    /\ file \in [Targets -> Snapshot \cup {NoSnapshot}]
    /\ universes \subseteq Snapshot
    /\ sealed \subseteq ScreenerRun
    /\ reports \subseteq [path : Targets, format : Formats, run : ScreenerRun]
    /\ result \in [Processes -> Result]
    /\ lock \in [Targets -> Processes \cup {NoProcess}]

WorkType == worker \in [Processes -> Work]

Filed == {"persisting", "stocking", "fetching", "checking", "screening", "reporting", "json",
          "markdown", "written"}
Persisted == Filed \ {"persisting"}
Reporting == {"reporting", "json", "markdown", "written"}

(* What a process that has come this far stands on. *)
PlaceInv(w) ==
    /\ ~ At(w, "off") => DayOf(w) \in Targets \ ClosedDays /\ worker[w].limit \in Limits
    /\ At(w, "valuing") => worker[w].snapshot \in Snapshot
    /\ At(w, "filing") =>
        /\ worker[w].snapshot \in Snapshot
        /\ TablesDated(worker[w].snapshot, DayOf(w))
        /\ Usable(EvidenceOf(worker[w].snapshot), BaseClass, DayOf(w))
    /\ worker[w].at \in Filed =>
        worker[w].snapshot \in Snapshot /\ file[DayOf(w)] = worker[w].snapshot
    /\ worker[w].at \in Persisted => worker[w].snapshot \in universes
    /\ At(w, "fetching") => worker[w].symbol \in Symbols
    /\ worker[w].at \in Reporting => worker[w].run \in sealed /\ worker[w].run.day = DayOf(w)
    /\ worker[w].at \in {"markdown", "written"} => ReportFile(worker[w].run, "json") \in reports
    /\ At(w, "written") => ReportFile(worker[w].run, "markdown") \in reports

(* Every report file is named by the date of the run it holds, and no two  *)
(* have one name.                                                          *)
FilesInv ==
    /\ \A f \in reports : f.path = f.run.day
    /\ \A f, g \in reports : f.path = g.path /\ f.format = g.format => f = g

DailyInv ==
    /\ TablesType /\ RecordsType /\ WorkType
    /\ \A w \in Processes : PlaceInv(w)
    /\ FilesInv
    /\ DailyHolds

----------------------------------------------------------------------------

(* Nothing on record goes away. *)
Grows ==
    /\ \A d \in Targets : file[d] # NoSnapshot => file'[d] = file[d]
    /\ universes \subseteq universes' /\ sealed \subseteq sealed' /\ reports \subseteq reports'

LEMMA NoSnapshotIsNone == NoSnapshot \notin Snapshot
<1> SUFFICES ASSUME NoSnapshot \in Snapshot
             PROVE  FALSE
  OBVIOUS
<1>1. DOMAIN NoSnapshot = {}
  BY DEF NoSnapshot
<1>2. "trading" \in DOMAIN NoSnapshot
  BY DEF Snapshot
<1> QED
  BY <1>1, <1>2

LEMMA IssuesTyped ==
  /\ 1 \in Issue
  /\ \A i \in Issue, s \in Symbols : Issues[i][s] \in Evidence
  /\ 0 \notin Issue
<1>1. PICK n \in Nat : Issue = 1 .. n /\ Len(Issues) = n
  BY DEF Issue
<1>2. n # 0
  BY <1>1, Issues = << >> <=> Len(Issues) = 0
<1>3. Issues \in [1 .. n -> [Symbols -> Evidence]]
  BY <1>1
<1> QED
  BY <1>1, <1>2, <1>3

(* A security that is scanned can be: it was traded and valued. *)
LEMMA EligibleIsScannable ==
  ASSUME NEW u \in Snapshot, NEW s \in Eligible(u)
  PROVE  s \in Symbols /\ Scannable(EvidenceOf(u)[s])
<1> DEFINE e == EvidenceOf(u)[s]
<1>1. s \in Symbols /\ DayStatus(e, BaseClass[s], u.trading) = "eligible"
  BY DEF Eligible, EligibleOf, EvidenceOf
<1>2. e \in Evidence
  BY <1>1, IssuesTyped DEF EvidenceOf, Evidence, Snapshot
<1>3. Scannable(DayEvidence(e))
  BY <1>1 DEF DayStatus, MemberStatus
<1>4. DayEvidence(e).valuation = e.valuation /\ DayEvidence(e).trading = e.trading
  BY <1>2 DEF DayEvidence, Evidence
<1> QED
  BY <1>1, <1>3, <1>4 DEF Scannable

LEMMA EligibleAreSymbols == \A u \in Snapshot : Eligible(u) \subseteq Symbols
BY DEF Eligible, EligibleOf, EvidenceOf

(* What can be read of a symbol is one issue of the tables. *)
LEMMA ReadableHasPrice ==
  ASSUME TablesType, NEW d \in Targets, NEW s \in Symbols, Readable(d, s)
  PROVE  (CHOOSE p \in PricesRead(d, s) : TRUE) \in Issue
<1>1. PricesRead(d, s) # {}
  <2> SUFFICES ASSUME PricesRead(d, s) = {}
               PROVE  FALSE
    OBVIOUS
  <2>1. Cardinality({}) = 0
    BY FS_EmptySet
  <2> QED
    BY <2>1 DEF Readable
<1>2. PricesRead(d, s) \subseteq Issue
  BY DEF PricesRead, TablesType, Price
<1> QED
  BY <1>1, <1>2
----------------------------------------------------------------------------

LEMMA DailyInit == Init => DailyInv
<1> SUFFICES ASSUME Init
             PROVE  DailyInv
  OBVIOUS
<1> USE DEF Init, PreparationInit
<1>1. TablesType
  BY IssuesTyped DEF TablesType, Run, Price
<1>2. RecordsType
  BY DEF RecordsType, Result, NoResult, Outcomes
<1>3. WorkType
  BY DEF WorkType, Work, NoWork, Stages, Outcomes
<1>4. \A w \in Processes : PlaceInv(w)
  BY DEF PlaceInv, At, NoWork, Filed, Persisted, Reporting
<1>5. FilesInv
  BY DEF FilesInv
<1>6. DailyHolds
  BY DEF DailyHolds, LockIsHeld, FiledOnEvidence, SealedOnEvidence, ReportsHold, NoResult, NoWork,
         Inside, At
<1> QED
  BY <1>1, <1>2, <1>3, <1>4, <1>5, <1>6 DEF DailyInv

(* A process that does not move stands where it stood, whatever others put *)
(* on record.                                                              *)
LEMMA PlaceKept ==
  ASSUME Grows, RecordsType, NEW w \in Processes, PlaceInv(w), UNCHANGED worker[w]
  PROVE  PlaceInv(w)'
<1>1. worker[w].at \in Filed =>
        worker[w].snapshot \in Snapshot /\ file'[DayOf(w)] = worker[w].snapshot
  BY NoSnapshotIsNone DEF PlaceInv, Grows, Filed, At
<1>2. worker[w].at \in Persisted => worker[w].snapshot \in universes'
  BY DEF PlaceInv, Grows
<1>3. worker[w].at \in Reporting => worker[w].run \in sealed' /\ worker[w].run.day = DayOf(w)
  BY DEF PlaceInv, Grows
<1> QED
  BY <1>1, <1>2, <1>3 DEF PlaceInv, Grows, At, DayOf, ReportFile, PathOf

(* What is sealed stays founded on what is filed.                          *)
LEMMA SealedKept ==
  ASSUME Grows, RecordsType, SealedOnEvidence, NEW run \in sealed
  PROVE  /\ file'[run.day] = run.snapshot /\ run.snapshot \in universes'
         /\ DOMAIN run.prices = Eligible(run.snapshot)
         /\ \A s \in DOMAIN run.prices :
              Scannable(EvidenceOf(run.snapshot)[s]) /\ run.prices[s] \in Issue
<1>1. run.day \in Targets /\ run.snapshot \in Snapshot
  BY DEF RecordsType, ScreenerRun
<1> QED
  BY <1>1, NoSnapshotIsNone DEF Grows, SealedOnEvidence

(* A call that answered success has left its files for good.               *)
LEMMA AnswerKept ==
  ASSUME Grows, RecordsType, ReportsHold, NEW w \in Processes, UNCHANGED result[w]
  PROVE  result'[w].outcome \in {"success", "success_replay"} =>
            /\ \A format \in Formats : ReportFile(result'[w].run, format) \in reports'
            /\ result'[w].run.day = result'[w].day /\ result'[w].day \notin ClosedDays
BY DEF Grows, ReportsHold

----------------------------------------------------------------------------

(* A process that holds a lock moves, and keeps it.                        *)
LEMMA InsideStep ==
  ASSUME DailyInv, NEW w \in Processes, Grows, TablesType', RecordsType',
         worker' = [worker EXCEPT ![w] = worker'[w]], worker'[w] \in Work, PlaceInv(w)',
         Inside(w), Inside(w)', DayOf(w)' = DayOf(w), UNCHANGED <<lock, result>>,
         FilesInv', FiledOnEvidence', SealedOnEvidence', \A f \in reports' : f.run \in sealed'
  PROVE  DailyInv'
<1>1. WorkType'
  BY DEF DailyInv, WorkType
<1>2. \A v \in Processes : PlaceInv(v)'
  <2>1. ASSUME NEW v \in Processes, v # w
        PROVE  PlaceInv(v)'
    BY <2>1, PlaceKept DEF DailyInv, WorkType
  <2> QED
    BY <2>1
<1>3. LockIsHeld'
  <2> SUFFICES ASSUME NEW v \in Processes, NEW d \in Targets
               PROVE  (lock'[d] = v <=> Inside(v)' /\ DayOf(v)' = d)
    BY DEF LockIsHeld
  <2>1. CASE v = w
    BY <2>1 DEF DailyInv, DailyHolds, LockIsHeld
  <2>2. CASE v # w
    BY <2>2 DEF DailyInv, DailyHolds, LockIsHeld, WorkType, Inside, DayOf
  <2> QED
    BY <2>1, <2>2
<1>4. ReportsHold'
  <2>1. ASSUME NEW v \in Processes
        PROVE  result'[v].outcome \in {"success", "success_replay"} =>
                  /\ \A format \in Formats : ReportFile(result'[v].run, format) \in reports'
                  /\ result'[v].run.day = result'[v].day /\ result'[v].day \notin ClosedDays
    BY AnswerKept DEF DailyInv, DailyHolds
  <2> QED
    BY <2>1 DEF ReportsHold, ReportFile, PathOf
<1> QED
  BY <1>1, <1>2, <1>3, <1>4 DEF DailyInv, DailyHolds

(* It puts nothing on record.                                              *)
LEMMA QuietStep ==
  ASSUME DailyInv, NEW w \in Processes, TablesType',
         UNCHANGED <<file, universes, lock, sealed, reports, result>>,
         worker' = [worker EXCEPT ![w] = worker'[w]], worker'[w] \in Work, PlaceInv(w)',
         Inside(w), Inside(w)', DayOf(w)' = DayOf(w)
  PROVE  DailyInv' /\ Grows
<1>1. Grows
  BY DEF Grows
<1>2. RecordsType' /\ FilesInv'
  BY DEF DailyInv, RecordsType, FilesInv
<1>3. FiledOnEvidence' /\ SealedOnEvidence' /\ \A f \in reports' : f.run \in sealed'
  BY DEF DailyInv, DailyHolds, FiledOnEvidence, SealedOnEvidence, ReportsHold
<1> QED
  BY <1>1, <1>2, <1>3, InsideStep

(* What others do to the tables moves no process.                          *)
LEMMA ElsewhereStep ==
  ASSUME DailyInv, TablesType', UNCHANGED <<file, universes, worker, runnerVars>>
  PROVE  DailyInv' /\ Grows
<1> USE DEF runnerVars
<1>1. Grows
  BY DEF Grows
<1>2. RecordsType' /\ FilesInv' /\ WorkType'
  BY DEF DailyInv, RecordsType, FilesInv, WorkType
<1>3. \A v \in Processes : PlaceInv(v)'
  BY <1>1, PlaceKept DEF DailyInv
<1>4. DailyHolds'
  BY DEF DailyInv, DailyHolds, LockIsHeld, FiledOnEvidence, SealedOnEvidence, ReportsHold, Inside,
         DayOf, At
<1> QED
  BY <1>1, <1>2, <1>3, <1>4 DEF DailyInv

----------------------------------------------------------------------------

LEMMA OpenStep ==
  ASSUME DailyInv, NEW w \in Processes, Open(w), UNCHANGED runnerVars
  PROVE  DailyInv' /\ Grows
<1> DEFINE d == DayOf(w)
<1>0. /\ worker[w] \in Work /\ worker[w].at = "opening" /\ Inside(w) /\ PlaceInv(w)
      /\ d \in Targets /\ file[d] \in Snapshot \cup {NoSnapshot}
  BY DEF DailyInv, WorkType, Work, Open, At, Inside, PlaceInv, RecordsType
<1>1. TablesType'
  BY DEF DailyInv, TablesType, Open
<1>2. worker' = [worker EXCEPT ![w] = worker'[w]] /\ worker'[w] \in Work
  BY <1>0 DEF DailyInv, WorkType, Work, Open, Stages
<1>3. /\ worker'[w].day = d /\ worker'[w].limit = worker[w].limit
      /\ worker'[w].snapshot = file[d]
      /\ \/ worker'[w].at = "acquiring"
         \/ worker'[w].at = "persisting" /\ file[d] # NoSnapshot
  <2> DEFINE ok == file[d] # NoSnapshot /\ Ready(d, file[d])
             next == IF ok THEN "persisting" ELSE "acquiring"
  <2>1. worker' = [worker EXCEPT ![w].at = next, ![w].adopts = ok, ![w].seen = file[d],
                                 ![w].snapshot = file[d]]
    BY DEF Open
  <2>2. next = "acquiring" \/ (next = "persisting" /\ file[d] # NoSnapshot)
    OBVIOUS
  <2> HIDE DEF next, ok
  <2> QED
    BY <1>0, <2>1, <2>2 DEF DailyInv, WorkType, Work, DayOf
<1>4. PlaceInv(w)'
  BY <1>0, <1>3 DEF PlaceInv, At, DayOf, Filed, Persisted, Reporting, Open
<1>5. Inside(w)' /\ DayOf(w)' = DayOf(w)
  BY <1>3 DEF Inside, DayOf
<1> QED
  BY <1>0, <1>1, <1>2, <1>4, <1>5, QuietStep DEF Open, runnerVars

LEMMA AcquireTradingStep ==
  ASSUME DailyInv, NEW w \in Processes, AcquireTrading(w), UNCHANGED runnerVars
  PROVE  DailyInv' /\ Grows
<1>0. /\ worker[w] \in Work /\ worker[w].at = "acquiring" /\ Inside(w) /\ PlaceInv(w)
      /\ exchange \in [trading : Days, valuation : Days, issue : Issue]
  BY DEF DailyInv, WorkType, Work, AcquireTrading, At, Inside, TablesType
<1>1. TablesType'
  BY DEF DailyInv, TablesType, AcquireTrading
<1> DEFINE u == [trading |-> exchange.trading, valuation |-> exchange.valuation,
                 traded |-> exchange.issue, issue |-> exchange.issue]
<1>2. u \in Snapshot
  BY <1>0 DEF Snapshot
<1>3. worker' = [worker EXCEPT ![w].at = "valuing", ![w].snapshot = u]
  BY DEF AcquireTrading
<1>4. worker' = [worker EXCEPT ![w] = worker'[w]] /\ worker'[w] \in Work
  BY <1>0, <1>2, <1>3 DEF DailyInv, WorkType, Work, Stages
<1>5. /\ worker'[w].day = worker[w].day /\ worker'[w].limit = worker[w].limit
      /\ worker'[w].snapshot = u /\ worker'[w].at = "valuing"
  BY <1>0, <1>3 DEF DailyInv, WorkType, Work
<1>6. PlaceInv(w)'
  BY <1>0, <1>2, <1>5 DEF PlaceInv, At, DayOf, Filed, Persisted, Reporting
<1>7. Inside(w)' /\ DayOf(w)' = DayOf(w)
  BY <1>5 DEF Inside, DayOf
<1> QED
  BY <1>0, <1>1, <1>4, <1>6, <1>7, QuietStep DEF AcquireTrading, runnerVars

LEMMA AcquireStep ==
  ASSUME DailyInv, NEW w \in Processes, Acquire(w), UNCHANGED runnerVars
  PROVE  DailyInv' /\ Grows
<1>0. /\ worker[w] \in Work /\ worker[w].at = "valuing" /\ Inside(w) /\ PlaceInv(w)
      /\ exchange \in [trading : Days, valuation : Days, issue : Issue]
      /\ worker[w].snapshot \in Snapshot
  BY DEF DailyInv, WorkType, Work, Acquire, At, Inside, TablesType, PlaceInv
<1>1. TablesType'
  BY DEF DailyInv, TablesType, Acquire
<1>2. Acquired(w) \in Snapshot
  BY <1>0 DEF Snapshot, Acquired
<1>3. worker' = [worker EXCEPT ![w].at = "filing", ![w].snapshot = Acquired(w)]
  BY DEF Acquire
<1>4. worker' = [worker EXCEPT ![w] = worker'[w]] /\ worker'[w] \in Work
  BY <1>0, <1>2, <1>3 DEF DailyInv, WorkType, Work, Stages
<1>5. /\ worker'[w].day = worker[w].day /\ worker'[w].limit = worker[w].limit
      /\ worker'[w].snapshot = Acquired(w) /\ worker'[w].at = "filing"
  BY <1>0, <1>3 DEF DailyInv, WorkType, Work
<1>6. TablesDated(Acquired(w), DayOf(w)) /\ Usable(EvidenceOf(Acquired(w)), BaseClass, DayOf(w))
  BY DEF Acquire
<1>7. PlaceInv(w)'
  BY <1>0, <1>2, <1>5, <1>6
     DEF PlaceInv, At, DayOf, Filed, Persisted, Reporting, TablesDated, EvidenceOf
<1>8. Inside(w)' /\ DayOf(w)' = DayOf(w)
  BY <1>5 DEF Inside, DayOf
<1> QED
  BY <1>0, <1>1, <1>4, <1>7, <1>8, QuietStep DEF Acquire, runnerVars

(* A cell of a table is replaced by one of its kind.                       *)
LEMMA CellReplaced ==
  ASSUME NEW Cell, NEW table \in [Targets -> [Symbols -> Cell]],
         NEW d \in Targets, NEW s \in Symbols, NEW x \in Cell
  PROVE  [table EXCEPT ![d][s] = x] \in [Targets -> [Symbols -> Cell]]
OBVIOUS

LEMMA RunReplaced ==
  ASSUME NEW table \in [Targets -> [Symbols -> Run]], NEW d \in Targets, NEW s \in Symbols,
         NEW x \in {"none", "running", "success", "failed"}
  PROVE  [table EXCEPT ![d][s].status = x] \in [Targets -> [Symbols -> Run]]
<1>1. [table[d][s] EXCEPT !.status = x] \in Run
  <2>1. table[d][s] \in Run
    OBVIOUS
  <2> QED
    BY <2>1 DEF Run
<1>2. [table EXCEPT ![d][s].status = x] =
        [table EXCEPT ![d][s] = [table[d][s] EXCEPT !.status = x]]
  OBVIOUS
<1> QED
  BY <1>1, <1>2, CellReplaced

LEMMA PriceReplaced ==
  ASSUME NEW table \in [Targets -> [Symbols -> Price]], NEW d \in Targets, NEW s \in Symbols,
         NEW i \in Issue \cup {0}
  PROVE  [table EXCEPT ![d][s].daily = i] \in [Targets -> [Symbols -> Price]]
<1>1. [table[d][s] EXCEPT !.daily = i] \in Price
  <2>1. table[d][s] \in Price
    OBVIOUS
  <2> QED
    BY <2>1 DEF Price
<1>2. [table EXCEPT ![d][s].daily = i] =
        [table EXCEPT ![d][s] = [table[d][s] EXCEPT !.daily = i]]
  OBVIOUS
<1> QED
  BY <1>1, <1>2, CellReplaced

LEMMA FileStep ==
  ASSUME DailyInv, NEW w \in Processes, FileUniverse(w), UNCHANGED runnerVars
  PROVE  DailyInv' /\ Grows
<1> DEFINE d == DayOf(w)
           u == worker[w].snapshot
<1>0. /\ worker[w] \in Work /\ worker[w].at = "filing" /\ Inside(w) /\ PlaceInv(w)
      /\ d \in Targets /\ u \in Snapshot
      /\ TablesDated(u, d) /\ Usable(EvidenceOf(u), BaseClass, d)
  BY DEF DailyInv, WorkType, Work, FileUniverse, At, Inside, PlaceInv
<1>1. TablesType'
  BY DEF DailyInv, TablesType, FileUniverse
<1>2. file' = [file EXCEPT ![d] = u] /\ file[d] \in {NoSnapshot, u} /\ file'[d] = u
  BY <1>0 DEF FileUniverse, DailyInv, RecordsType
<1>3. Grows
  BY <1>0, <1>2 DEF Grows, FileUniverse, runnerVars, DailyInv, RecordsType
<1>4. RecordsType' /\ FilesInv'
  BY <1>0, <1>2 DEF DailyInv, RecordsType, FilesInv, FileUniverse, runnerVars
<1>5. worker' = [worker EXCEPT ![w].at = "persisting"]
  BY DEF FileUniverse, Goto
<1>6. worker' = [worker EXCEPT ![w] = worker'[w]] /\ worker'[w] \in Work
  BY <1>0, <1>5 DEF DailyInv, WorkType, Work, Stages
<1>7. /\ worker'[w].day = worker[w].day /\ worker'[w].limit = worker[w].limit
      /\ worker'[w].snapshot = u /\ worker'[w].at = "persisting"
  BY <1>0, <1>5 DEF DailyInv, WorkType, Work
<1>8. PlaceInv(w)'
  BY <1>0, <1>2, <1>7 DEF PlaceInv, At, DayOf, Filed, Persisted, Reporting
<1>9. Inside(w)' /\ DayOf(w)' = DayOf(w)
  BY <1>7 DEF Inside, DayOf
<1>10. FiledOnEvidence'
  <2> SUFFICES ASSUME NEW e \in Targets, file'[e] # NoSnapshot
               PROVE  /\ file'[e].trading = e /\ file'[e].valuation = e
                      /\ Usable(EvidenceOf(file'[e]), BaseClass, e)
    BY DEF FiledOnEvidence, EvidenceOf
  <2>1. CASE e = d
    BY <2>1, <1>0, <1>2 DEF TablesDated
  <2>2. CASE e # d
    BY <2>2, <1>0, <1>2 DEF DailyInv, DailyHolds, FiledOnEvidence, RecordsType
  <2> QED
    BY <2>1, <2>2
<1>11. SealedOnEvidence' /\ \A f \in reports' : f.run \in sealed'
  BY <1>3, SealedKept
     DEF DailyInv, DailyHolds, SealedOnEvidence, ReportsHold, FileUniverse, runnerVars
<1> QED
  BY <1>0, <1>1, <1>3, <1>4, <1>6, <1>8, <1>9, <1>10, <1>11, InsideStep DEF runnerVars

LEMMA PersistStep ==
  ASSUME DailyInv, NEW w \in Processes, PersistUniverse(w), UNCHANGED runnerVars
  PROVE  DailyInv' /\ Grows
<1> DEFINE u == worker[w].snapshot
<1>0. /\ worker[w] \in Work /\ worker[w].at = "persisting" /\ Inside(w) /\ PlaceInv(w)
      /\ u \in Snapshot
  BY DEF DailyInv, WorkType, Work, PersistUniverse, At, Inside, PlaceInv, Filed
<1>1. TablesType'
  BY DEF DailyInv, TablesType, PersistUniverse
<1>2. universes' = universes \cup {u} /\ UNCHANGED <<file, lock, sealed, reports, result>>
  BY DEF PersistUniverse, runnerVars
<1>3. Grows
  BY <1>2 DEF Grows
<1>4. RecordsType' /\ FilesInv'
  BY <1>0, <1>2 DEF DailyInv, RecordsType, FilesInv
<1>5. PICK next \in {"screening", "stocking"} : worker' = [worker EXCEPT ![w].at = next]
  BY DEF PersistUniverse, Goto
<1>6. worker' = [worker EXCEPT ![w] = worker'[w]] /\ worker'[w] \in Work
  BY <1>0, <1>5 DEF DailyInv, WorkType, Work, Stages
<1>7. /\ worker'[w].day = worker[w].day /\ worker'[w].limit = worker[w].limit
      /\ worker'[w].snapshot = u /\ worker'[w].at \in {"screening", "stocking"}
  BY <1>0, <1>5 DEF DailyInv, WorkType, Work
<1>8. PlaceInv(w)'
  BY <1>0, <1>2, <1>7 DEF PlaceInv, At, DayOf, Filed, Persisted, Reporting
<1>9. Inside(w)' /\ DayOf(w)' = DayOf(w)
  BY <1>7 DEF Inside, DayOf
<1>10. FiledOnEvidence'
  BY <1>2 DEF DailyInv, DailyHolds, FiledOnEvidence
<1>11. SealedOnEvidence' /\ \A f \in reports' : f.run \in sealed'
  BY <1>2, <1>3, SealedKept DEF DailyInv, DailyHolds, SealedOnEvidence, ReportsHold
<1> QED
  BY <1>0, <1>1, <1>2, <1>3, <1>4, <1>6, <1>8, <1>9, <1>10, <1>11, InsideStep

(* Moves that change, of the process, nothing that its place depends on.   *)
Onward(w, next) ==
    /\ worker'[w].at = next
    /\ worker'[w].day = worker[w].day /\ worker'[w].limit = worker[w].limit
    /\ worker'[w].snapshot = worker[w].snapshot /\ worker'[w].run = worker[w].run

LEMMA GotoIsOnward ==
  ASSUME WorkType, NEW w \in Processes, NEW next \in Stages \cup {"written"}, Goto(w, next)
  PROVE  /\ worker' = [worker EXCEPT ![w] = worker'[w]] /\ worker'[w] \in Work
         /\ Onward(w, next)
BY DEF WorkType, Work, Goto, Onward

LEMMA StockStep ==
  ASSUME DailyInv, NEW w \in Processes, Stock(w), UNCHANGED runnerVars
  PROVE  DailyInv' /\ Grows
<1>0. /\ worker[w] \in Work /\ worker[w].at = "stocking" /\ Inside(w) /\ PlaceInv(w)
      /\ DayOf(w) \in Targets /\ worker[w].snapshot \in Snapshot
  BY DEF DailyInv, WorkType, Work, Stock, At, Inside, PlaceInv, Filed
<1>1. PICK s \in Pending(w) : Replay(w, s) \/ Claim(w, s)
  BY DEF Stock
<1>2. s \in Symbols
  BY <1>0, EligibleAreSymbols DEF Pending
<1>3. TablesType'
  <2>1. prun' \in [Targets -> [Symbols -> Run]]
    <3>1. [status |-> "running", provider |-> "twse"] \in Run
      BY DEF Run
    <3>2. prun \in [Targets -> [Symbols -> Run]]
      BY DEF DailyInv, TablesType
    <3>3. CASE Claim(w, s)
      <4>1. prun' = [prun EXCEPT ![DayOf(w)][s] = [status |-> "running", provider |-> "twse"]]
        BY <3>3 DEF Claim
      <4> QED
        BY <4>1, <1>0, <1>2, <3>1, <3>2, CellReplaced
    <3> QED
      BY <1>1, <3>2, <3>3 DEF Replay
  <2> QED
    BY <2>1 DEF DailyInv, TablesType, Stock
<1>4. /\ worker' = [worker EXCEPT ![w] = worker'[w]] /\ worker'[w] \in Work
      /\ \/ Onward(w, "stocking")
         \/ Onward(w, "fetching") /\ worker'[w].symbol = s
  <2>1. CASE Replay(w, s)
    BY <2>1, <1>0, <1>2 DEF DailyInv, WorkType, Work, Replay, Onward
  <2>2. CASE Claim(w, s)
    BY <2>2, <1>0, <1>2 DEF DailyInv, WorkType, Work, Claim, Onward, Stages
  <2> QED
    BY <1>1, <2>1, <2>2
<1>5. PlaceInv(w)'
  BY <1>0, <1>2, <1>4 DEF PlaceInv, At, DayOf, Filed, Persisted, Reporting, Onward, Stock
<1>6. Inside(w)' /\ DayOf(w)' = DayOf(w)
  BY <1>4 DEF Inside, DayOf, Onward
<1> QED
  BY <1>0, <1>3, <1>4, <1>5, <1>6, QuietStep DEF Stock, runnerVars

LEMMA StoreSymbolStep ==
  ASSUME DailyInv, NEW w \in Processes, StoreSymbol(w), UNCHANGED runnerVars
  PROVE  DailyInv' /\ Grows
<1> DEFINE d == DayOf(w)
           s == worker[w].symbol
<1>0. /\ worker[w] \in Work /\ worker[w].at = "fetching" /\ Inside(w) /\ PlaceInv(w)
      /\ d \in Targets /\ s \in Symbols
  BY DEF DailyInv, WorkType, Work, StoreSymbol, At, Inside, PlaceInv
<1>1. TablesType'
  <2>1. prun' \in [Targets -> [Symbols -> Run]]
    BY <1>0, RunReplaced DEF DailyInv, TablesType, StoreSymbol
  <2>2. price' \in [Targets -> [Symbols -> Price]]
    BY <1>0, PriceReplaced DEF DailyInv, TablesType, StoreSymbol
  <2> QED
    BY <2>1, <2>2 DEF DailyInv, TablesType, StoreSymbol
<1>2. /\ worker' = [worker EXCEPT ![w] = worker'[w]] /\ worker'[w] \in Work
      /\ Onward(w, "stocking")
  BY <1>0 DEF DailyInv, WorkType, Work, StoreSymbol, Onward, Stages
<1>3. PlaceInv(w)'
  BY <1>0, <1>2 DEF PlaceInv, At, DayOf, Filed, Persisted, Reporting, Onward, StoreSymbol
<1>4. Inside(w)' /\ DayOf(w)' = DayOf(w)
  BY <1>2 DEF Inside, DayOf, Onward
<1> QED
  BY <1>0, <1>1, <1>2, <1>3, <1>4, QuietStep DEF StoreSymbol, runnerVars

(* A call that stops on its way has nothing more to stand on.              *)
LEMMA LeaveStep ==
  ASSUME DailyInv, NEW w \in Processes, LoseSymbol(w) \/ GiveUp(w), UNCHANGED runnerVars
  PROVE  DailyInv' /\ Grows
<1>0. /\ worker[w] \in Work /\ Inside(w) /\ PlaceInv(w) /\ ~ At(w, "off") /\ DayOf(w) \in Targets
      /\ Goto(w, "releasing")
  BY DEF DailyInv, WorkType, Work, LoseSymbol, GiveUp, At, Inside, PlaceInv
<1>1. TablesType'
  <2>1. CASE LoseSymbol(w)
    <3>1. worker[w].symbol \in Symbols
      BY <2>1, <1>0 DEF LoseSymbol, PlaceInv
    <3>2. prun' \in [Targets -> [Symbols -> Run]]
      BY <2>1, <3>1, <1>0, RunReplaced DEF DailyInv, TablesType, LoseSymbol
    <3> QED
      BY <2>1, <3>2 DEF DailyInv, TablesType, LoseSymbol
  <2>2. CASE GiveUp(w)
    BY <2>2 DEF DailyInv, TablesType, GiveUp
  <2> QED
    BY <2>1, <2>2
<1>2. /\ worker' = [worker EXCEPT ![w] = worker'[w]] /\ worker'[w] \in Work
      /\ Onward(w, "releasing")
  BY <1>0, GotoIsOnward DEF DailyInv, Stages
<1>3. PlaceInv(w)'
  BY <1>0, <1>2 DEF PlaceInv, At, DayOf, Filed, Persisted, Reporting, Onward
<1>4. Inside(w)' /\ DayOf(w)' = DayOf(w)
  BY <1>2 DEF Inside, DayOf, Onward
<1> QED
  BY <1>0, <1>1, <1>2, <1>3, <1>4, QuietStep DEF LoseSymbol, GiveUp, runnerVars

LEMMA CheckStep ==
  ASSUME DailyInv, NEW w \in Processes, StockEnd(w) \/ Check(w), UNCHANGED runnerVars
  PROVE  DailyInv' /\ Grows
<1>0. /\ worker[w] \in Work /\ worker[w].at \in {"stocking", "checking"} /\ Inside(w)
      /\ PlaceInv(w)
  BY DEF DailyInv, WorkType, StockEnd, Check, At, Inside
<1>1. TablesType'
  BY DEF DailyInv, TablesType, StockEnd, Check
<1>2. PICK next \in {"checking", "screening"} : Goto(w, next)
  BY DEF StockEnd, Check
<1>3. /\ worker' = [worker EXCEPT ![w] = worker'[w]] /\ worker'[w] \in Work
      /\ Onward(w, next)
  BY <1>2, GotoIsOnward DEF DailyInv, Stages
<1>4. PlaceInv(w)'
  BY <1>0, <1>3 DEF PlaceInv, At, DayOf, Filed, Persisted, Reporting, Onward, StockEnd, Check
<1>5. Inside(w)' /\ DayOf(w)' = DayOf(w)
  BY <1>3 DEF Inside, DayOf, Onward
<1> QED
  BY <1>0, <1>1, <1>3, <1>4, <1>5, QuietStep DEF StockEnd, Check, runnerVars

LEMMA ReportStep ==
  ASSUME DailyInv, NEW w \in Processes, Report(w)
  PROVE  DailyInv' /\ Grows
<1>0. /\ worker[w] \in Work /\ worker[w].at = "reporting" /\ Inside(w) /\ PlaceInv(w)
  BY DEF DailyInv, WorkType, Report, At, Inside
<1>1. TablesType'
  BY DEF DailyInv, TablesType, Report
<1>2. /\ worker' = [worker EXCEPT ![w] = worker'[w]] /\ worker'[w] \in Work
      /\ Onward(w, "json")
  BY GotoIsOnward DEF DailyInv, Stages, Report
<1>3. PlaceInv(w)'
  BY <1>0, <1>2 DEF PlaceInv, At, DayOf, Filed, Persisted, Reporting, Onward, Report
<1>4. Inside(w)' /\ DayOf(w)' = DayOf(w)
  BY <1>2 DEF Inside, DayOf, Onward
<1> QED
  BY <1>0, <1>1, <1>2, <1>3, <1>4, QuietStep DEF Report

(* The screener: the run it seals stands on the universe on file and on    *)
(* one price for every security that universe scans.                       *)
LEMMA ScreenStep ==
  ASSUME DailyInv, NEW w \in Processes, Screen(w)
  PROVE  DailyInv' /\ Grows
<1> DEFINE d == DayOf(w)
           u == worker[w].snapshot
           r == RunOf(w)
<1>0. /\ worker[w] \in Work /\ worker[w].at = "screening" /\ Inside(w) /\ PlaceInv(w)
      /\ d \in Targets /\ u \in Snapshot /\ file[d] = u /\ u \in universes
      /\ worker[w].limit \in Limits
  BY DEF DailyInv, WorkType, Screen, At, Inside, PlaceInv, Filed, Persisted
<1>1. TablesType'
  BY DEF DailyInv, TablesType, Screen
<1>2. /\ Eligible(u) \subseteq Symbols
      /\ \A s \in Eligible(u) : (CHOOSE p \in PricesRead(d, s) : TRUE) \in Issue
  BY <1>0, EligibleAreSymbols, ReadableHasPrice DEF Screen, Ready, DailyInv
<1>3. /\ r.day = d /\ r.snapshot = u /\ DOMAIN r.prices = Eligible(u)
      /\ \A s \in Eligible(u) : r.prices[s] \in Issue
      /\ r \in ScreenerRun
  <2>1. r.prices \in [Eligible(u) -> Issue]
    BY <1>2 DEF RunOf
  <2>2. r.prices \in UNION {[S -> Issue] : S \in SUBSET Symbols}
    BY <1>2, <2>1
  <2>3. r.day = d /\ r.snapshot = u /\ r.limit = worker[w].limit
    BY DEF RunOf
  <2>4. r \in ScreenerRun
    BY <1>0, <2>2 DEF RunOf, ScreenerRun
  <2> QED
    BY <2>1, <2>3, <2>4
<1>4. sealed' = sealed \cup {r} /\ UNCHANGED <<file, universes, lock, reports, result>>
  BY DEF Screen
<1>5. Grows
  BY <1>4 DEF Grows
<1>6. RecordsType' /\ FilesInv'
  BY <1>3, <1>4 DEF DailyInv, RecordsType, FilesInv
<1>7. PICK o \in {"success", "success_replay"} :
        worker' = [worker EXCEPT ![w].at = "reporting", ![w].run = r, ![w].outcome = o]
  BY DEF Screen
<1> HIDE DEF r
<1>8. worker' = [worker EXCEPT ![w] = worker'[w]] /\ worker'[w] \in Work
  BY <1>0, <1>3, <1>7 DEF DailyInv, WorkType, Work, Stages, Outcomes
<1>9. /\ worker'[w].day = worker[w].day /\ worker'[w].limit = worker[w].limit
      /\ worker'[w].snapshot = u /\ worker'[w].run = r /\ worker'[w].at = "reporting"
  BY <1>0, <1>7 DEF DailyInv, WorkType, Work
<1>10. PlaceInv(w)'
  BY <1>0, <1>3, <1>4, <1>9 DEF PlaceInv, At, DayOf, Filed, Persisted, Reporting
<1>11. Inside(w)' /\ DayOf(w)' = DayOf(w)
  BY <1>9 DEF Inside, DayOf
<1>12. FiledOnEvidence' /\ \A f \in reports' : f.run \in sealed'
  BY <1>4 DEF DailyInv, DailyHolds, FiledOnEvidence, ReportsHold
<1>13. SealedOnEvidence'
  <2> SUFFICES ASSUME NEW run \in sealed'
               PROVE  /\ file'[run.day] = run.snapshot /\ run.snapshot \in universes'
                      /\ DOMAIN run.prices = Eligible(run.snapshot)
                      /\ \A s \in DOMAIN run.prices :
                           /\ Scannable(EvidenceOf(run.snapshot)[s])
                           /\ run.prices[s] \in Issue
    BY DEF SealedOnEvidence, Eligible, EvidenceOf
  <2>1. CASE run \in sealed
    BY <2>1, <1>5, SealedKept DEF DailyInv, DailyHolds
  <2>2. CASE run = r
    BY <2>2, <1>0, <1>3, <1>4, EligibleIsScannable
  <2> QED
    BY <2>1, <2>2, <1>4
<1> QED
  BY <1>0, <1>1, <1>4, <1>5, <1>6, <1>8, <1>10, <1>11, <1>12, <1>13, InsideStep

(* A report file takes no other's place.                                   *)
LEMMA WriteStep ==
  ASSUME DailyInv, NEW w \in Processes, NEW format \in Formats, NEW next \in Stages \cup {"written"},
         <<format, next>> \in {<<"json", "markdown">>, <<"markdown", "written">>},
         WriteFile(w, format, next)
  PROVE  /\ DailyInv' /\ Grows
         /\ \A f \in reports' \ reports : lock[f.run.day] # NoProcess
<1> DEFINE r == worker[w].run
           new == ReportFile(r, format)
<1>0. /\ worker[w] \in Work /\ worker[w].at = format /\ Inside(w) /\ PlaceInv(w)
      /\ DayOf(w) \in Targets /\ r \in sealed /\ r.day = DayOf(w) /\ r \in ScreenerRun
  BY DEF DailyInv, WorkType, WriteFile, At, Inside, PlaceInv, Reporting, RecordsType
<1>1. TablesType'
  BY DEF DailyInv, TablesType, WriteFile
<1>2. new = [path |-> r.day, format |-> format, run |-> r]
  BY DEF ReportFile, PathOf
<1>3. \A f \in reports : f.path = r.day /\ f.format = format => f = new
  BY <1>2 DEF WriteFile, Free, Occupied, PathOf, DailyInv, FilesInv
<1>4. reports' = reports \cup {new} /\ UNCHANGED <<file, universes, lock, sealed, result>>
  BY <1>3 DEF WriteFile, PathOf
<1>5. Grows
  BY <1>4 DEF Grows
<1>6. RecordsType' /\ FilesInv'
  <2>1. RecordsType'
    BY <1>0, <1>2, <1>4 DEF DailyInv, RecordsType
  <2>2. FilesInv'
    BY <1>2, <1>3, <1>4 DEF DailyInv, FilesInv
  <2> QED
    BY <2>1, <2>2
<1>7. /\ worker' = [worker EXCEPT ![w] = worker'[w]] /\ worker'[w] \in Work
      /\ Onward(w, next)
  BY GotoIsOnward DEF DailyInv, WriteFile
<1>8. PlaceInv(w)'
  <2>1. ReportFile(worker'[w].run, format) \in reports'
    BY <1>4, <1>7 DEF Onward
  <2>2. format = "markdown" => ReportFile(worker'[w].run, "json") \in reports'
    BY <1>0, <1>4, <1>7 DEF Onward, PlaceInv
  <2> QED
    BY <1>0, <1>4, <1>7, <2>1, <2>2
       DEF PlaceInv, At, DayOf, Filed, Persisted, Reporting, Onward, ReportFile, PathOf
<1>9. Inside(w)' /\ DayOf(w)' = DayOf(w)
  BY <1>7 DEF Inside, DayOf, Onward
<1>10. FiledOnEvidence' /\ SealedOnEvidence'
  BY <1>4 DEF DailyInv, DailyHolds, FiledOnEvidence, SealedOnEvidence
<1>11. \A f \in reports' : f.run \in sealed'
  BY <1>0, <1>2, <1>4 DEF DailyInv, DailyHolds, ReportsHold
<1>12. \A f \in reports' \ reports : lock[f.run.day] # NoProcess
  <2>1. lock[DayOf(w)] = w
    BY <1>0 DEF DailyInv, DailyHolds, LockIsHeld
  <2> QED
    BY <1>0, <1>2, <1>4, <2>1
<1>13. DailyInv'
  BY <1>0, <1>1, <1>4, <1>5, <1>6, <1>7, <1>8, <1>9, <1>10, <1>11, InsideStep
<1> QED
  BY <1>5, <1>12, <1>13

----------------------------------------------------------------------------

(* A process enters or leaves, and answers.                                *)
LEMMA DoorStep ==
  ASSUME DailyInv, NEW w \in Processes,
         UNCHANGED <<exchange, file, universes, prun, batch, price, sealed, reports>>,
         worker' = [worker EXCEPT ![w] = worker'[w]], worker'[w] \in Work, PlaceInv(w)',
         result' = [result EXCEPT ![w] = result'[w]], result'[w] \in Result,
         lock' \in [Targets -> Processes \cup {NoProcess}],
         \A d \in Targets, v \in Processes \ {w} : lock'[d] = v <=> lock[d] = v,
         \A d \in Targets : lock'[d] = w <=> Inside(w)' /\ DayOf(w)' = d,
         result'[w].outcome \in {"success", "success_replay"} =>
            /\ \A format \in Formats : ReportFile(result'[w].run, format) \in reports
            /\ result'[w].run.day = result'[w].day /\ result'[w].day \notin ClosedDays
  PROVE  DailyInv' /\ Grows
<1>1. Grows
  BY DEF Grows
<1>2. TablesType' /\ RecordsType' /\ FilesInv' /\ WorkType'
  BY DEF DailyInv, TablesType, RecordsType, FilesInv, WorkType
<1>3. \A v \in Processes : PlaceInv(v)'
  <2>1. ASSUME NEW v \in Processes, v # w
        PROVE  PlaceInv(v)'
    BY <2>1, <1>1, PlaceKept DEF DailyInv, WorkType
  <2> QED
    BY <2>1
<1>4. LockIsHeld'
  <2> SUFFICES ASSUME NEW v \in Processes, NEW d \in Targets
               PROVE  (lock'[d] = v <=> Inside(v)' /\ DayOf(v)' = d)
    BY DEF LockIsHeld
  <2>1. CASE v = w
    BY <2>1
  <2>2. CASE v # w
    BY <2>2 DEF DailyInv, DailyHolds, LockIsHeld, WorkType, Inside, DayOf
  <2> QED
    BY <2>1, <2>2
<1>5. ReportsHold'
  <2>1. ASSUME NEW v \in Processes
        PROVE  result'[v].outcome \in {"success", "success_replay"} =>
                  /\ \A format \in Formats : ReportFile(result'[v].run, format) \in reports'
                  /\ result'[v].run.day = result'[v].day /\ result'[v].day \notin ClosedDays
    <3>1. CASE v = w
      BY <3>1
    <3>2. CASE v # w
      <4>1. UNCHANGED result[v]
        BY <3>2 DEF DailyInv, RecordsType
      <4> QED
        BY <4>1, <1>1, AnswerKept DEF DailyInv, DailyHolds
    <3> QED
      BY <3>1, <3>2
  <2> QED
    BY <2>1 DEF ReportsHold, ReportFile, PathOf, DailyInv, DailyHolds
<1>6. FiledOnEvidence' /\ SealedOnEvidence'
  BY DEF DailyInv, DailyHolds, FiledOnEvidence, SealedOnEvidence
<1> QED
  BY <1>1, <1>2, <1>3, <1>4, <1>5, <1>6 DEF DailyInv, DailyHolds

LEMMA AnswerTyped ==
  ASSUME DailyInv, NEW w \in Processes, NEW outcome \in Outcomes, NEW d \in Targets,
         NEW run \in ScreenerRun \cup {NoRun}, Answer(w, outcome, d, run)
  PROVE  /\ result' = [result EXCEPT ![w] = result'[w]] /\ result'[w] \in Result
         /\ result'[w].outcome = outcome /\ result'[w].day = d /\ result'[w].run = run
BY DEF DailyInv, RecordsType, Result, Answer

LEMMA RefusalTyped ==
  ASSUME DailyInv, NEW w \in Processes, NEW d \in Targets,
         \/ Answer(w, "none", d, NoRun) \/ Answer(w, "skipped", d, NoRun)
         \/ Answer(w, "failed", d, NoRun) \/ Answer(w, "already_running", d, NoRun)
  PROVE  /\ result' = [result EXCEPT ![w] = result'[w]] /\ result'[w] \in Result
         /\ result'[w].outcome \notin {"success", "success_replay"}
<1>1. PICK outcome \in Outcomes \ {"success", "success_replay"} : Answer(w, outcome, d, NoRun)
  BY DEF Outcomes
<1>2. NoRun \in ScreenerRun \cup {NoRun}
  OBVIOUS
<1> QED
  BY <1>1, <1>2, AnswerTyped

LEMMA NoWorkIsWork == NoWork \in Work /\ NoWork.at = "off"
BY DEF NoWork, Work, Stages, Outcomes

LEMMA StartStep ==
  ASSUME DailyInv, NEW w \in Processes, NEW d \in Targets, NEW limit \in Limits,
         Start(w, d, limit)
  PROVE  DailyInv' /\ Grows
<1>0. /\ worker[w] \in Work /\ worker[w].at = "off" /\ ~ Inside(w)
      /\ UNCHANGED <<exchange, file, universes, prun, batch, price, sealed, reports, lock>>
  BY DEF DailyInv, WorkType, Start, At, Inside
<1>1. PICK latest \in Days \cup {0} :
        \/ /\ Decision(d, latest) = "non_market_day"
           /\ Answer(w, "skipped", d, NoRun) /\ UNCHANGED worker
        \/ /\ Decision(d, latest) = "unknown"
           /\ Answer(w, "failed", d, NoRun) /\ UNCHANGED worker
        \/ /\ Decision(d, latest) = "market_day"
           /\ worker' = [worker EXCEPT ![w] =
                 [NoWork EXCEPT !.at = "locking", !.day = d, !.limit = limit]]
           /\ Answer(w, "none", d, NoRun)
  BY DEF Start
<1>2. /\ result' = [result EXCEPT ![w] = result'[w]] /\ result'[w] \in Result
      /\ result'[w].outcome \notin {"success", "success_replay"}
  BY <1>1, RefusalTyped
<1>3. CASE UNCHANGED worker
  <2>1. worker' = [worker EXCEPT ![w] = worker'[w]] /\ worker'[w] \in Work
    BY <1>0, <1>3 DEF DailyInv, WorkType
  <2>2. PlaceInv(w)'
    BY <1>0, <1>3 DEF PlaceInv, At, DayOf, Filed, Persisted, Reporting
  <2>3. \A e \in Targets : lock'[e] = w <=> Inside(w)' /\ DayOf(w)' = e
    BY <1>0, <1>3 DEF DailyInv, DailyHolds, LockIsHeld, Inside, DayOf
  <2> QED
    BY <1>0, <1>2, <2>1, <2>2, <2>3, DoorStep DEF DailyInv, RecordsType
<1>4. CASE /\ Decision(d, latest) = "market_day"
           /\ worker' = [worker EXCEPT ![w] =
                 [NoWork EXCEPT !.at = "locking", !.day = d, !.limit = limit]]
  <2>1. /\ worker' = [worker EXCEPT ![w] = worker'[w]] /\ worker'[w] \in Work
        /\ worker'[w].at = "locking" /\ worker'[w].day = d /\ worker'[w].limit = limit
    BY <1>0, <1>4 DEF DailyInv, WorkType, Work, NoWork, Stages, Outcomes
  <2>2. d \notin ClosedDays
    BY <1>4 DEF Decision
  <2>3. PlaceInv(w)'
    BY <2>1, <2>2 DEF PlaceInv, At, DayOf, Filed, Persisted, Reporting
  <2>4. \A e \in Targets : lock'[e] = w <=> Inside(w)' /\ DayOf(w)' = e
    BY <1>0, <2>1 DEF DailyInv, DailyHolds, LockIsHeld, Inside
  <2> QED
    BY <1>0, <1>2, <2>1, <2>3, <2>4, DoorStep DEF DailyInv, RecordsType
<1> QED
  BY <1>1, <1>3, <1>4

LEMMA LockStep ==
  ASSUME DailyInv, NEW w \in Processes, Lock(w)
  PROVE  DailyInv' /\ Grows
<1> DEFINE d == DayOf(w)
<1>0. /\ worker[w] \in Work /\ worker[w].at = "locking" /\ ~ Inside(w) /\ PlaceInv(w)
      /\ d \in Targets \ ClosedDays /\ worker[w].limit \in Limits
      /\ UNCHANGED <<exchange, file, universes, prun, batch, price, sealed, reports>>
  BY DEF DailyInv, WorkType, Lock, At, Inside, PlaceInv
<1>1. /\ lock \in [Targets -> Processes \cup {NoProcess}] /\ result \in [Processes -> Result]
      /\ \A e \in Targets : lock[e] # w
      /\ result[w].outcome \in {"success", "success_replay"} =>
            /\ \A format \in Formats : ReportFile(result[w].run, format) \in reports
            /\ result[w].run.day = result[w].day /\ result[w].day \notin ClosedDays
  BY <1>0 DEF DailyInv, DailyHolds, LockIsHeld, RecordsType, ReportsHold
<1>2. CASE /\ lock[d] = NoProcess /\ lock' = [lock EXCEPT ![d] = w]
           /\ Goto(w, "opening") /\ UNCHANGED result
  <2>1. /\ worker' = [worker EXCEPT ![w] = worker'[w]] /\ worker'[w] \in Work
        /\ Onward(w, "opening")
    BY <1>2, GotoIsOnward DEF DailyInv, Stages
  <2>2. PlaceInv(w)'
    BY <1>0, <2>1 DEF PlaceInv, At, DayOf, Filed, Persisted, Reporting, Onward
  <2>3. /\ lock' \in [Targets -> Processes \cup {NoProcess}]
        /\ \A e \in Targets, v \in Processes \ {w} : lock'[e] = v <=> lock[e] = v
    BY <1>0, <1>1, <1>2
  <2>4. \A e \in Targets : lock'[e] = w <=> Inside(w)' /\ DayOf(w)' = e
    BY <1>0, <1>1, <1>2, <2>1 DEF Onward, Inside, DayOf
  <2> QED
    BY <1>0, <1>1, <1>2, <2>1, <2>2, <2>3, <2>4, DoorStep
<1>3. CASE /\ lock[d] # NoProcess /\ Answer(w, "already_running", d, NoRun)
           /\ worker' = [worker EXCEPT ![w] = NoWork] /\ UNCHANGED lock
  <2>1. /\ result' = [result EXCEPT ![w] = result'[w]] /\ result'[w] \in Result
        /\ result'[w].outcome \notin {"success", "success_replay"}
    BY <1>0, <1>3, RefusalTyped
  <2>2. /\ worker' = [worker EXCEPT ![w] = worker'[w]] /\ worker'[w] \in Work
        /\ worker'[w].at = "off"
    BY <1>3, NoWorkIsWork DEF DailyInv, WorkType
  <2>3. PlaceInv(w)'
    BY <2>2 DEF PlaceInv, At, Filed, Persisted, Reporting
  <2>4. \A e \in Targets : lock'[e] = w <=> Inside(w)' /\ DayOf(w)' = e
    BY <1>1, <1>3, <2>2 DEF Inside
  <2> QED
    BY <1>0, <1>1, <1>3, <2>1, <2>2, <2>3, <2>4, DoorStep
<1> QED
  BY <1>2, <1>3 DEF Lock

LEMMA ReleaseStep ==
  ASSUME DailyInv, NEW w \in Processes, Release(w)
  PROVE  DailyInv' /\ Grows
<1> DEFINE d == DayOf(w)
           r == worker[w].run
<1>0. /\ worker[w] \in Work /\ worker[w].at \in {"releasing", "written"} /\ Inside(w)
      /\ PlaceInv(w) /\ d \in Targets \ ClosedDays
      /\ UNCHANGED <<exchange, file, universes, prun, batch, price, sealed, reports>>
      /\ lock' = [lock EXCEPT ![d] = NoProcess]
      /\ lock \in [Targets -> Processes \cup {NoProcess}] /\ lock[d] = w
      /\ \A e \in Targets : lock[e] = w => e = d
  BY DEF DailyInv, WorkType, Release, At, Inside, PlaceInv, RecordsType, DailyHolds, LockIsHeld
<1>1. \/ At(w, "written") /\ Answer(w, worker[w].outcome, d, r)
      \/ Answer(w, "failed", d, NoRun)
  BY DEF Release
<1>2. /\ result' = [result EXCEPT ![w] = result'[w]] /\ result'[w] \in Result
      /\ result'[w].outcome \in {"success", "success_replay"} =>
            At(w, "written") /\ result'[w].run = r /\ result'[w].day = d
  <2>1. /\ worker[w].outcome \in Outcomes /\ r \in ScreenerRun \cup {NoRun}
    BY <1>0 DEF Work
  <2>2. CASE At(w, "written") /\ Answer(w, worker[w].outcome, d, r)
    BY <1>0, <2>1, <2>2, AnswerTyped
  <2>3. CASE Answer(w, "failed", d, NoRun)
    BY <1>0, <2>3, RefusalTyped
  <2> QED
    BY <1>1, <2>2, <2>3
<1>3. result'[w].outcome \in {"success", "success_replay"} =>
        /\ \A format \in Formats : ReportFile(result'[w].run, format) \in reports
        /\ result'[w].run.day = result'[w].day /\ result'[w].day \notin ClosedDays
  BY <1>0, <1>2 DEF PlaceInv, At, Reporting, Formats
<1>4. /\ worker' = [worker EXCEPT ![w] = worker'[w]] /\ worker'[w] \in Work
      /\ worker'[w].at = "off"
  BY NoWorkIsWork DEF Release, DailyInv, WorkType
<1>5. PlaceInv(w)'
  BY <1>4 DEF PlaceInv, At, Filed, Persisted, Reporting
<1>6. /\ lock' \in [Targets -> Processes \cup {NoProcess}]
      /\ \A e \in Targets, v \in Processes \ {w} : lock'[e] = v <=> lock[e] = v
      /\ \A e \in Targets : lock'[e] # w
  BY <1>0
<1>7. ~ Inside(w)'
  BY <1>4 DEF Inside
<1> QED
  BY <1>0, <1>2, <1>3, <1>4, <1>5, <1>6, <1>7, DoorStep

LEMMA DieStep ==
  ASSUME DailyInv, NEW w \in Processes, Die(w)
  PROVE  DailyInv' /\ Grows
<1>0. /\ UNCHANGED <<exchange, file, universes, prun, batch, price, sealed, reports>>
      /\ lock' = [d \in Targets |-> IF lock[d] = w THEN NoProcess ELSE lock[d]]
      /\ lock \in [Targets -> Processes \cup {NoProcess}]
  BY DEF DailyInv, Die, RecordsType
<1>1. /\ result' = [result EXCEPT ![w] = result'[w]] /\ result'[w] \in Result
      /\ result'[w].outcome \notin {"success", "success_replay"}
  BY DEF Die, DailyInv, RecordsType, NoResult, Result, Outcomes
<1>2. /\ worker' = [worker EXCEPT ![w] = worker'[w]] /\ worker'[w] \in Work
      /\ worker'[w].at = "off"
  BY NoWorkIsWork DEF Die, DailyInv, WorkType
<1>3. PlaceInv(w)'
  BY <1>2 DEF PlaceInv, At, Filed, Persisted, Reporting
<1>4. /\ lock' \in [Targets -> Processes \cup {NoProcess}]
      /\ \A e \in Targets, v \in Processes \ {w} : lock'[e] = v <=> lock[e] = v
      /\ \A e \in Targets : lock'[e] # w
  BY <1>0
<1>5. ~ Inside(w)'
  BY <1>2 DEF Inside
<1> QED
  BY <1>0, <1>1, <1>2, <1>3, <1>4, <1>5, DoorStep

----------------------------------------------------------------------------

(* What is published, and what the daily batch and the histories write.    *)
LEMMA PublishTyped ==
  ASSUME DailyInv, Publish
  PROVE  TablesType'
<1>1. /\ exchange \in [trading : Days, valuation : Days, issue : Issue]
      /\ UNCHANGED <<prun, price, batch>>
  BY DEF DailyInv, TablesType, Publish
<1>2. exchange' \in [trading : Days, valuation : Days, issue : Issue]
  BY <1>1 DEF Publish, PublishTrading, PublishValuation, Amend
<1> QED
  BY <1>1, <1>2 DEF DailyInv, TablesType

LEMMA ElsewhereTyped ==
  ASSUME DailyInv, Elsewhere
  PROVE  TablesType'
<1>1. PICK d \in Targets \ ClosedDays, s \in Others :
        \/ \E provider \in {"twse", "esun"} : BatchStart(d, s, provider)
        \/ BatchStore(d, s) \/ BatchLose(d, s) \/ BatchDie(d, s) \/ History(d, s)
  BY DEF Elsewhere
<1>2. /\ d \in Targets /\ s \in Symbols
      /\ prun \in [Targets -> [Symbols -> Run]] /\ price \in [Targets -> [Symbols -> Price]]
      /\ batch \subseteq Targets \X Others
      /\ exchange.issue \in Issue /\ UNCHANGED exchange
  BY DEF DailyInv, TablesType, Elsewhere
<1>3. batch' \subseteq Targets \X Others
  BY <1>1, <1>2 DEF BatchStart, BatchStore, BatchLose, BatchDie, History
<1>4. prun' \in [Targets -> [Symbols -> Run]]
  <2>1. ASSUME NEW provider \in {"twse", "esun"}, BatchStart(d, s, provider)
        PROVE  prun' \in [Targets -> [Symbols -> Run]]
    <3>1. [status |-> "running", provider |-> provider] \in Run
      BY <2>1 DEF Run
    <3>2. prun' = [prun EXCEPT ![d][s] = [status |-> "running", provider |-> provider]]
      BY <2>1 DEF BatchStart
    <3> QED
      BY <1>2, <3>1, <3>2, CellReplaced
  <2>2. CASE BatchStore(d, s)
    BY <2>2, <1>2, RunReplaced DEF BatchStore
  <2>3. CASE BatchLose(d, s)
    BY <2>3, <1>2, RunReplaced DEF BatchLose
  <2>4. CASE BatchDie(d, s) \/ History(d, s)
    BY <2>4, <1>2 DEF BatchDie, History
  <2> QED
    BY <1>1, <2>1, <2>2, <2>3, <2>4
<1>5. price' \in [Targets -> [Symbols -> Price]]
  <2>1. CASE BatchStore(d, s)
    <3>1. PICK i \in Issue \cup {0} : price' = [price EXCEPT ![d][s].daily = i]
      BY <2>1, <1>2 DEF BatchStore
    <3> QED
      BY <1>2, <3>1, PriceReplaced
  <2>2. CASE History(d, s)
    <3>1. [daily |-> exchange.issue, history |-> exchange.issue] \in Price
      BY <1>2 DEF Price
    <3>2. price' = [price EXCEPT ![d][s] = [daily |-> exchange.issue,
                                            history |-> exchange.issue]]
      BY <2>2 DEF History
    <3> QED
      BY <1>2, <3>1, <3>2, CellReplaced
  <2>3. CASE UNCHANGED price
    BY <2>3, <1>2
  <2> QED
    BY <1>1, <2>1, <2>2, <2>3 DEF BatchStart, BatchLose, BatchDie
<1> QED
  BY <1>2, <1>3, <1>4, <1>5 DEF DailyInv, TablesType

(* Files are written under the lock of their date.                         *)
NewFilesLocked == \A f \in reports' \ reports : lock[f.run.day] # NoProcess

LEMMA DailyStep ==
  ASSUME DailyInv, [Next]_vars
  PROVE  DailyInv' /\ Grows /\ NewFilesLocked
<1>1. CASE UNCHANGED vars
  <2>1. TablesType' /\ UNCHANGED <<file, universes, worker, runnerVars>>
    BY <1>1 DEF vars, preparationVars, DailyInv, TablesType
  <2> QED
    BY <2>1, ElsewhereStep DEF NewFilesLocked, runnerVars
<1>2. ASSUME NEW w \in Processes, Prepare(w), UNCHANGED runnerVars
      PROVE  DailyInv' /\ Grows /\ NewFilesLocked
  <2>1. DailyInv' /\ Grows
    BY <1>2, OpenStep, AcquireTradingStep, AcquireStep, FileStep, PersistStep, StockStep,
       StoreSymbolStep, LeaveStep, CheckStep DEF Prepare
  <2> QED
    BY <1>2, <2>1 DEF NewFilesLocked, runnerVars
<1>3. ASSUME NEW w \in Processes,
             \/ \E d \in Targets, limit \in Limits : Start(w, d, limit)
             \/ Lock(w) \/ Screen(w) \/ Report(w) \/ Release(w) \/ Die(w)
      PROVE  DailyInv' /\ Grows /\ NewFilesLocked
  <2>1. DailyInv' /\ Grows
    BY <1>3, StartStep, LockStep, ScreenStep, ReportStep, ReleaseStep, DieStep
  <2>2. UNCHANGED reports
    BY <1>3 DEF Start, Lock, Screen, Report, Release, Die
  <2> QED
    BY <2>1, <2>2 DEF NewFilesLocked
<1>4. ASSUME NEW w \in Processes,
             WriteFile(w, "json", "markdown") \/ WriteFile(w, "markdown", "written")
      PROVE  DailyInv' /\ Grows /\ NewFilesLocked
  <2>1. /\ "json" \in Formats /\ "markdown" \in Formats
        /\ "markdown" \in Stages \cup {"written"} /\ "written" \in Stages \cup {"written"}
    BY DEF Formats, Stages
  <2> QED
    BY <1>4, <2>1, WriteStep DEF NewFilesLocked
<1>5. CASE Publish /\ UNCHANGED runnerVars
  BY <1>5, PublishTyped, ElsewhereStep DEF Publish, runnerVars, NewFilesLocked
<1>6. CASE Elsewhere /\ UNCHANGED runnerVars
  BY <1>6, ElsewhereTyped, ElsewhereStep DEF Elsewhere, runnerVars, NewFilesLocked
<1> QED
  BY <1>1, <1>2, <1>3, <1>4, <1>5, <1>6 DEF Next

----------------------------------------------------------------------------

LEMMA DailyInvariant == Spec => []DailyInv
<1>1. DailyInv /\ [Next]_vars => DailyInv'
  BY DailyStep
<1> QED
  BY DailyInit, <1>1, PTL DEF Spec

(* Rows, files, locks and results keep their shape.                        *)
THEOREM DailyTypeCorrect == Spec => []DailyTypeOK
<1>1. DailyInv => DailyTypeOK
  <2> SUFFICES ASSUME DailyInv
               PROVE  DailyTypeOK
    OBVIOUS
  <2>1. ASSUME NEW w \in Processes
        PROVE  /\ worker[w].at \in Stages \cup {"written"}
               /\ worker[w].at = "fetching" => worker[w].symbol \in Symbols
               /\ result[w].outcome \in Outcomes
    BY <2>1 DEF DailyInv, WorkType, Work, RecordsType, Result, PlaceInv, At
  <2> QED
    BY <2>1 DEF DailyInv, TablesType, RecordsType, DailyTypeOK
<1> QED
  BY <1>1, DailyInvariant, PTL

(* However many processes run a date, die in it and start again, while the *)
(* exchange amends its tables and others write its symbols: the process    *)
(* inside holds the lock, the universe on file is that of the date, every  *)
(* sealed run stands on it and on one price per security, and a call that  *)
(* answered success left both files of its run.                            *)
THEOREM DailyAgrees == Spec => []DailyHolds
<1>1. DailyInv => DailyHolds
  BY DEF DailyInv
<1> QED
  BY <1>1, DailyInvariant, PTL

(* What a date has put on record stands, and only the process that holds   *)
(* the lock of the date adds a report file.                                *)
THEOREM RecordsStand == Spec => DailyStands
<1>1. DailyInv /\ [Next]_vars =>
        [/\ \A d \in Targets : file[d] # NoSnapshot => file'[d] = file[d]
         /\ universes \subseteq universes' /\ sealed \subseteq sealed'
         /\ reports \subseteq reports'
         /\ \A f \in reports' \ reports : lock[f.run.day] # NoProcess]_vars
  BY DailyStep DEF Grows, NewFilesLocked
<1> QED
  BY <1>1, DailyInvariant, PTL DEF Spec, DailyStands
============================================================================
