----------------------- MODULE CandidateHistory_proofs ------------------------
(******************************************************************************)
(* Proofs about the history of one candidate: its rows and calls keep their   *)
(* types, a stored history is whole, a short one that is let through is all   *)
(* there is, a validation adds up, and what succeeded stands.                 *)
(*                                                                            *)
(* The download of a month and its storage are apart, and so are the steps of *)
(* a validation; the invariant says what a worker between two of them may     *)
(* rely on.  A batch is a batch of the worker's month, wherever the row has   *)
(* gone meanwhile; a row without evidence is untouched or a failed legacy     *)
(* row, which no call restarts; a call that compares has seen both histories  *)
(* succeed, and they do not change again.                                     *)
(******************************************************************************)
EXTENDS CandidateHistory, FiniteSetTheorems, TLAPS

Untouched(c, row) ==
  row.evidence = {} =>
    /\ row.rows = {}
    /\ \/ row.months = 0 /\ row.cursor = MonthOf(c.target)
       \/ row.months > 0 /\ row.status = "failed"

RowInv(c, row) ==
  /\ row \in HistoryRows /\ IsFiniteSet(row.rows)
  /\ Contiguous(c, row) /\ RowsOfContract(c, row) /\ CompleteWhenSuccessful(row)
  /\ Untouched(c, row)

JobInv(j) ==
  /\ j \in Jobs
  /\ j.at # "idle" => j.of \in Contracts
  /\ j.at = "checkpoint" => j.batch \in Batches(j.of, j.cursor)
  /\ j.at = "fail" => j.error \in {"no_usable_data", "other", "state"}
  /\ j.of.source = "esun" => j.resume = "none"

CanonicalInv ==
  /\ canonical \subseteq DayPrices
  /\ \A x \in canonical : \E c \in Contracts : c.source = "twse" /\ x \in history[c].rows
  /\ \A x, y \in canonical : x.day = y.day => x = y

SyncInv ==
  /\ history \in [Contracts -> HistoryRows]
  /\ \A c \in Contracts : RowInv(c, history[c])
  /\ job \in [Workers -> Jobs]
  /\ \A w \in Workers : JobInv(job[w])
  /\ CanonicalInv

CallRecords ==
  [at : {"idle", "esun", "esun_syncing", "twse", "twse_syncing", "open", "start", "compare"},
   date : Targets \cup {0}, resume : {"none", "this", "other"}, esun : BOOLEAN]

Both(d) == history[Twse(d)].status = "success" /\ history[Esun(d)].status = "success"

CallInv(k) ==
  /\ k \in CallRecords
  /\ k.at # "idle" => k.date \in Targets
  /\ k.at \in {"start", "compare"} => Both(k.date)

ValidationRecords ==
  [status : {"none", "pending", "running", "success", "failed"},
   outcome : {"none", "match", "discrepancy"}, starts : Nat, notes : Nat,
   twseOnly : SUBSET Nat, esunOnly : SUBSET Nat, differing : SUBSET Nat, matched : Nat]

ValidationInv(d) ==
  /\ validation[d] \in ValidationRecords
  /\ validation[d].status # "success" => validation[d].outcome = "none" /\ validation[d].notes = 0
  /\ validation[d].status = "success" =>
       validation[d].outcome \in {"match", "discrepancy"} /\ Both(d)
  /\ ValidationAddsUp(d)

CandidateInv ==
  /\ SyncInv
  /\ call \in [Workers -> CallRecords] /\ memory \in [Workers -> SUBSET Targets]
  /\ \A w \in Workers : CallInv(call[w])
  /\ validation \in [Targets -> ValidationRecords]
  /\ \A d \in Targets : ValidationInv(d)

(******************************************************************************)
(* Months and batches.                                                        *)
(******************************************************************************)
\* A day has a month.
LEMMA MonthType == ASSUME NEW day \in Int PROVE MonthOf(day) \in Int
BY HistoryAssumption DEF MonthOf

\* Contracts and their targets.
LEMMA ContractType ==
  ASSUME NEW c \in Contracts
  PROVE  c.source \in Sources /\ c.target \in Targets /\ c.target \in Nat /\ MonthOf(c.target) \in Int
<1>1. c.source \in Sources /\ c.target \in Targets
  BY DEF Contracts
<1>2. c.target \in Nat
  BY <1>1, HistoryAssumption
<1> QED
  BY <1>1, <1>2, MonthType

\* A batch is finite and not empty, and each of its rows is a day of the month
\* between the listing and the target, at a price of the source.
LEMMA BatchFacts ==
  ASSUME NEW c \in Contracts, NEW month \in Int, NEW batch \in Batches(c, month)
  PROVE  /\ IsFiniteSet(batch) /\ batch # {} /\ batch \subseteq DayPrices
         /\ \A x \in batch : /\ x.day \in Listed .. c.target /\ MonthOf(x.day) = month
                             /\ x.price \in PricesOf(c.source)
         /\ \A x, y \in batch : x.day = y.day => x = y
<1>1. PICK days \in (SUBSET TradedIn(month, c.target)) \ {{}}, p \in PricesOf(c.source) :
        batch = {[day |-> d, price |-> p] : d \in days}
  BY DEF Batches
<1>2. days \in SUBSET (Listed .. c.target) /\ days # {} /\ \A d \in days : MonthOf(d) = month
  BY <1>1 DEF TradedIn
<1>3. Listed \in Nat /\ c.target \in Nat
  BY ContractType, HistoryAssumption
<1>4. IsFiniteSet(days)
  <2>1. IsFiniteSet(Listed .. c.target)
    BY <1>3, FS_Interval
  <2>2. days \in SUBSET (Listed .. c.target)
    BY <1>2
  <2> QED
    BY <2>1, <2>2, FS_Subset
<1>5. IsFiniteSet(batch)
  <2> DEFINE f == [d \in days |-> [day |-> d, price |-> p]]
  <2>1. f \in Surjection(days, batch)
    BY <1>1 DEF Surjection
  <2> QED
    BY <1>4, <2>1, FS_Surjection
<1>6. batch # {}
  BY <1>1, <1>2
<1>7. PricesOf(c.source) \subseteq TwsePrices \cup EsunPrices
  BY DEF PricesOf
<1>8. \A d \in days : d \in Nat
  BY <1>2, <1>3
<1>9. \A x \in batch : /\ x.day \in days /\ x.price = p /\ x \in DayPrices
  BY <1>1, <1>7, <1>8 DEF DayPrices
<1>10. \A x, y \in batch : x.day = y.day => x = y
  BY <1>1
<1> QED
  BY <1>1, <1>2, <1>5, <1>6, <1>9, <1>10

\* The stored rows are days between the listing and the target, each at one price of
\* the source.
LEMMA RowFacts ==
  ASSUME NEW c \in Contracts, NEW row, RowsOfContract(c, row), row.evidence \subseteq Int
  PROVE  /\ \A x \in row.rows : /\ x.day \in Listed .. c.target
                                /\ MonthOf(x.day) \in row.evidence
                                /\ x.price \in PricesOf(c.source)
         /\ \A x, y \in row.rows : x.day = y.day => x = y
<1> DEFINE slice(month) == {x \in row.rows : MonthOf(x.day) = month}
<1>1. ASSUME NEW x \in row.rows
      PROVE  /\ MonthOf(x.day) \in row.evidence /\ x \in slice(MonthOf(x.day))
             /\ slice(MonthOf(x.day)) \in Batches(c, MonthOf(x.day))
  <2>1. MonthOf(x.day) \in row.evidence /\ x \in slice(MonthOf(x.day))
    BY DEF RowsOfContract
  <2>2. slice(MonthOf(x.day)) \in Batches(c, MonthOf(x.day)) \cup {{}}
    BY <2>1 DEF RowsOfContract
  <2>3. slice(MonthOf(x.day)) # {}
    BY <2>1
  <2> HIDE DEF slice
  <2> QED
    BY <2>1, <2>2, <2>3
<1>2. ASSUME NEW x \in row.rows
      PROVE  /\ x.day \in Listed .. c.target /\ x.price \in PricesOf(c.source)
             /\ \A y \in row.rows : x.day = y.day => x = y
  <2> DEFINE month == MonthOf(x.day)
  <2>1. month \in Int /\ x \in slice(month) /\ slice(month) \in Batches(c, month)
    BY <1>1
  <2>2. \A y \in row.rows : x.day = y.day => y \in slice(month)
    OBVIOUS
  <2> HIDE DEF slice, month
  <2>3. /\ \A y \in slice(month) : y.day \in Listed .. c.target /\ y.price \in PricesOf(c.source)
        /\ \A y, z \in slice(month) : y.day = z.day => y = z
    BY <2>1, BatchFacts
  <2> QED
    BY <2>1, <2>2, <2>3
<1> QED
  BY <1>1, <1>2

(******************************************************************************)
(* What each write does to a row.                                             *)
(******************************************************************************)
\* A call that finds no row inserts an untouched one.
LEMMA PendingRow ==
  ASSUME NEW c \in Contracts, NEW row, RowInv(c, row)
  PROVE  RowInv(c, [row EXCEPT !.status = IF @ = "none" THEN "pending" ELSE @])
BY DEF RowInv, HistoryRows, Contiguous, RowsOfContract, CompleteWhenSuccessful, Untouched

\* A run that starts keeps its rows, and one without evidence has passed no month.
LEMMA StartedRow ==
  ASSUME NEW c \in Contracts, NEW row, RowInv(c, row), row.status # "success", ~ Unproved(row)
  PROVE  RowInv(c, Started(row)) /\ Started(row).rows = row.rows
<1> DEFINE next == Started(row)
<1>1. row \in HistoryRows /\ Cardinality(row.rows) \in Nat
  BY FS_CardinalityType DEF RowInv
<1>2. /\ next \in HistoryRows /\ next.status = "running" /\ next.rows = row.rows
      /\ next.evidence = row.evidence /\ next.cursor = row.cursor
      /\ next.months = row.months /\ next.notes = row.notes
  <2>1. row.starts + 1 \in Nat
    BY <1>1 DEF HistoryRows
  <2>2. next = [row EXCEPT !.status = "running", !.error = "none", !.starts = row.starts + 1,
                           !.count = Cardinality(row.rows)]
    BY DEF Started
  <2> QED
    BY <1>1, <2>1, <2>2 DEF HistoryRows
<1>3. row.evidence = {} => row.months = 0
  BY <1>1, FS_EmptySet DEF RowInv, Untouched, Unproved, HistoryRows
<1> QED
  BY <1>2, <1>3 DEF RowInv, Contiguous, RowsOfContract, CompleteWhenSuccessful, Untouched

\* A stored month is the next one back, so the months passed stay without a gap and
\* no day is stored twice.
LEMMA AdvancedRow ==
  ASSUME NEW c \in Contracts, NEW row, RowInv(c, row), row.status = "running",
         NEW batch \in Batches(c, row.cursor)
  PROVE  RowInv(c, Advanced(row, batch, row.cursor))
<1> DEFINE next == Advanced(row, batch, row.cursor)
           last == MonthOf(c.target)
<1>1. row \in HistoryRows /\ row.cursor \in Int /\ row.months \in Nat /\ last \in Int
  BY ContractType DEF RowInv, HistoryRows
<1>2. /\ IsFiniteSet(batch) /\ batch # {} /\ batch \subseteq DayPrices
      /\ \A x \in batch : /\ x.day \in Listed .. c.target /\ MonthOf(x.day) = row.cursor
                          /\ x.price \in PricesOf(c.source)
      /\ \A x, y \in batch : x.day = y.day => x = y
  BY <1>1, BatchFacts
<1>3. IsFiniteSet(row.rows \cup batch) /\ Cardinality(row.rows \cup batch) \in Nat
  BY <1>2, FS_Union, FS_CardinalityType DEF RowInv
<1>4. /\ next.status = "running" /\ next.rows = row.rows \cup batch
      /\ next.evidence = row.evidence \cup {row.cursor} /\ next.cursor = row.cursor - 1
      /\ next.months = row.months + 1 /\ next.notes = row.notes
      /\ next \in HistoryRows
  <2>1. /\ row.rows \cup batch \in SUBSET DayPrices /\ row.evidence \cup {row.cursor} \in SUBSET Int
        /\ row.cursor - 1 \in Int /\ row.months + 1 \in Nat
    BY <1>1, <1>2 DEF HistoryRows
  <2>2. next = [row EXCEPT !.rows = row.rows \cup batch,
                           !.evidence = row.evidence \cup {row.cursor}, !.cursor = row.cursor - 1,
                           !.months = row.months + 1,
                           !.count = Cardinality(row.rows \cup batch)]
    BY DEF Advanced
  <2> HIDE DEF next
  <2> QED
    BY <1>1, <1>3, <2>1, <2>2 DEF HistoryRows
<1>5. /\ row.cursor \notin row.evidence
      /\ row.evidence \cup {row.cursor} = row.cursor .. last
      /\ row.cursor <= last
      /\ row.months = IF row.evidence = {} THEN 0 ELSE last - row.cursor
  <2>1. CASE row.evidence = {}
    <3>1. row.cursor = last /\ row.months = 0
      BY <2>1 DEF RowInv, Untouched
    <3> QED
      BY <1>1, <2>1, <3>1
  <2>2. CASE row.evidence # {}
    <3>1. row.evidence = row.cursor + 1 .. last /\ row.months = Cardinality(row.evidence)
      BY <2>2 DEF RowInv, Contiguous
    <3>2. row.cursor + 1 <= last
      BY <1>1, <2>2, <3>1
    <3>3. Cardinality(row.evidence) = last - row.cursor
      <4>1. row.cursor + 1 \in Int
        BY <1>1
      <4>2. Cardinality(row.cursor + 1 .. last) =
              IF row.cursor + 1 > last THEN 0 ELSE last - (row.cursor + 1) + 1
        BY <1>1, <4>1, FS_Interval
      <4> QED
        BY <1>1, <3>1, <3>2, <4>2
    <3> QED
      BY <1>1, <2>2, <3>1, <3>2, <3>3
  <2> QED
    BY <2>1, <2>2
<1>6. Contiguous(c, next)
  <2>1. Cardinality(row.cursor .. last) = last - row.cursor + 1
    BY <1>1, <1>5, FS_Interval
  <2>2. row.evidence = {} => last = row.cursor
    BY <1>1, <1>5 DEF RowInv, Untouched
  <2> QED
    <3>1. next.evidence = next.cursor + 1 .. last
      BY <1>1, <1>4, <1>5
    <3>2. next.months = last - row.cursor + 1
      BY <1>1, <1>4, <1>5, <2>2
    <3>3. next.months = Cardinality(next.evidence)
      BY <1>4, <1>5, <2>1, <3>2
    <3> QED
      BY <3>1, <3>3 DEF Contiguous
<1>7. RowsOfContract(c, next)
  <2> DEFINE slice(month) == {x \in next.rows : MonthOf(x.day) = month}
  <2>1. \A x \in row.rows : MonthOf(x.day) \in row.evidence
    BY DEF RowInv, RowsOfContract
  <2>2. slice(row.cursor) = batch
    BY <1>2, <1>4, <1>5, <2>1
  <2>3. ASSUME NEW month \in row.evidence
        PROVE  slice(month) \in Batches(c, month) \cup {{}}
    <3>1. month # row.cursor
      BY <1>5, <2>3
    <3>2. \A x \in batch : MonthOf(x.day) # month
      BY <1>2, <3>1
    <3>3. next.rows = row.rows \cup batch
      BY <1>4
    <3> HIDE DEF next
    <3>4. slice(month) = {x \in row.rows : MonthOf(x.day) = month}
      BY <3>2, <3>3
    <3>5. {x \in row.rows : MonthOf(x.day) = month} \in Batches(c, month) \cup {{}}
      BY <2>3 DEF RowInv, RowsOfContract
    <3> QED
      BY <3>4, <3>5
  <2>4. \A x \in next.rows : MonthOf(x.day) \in next.evidence
    BY <1>2, <1>4, <2>1
  <2>5. \A month \in next.evidence : slice(month) \in Batches(c, month) \cup {{}}
    <3>1. slice(row.cursor) \in Batches(c, row.cursor)
      BY <2>2
    <3>2. next.evidence = row.evidence \cup {row.cursor}
      BY <1>4
    <3> HIDE DEF next, slice
    <3> QED
      BY <2>3, <3>1, <3>2
  <2> HIDE DEF next
  <2> QED
    BY <2>4, <2>5 DEF RowsOfContract
<1> QED
  BY <1>3, <1>4, <1>6, <1>7 DEF RowInv, CompleteWhenSuccessful, Untouched

\* A run that completes has enough rows, and gets its only note.
LEMMA CompletedRow ==
  ASSUME NEW c \in Contracts, NEW row, RowInv(c, row), MayComplete(row)
  PROVE  RowInv(c, [row EXCEPT !.status = "success", !.notes = @ + 1, !.count = Needed])
<1>1. row \in HistoryRows /\ row.notes = 0 /\ Needed \in Nat /\ row.status = "running"
  BY HistoryAssumption DEF RowInv, MayComplete, CompleteWhenSuccessful
<1> DEFINE next == [row EXCEPT !.status = "success", !.notes = @ + 1, !.count = Needed]
<1>2. /\ next \in HistoryRows /\ next.status = "success" /\ next.notes = 1
      /\ next.rows = row.rows /\ next.evidence = row.evidence /\ next.cursor = row.cursor
      /\ next.months = row.months
  <2>1. next = [row EXCEPT !.status = "success", !.notes = 1, !.count = Needed]
    BY <1>1
  <2> HIDE DEF next
  <2> QED
    BY <1>1, <2>1 DEF HistoryRows
<1>3. CompleteWhenSuccessful(next)
  BY <1>2 DEF MayComplete, CompleteWhenSuccessful
<1>4. row.evidence = {} => row.rows = {} /\ row.months = 0 /\ row.cursor = MonthOf(c.target)
  BY <1>1 DEF RowInv, Untouched
<1> QED
  BY <1>2, <1>3, <1>4 DEF RowInv, Contiguous, RowsOfContract, Untouched

\* A run that fails keeps what it stored.
LEMMA FailedRow ==
  ASSUME NEW c \in Contracts, NEW row, RowInv(c, row), FailsRun(row),
         NEW why \in {"no_usable_data", "other", "state"}
  PROVE  RowInv(c, [row EXCEPT !.status = "failed", !.error = why])
BY DEF RowInv, HistoryRows, Contiguous, RowsOfContract, CompleteWhenSuccessful, Untouched, FailsRun

(******************************************************************************)
(* The steps of a download.                                                   *)
(******************************************************************************)
\* What a step may do to a row: nothing to a successful one, and take no row away.
Moves(c) ==
  /\ RowInv(c, history'[c]) /\ history[c].rows \subseteq history'[c].rows
  /\ history[c].status = "success" => history'[c] = history[c]

\* One row is written and the job of one worker; the rest stays.
LEMMA RowWritten ==
  ASSUME SyncInv, NEW o \in Contracts, NEW next, history' = [history EXCEPT ![o] = next],
         RowInv(o, next), history[o].rows \subseteq next.rows,
         history[o].status = "success" => next = history[o]
  PROVE  history' \in [Contracts -> HistoryRows] /\ (\A c \in Contracts : Moves(c))
<1>1. history \in [Contracts -> HistoryRows] /\ next \in HistoryRows
  BY DEF SyncInv, RowInv
<1>2. history'[o] = next /\ \A c \in Contracts \ {o} : history'[c] = history[c]
  BY <1>1
<1>3. history' \in [Contracts -> HistoryRows]
  BY <1>1
<1>4. Moves(o)
  BY <1>2 DEF Moves
<1>5. \A c \in Contracts \ {o} : Moves(c)
  BY <1>2 DEF Moves, SyncInv
<1> QED
  BY <1>3, <1>4, <1>5

\* Nothing is written.
LEMMA RowsKept ==
  ASSUME SyncInv, history' = history
  PROVE  history' \in [Contracts -> HistoryRows] /\ (\A c \in Contracts : Moves(c))
BY DEF SyncInv, Moves

\* Without a checkpoint the canonical prices stay those of TWSE rows.
LEMMA CanonicalKept ==
  ASSUME SyncInv, canonical' = canonical, \A c \in Contracts : Moves(c)
  PROVE  CanonicalInv'
BY DEF SyncInv, CanonicalInv, Moves

\* A step writes the job of one worker.
LEMMA JobWritten ==
  ASSUME SyncInv, NEW w \in Workers, NEW j, job' = [job EXCEPT ![w] = j], JobInv(j)
  PROVE  job' \in [Workers -> Jobs] /\ \A v \in Workers : JobInv(job'[v])
<1>1. job \in [Workers -> Jobs] /\ j \in Jobs
  BY DEF SyncInv, JobInv
<1>2. job'[w] = j /\ \A v \in Workers \ {w} : job'[v] = job[v]
  BY <1>1
<1> QED
  BY <1>1, <1>2 DEF SyncInv

\* The parts make the whole.
LEMMA SyncWhole ==
  ASSUME history' \in [Contracts -> HistoryRows], \A c \in Contracts : Moves(c),
         job' \in [Workers -> Jobs], \A v \in Workers : JobInv(job'[v]), CanonicalInv'
  PROVE  SyncInv'
BY DEF SyncInv, Moves

\* The jobs that end, wait to fail or return are typed.
LEMMA JobEnds ==
  ASSUME NEW j, j \in Jobs, j.of \in Contracts
  PROVE  /\ JobInv(Returned(j))
         /\ \A why \in {"none", "no_usable_data", "other", "state", "conflict", "in_progress"} :
              JobInv(Raised(j, why))
         /\ \A why \in {"no_usable_data", "other", "state"} : JobInv(Failing(j, why))
         /\ JobInv(NoJob)
<1>1. j.of \in [source : Sources, target : Nat]
  BY DEF Jobs
<1>2. NoJob \in Jobs /\ NoJob.at = "idle" /\ NoJob.of.source = "twse" /\ NoJob.resume = "none"
  BY DEF NoJob, Jobs, Sources
<1>3. ASSUME NEW place \in {"returned", "raised", "fail"},
             NEW why \in {"none", "no_usable_data", "other", "state", "conflict", "in_progress"}
      PROVE  /\ At(j, place, why) \in Jobs /\ At(j, place, why).of = j.of
             /\ At(j, place, why).resume = "none" /\ At(j, place, why).at = place
             /\ At(j, place, why).error = why
  BY <1>1, <1>2 DEF At, Jobs
<1>4. JobInv(NoJob)
  BY <1>2 DEF JobInv
<1>5. ASSUME NEW place \in {"returned", "raised"},
             NEW why \in {"none", "no_usable_data", "other", "state", "conflict", "in_progress"}
      PROVE  JobInv(At(j, place, why))
  BY <1>3 DEF JobInv
<1>6. \A why \in {"no_usable_data", "other", "state"} : JobInv(At(j, "fail", why))
  BY <1>3 DEF JobInv
<1> QED
  BY <1>4, <1>5, <1>6 DEF Returned, Raised, Failing

\* The head of the loop types the worker's copy of the row.
LEMMA LoopHeadTyped ==
  ASSUME NEW j, JobInv(j), j.of \in Contracts, NEW row \in HistoryRows
  PROVE  JobInv(LoopHead(j, row))
<1> DEFINE copy == [j EXCEPT !.cursor = row.cursor, !.months = row.months,
                             !.count = row.count, !.batch = {}]
<1>1. /\ copy \in Jobs /\ copy.of = j.of /\ copy.resume = j.resume
  BY DEF JobInv, Jobs, HistoryRows
<1> HIDE DEF copy
<1>2. JobInv([copy EXCEPT !.at = "finish"]) /\ JobInv([copy EXCEPT !.at = "fetch"])
  BY <1>1 DEF JobInv, Jobs
<1>3. JobInv(Failing(copy, "other"))
  BY <1>1, JobEnds
<1>4. LoopHead(j, row) \in {Failing(copy, "other"), [copy EXCEPT !.at = "finish"],
                            [copy EXCEPT !.at = "fetch"]}
  BY DEF LoopHead, copy
<1> QED
  BY <1>2, <1>3, <1>4

\* A call inserts a row or finds one, and is refused, answered or admitted.
LEMMA CallSync ==
  ASSUME SyncInv, NEW w \in Workers, NEW c \in Contracts, NEW resume \in {"none", "this", "other"},
         c.source = "esun" => resume = "none", Call(w, c, resume)
  PROVE  SyncInv' /\ \A o \in Contracts : Moves(o)
<1> DEFINE next == [history[c] EXCEPT !.status = IF @ = "none" THEN "pending" ELSE @]
           start == [NoJob EXCEPT !.of = c, !.resume = resume]
<1>1. RowInv(c, history[c]) /\ history[c] \in HistoryRows
  BY DEF SyncInv
<1>2. RowInv(c, next) /\ history[c].rows \subseteq next.rows
      /\ (history[c].status = "success" => next = history[c])
  BY <1>1, PendingRow DEF HistoryRows
<1>3. history' = [history EXCEPT ![c] = next]
  BY <1>1 DEF Call, SyncInv
<1>4. c.source \in Sources /\ c.target \in Nat /\ c = [source |-> c.source, target |-> c.target]
  BY ContractType DEF Contracts
<1>5. start \in Jobs /\ start.of = c /\ start.resume = resume /\ start.at = "idle"
  <2>1. NoJob \in Jobs /\ NoJob.at = "idle"
    BY DEF NoJob, Jobs, Sources
  <2>2. c \in [source : Sources, target : Nat]
    BY <1>4
  <2> QED
    BY <2>1, <2>2 DEF Jobs
<1> HIDE DEF next, start
<1>6. JobInv([start EXCEPT !.at = "claim"])
  BY <1>5 DEF JobInv, Jobs
<1>7. JobInv(Raised(start, "conflict")) /\ JobInv(Returned(start))
  BY <1>5, JobEnds
<1>8. job' = [job EXCEPT ![w] = IF resume = "other" THEN Raised(start, "conflict")
                                ELSE IF history[c].status = "success" THEN Returned(start)
                                ELSE [start EXCEPT !.at = "claim"]]
  BY DEF Call, start
<1>9. job' \in [Workers -> Jobs] /\ \A v \in Workers : JobInv(job'[v])
  BY <1>6, <1>7, <1>8, JobWritten
<1>10. history' \in [Contracts -> HistoryRows] /\ \A o \in Contracts : Moves(o)
  BY <1>2, <1>3, RowWritten
<1>11. CanonicalInv'
  BY <1>10, CanonicalKept DEF Call
<1> QED
  BY <1>9, <1>10, <1>11, SyncWhole

\* A claim that is refused changes no row; one that is granted starts a row that did
\* not succeed and is not an unproved legacy row.
LEMMA ClaimSync ==
  ASSUME SyncInv, NEW w \in Workers, Claim(w)
  PROVE  SyncInv' /\ \A o \in Contracts : Moves(o)
<1> DEFINE j == job[w]
           o == j.of
           row == history[o]
<1>1. JobInv(j) /\ j \in Jobs /\ o \in Contracts /\ canonical' = canonical
  BY DEF SyncInv, Claim, JobInv
<1>2. RowInv(o, row) /\ row \in HistoryRows
  BY <1>1 DEF SyncInv
<1> HIDE DEF j, o, row
<1>3. CASE \E why \in {"in_progress", "state"} : job' = [job EXCEPT ![w] = Raised(j, why)]
           /\ history' = history
  <2>1. PICK why \in {"in_progress", "state"} : job' = [job EXCEPT ![w] = Raised(j, why)]
    BY <1>3
  <2>2. JobInv(Raised(j, why))
    BY <1>1, <2>1, JobEnds DEF o
  <2> QED
    BY <1>1, <1>3, <2>1, <2>2, JobWritten, RowsKept, CanonicalKept, SyncWhole
<1>4. CASE /\ row.status \in {"pending", "failed", "running"} /\ ~ Unproved(row)
           /\ history' = [history EXCEPT ![o] = Started(row)]
           /\ job' = [job EXCEPT ![w] = LoopHead(j, Started(row))]
  <2>1. RowInv(o, Started(row)) /\ Started(row).rows = row.rows /\ row.status # "success"
    BY <1>1, <1>2, <1>4, StartedRow
  <2>2. JobInv(LoopHead(j, Started(row)))
    BY <1>1, <2>1, LoopHeadTyped DEF RowInv, o
  <2>3. history' \in [Contracts -> HistoryRows] /\ \A c \in Contracts : Moves(c)
    BY <1>1, <1>4, <2>1, RowWritten DEF row
  <2> QED
    BY <1>1, <1>4, <2>2, <2>3, JobWritten, CanonicalKept, SyncWhole
<1> QED
  BY <1>3, <1>4 DEF Claim, j, o, row

\* A provider call changes no row; what it brings is a batch of the month.
LEMMA FetchSync ==
  ASSUME SyncInv, NEW w \in Workers, Fetch(w)
  PROVE  SyncInv' /\ history' = history
<1> DEFINE j == job[w]
<1>1. JobInv(j) /\ j \in Jobs /\ j.of \in Contracts /\ j.at = "fetch"
  BY DEF SyncInv, Fetch, JobInv
<1>2. history' = history /\ canonical' = canonical
  BY DEF Fetch
<1>3. \E next : JobInv(next) /\ job' = [job EXCEPT ![w] = next]
  <2>1. CASE \E batch \in Batches(j.of, j.cursor) :
               job' = [job EXCEPT ![w] = [j EXCEPT !.at = "checkpoint", !.batch = batch]]
    <3>1. PICK batch \in Batches(j.of, j.cursor) :
            job' = [job EXCEPT ![w] = [j EXCEPT !.at = "checkpoint", !.batch = batch]]
      BY <2>1
    <3>2. j.cursor \in Int
      BY <1>1 DEF Jobs
    <3>3. batch \subseteq DayPrices
      BY <1>1, <3>2, BatchFacts
    <3> DEFINE next == [j EXCEPT !.at = "checkpoint", !.batch = batch]
    <3> HIDE DEF j
    <3>4. next \in Jobs /\ next.of = j.of /\ next.cursor = j.cursor /\ next.batch = batch
          /\ next.at = "checkpoint" /\ next.resume = j.resume
      BY <1>1, <3>3 DEF Jobs
    <3>5. JobInv(next)
      BY <1>1, <3>4 DEF JobInv
    <3> QED
      BY <3>1, <3>5
  <2>2. CASE \E why \in {"no_usable_data", "other"} : job' = [job EXCEPT ![w] = Failing(j, why)]
    BY <1>1, <2>2, JobEnds
  <2> QED
    BY <2>1, <2>2 DEF Fetch
<1> QED
  BY <1>2, <1>3, JobWritten, RowsKept, CanonicalKept, SyncWhole

\* A checkpoint stores the month the row is at, and its prices; after a takeover it
\* stores nothing.
LEMMA CheckpointSync ==
  ASSUME SyncInv, NEW w \in Workers, CheckpointMonth(w)
  PROVE  SyncInv' /\ \A o \in Contracts : Moves(o)
<1> DEFINE j == job[w]
           o == j.of
           row == history[o]
           next == Advanced(row, j.batch, j.cursor)
<1>1. JobInv(j) /\ j \in Jobs /\ o \in Contracts /\ j.at = "checkpoint"
      /\ j.batch \in Batches(o, j.cursor)
  BY DEF SyncInv, CheckpointMonth, JobInv
<1>2. RowInv(o, row) /\ row \in HistoryRows
  BY <1>1 DEF SyncInv
<1>3. CASE ~ MatchesCursor(row, j)
  <2>1. /\ job' = [job EXCEPT ![w] = Failing(j, "state")]
        /\ history' = history /\ canonical' = canonical
    BY <1>3 DEF CheckpointMonth
  <2>2. JobInv(Failing(j, "state"))
    BY <1>1, JobEnds
  <2> QED
    BY <2>1, <2>2, JobWritten, RowsKept, CanonicalKept, SyncWhole
<1>4. CASE MatchesCursor(row, j)
  <2>1. /\ history' = [history EXCEPT ![o] = next]
        /\ canonical' = (IF o.source = "twse" THEN Upsert(canonical, j.batch) ELSE canonical)
        /\ job' = [job EXCEPT ![w] = LoopHead(j, next)]
    BY <1>4 DEF CheckpointMonth
  <2>2. row.status = "running" /\ j.cursor = row.cursor /\ j.batch \in Batches(o, row.cursor)
    BY <1>1, <1>4 DEF MatchesCursor
  <2>3. RowInv(o, next)
    BY <1>1, <1>2, <2>2, AdvancedRow
  <2>4. next.rows = row.rows \cup j.batch
    BY <1>2 DEF Advanced, HistoryRows
  <2>5. JobInv(LoopHead(j, next))
    BY <1>1, <2>3, LoopHeadTyped DEF RowInv
  <2>6. row.cursor \in Int
    BY <1>2 DEF HistoryRows
  <2>7. /\ j.batch \subseteq DayPrices
        /\ \A x, y \in j.batch : x.day = y.day => x = y
    BY <1>1, <2>2, <2>6, BatchFacts
  <2> HIDE DEF next, row, o, j
  <2>8. history' \in [Contracts -> HistoryRows] /\ \A c \in Contracts : Moves(c)
    BY <1>1, <2>1, <2>2, <2>3, <2>4, RowWritten DEF row
  <2>9. history'[o].rows = row.rows \cup j.batch
    <3>1. history \in [Contracts -> HistoryRows]
      BY DEF SyncInv
    <3> QED
      BY <1>1, <2>1, <2>4, <3>1
  <2>10. CanonicalInv'
    <3>1. CASE o.source # "twse"
      BY <2>1, <2>8, <3>1, CanonicalKept
    <3>2. CASE o.source = "twse"
      <4>1. canonical' = {x \in canonical : \A y \in j.batch : y.day # x.day} \cup j.batch
        BY <2>1, <3>2 DEF Upsert
      <4>2. CanonicalInv
        BY DEF SyncInv
      <4>3. canonical' \subseteq DayPrices
        BY <2>7, <4>1, <4>2 DEF CanonicalInv
      <4>4. \A x, y \in canonical' : x.day = y.day => x = y
        BY <2>7, <4>1, <4>2 DEF CanonicalInv
      <4>5. \A x \in canonical' : \E c \in Contracts : c.source = "twse" /\ x \in history'[c].rows
        BY <1>1, <2>8, <2>9, <3>2, <4>1, <4>2 DEF CanonicalInv, Moves
      <4> QED
        BY <4>3, <4>4, <4>5 DEF CanonicalInv
    <3> QED
      BY <3>1, <3>2
  <2>11. job' \in [Workers -> Jobs] /\ \A v \in Workers : JobInv(job'[v])
    BY <2>1, <2>5, JobWritten
  <2> QED
    BY <2>8, <2>10, <2>11, SyncWhole
<1> QED
  BY <1>3, <1>4

\* The completion unit.
LEMMA FinishSync ==
  ASSUME SyncInv, NEW w \in Workers, Finish(w)
  PROVE  SyncInv' /\ \A o \in Contracts : Moves(o)
<1> DEFINE j == job[w]
           o == j.of
           row == history[o]
           next == [row EXCEPT !.status = "success", !.notes = @ + 1, !.count = Needed]
<1>1. JobInv(j) /\ j \in Jobs /\ o \in Contracts /\ canonical' = canonical
  BY DEF SyncInv, Finish, JobInv
<1>2. RowInv(o, row) /\ row \in HistoryRows
  BY <1>1 DEF SyncInv
<1>3. JobInv(Returned(j)) /\ JobInv(Failing(j, "state"))
  BY <1>1, JobEnds
<1>4. history' \in [Contracts -> HistoryRows] /\ \A c \in Contracts : Moves(c)
  <2>1. CASE ~ MayComplete(row)
    BY <2>1, RowsKept DEF Finish
  <2>2. CASE MayComplete(row)
    <3>1. history' = [history EXCEPT ![o] = next] /\ row.status = "running"
      BY <2>2 DEF Finish, MayComplete
    <3>2. RowInv(o, next) /\ next.rows = row.rows
      BY <1>1, <1>2, <2>2, CompletedRow DEF HistoryRows
    <3> HIDE DEF next, row, o, j
    <3> QED
      BY <1>1, <3>1, <3>2, RowWritten DEF row
  <2> QED
    BY <2>1, <2>2
<1>5. job' \in [Workers -> Jobs] /\ \A v \in Workers : JobInv(job'[v])
  <2>1. \/ job' = [job EXCEPT ![w] = Returned(j)]
        \/ job' = [job EXCEPT ![w] = Failing(j, "state")]
    BY DEF Finish
  <2> HIDE DEF j
  <2> QED
    BY <1>3, <2>1, JobWritten
<1> QED
  BY <1>1, <1>4, <1>5, CanonicalKept, SyncWhole

\* A failure reaches a row only while it runs.
LEMMA MarkFailedSync ==
  ASSUME SyncInv, NEW w \in Workers, MarkFailed(w)
  PROVE  SyncInv' /\ \A o \in Contracts : Moves(o)
<1> DEFINE j == job[w]
           o == j.of
           row == history[o]
           next == [row EXCEPT !.status = "failed", !.error = j.error]
<1>1. JobInv(j) /\ j \in Jobs /\ o \in Contracts /\ canonical' = canonical
      /\ j.error \in {"no_usable_data", "other", "state"}
  BY DEF SyncInv, MarkFailed, JobInv
<1>2. RowInv(o, row) /\ row \in HistoryRows
  BY <1>1 DEF SyncInv
<1>3. JobInv(Raised(j, j.error)) /\ JobInv(Raised(j, "state"))
  BY <1>1, JobEnds
<1>4. history' \in [Contracts -> HistoryRows] /\ \A c \in Contracts : Moves(c)
  <2>1. CASE ~ FailsRun(row)
    BY <2>1, RowsKept DEF MarkFailed
  <2>2. CASE FailsRun(row)
    <3>1. history' = [history EXCEPT ![o] = next] /\ row.status = "running"
      BY <2>2 DEF MarkFailed, FailsRun
    <3>2. RowInv(o, next) /\ next.rows = row.rows
      BY <1>1, <1>2, <2>2, FailedRow DEF HistoryRows
    <3> HIDE DEF next, row, o, j
    <3> QED
      BY <1>1, <3>1, <3>2, RowWritten DEF row
  <2> QED
    BY <2>1, <2>2
<1>5. job' \in [Workers -> Jobs] /\ \A v \in Workers : JobInv(job'[v])
  <2>1. \/ job' = [job EXCEPT ![w] = Raised(j, j.error)]
        \/ job' = [job EXCEPT ![w] = Raised(j, "state")]
    BY DEF MarkFailed
  <2> HIDE DEF j
  <2> QED
    BY <1>3, <2>1, JobWritten
<1> QED
  BY <1>1, <1>4, <1>5, CanonicalKept, SyncWhole

\* A job that is over, taken by its caller or lost with its process.
LEMMA JobDropped ==
  ASSUME SyncInv, NEW w \in Workers, job' = [job EXCEPT ![w] = NoJob],
         history' = history, canonical' = canonical
  PROVE  SyncInv' /\ \A o \in Contracts : Moves(o)
<1>1. NoJob \in Jobs /\ JobInv(NoJob)
  BY DEF NoJob, Jobs, JobInv, Sources
<1> QED
  BY <1>1, JobWritten, RowsKept, CanonicalKept, SyncWhole

\* The steps of a download, together.
LEMMA StepSync ==
  ASSUME SyncInv, NEW w \in Workers, Step(w)
  PROVE  SyncInv' /\ \A o \in Contracts : Moves(o)
<1>1. CASE Fetch(w)
  BY <1>1, FetchSync, RowsKept
<1> QED
  BY <1>1, ClaimSync, CheckpointSync, FinishSync, MarkFailedSync DEF Step

\* The rows at the start: untouched, or of the schema before 0006.
LEMMA SyncAtStart == Init => SyncInv
<1> SUFFICES ASSUME Init PROVE SyncInv
  OBVIOUS
<1>1. PICK old \in SUBSET (Legacy \cap Contracts) :
        history = [c \in Contracts |-> IF c \in old THEN LegacyRow(c) ELSE NoRow(c)]
  BY DEF Init
<1>2. ASSUME NEW c \in Contracts
      PROVE  RowInv(c, history[c])
  <2>1. MonthOf(c.target) \in Int /\ MonthOf(c.target) - 1 \in Int
    BY ContractType
  <2>2. NoRow(c) \in HistoryRows
    BY <2>1 DEF NoRow, HistoryRows
  <2>3. RowInv(c, NoRow(c))
    BY <2>1, <2>2, FS_EmptySet
    DEF RowInv, NoRow, Contiguous, RowsOfContract, CompleteWhenSuccessful, Untouched
  <2>4. LegacyRow(c) \in HistoryRows
    BY <2>1, <2>2 DEF LegacyRow, NoRow, HistoryRows
  <2>5. RowInv(c, LegacyRow(c))
    BY <2>1, <2>4, FS_EmptySet
    DEF RowInv, LegacyRow, NoRow, Contiguous, RowsOfContract, CompleteWhenSuccessful, Untouched
  <2> QED
    BY <1>1, <2>3, <2>5
<1>3. history \in [Contracts -> HistoryRows]
  BY <1>1, <1>2 DEF RowInv
<1>4. NoJob \in Jobs /\ JobInv(NoJob)
  BY DEF NoJob, Jobs, JobInv, Sources
<1>5. job \in [Workers -> Jobs] /\ \A w \in Workers : JobInv(job[w])
  BY <1>4 DEF Init
<1>6. CanonicalInv
  BY DEF Init, CanonicalInv
<1> QED
  BY <1>2, <1>3, <1>5, <1>6 DEF SyncInv

(******************************************************************************)
(* Counting and choosing.                                                     *)
(******************************************************************************)
LastRows(S, k) == {x \in S : Cardinality({y \in S : y.day > x.day}) < k}

\* The comparison uses the latest Needed rows: of rows of different days, any number
\* up to all of them are later than all but the rest.
LEMMA LatestCount ==
  ASSUME NEW S, IsFiniteSet(S), \A x \in S : x.day \in Nat,
         \A x, y \in S : x.day = y.day => x = y, NEW k \in Nat, k <= Cardinality(S)
  PROVE  IsFiniteSet(LastRows(S, k)) /\ Cardinality(LastRows(S, k)) = k
<1> DEFINE n == Cardinality(S)
           After(x) == {y \in S : y.day > x.day}
           T == {x \in S : Cardinality(After(x)) < k}
           rank == [x \in S |-> Cardinality(After(x))]
<1>1. n \in Nat /\ IsFiniteSet(T)
  BY FS_CardinalityType, FS_Subset
<1>2. ASSUME NEW x \in S
      PROVE  IsFiniteSet(After(x)) /\ Cardinality(After(x)) \in 0 .. n - 1
  <2>1. After(x) \in SUBSET (S \ {x})
    OBVIOUS
  <2>2. IsFiniteSet(S \ {x}) /\ Cardinality(S \ {x}) = n - 1
    BY FS_RemoveElement
  <2>3. IsFiniteSet(After(x)) /\ Cardinality(After(x)) <= n - 1
    BY <2>1, <2>2, FS_Subset
  <2> QED
    BY <2>3, FS_CardinalityType
<1>3. ASSUME NEW x \in S, NEW y \in S, x.day < y.day
      PROVE  rank[y] < rank[x]
  <2>1. After(y) \cup {y} \in SUBSET After(x)
    BY <1>3
  <2>2. y \notin After(y)
    OBVIOUS
  <2> HIDE DEF After
  <2>3. Cardinality(After(y) \cup {y}) = Cardinality(After(y)) + 1
    BY <1>2, <2>2, FS_AddElement
  <2>4. Cardinality(After(y) \cup {y}) <= Cardinality(After(x))
    BY <1>2, <2>1, FS_Subset
  <2>5. Cardinality(After(y)) \in Nat /\ Cardinality(After(x)) \in Nat
    BY <1>1, <1>2
  <2> QED
    BY <2>3, <2>4, <2>5 DEF rank
<1>4. \A x \in S : rank[x] \in 0 .. n - 1 /\ rank[x] = Cardinality(After(x))
  BY <1>2
<1> HIDE DEF rank, After
<1>5. rank \in Injection(S, 0 .. n - 1)
  <2>1. rank \in [S -> 0 .. n - 1]
    BY <1>4 DEF rank
  <2>2. ASSUME NEW x \in S, NEW y \in S, rank[x] = rank[y]
        PROVE  x = y
    <3>1. rank[x] \in Int /\ rank[y] \in Int
      BY <1>4, <1>1
    <3>2. ~ (x.day < y.day) /\ ~ (y.day < x.day)
      BY <1>3, <2>2, <3>1
    <3> QED
      BY <3>2
  <2> QED
    BY <2>1, <2>2 DEF Injection, IsInjective
<1>6. rank \in Surjection(S, 0 .. n - 1)
  <2>1. IsFiniteSet(0 .. n - 1) /\ Cardinality(0 .. n - 1) = n
    <3> HIDE DEF n
    <3>1. n - 1 \in Int
      BY <1>1
    <3> QED
      BY <1>1, <3>1, FS_Interval
  <2> QED
    BY <1>5, <2>1, FS_Injection
<1>7. Cardinality(T) = k
  <2> DEFINE g == [x \in T |-> rank[x]]
  <2>1. IsFiniteSet(0 .. k - 1) /\ Cardinality(0 .. k - 1) = k
    BY FS_Interval
  <2>2. \A x \in T : x \in S /\ rank[x] \in 0 .. k - 1
    BY <1>1, <1>4
  <2>3. g \in Injection(T, 0 .. k - 1)
    BY <1>5, <2>2 DEF Injection, IsInjective
  <2>4. \A i \in 0 .. k - 1 : \E x \in T : g[x] = i
    <3> SUFFICES ASSUME NEW i \in 0 .. k - 1 PROVE \E x \in T : g[x] = i
      OBVIOUS
    <3>1. i \in 0 .. n - 1
      BY <1>1
    <3>2. PICK x \in S : rank[x] = i
      BY <1>6, <3>1 DEF Surjection
    <3>3. x \in T
      BY <1>4, <3>2
    <3> QED
      BY <3>2, <3>3
  <2>5. g \in Surjection(T, 0 .. k - 1)
    BY <2>2, <2>4 DEF Surjection
  <2> QED
    BY <2>1, <2>3, <2>5, FS_Injection
<1> QED
  BY <1>1, <1>7 DEF After, LastRows

\* Rows of different days have as many days as rows.
LEMMA DaysCount ==
  ASSUME NEW S, IsFiniteSet(S), \A x, y \in S : x.day = y.day => x = y
  PROVE  IsFiniteSet(Days(S)) /\ Cardinality(Days(S)) = Cardinality(S)
<1> DEFINE f == [x \in S |-> x.day]
<1>1. f \in Surjection(S, Days(S))
  BY DEF Surjection, Days
<1>2. f \in Injection(S, Days(S))
  BY <1>1 DEF Injection, IsInjective, Surjection
<1> QED
  BY <1>1, <1>2, FS_Surjection

\* The order of the naturals, as a relation.
Below == {pair \in Nat \X Nat : pair[1] < pair[2]}

\* It has no endless descent, so a set of naturals has a least member.
LEMMA LeastExists ==
  ASSUME NEW S \in SUBSET Nat, S # {}
  PROVE  \E x \in S : \A y \in S : x <= y
<1>1. IsWellFoundedOn(Below, Nat)
  <2>1. IsWellFoundedOn(OpToRel(<, Nat), Nat)
    BY NatLessThanWellFounded
  <2> QED
    BY <2>1 DEF OpToRel, Below
<1>2. PICK x \in S : \A y \in S : <<y, x>> \notin Below
  BY <1>1, WFMin
<1>3. ASSUME NEW y \in S PROVE x <= y
  <2>1. <<y, x>> \in Nat \X Nat /\ x \in Nat /\ y \in Nat
    OBVIOUS
  <2>2. ~ (<<y, x>> \in {pair \in Nat \X Nat : pair[1] < pair[2]})
    BY <1>2 DEF Below
  <2>3. ~ (y < x)
    BY <2>1, <2>2
  <2> QED
    BY <2>1, <2>3
<1> QED
  BY <1>3

\* The newest run is one of the runs, and none of them is newer.
LEMMA NewestExists ==
  ASSUME NEW d \in Targets, RunsUpTo(d) # {}
  PROVE  NewestRun(d) \in RunsUpTo(d) /\ \A u \in RunsUpTo(d) : u <= NewestRun(d)
<1> DEFINE ages == {d - t : t \in RunsUpTo(d)}
<1>1. \A t \in RunsUpTo(d) : t \in Nat /\ d \in Nat /\ t <= d
  BY HistoryAssumption DEF RunsUpTo
<1>2. ages \in SUBSET Nat /\ ages # {}
  BY <1>1
<1>3. PICK age \in ages : \A other \in ages : age <= other
  BY <1>2, LeastExists
<1>4. PICK t \in RunsUpTo(d) : age = d - t
  BY <1>3
<1>5. ASSUME NEW u \in RunsUpTo(d) PROVE u <= t
  <2>1. d - t <= d - u
    BY <1>3, <1>4
  <2> QED
    BY <1>1, <2>1
<1> QED
  BY <1>4, <1>5 DEF NewestRun

\* A comparison of two successful histories accounts for Needed days of each.
LEMMA ComparedAddsUp ==
  ASSUME SyncInv, NEW d \in Targets, Both(d)
  PROVE  LET r == Compared(d)
         IN  /\ r.twseOnly \subseteq Nat /\ r.esunOnly \subseteq Nat /\ r.differing \subseteq Nat
             /\ r.matched \in Nat
             /\ r.matched + Cardinality(r.differing) + Cardinality(r.twseOnly) = Needed
             /\ r.matched + Cardinality(r.differing) + Cardinality(r.esunOnly) = Needed
             /\ \A day \in r.differing :
                  \E x \in history[Twse(d)].rows, y \in history[Esun(d)].rows :
                    x.day = day /\ y.day = day /\ x.price # y.price
             /\ (Outcome(r) = "match") <=> (r.matched = Needed)
             /\ Outcome(r) \in {"match", "discrepancy"}
<1> DEFINE left == Latest(Twse(d))
           right == Latest(Esun(d))
           both == Days(left) \cap Days(right)
           equal == Days(left \cap right)
           r == Compared(d)
<1>1. Twse(d) \in Contracts /\ Esun(d) \in Contracts /\ Needed \in Nat
  BY HistoryAssumption DEF Twse, Esun, Contracts, Sources
<1>2. ASSUME NEW c \in Contracts, history[c].status = "success"
      PROVE  /\ Latest(c) \subseteq history[c].rows /\ Latest(c) \subseteq DayPrices
             /\ IsFiniteSet(Latest(c)) /\ IsFiniteSet(Days(Latest(c)))
             /\ Cardinality(Days(Latest(c))) = Needed /\ Days(Latest(c)) \subseteq Nat
  <2> DEFINE S == history[c].rows
  <2>1. /\ IsFiniteSet(S) /\ S \subseteq DayPrices
        /\ \A x, y \in S : x.day = y.day => x = y
        /\ Cardinality(S) >= Needed /\ Cardinality(S) \in Nat
    BY <1>2, FS_CardinalityType, RowFacts DEF SyncInv, RowInv, CompleteWhenSuccessful, HistoryRows
  <2>2. \A x \in DayPrices : x.day \in Nat
    BY DEF DayPrices
  <2>3. \A x \in S : x.day \in Nat
    BY <2>1, <2>2
  <2>4. Latest(c) = LastRows(S, Needed)
    BY DEF Latest, LastRows
  <2> HIDE DEF S
  <2>5. Needed <= Cardinality(S)
    BY <1>1, <2>1
  <2>6. IsFiniteSet(Latest(c)) /\ Cardinality(Latest(c)) = Needed
    BY <1>1, <2>1, <2>3, <2>4, <2>5, LatestCount
  <2>7. Latest(c) \subseteq S
    BY <2>4 DEF LastRows
  <2>8. IsFiniteSet(Days(Latest(c))) /\ Cardinality(Days(Latest(c))) = Needed
    BY <2>1, <2>6, <2>7, DaysCount
  <2>9. Days(Latest(c)) \subseteq Nat
    BY <2>3, <2>7 DEF Days
  <2> QED
    BY <2>1, <2>6, <2>7, <2>8, <2>9 DEF S
<1>3. /\ left \subseteq history[Twse(d)].rows /\ right \subseteq history[Esun(d)].rows
      /\ left \subseteq DayPrices /\ right \subseteq DayPrices
      /\ IsFiniteSet(Days(left)) /\ Cardinality(Days(left)) = Needed /\ Days(left) \subseteq Nat
      /\ IsFiniteSet(Days(right)) /\ Cardinality(Days(right)) = Needed /\ Days(right) \subseteq Nat
  BY <1>1, <1>2 DEF Both
<1>4. /\ r.twseOnly = Days(left) \ Days(right) /\ r.esunOnly = Days(right) \ Days(left)
      /\ r.differing = both \ equal /\ r.matched = Cardinality(equal)
  BY DEF Compared
<1>5. equal \subseteq both
  BY DEF Days
<1>6. \A day \in both \ equal : \E x \in left, y \in right :
        x.day = day /\ y.day = day /\ x.price # y.price
  <2> SUFFICES ASSUME NEW day \in both, day \notin equal
               PROVE  \E x \in left, y \in right : x.day = day /\ y.day = day /\ x.price # y.price
    OBVIOUS
  <2>1. PICK x \in left : x.day = day
    BY DEF Days
  <2>2. PICK y \in right : y.day = day
    BY DEF Days
  <2>3. x # y
    BY <2>1 DEF Days
  <2>4. x \in DayPrices /\ y \in DayPrices
    BY <1>3
  <2>5. x.price # y.price
    BY <2>1, <2>2, <2>3, <2>4 DEF DayPrices
  <2> QED
    BY <2>1, <2>2, <2>5
<1> HIDE DEF left, right, equal, r
<1>7. /\ IsFiniteSet(both) /\ IsFiniteSet(equal) /\ IsFiniteSet(both \ equal)
      /\ IsFiniteSet(Days(left) \ Days(right)) /\ IsFiniteSet(Days(right) \ Days(left))
  BY <1>3, <1>5, FS_Subset
<1>8. Cardinality(both) = Cardinality(equal) + Cardinality(both \ equal)
  <2>1. both \cap equal = equal
    BY <1>5
  <2>2. Cardinality(both \ equal) = Cardinality(both) - Cardinality(equal)
    BY <1>7, <2>1, FS_Difference
  <2> QED
    BY <1>7, <2>2, FS_CardinalityType
<1>9. /\ Cardinality(Days(left) \ Days(right)) = Needed - Cardinality(both)
      /\ Cardinality(Days(right) \ Days(left)) = Needed - Cardinality(both)
  <2>1. Days(right) \cap Days(left) = both
    OBVIOUS
  <2>2. Cardinality(Days(right) \ Days(left)) = Needed - Cardinality(Days(right) \cap Days(left))
    BY <1>3, FS_Difference
  <2> QED
    BY <1>3, <2>1, <2>2, FS_Difference
<1>10. /\ Cardinality(equal) \in Nat /\ Cardinality(both) \in Nat /\ Cardinality(both \ equal) \in Nat
       /\ Cardinality(Days(left) \ Days(right)) \in Nat
       /\ Cardinality(Days(right) \ Days(left)) \in Nat
  BY <1>7, FS_CardinalityType
<1>11. (r.twseOnly \cup r.esunOnly \cup r.differing = {}) <=> (r.matched = Needed)
  <2>1. (r.twseOnly = {}) <=> Cardinality(r.twseOnly) = 0
    BY <1>4, <1>7, FS_EmptySet
  <2>2. (r.esunOnly = {}) <=> Cardinality(r.esunOnly) = 0
    BY <1>4, <1>7, FS_EmptySet
  <2>3. (r.differing = {}) <=> Cardinality(r.differing) = 0
    BY <1>4, <1>7, FS_EmptySet
  <2> QED
    BY <1>1, <1>4, <1>8, <1>9, <1>10, <2>1, <2>2, <2>3
<1>12. Outcome(r) \in {"match", "discrepancy"} /\ ((Outcome(r) = "match") <=> (r.matched = Needed))
  BY <1>11 DEF Outcome
<1>13. /\ r.matched + Cardinality(r.differing) + Cardinality(r.twseOnly) = Needed
       /\ r.matched + Cardinality(r.differing) + Cardinality(r.esunOnly) = Needed
       /\ r.matched \in Nat
  BY <1>1, <1>4, <1>8, <1>9, <1>10
<1>14. r.twseOnly \subseteq Nat /\ r.esunOnly \subseteq Nat /\ r.differing \subseteq Nat
  BY <1>3, <1>4
<1>15. \A day \in r.differing :
         \E x \in history[Twse(d)].rows, y \in history[Esun(d)].rows :
           x.day = day /\ y.day = day /\ x.price # y.price
  BY <1>3, <1>4, <1>6
<1> QED
  BY <1>12, <1>13, <1>14, <1>15 DEF r

(******************************************************************************)
(* The steps of a call.                                                       *)
(******************************************************************************)
BothNext(d) == history'[Twse(d)].status = "success" /\ history'[Esun(d)].status = "success"

\* Two successful histories stay the two they are.
LEMMA BothKept ==
  ASSUME NEW d \in Targets, Both(d), \A c \in Contracts : Moves(c)
  PROVE  /\ BothNext(d)
         /\ history'[Twse(d)] = history[Twse(d)] /\ history'[Esun(d)] = history[Esun(d)]
<1>1. Twse(d) \in Contracts /\ Esun(d) \in Contracts
  BY DEF Twse, Esun, Contracts, Sources
<1> QED
  BY <1>1 DEF Moves, Both, BothNext

\* A validation that is not written keeps adding up.
LEMMA ValidationKept ==
  ASSUME CandidateInv, NEW d \in Targets, validation'[d] = validation[d],
         \A c \in Contracts : Moves(c)
  PROVE  ValidationInv(d)'
<1>1. ValidationInv(d)
  BY DEF CandidateInv
<1>2. CASE validation[d].status = "success"
  <2>1. Both(d)
    BY <1>1, <1>2 DEF ValidationInv
  <2>2. BothNext(d) /\ history'[Twse(d)] = history[Twse(d)] /\ history'[Esun(d)] = history[Esun(d)]
    BY <2>1, BothKept
  <2>3. ValidationAddsUp(d)'
    BY <1>1, <2>2 DEF ValidationInv, ValidationAddsUp
  <2> QED
    BY <1>1, <2>2, <2>3 DEF ValidationInv, Both, BothNext
<1>3. CASE validation[d].status # "success"
  BY <1>1, <1>3 DEF ValidationInv, ValidationAddsUp
<1> QED
  BY <1>2, <1>3

\* A step writes the call of one process.
LEMMA CallWritten ==
  ASSUME CandidateInv, \A c \in Contracts : Moves(c), NEW w \in Workers, NEW k \in CallRecords,
         call' = [call EXCEPT ![w] = k], k.at # "idle" => k.date \in Targets,
         k.at \in {"start", "compare"} => BothNext(k.date)
  PROVE  call' \in [Workers -> CallRecords] /\ \A v \in Workers : CallInv(call[v])'
<1>1. call \in [Workers -> CallRecords]
  BY DEF CandidateInv
<1>2. call'[w] = k /\ \A v \in Workers \ {w} : call'[v] = call[v]
  BY <1>1
<1>3. CallInv(call[w])'
  BY <1>2 DEF CallInv, Both, BothNext
<1>4. ASSUME NEW v \in Workers \ {w} PROVE CallInv(call[v])'
  <2>1. CallInv(call[v])
    BY DEF CandidateInv
  <2>2. call[v].at \in {"start", "compare"} => call[v].date \in Targets /\ BothNext(call[v].date)
    BY <2>1, BothKept DEF CallInv
  <2> QED
    BY <1>2, <2>1, <2>2 DEF CallInv, Both, BothNext
<1> QED
  BY <1>1, <1>2, <1>3, <1>4

\* No validation is written, and the call of one process is.
CallStep(w) ==
  /\ SyncInv' /\ \A c \in Contracts : Moves(c)
  /\ memory' \in [Workers -> SUBSET Targets]
  /\ \E k \in CallRecords :
       /\ call' = [call EXCEPT ![w] = k]
       /\ k.at # "idle" => k.date \in Targets
       /\ k.at \in {"start", "compare"} => BothNext(k.date)

\* Such a step keeps the invariant, if the validations stay or are kept right.
LEMMA CallStepInv ==
  ASSUME CandidateInv, NEW w \in Workers, CallStep(w), validation' = validation
  PROVE  CandidateInv'
<1>1. PICK k \in CallRecords :
        /\ call' = [call EXCEPT ![w] = k]
        /\ k.at # "idle" => k.date \in Targets
        /\ k.at \in {"start", "compare"} => BothNext(k.date)
  BY DEF CallStep
<1>2. SyncInv' /\ (\A c \in Contracts : Moves(c)) /\ memory' \in [Workers -> SUBSET Targets]
  BY DEF CallStep
<1>3. call' \in [Workers -> CallRecords] /\ \A v \in Workers : CallInv(call[v])'
  BY <1>1, <1>2, CallWritten
<1>4. \A d \in Targets : ValidationInv(d)'
  BY <1>2, ValidationKept
<1> QED
  BY <1>2, <1>3, <1>4 DEF CandidateInv

\* A step that writes the validation of one date.
LEMMA PairStepInv ==
  ASSUME CandidateInv, NEW w \in Workers, CallStep(w), NEW d \in Targets, NEW v,
         validation' = [validation EXCEPT ![d] = v], ValidationInv(d)', v \in ValidationRecords
  PROVE  CandidateInv'
<1>1. PICK k \in CallRecords :
        /\ call' = [call EXCEPT ![w] = k]
        /\ k.at # "idle" => k.date \in Targets
        /\ k.at \in {"start", "compare"} => BothNext(k.date)
  BY DEF CallStep
<1>2. SyncInv' /\ (\A c \in Contracts : Moves(c)) /\ memory' \in [Workers -> SUBSET Targets]
  BY DEF CallStep
<1>3. call' \in [Workers -> CallRecords] /\ \A u \in Workers : CallInv(call[u])'
  BY <1>1, <1>2, CallWritten
<1>4. validation \in [Targets -> ValidationRecords]
  BY DEF CandidateInv
<1>5. validation' \in [Targets -> ValidationRecords]
      /\ \A e \in Targets \ {d} : validation'[e] = validation[e]
  BY <1>4
<1>6. \A e \in Targets : ValidationInv(e)'
  BY <1>2, <1>5, ValidationKept
<1> QED
  BY <1>2, <1>3, <1>5, <1>6 DEF CandidateInv

\* The call in progress, and its parts.
LEMMA CallParts ==
  ASSUME CandidateInv, NEW w \in Workers
  PROVE  /\ SyncInv /\ call[w] \in CallRecords /\ CallInv(call[w])
         /\ call[w].at # "idle" => call[w].date \in Targets
         /\ memory \in [Workers -> SUBSET Targets] /\ NoCall \in CallRecords
         /\ call \in [Workers -> CallRecords]
BY DEF CandidateInv, CallInv, CallRecords, NoCall

\* A call that ends.
LEMMA CallEnds ==
  ASSUME CandidateInv, NEW w \in Workers, SyncInv', \A c \in Contracts : Moves(c),
         EndCall(w), memory' \in [Workers -> SUBSET Targets]
  PROVE  CallStep(w)
<1>1. NoCall \in CallRecords /\ NoCall.at = "idle"
  BY DEF NoCall, CallRecords
<1> QED
  BY <1>1 DEF CallStep, EndCall

\* A call that goes on.
LEMMA CallMoves ==
  ASSUME CandidateInv, NEW w \in Workers, SyncInv', \A c \in Contracts : Moves(c),
         memory' \in [Workers -> SUBSET Targets],
         call[w].at # "idle",
         NEW place \in {"esun_syncing", "twse", "twse_syncing", "open", "start", "compare"},
         NEW resume \in {"none", "this", "other"}, NEW good \in BOOLEAN,
         call' = [call EXCEPT ![w] = [call[w] EXCEPT !.at = place, !.resume = resume, !.esun = good]],
         place \in {"start", "compare"} => BothNext(call[w].date)
  PROVE  CallStep(w)
<1> DEFINE k == [call[w] EXCEPT !.at = place, !.resume = resume, !.esun = good]
<1>1. call[w] \in CallRecords /\ call[w].date \in Targets
  BY CallParts
<1>2. k \in CallRecords /\ k.at = place /\ k.date = call[w].date
  BY <1>1 DEF CallRecords
<1> HIDE DEF k
<1>3. call' = [call EXCEPT ![w] = k]
  BY DEF k
<1> QED
  BY <1>1, <1>2, <1>3 DEF CallStep

\* A place is written as a whole call.
LEMMA NowIsWhole ==
  ASSUME CandidateInv, NEW w \in Workers, NEW place, Now(w, place)
  PROVE  call' = [call EXCEPT ![w] =
           [call[w] EXCEPT !.at = place, !.resume = call[w].resume, !.esun = call[w].esun]]
<1>1. call[w] \in CallRecords /\ call \in [Workers -> CallRecords]
  BY CallParts
<1>2. call' = [call EXCEPT ![w] = [call[w] EXCEPT !.at = place]]
  BY <1>1 DEF Now
<1>3. [call[w] EXCEPT !.at = place, !.resume = call[w].resume, !.esun = call[w].esun] =
      [call[w] EXCEPT !.at = place]
  BY <1>1 DEF CallRecords
<1> QED
  BY <1>2, <1>3

\* A read opens a call, unless the newest run is short by law.
LEMMA ReadInv ==
  ASSUME CandidateInv, NEW w \in Workers, NEW d \in Targets, Read(w, d)
  PROVE  CandidateInv' /\ \A c \in Contracts : Moves(c)
<1>1. /\ history' = history /\ canonical' = canonical /\ job' = job
      /\ validation' = validation /\ memory' = memory
  BY DEF Read
<1>2. /\ SyncInv /\ NoCall \in CallRecords /\ call \in [Workers -> CallRecords]
      /\ memory \in [Workers -> SUBSET Targets]
  BY CallParts
<1>3. SyncInv' /\ \A c \in Contracts : Moves(c)
  BY <1>1, <1>2 DEF SyncInv, Moves, CanonicalInv
<1>4. CASE ShortUpTo(d)
  <2>1. call' = call
    BY <1>4 DEF Read
  <2>2. call' = [call EXCEPT ![w] = call[w]]
    BY <1>2, <2>1
  <2>3. CallInv(call[w]) /\ call[w] \in CallRecords
    BY CallParts
  <2>4. call[w].at \in {"start", "compare"} => BothNext(call[w].date)
    BY <1>1, <2>3 DEF CallInv, Both, BothNext
  <2>5. CallStep(w)
    BY <1>1, <1>2, <1>3, <2>2, <2>3, <2>4 DEF CallStep, CallInv
  <2> QED
    BY <1>1, <1>3, <2>5, CallStepInv
<1>5. CASE ~ ShortUpTo(d)
  <2> DEFINE k == [NoCall EXCEPT !.date = d, !.resume = ResumeOf(d), !.esun = d \in memory[w],
                                 !.at = IF d \in memory[w] THEN "twse" ELSE "esun"]
  <2>1. call' = [call EXCEPT ![w] = k]
    BY <1>5 DEF Read
  <2>2. ResumeOf(d) \in {"none", "this", "other"}
    BY DEF ResumeOf
  <2>3. k.at \in {"twse", "esun"} /\ k.date = d
    BY DEF NoCall
  <2>4. k \in CallRecords
    <3> DEFINE known == d \in memory[w]
               place == IF d \in memory[w] THEN "twse" ELSE "esun"
    <3>1. known \in BOOLEAN /\ place \in {"twse", "esun"}
      OBVIOUS
    <3> HIDE DEF known, place
    <3>2. [NoCall EXCEPT !.date = d, !.resume = ResumeOf(d), !.esun = known, !.at = place]
            \in CallRecords
      BY <2>2, <3>1 DEF NoCall, CallRecords
    <3> QED
      BY <3>2 DEF known, place
  <2> HIDE DEF k
  <2>5. CallStep(w)
    BY <1>1, <1>2, <1>3, <2>1, <2>3, <2>4 DEF CallStep
  <2> QED
    BY <1>1, <1>3, <2>5, CallStepInv
<1> QED
  BY <1>4, <1>5

\* A call to one of the two downloads.
LEMMA CallEsunInv ==
  ASSUME CandidateInv, NEW w \in Workers, CallEsun(w)
  PROVE  CandidateInv' /\ \A c \in Contracts : Moves(c)
<1>1. /\ call[w].at = "esun" /\ Call(w, Esun(call[w].date), "none") /\ Now(w, "esun_syncing")
      /\ validation' = validation /\ memory' = memory
  BY DEF CallEsun
<1>2. /\ SyncInv /\ call[w] \in CallRecords /\ call[w].date \in Targets
      /\ memory \in [Workers -> SUBSET Targets]
  BY <1>1, CallParts
<1>3. Esun(call[w].date) \in Contracts
  BY <1>2 DEF Esun, Contracts, Sources
<1>4. SyncInv' /\ \A c \in Contracts : Moves(c)
  BY <1>1, <1>2, <1>3, CallSync
<1>5. call[w].resume \in {"none", "this", "other"} /\ call[w].esun \in BOOLEAN
  BY <1>2 DEF CallRecords
<1>6. CallStep(w)
  BY <1>1, <1>2, <1>4, <1>5, NowIsWhole, CallMoves
<1> QED
  BY <1>1, <1>4, <1>6, CallStepInv

\* The TWSE download, with the resume id of the newest run.
LEMMA CallTwseInv ==
  ASSUME CandidateInv, NEW w \in Workers, CallTwse(w)
  PROVE  CandidateInv' /\ \A c \in Contracts : Moves(c)
<1>1. /\ call[w].at = "twse" /\ Call(w, Twse(call[w].date), call[w].resume)
      /\ Now(w, "twse_syncing") /\ validation' = validation /\ memory' = memory
  BY DEF CallTwse
<1>2. /\ SyncInv /\ call[w] \in CallRecords /\ call[w].date \in Targets
      /\ memory \in [Workers -> SUBSET Targets]
  BY <1>1, CallParts
<1>3. Twse(call[w].date) \in Contracts /\ Twse(call[w].date).source # "esun"
  BY <1>2 DEF Twse, Contracts, Sources
<1>4. call[w].resume \in {"none", "this", "other"} /\ call[w].esun \in BOOLEAN
  BY <1>2 DEF CallRecords
<1>5. SyncInv' /\ \A c \in Contracts : Moves(c)
  BY <1>1, <1>2, <1>3, <1>4, CallSync
<1>6. CallStep(w)
  BY <1>1, <1>2, <1>4, <1>5, NowIsWhole, CallMoves
<1> QED
  BY <1>1, <1>5, <1>6, CallStepInv

\* The E.SUN download is over; a success is remembered.
LEMMA EsunDoneInv ==
  ASSUME CandidateInv, NEW w \in Workers, EsunDone(w)
  PROVE  CandidateInv' /\ \A c \in Contracts : Moves(c)
<1> DEFINE good == job[w].at = "returned"
<1>1. /\ call[w].at = "esun_syncing" /\ Return(w) /\ validation' = validation
      /\ call' = [call EXCEPT ![w].at = "twse", ![w].esun = good]
      /\ memory' = IF good THEN [memory EXCEPT ![w] = @ \cup {call[w].date}] ELSE memory
  BY DEF EsunDone
<1>2. /\ SyncInv /\ call[w] \in CallRecords /\ call[w].date \in Targets
      /\ memory \in [Workers -> SUBSET Targets] /\ call \in [Workers -> CallRecords]
  BY <1>1, CallParts
<1>3. SyncInv' /\ \A c \in Contracts : Moves(c)
  BY <1>1, <1>2, JobDropped DEF Return
<1>4. memory' \in [Workers -> SUBSET Targets]
  <2>1. memory[w] \cup {call[w].date} \in SUBSET Targets
    BY <1>2
  <2> QED
    BY <1>1, <1>2, <2>1
<1> HIDE DEF good
<1>5. call[w].resume \in {"none", "this", "other"} /\ good \in BOOLEAN
  BY <1>2 DEF CallRecords, good
<1>6. call' = [call EXCEPT ![w] = [call[w] EXCEPT !.at = "twse", !.resume = call[w].resume,
                                                  !.esun = good]]
  <2>1. call' = [call EXCEPT ![w] = [call[w] EXCEPT !.at = "twse", !.esun = good]]
    BY <1>1, <1>2
  <2>2. [call[w] EXCEPT !.at = "twse", !.resume = call[w].resume, !.esun = good] =
        [call[w] EXCEPT !.at = "twse", !.esun = good]
    BY <1>2 DEF CallRecords
  <2> QED
    BY <2>1, <2>2
<1>7. CallStep(w)
  BY <1>1, <1>3, <1>4, <1>5, <1>6, CallMoves
<1> QED
  BY <1>1, <1>3, <1>7, CallStepInv

\* The TWSE download is over; only two good ones go on to the validation.
LEMMA TwseDoneInv ==
  ASSUME CandidateInv, NEW w \in Workers, TwseDone(w)
  PROVE  CandidateInv' /\ \A c \in Contracts : Moves(c)
<1> DEFINE running == validation[call[w].date].status = "running"
           resume == IF running THEN "this" ELSE "none"
<1>1. /\ call[w].at = "twse_syncing" /\ Return(w) /\ validation' = validation /\ memory' = memory
      /\ \/ call' = [call EXCEPT ![w].at = "open", ![w].resume = resume]
         \/ EndCall(w)
  BY DEF TwseDone
<1>2. /\ SyncInv /\ call[w] \in CallRecords /\ call[w].date \in Targets
      /\ memory \in [Workers -> SUBSET Targets] /\ call \in [Workers -> CallRecords]
  BY <1>1, CallParts
<1>3. SyncInv' /\ \A c \in Contracts : Moves(c)
  BY <1>1, <1>2, JobDropped DEF Return
<1>4. CallStep(w)
  <2>1. CASE EndCall(w)
    BY <1>1, <1>2, <1>3, <2>1, CallEnds
  <2>2. CASE call' = [call EXCEPT ![w].at = "open", ![w].resume = resume]
    <3>1. resume \in {"none", "this", "other"} /\ call[w].esun \in BOOLEAN
      BY <1>2 DEF CallRecords
    <3> HIDE DEF resume
    <3>2. call' = [call EXCEPT ![w] = [call[w] EXCEPT !.at = "open", !.resume = resume]]
      BY <1>2, <2>2
    <3>3. [call[w] EXCEPT !.at = "open", !.resume = resume, !.esun = call[w].esun] =
          [call[w] EXCEPT !.at = "open", !.resume = resume]
      BY <1>2 DEF CallRecords
    <3> QED
      BY <1>1, <1>2, <1>3, <3>1, <3>2, <3>3, CallMoves
  <2> QED
    BY <1>1, <2>1, <2>2
<1> QED
  BY <1>1, <1>3, <1>4, CallStepInv

\* The rows of the candidate do not change while a pair is validated.
LEMMA PairStill ==
  ASSUME CandidateInv, history' = history, canonical' = canonical, job' = job, memory' = memory
  PROVE  SyncInv' /\ (\A c \in Contracts : Moves(c)) /\ memory' \in [Workers -> SUBSET Targets]
BY DEF CandidateInv, SyncInv, Moves, CanonicalInv

\* The row of the pair is opened only over two successful histories.
LEMMA OpenPairInv ==
  ASSUME CandidateInv, NEW w \in Workers, OpenPair(w)
  PROVE  CandidateInv' /\ \A c \in Contracts : Moves(c)
<1>0. PICK d \in Targets : d = call[w].date /\ call[w].at = "open"
  BY CallParts DEF OpenPair
<1> DEFINE v == [validation[d] EXCEPT !.status = IF @ = "none" THEN "pending" ELSE @]
<1>1. /\ call[w].at = "open" /\ Both(d)
      /\ history' = history /\ canonical' = canonical /\ job' = job /\ memory' = memory
  BY <1>0 DEF OpenPair, Both
<1>2. /\ SyncInv /\ call[w] \in CallRecords
      /\ validation \in [Targets -> ValidationRecords] /\ ValidationInv(d)
  BY <1>0, <1>1, CallParts DEF CandidateInv
<1>3. SyncInv' /\ (\A c \in Contracts : Moves(c)) /\ memory' \in [Workers -> SUBSET Targets]
  BY <1>1, PairStill
<1>4. CASE validation[d].status = "success"
  <2>1. EndCall(w) /\ validation' = validation
    BY <1>0, <1>4 DEF OpenPair
  <2> QED
    BY <1>3, <2>1, CallEnds, CallStepInv
<1>5. CASE validation[d].status # "success"
  <2>1. /\ Now(w, "start")
        /\ validation' = [validation EXCEPT ![d] = v]
    BY <1>0, <1>2, <1>5 DEF OpenPair
  <2>2. BothNext(d)
    BY <1>1 DEF Both, BothNext
  <2>3. call[w].resume \in {"none", "this", "other"} /\ call[w].esun \in BOOLEAN
    BY <1>2 DEF CallRecords
  <2>4. CallStep(w)
    BY <1>1, <1>3, <2>1, <2>2, <2>3, <1>0, NowIsWhole, CallMoves
  <2>5. /\ v \in ValidationRecords /\ v.status # "success"
        /\ v.outcome = validation[d].outcome /\ v.notes = validation[d].notes
    BY <1>2, <1>5 DEF ValidationRecords
  <2> HIDE DEF v
  <2>6. validation'[d] = v
    BY <1>2, <2>1
  <2>7. ValidationInv(d)'
    BY <1>2, <1>5, <2>5, <2>6 DEF ValidationInv, ValidationAddsUp
  <2> QED
    BY <1>2, <1>3, <2>1, <2>4, <2>5, <2>7, PairStepInv
<1> QED
  BY <1>4, <1>5

\* A validation that starts has no outcome.
LEMMA StartPairInv ==
  ASSUME CandidateInv, NEW w \in Workers, StartPair(w)
  PROVE  CandidateInv' /\ \A c \in Contracts : Moves(c)
<1>0. PICK d \in Targets : d = call[w].date /\ call[w].at = "start"
  BY CallParts DEF StartPair
<1> DEFINE v == [validation[d] EXCEPT !.status = "running", !.starts = validation[d].starts + 1]
<1>1. /\ call[w].at = "start"
      /\ history' = history /\ canonical' = canonical /\ job' = job /\ memory' = memory
  BY DEF StartPair
<1>2. /\ SyncInv /\ call[w] \in CallRecords /\ Both(d)
      /\ validation \in [Targets -> ValidationRecords] /\ ValidationInv(d)
  BY <1>0, <1>1, CallParts DEF CandidateInv, CallInv
<1>3. SyncInv' /\ (\A c \in Contracts : Moves(c)) /\ memory' \in [Workers -> SUBSET Targets]
  BY <1>1, PairStill
<1>4. CASE EndCall(w) /\ validation' = validation
  BY <1>3, <1>4, CallEnds, CallStepInv
<1>5. CASE /\ Now(w, "compare") /\ validation[d].status # "success"
           /\ validation' = [validation EXCEPT ![d] = v]
  <2>1. BothNext(d)
    BY <1>1, <1>2 DEF Both, BothNext
  <2>2. call[w].resume \in {"none", "this", "other"} /\ call[w].esun \in BOOLEAN
    BY <1>2 DEF CallRecords
  <2>3. CallStep(w)
    BY <1>1, <1>3, <1>5, <2>1, <2>2, <1>0, NowIsWhole, CallMoves
  <2>4. /\ v \in ValidationRecords /\ v.status = "running"
        /\ v.outcome = validation[d].outcome /\ v.notes = validation[d].notes
    <3>1. validation[d] \in ValidationRecords /\ validation[d].starts + 1 \in Nat
      BY <1>2 DEF ValidationRecords
    <3> QED
      BY <3>1 DEF ValidationRecords
  <2> HIDE DEF v
  <2>5. validation'[d] = v
    BY <1>2, <1>5
  <2>6. ValidationInv(d)'
    BY <1>2, <1>5, <2>4, <2>5 DEF ValidationInv, ValidationAddsUp
  <2> QED
    BY <1>2, <1>3, <1>5, <2>3, <2>4, <2>6, PairStepInv
<1>6. \/ validation' = validation /\ EndCall(w)
      \/ /\ Now(w, "compare") /\ validation[d].status # "success"
         /\ validation' = [validation EXCEPT ![d] = v]
  BY <1>0, <1>2 DEF StartPair
<1> QED
  BY <1>4, <1>5, <1>6

\* The comparison reads two histories that do not change, and adds up.
LEMMA CompletePairInv ==
  ASSUME CandidateInv, NEW w \in Workers, CompletePair(w)
  PROVE  CandidateInv' /\ \A c \in Contracts : Moves(c)
<1>0. PICK d \in Targets : d = call[w].date /\ call[w].at = "compare"
  BY CallParts DEF CompletePair
<1> DEFINE r == Compared(d)
           v == [validation[d] EXCEPT !.status = "success", !.outcome = Outcome(r), !.notes = 1,
                     !.twseOnly = r.twseOnly, !.esunOnly = r.esunOnly,
                     !.differing = r.differing, !.matched = r.matched]
<1>1. /\ call[w].at = "compare" /\ validation[d].status = "running" /\ EndCall(w)
      /\ history' = history /\ canonical' = canonical /\ job' = job /\ memory' = memory
  BY <1>0 DEF CompletePair, MayCompletePair
<1>2. /\ SyncInv /\ call[w] \in CallRecords /\ Both(d)
      /\ validation \in [Targets -> ValidationRecords] /\ ValidationInv(d)
  BY <1>0, <1>1, CallParts DEF CandidateInv, CallInv
<1>3. SyncInv' /\ (\A c \in Contracts : Moves(c)) /\ memory' \in [Workers -> SUBSET Targets]
  BY <1>1, PairStill
<1>4. validation[d].notes = 0 /\ validation[d] \in ValidationRecords
  BY <1>1, <1>2 DEF ValidationInv
<1>5. validation' = [validation EXCEPT ![d] = v]
  <2>1. validation' = [validation EXCEPT ![d] =
          [validation[d] EXCEPT !.status = "success", !.outcome = Outcome(r),
             !.notes = validation[d].notes + 1, !.twseOnly = r.twseOnly, !.esunOnly = r.esunOnly,
             !.differing = r.differing, !.matched = r.matched]]
    <3> DEFINE e == call[w].date
    <3>1. validation' = [validation EXCEPT ![e] =
            [validation[e] EXCEPT !.status = "success", !.outcome = Outcome(Compared(e)),
               !.notes = validation[e].notes + 1, !.twseOnly = Compared(e).twseOnly,
               !.esunOnly = Compared(e).esunOnly, !.differing = Compared(e).differing,
               !.matched = Compared(e).matched]]
      BY DEF CompletePair
    <3>2. e = d
      BY <1>0
    <3> HIDE DEF e
    <3> QED
      BY <3>1, <3>2
  <2> QED
    BY <1>4, <2>1
<1>6. /\ r.twseOnly \subseteq Nat /\ r.esunOnly \subseteq Nat /\ r.differing \subseteq Nat
      /\ r.matched \in Nat
      /\ r.matched + Cardinality(r.differing) + Cardinality(r.twseOnly) = Needed
      /\ r.matched + Cardinality(r.differing) + Cardinality(r.esunOnly) = Needed
      /\ \A day \in r.differing :
           \E x \in history[Twse(d)].rows, y \in history[Esun(d)].rows :
             x.day = day /\ y.day = day /\ x.price # y.price
      /\ (Outcome(r) = "match") <=> (r.matched = Needed)
      /\ Outcome(r) \in {"match", "discrepancy"}
  BY <1>2, ComparedAddsUp
<1> HIDE DEF r
<1>7. /\ v \in ValidationRecords /\ v.status = "success" /\ v.outcome = Outcome(r) /\ v.notes = 1
      /\ v.twseOnly = r.twseOnly /\ v.esunOnly = r.esunOnly /\ v.differing = r.differing
      /\ v.matched = r.matched
  <2>1. Outcome(r) \in {"none", "match", "discrepancy"}
    BY <1>6
  <2> QED
    BY <1>4, <1>6, <2>1 DEF ValidationRecords
<1> HIDE DEF v
<1>8. validation'[d] = v
  BY <1>2, <1>5
<1>9. ValidationAddsUp(d)'
  BY <1>1, <1>6, <1>7, <1>8 DEF ValidationAddsUp
<1>10. ValidationInv(d)'
  BY <1>1, <1>2, <1>6, <1>7, <1>8, <1>9 DEF ValidationInv, Both
<1>11. CallStep(w)
  BY <1>1, <1>3, CallEnds
<1> QED
  BY <1>2, <1>3, <1>5, <1>7, <1>10, <1>11, PairStepInv

\* A validation that fails had no outcome, or succeeded by another call.
LEMMA FailPairInv ==
  ASSUME CandidateInv, NEW w \in Workers, FailPair(w)
  PROVE  CandidateInv' /\ \A c \in Contracts : Moves(c)
<1>0. PICK d \in Targets : d = call[w].date /\ call[w].at = "compare"
  BY CallParts DEF FailPair
<1> DEFINE v == [validation[d] EXCEPT !.status = IF @ = "running" THEN "failed" ELSE @]
<1>1. /\ call[w].at = "compare" /\ EndCall(w)
      /\ history' = history /\ canonical' = canonical /\ job' = job /\ memory' = memory
  BY DEF FailPair
<1>2. /\ SyncInv /\ call[w] \in CallRecords
      /\ validation \in [Targets -> ValidationRecords] /\ ValidationInv(d)
      /\ validation[d] \in ValidationRecords
  BY <1>0, <1>1, CallParts DEF CandidateInv, ValidationInv
<1>3. SyncInv' /\ (\A c \in Contracts : Moves(c)) /\ memory' \in [Workers -> SUBSET Targets]
  BY <1>1, PairStill
<1>4. CallStep(w)
  BY <1>1, <1>3, CallEnds
<1>5. validation' = [validation EXCEPT ![d] = v]
  BY <1>0, <1>2 DEF FailPair
<1>6. CASE validation[d].status = "running"
  <2>1. /\ v \in ValidationRecords /\ v.status = "failed"
        /\ v.outcome = validation[d].outcome /\ v.notes = validation[d].notes
    BY <1>2, <1>6 DEF ValidationRecords
  <2> HIDE DEF v
  <2>2. validation'[d] = v
    BY <1>2, <1>5
  <2>3. ValidationInv(d)'
    BY <1>2, <1>6, <2>1, <2>2 DEF ValidationInv, ValidationAddsUp
  <2> QED
    BY <1>2, <1>3, <1>4, <1>5, <2>1, <2>3, PairStepInv
<1>7. CASE validation[d].status # "running"
  <2>1. v = validation[d]
    BY <1>2, <1>7 DEF ValidationRecords
  <2>2. validation' = validation
    BY <1>2, <1>5, <2>1
  <2> QED
    BY <1>3, <1>4, <2>2, CallStepInv
<1> QED
  BY <1>6, <1>7

\* A process that ends leaves the rows as they are.
LEMMA ExitInv ==
  ASSUME CandidateInv, NEW w \in Workers, Exit(w)
  PROVE  CandidateInv' /\ \A c \in Contracts : Moves(c)
<1>1. /\ EndCall(w) /\ memory' = [memory EXCEPT ![w] = {}] /\ job' = [job EXCEPT ![w] = NoJob]
      /\ history' = history /\ canonical' = canonical /\ validation' = validation
  BY DEF Exit, EndCall
<1>2. SyncInv /\ memory \in [Workers -> SUBSET Targets]
  BY DEF CandidateInv
<1>3. SyncInv' /\ (\A c \in Contracts : Moves(c)) /\ memory' \in [Workers -> SUBSET Targets]
  BY <1>1, <1>2, JobDropped
<1> QED
  BY <1>1, <1>3, CallEnds, CallStepInv

\* A step of a download changes neither calls nor validations.
LEMMA SyncStepInv ==
  ASSUME CandidateInv, NEW w \in Workers, Sync(w)
  PROVE  CandidateInv' /\ \A c \in Contracts : Moves(c)
<1>1. Step(w) /\ validation' = validation /\ call' = call /\ memory' = memory
  BY DEF Sync
<1>2. /\ SyncInv /\ memory \in [Workers -> SUBSET Targets] /\ call \in [Workers -> CallRecords]
      /\ call[w] \in CallRecords /\ CallInv(call[w])
  BY CallParts
<1>3. SyncInv' /\ \A c \in Contracts : Moves(c)
  BY <1>1, <1>2, StepSync
<1>4. call' = [call EXCEPT ![w] = call[w]]
  BY <1>1, <1>2
<1>5. call[w].at \in {"start", "compare"} => BothNext(call[w].date)
  BY <1>2, <1>3, BothKept DEF CallInv
<1>6. CallStep(w)
  BY <1>1, <1>2, <1>3, <1>4, <1>5 DEF CallStep, CallInv
<1> QED
  BY <1>1, <1>3, <1>6, CallStepInv

(******************************************************************************)
(* The invariant of every behaviour, and what it says.                        *)
(******************************************************************************)
\* The invariant holds at the start.
LEMMA CandidateAtStart == CandidateInit => CandidateInv
<1> SUFFICES ASSUME CandidateInit PROVE CandidateInv
  OBVIOUS
<1>1. SyncInv
  BY SyncAtStart DEF CandidateInit
<1>2. NoCall \in CallRecords /\ NoCall.at = "idle"
  BY DEF NoCall, CallRecords
<1>3. call \in [Workers -> CallRecords] /\ \A w \in Workers : CallInv(call[w])
  BY <1>2 DEF CandidateInit, CallInv
<1>4. memory \in [Workers -> SUBSET Targets]
  BY DEF CandidateInit
<1>5. NoValidation \in ValidationRecords /\ NoValidation.status = "none"
      /\ NoValidation.outcome = "none" /\ NoValidation.notes = 0
  BY DEF NoValidation, ValidationRecords
<1>6. validation \in [Targets -> ValidationRecords] /\ \A d \in Targets : ValidationInv(d)
  BY <1>5 DEF CandidateInit, ValidationInv, ValidationAddsUp
<1> QED
  BY <1>1, <1>3, <1>4, <1>6 DEF CandidateInv

\* Every step keeps the invariant, and changes no successful history.
LEMMA CandidateStep ==
  ASSUME CandidateInv, [CandidateNext]_candidateVars
  PROVE  CandidateInv' /\ \A c \in Contracts : Moves(c)
<1>1. CASE UNCHANGED candidateVars
  BY <1>1 DEF candidateVars, CandidateInv, SyncInv, CanonicalInv, CallInv, ValidationInv, Both,
              ValidationAddsUp, Moves
<1>2. ASSUME NEW w \in Workers, \E d \in Targets : Read(w, d)
      PROVE  CandidateInv' /\ \A c \in Contracts : Moves(c)
  BY <1>2, ReadInv
<1>3. ASSUME NEW w \in Workers,
             CallEsun(w) \/ EsunDone(w) \/ CallTwse(w) \/ TwseDone(w) \/ Sync(w)
      PROVE  CandidateInv' /\ \A c \in Contracts : Moves(c)
  BY <1>3, CallEsunInv, EsunDoneInv, CallTwseInv, TwseDoneInv, SyncStepInv
<1>4. ASSUME NEW w \in Workers,
             OpenPair(w) \/ StartPair(w) \/ CompletePair(w) \/ FailPair(w) \/ Exit(w)
      PROVE  CandidateInv' /\ \A c \in Contracts : Moves(c)
  BY <1>4, OpenPairInv, StartPairInv, CompletePairInv, FailPairInv, ExitInv
<1> QED
  BY <1>1, <1>2, <1>3, <1>4 DEF CandidateNext

\* The invariant contains the types.
LEMMA InvTypes == CandidateInv => CandidateTypeOK
BY DEF CandidateInv, SyncInv, CanonicalInv, CallInv, CallRecords, ValidationInv, CandidateTypeOK

\* A short history that is let through reaches back to the listing: its last month
\* lies before it, and the months passed have no gap.
LEMMA InvWhole == CandidateInv => HistoriesHold
<1> SUFFICES ASSUME CandidateInv PROVE HistoriesHold
  OBVIOUS
<1>1. HistoryIsWhole
  BY DEF CandidateInv, SyncInv, RowInv, CanonicalInv, HistoryIsWhole
<1>2. ASSUME NEW d \in Targets, ShortUpTo(d)
      PROVE  MonthOf(Listed) .. MonthOf(NewestRun(d)) \subseteq history[Twse(NewestRun(d))].evidence
  <2> DEFINE target == NewestRun(d)
             row == history[Twse(target)]
  <2>1. target \in Targets
    BY <1>2, NewestExists DEF ShortUpTo, RunsUpTo
  <2>2. Twse(target) \in Contracts /\ Twse(target).target = target
    BY <2>1 DEF Twse, Contracts, Sources
  <2>3. RowInv(Twse(target), row) /\ row \in HistoryRows
    BY <2>2 DEF CandidateInv, SyncInv
  <2>4. row.months > 0 /\ Cardinality(row.evidence) >= row.months /\ row.cursor < MonthOf(Listed)
    BY <1>2 DEF ShortUpTo, LegalShort
  <2> HIDE DEF row, target
  <2>5. row.evidence # {}
    BY <2>3, <2>4, FS_EmptySet DEF HistoryRows
  <2>6. row.evidence = row.cursor + 1 .. MonthOf(target)
    BY <2>2, <2>3, <2>5 DEF RowInv, Contiguous
  <2>7. row.cursor \in Int /\ MonthOf(Listed) \in Int /\ MonthOf(target) \in Int
    BY <2>1, <2>2, <2>3, ContractType, MonthType, HistoryAssumption DEF HistoryRows
  <2>8. MonthOf(Listed) .. MonthOf(target) \subseteq row.evidence
    BY <2>4, <2>6, <2>7
  <2> QED
    BY <2>8 DEF row, target
<1>3. ShortIsWhole
  BY <1>2 DEF ShortIsWhole
<1> QED
  BY <1>1, <1>3 DEF HistoriesHold

\* No step of a download reaches an E.SUN row that a process left running: it is
\* only claimed with the resume id, which no call for E.SUN has.
LEMMA EsunRowStays ==
  ASSUME CandidateInv, [CandidateNext]_candidateVars, NEW d \in Targets,
         history[Esun(d)].status = "running",
         \A w \in Workers : job[w].of # Esun(d) \/ job[w].at \in {"claim", "returned", "raised"}
  PROVE  history'[Esun(d)] = history[Esun(d)]
<1> DEFINE o == Esun(d)
<1>1. o \in Contracts /\ o.source = "esun"
  BY DEF Esun, Contracts, Sources
<1>2. SyncInv /\ history \in [Contracts -> HistoryRows] /\ history[o] \in HistoryRows
  BY <1>1 DEF CandidateInv, SyncInv
<1> HIDE DEF o
<1>3. ASSUME NEW w \in Workers, NEW c \in Contracts, NEW resume, Call(w, c, resume)
      PROVE  history'[o] = history[o]
  <2>1. history' = [history EXCEPT ![c].status = IF @ = "none" THEN "pending" ELSE @]
    BY <1>3 DEF Call
  <2>2. CASE c # o
    BY <1>1, <1>2, <2>1, <2>2
  <2>3. CASE c = o
    <3>1. history'[o] = [history[o] EXCEPT !.status = history[o].status]
      BY <1>1, <1>2, <2>1, <2>3 DEF o
    <3> QED
      BY <1>2, <3>1 DEF HistoryRows
  <2> QED
    BY <2>2, <2>3
<1>4. ASSUME NEW w \in Workers, Step(w) PROVE history'[o] = history[o]
  <2>1. JobInv(job[w])
    BY <1>2 DEF SyncInv
  <2>2. CASE job[w].of # o
    BY <1>1, <1>2, <1>4, <2>2 DEF Step, Claim, Fetch, CheckpointMonth, Finish, MarkFailed
  <2>3. CASE job[w].of = o
    <3>1. job[w].at \in {"claim", "returned", "raised"}
      BY <2>3 DEF o
    <3>2. Claim(w) /\ job[w].resume = "none"
      BY <1>1, <1>4, <2>1, <2>3, <3>1
      DEF JobInv, Step, Claim, Fetch, CheckpointMonth, Finish, MarkFailed
    <3>3. history[job[w].of].status = "running"
      BY <2>3 DEF o
    <3> QED
      BY <3>2, <3>3 DEF Claim
  <2> QED
    BY <2>2, <2>3
<1>5. ASSUME NEW w \in Workers, CallEsun(w) \/ CallTwse(w) PROVE history'[o] = history[o]
  <2>1. call[w].date \in Targets
    BY <1>5, CallParts DEF CallEsun, CallTwse
  <2>2. Esun(call[w].date) \in Contracts /\ Twse(call[w].date) \in Contracts
    BY <2>1 DEF Esun, Twse, Contracts, Sources
  <2> QED
    BY <1>3, <1>5, <2>2 DEF CallEsun, CallTwse
<1>6. CASE UNCHANGED candidateVars
  BY <1>6 DEF candidateVars
<1>7. ASSUME NEW w \in Workers,
             \/ \E e \in Targets : Read(w, e)
             \/ EsunDone(w) \/ TwseDone(w)
             \/ OpenPair(w) \/ StartPair(w) \/ CompletePair(w) \/ FailPair(w) \/ Exit(w)
      PROVE  history' = history
  BY <1>7 DEF Read, EsunDone, TwseDone, Return, OpenPair, StartPair, CompletePair, FailPair, Exit
<1> QED
  BY <1>4, <1>5, <1>6, <1>7 DEF CandidateNext, Sync, o

\* A step that writes a validation writes one that did not succeed.
LEMMA SuccessfulPairStands ==
  ASSUME CandidateInv, [CandidateNext]_candidateVars, NEW d \in Targets,
         validation[d].status = "success"
  PROVE  validation'[d] = validation[d]
<1>1. validation \in [Targets -> ValidationRecords] /\ validation[d] \in ValidationRecords
  BY DEF CandidateInv
<1>2. CASE UNCHANGED candidateVars
  BY <1>2 DEF candidateVars
<1>3. ASSUME NEW w \in Workers,
             \/ \E e \in Targets : Read(w, e)
             \/ CallEsun(w) \/ EsunDone(w) \/ CallTwse(w) \/ TwseDone(w) \/ Sync(w) \/ Exit(w)
      PROVE  validation' = validation
  BY <1>3 DEF Read, CallEsun, EsunDone, CallTwse, TwseDone, Sync, Exit
<1>4. ASSUME NEW w \in Workers, OpenPair(w) \/ StartPair(w) \/ CompletePair(w)
      PROVE  validation'[d] = validation[d]
  <2>1. CASE OpenPair(w)
    BY <1>1, <2>1 DEF OpenPair
  <2>2. CASE StartPair(w)
    BY <1>1, <2>2 DEF StartPair
  <2>3. CASE CompletePair(w)
    BY <1>1, <2>3 DEF CompletePair, MayCompletePair
  <2> QED
    BY <1>4, <2>1, <2>2, <2>3
<1>5. ASSUME NEW w \in Workers, FailPair(w) PROVE validation'[d] = validation[d]
  <2>1. validation' = [validation EXCEPT ![call[w].date].status = IF @ = "running" THEN "failed" ELSE @]
    BY <1>5 DEF FailPair
  <2>2. CASE call[w].date # d
    BY <1>1, <2>1, <2>2
  <2>3. CASE call[w].date = d
    <3>1. validation'[d] = [validation[d] EXCEPT !.status = validation[d].status]
      BY <1>1, <2>1, <2>3
    <3> QED
      BY <1>1, <3>1 DEF ValidationRecords
  <2> QED
    BY <2>2, <2>3
<1> QED
  BY <1>2, <1>3, <1>4, <1>5 DEF CandidateNext

\* The invariant holds in every reachable state.
THEOREM CandidateInvariant == CandidateSpec => []CandidateInv
<1>1. CandidateInv /\ [CandidateNext]_candidateVars => CandidateInv'
  BY CandidateStep
<1> QED
  BY CandidateAtStart, <1>1, PTL DEF CandidateSpec

\* Rows, calls, jobs and validations keep their types, for any number of processes,
\* targets and prices.
THEOREM CandidateTypes == CandidateSpec => []CandidateTypeOK
BY CandidateInvariant, InvTypes, PTL

\* Every stored history is whole: no gap behind the cursor, no day of a wrong month
\* or twice, no success that is short, no canonical price of E.SUN; and a short one
\* that is let through has every month back to the listing.
THEOREM HistoriesAreWhole == CandidateSpec => []HistoriesHold
BY CandidateInvariant, InvWhole, PTL

\* What succeeded stands, every validation adds up, and an E.SUN row that a process
\* left running stays as it is.
THEOREM HistoriesStand == CandidateSpec => HistoryStands
<1> DEFINE Stands ==
      /\ SuccessfulHistoryStands
      /\ \A d \in Targets : validation[d].status = "success" => validation'[d] = validation[d]
      /\ \A d \in Targets : ValidationAddsUp(d)'
      /\ \A d \in Targets :
           /\ history[Esun(d)].status = "running"
           /\ \A w \in Workers : job[w].of # Esun(d) \/ job[w].at \in {"claim", "returned", "raised"}
           => history'[Esun(d)] = history[Esun(d)]
<1>1. ASSUME CandidateInv, [CandidateNext]_candidateVars
      PROVE  Stands
  <2>1. CandidateInv' /\ \A c \in Contracts : Moves(c)
    BY <1>1, CandidateStep
  <2>2. SuccessfulHistoryStands
    BY <2>1 DEF SuccessfulHistoryStands, Moves
  <2>3. \A d \in Targets : validation[d].status = "success" => validation'[d] = validation[d]
    BY <1>1, SuccessfulPairStands
  <2>4. \A d \in Targets : ValidationAddsUp(d)'
    BY <2>1 DEF CandidateInv, ValidationInv
  <2>5. ASSUME NEW d \in Targets, history[Esun(d)].status = "running",
               \A w \in Workers : job[w].of # Esun(d) \/ job[w].at \in {"claim", "returned", "raised"}
        PROVE  history'[Esun(d)] = history[Esun(d)]
    BY <1>1, <2>5, EsunRowStays
  <2> QED
    BY <2>2, <2>3, <2>4, <2>5
<1>2. CandidateInv /\ [CandidateNext]_candidateVars => [Stands]_candidateVars
  BY <1>1
<1> QED
  BY CandidateInvariant, <1>2, PTL DEF CandidateSpec, HistoryStands
=============================================================================
