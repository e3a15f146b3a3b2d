------------------------- MODULE ScreenerCheckpoint -------------------------
(***************************************************************************)
(* One screener run and its candidate checkpoints, as the repositories of  *)
(* app/storage/candidate_persistence.py and screener_replay.py write them: *)
(* the run with a row per shortlisted candidate, the checkpoint of one     *)
(* candidate, and the finalization that ranks and seals.  Each method is   *)
(* one BEGIN IMMEDIATE transaction, hence one action, and the 'running'    *)
(* status a candidate has inside it is never seen from outside.  The       *)
(* methods are called in any order, by anyone.                             *)
(*                                                                         *)
(* A bundle stands for all that is stored with a candidate: reasons,       *)
(* metrics, provenance, snapshot, and the hash over them.  The locator of  *)
(* the production factory names only symbol and date, so that nothing ties *)
(* a candidate to one bundle: two attempts may come to different ones.     *)
(*                                                                         *)
(* Left out: the universe and the dataset versions, immutable rows a call  *)
(* is refused without; other runs, which share no row with this one.       *)
(***************************************************************************)
EXTENDS Naturals, FiniteSets, Functions

CONSTANTS
    CandidateCount, \* length of the Stage 1 shortlist
    Successes,      \* bundles of a candidate that was researched
    Failures,       \* bundles of a candidate whose research failed
    Weight,         \* _priority_key of a bundle, up to the Stage 1 rank
    NoBundle,       \* children not written yet
    NoSeal,         \* the NULL canonical_sha256
    MaxRetries      \* bound: retries of a run

Candidates == 1..CandidateCount

Bundles == Successes \cup Failures

ASSUME ScreenerAssumption ==
    /\ CandidateCount \in Nat /\ MaxRetries \in Nat
    /\ Weight \in [Successes -> Nat]
    /\ Successes \cap Failures = {} /\ NoBundle \notin Bundles

(* A candidate is known by its Stage 1 rank. *)
VARIABLES
    run,            \* screener_runs
    candidate       \* screener_candidates

screenerVars == <<run, candidate>>

Output == [Candidates -> [rank : 0..CandidateCount, bundle : Bundles \cup {NoBundle}]]

ScreenerRunRow ==
    [status : {"none", "running", "partial_success", "failed", "success"},
     attempts : 0..MaxRetries + 1, seal : Output \cup {NoSeal}]

(* Rank 0 is NULL. *)
CandidateRow ==
    [status : {"none", "pending", "success", "failed"},
     bundle : Bundles \cup {NoBundle}, attempts : 0..MaxRetries + 1,
     rank : 0..CandidateCount]

NoCandidateRow == [status |-> "none", bundle |-> NoBundle, attempts |-> 0, rank |-> 0]

Having(rows, status) == {c \in Candidates : rows[c].status = status}

(* What is hashed at finalization, and rebuilt and compared on replay. *)
OutputOf(rows) == [c \in Candidates |-> [rank |-> rows[c].rank, bundle |-> rows[c].bundle]]

----------------------------------------------------------------------------

ScreenerInit ==
    /\ run = [status |-> "none", attempts |-> 0, seal |-> NoSeal]
    /\ candidate = [c \in Candidates |-> NoCandidateRow]

(* create_run: the run and its pending candidates, unless they are there.  *)
CreateRun ==
    \/ /\ run.status = "none"
       /\ run' = [run EXCEPT !.status = "running", !.attempts = 1]
       /\ candidate' = [c \in Candidates |-> [NoCandidateRow EXCEPT !.status = "pending"]]
    \/ run.status # "none" /\ UNCHANGED screenerVars

(* Mutant: a candidate that succeeded may be written again. *)
WritesAnyway(c, retry) ==
    /\ run.status # "success"
    /\ candidate[c].status \in (IF retry THEN {"failed", "success"} ELSE {"pending"})

(* Mutant: nor is the status of the run asked. *)
WritesSealed(c, retry) ==
    candidate[c].status \in (IF retry THEN {"failed", "success"} ELSE {"pending"})

(* persist_candidate writes the bundle: a first checkpoint, or the         *)
(* replacement of a failure that the caller asks for.                      *)
Writes(c, retry) ==
    /\ run.status # "success"
    /\ candidate[c].status = IF retry THEN "failed" ELSE "pending"

(* persist_candidate finds what it was given, and writes nothing. *)
Replays(c, b, retry) ==
    /\ run.status # "success" /\ ~ retry
    /\ candidate[c].status \in {"success", "failed"} /\ candidate[c].bundle = b

(* Mutant: the run is settled while candidates are pending. *)
RefreshedEarly(rows) ==
    IF Having(rows, "failed") = {} THEN "running"
    ELSE IF Having(rows, "success") # {} THEN "partial_success" ELSE "failed"

(* The status _refresh_run_status computes from the candidates. *)
RefreshedStatus(rows) ==
    IF Having(rows, "pending") # {} \/ Having(rows, "failed") = {} THEN "running"
    ELSE IF Having(rows, "success") # {} THEN "partial_success" ELSE "failed"

Checkpointed(row, b) ==
    [row EXCEPT !.status = IF b \in Failures THEN "failed" ELSE "success",
                !.bundle = b, !.attempts = @ + 1]

(* Mutant: only the candidate counts the retry. *)
PersistUncounted(c, b, retry) ==
    /\ Writes(c, retry)
    /\ candidate' = [candidate EXCEPT ![c] = Checkpointed(@, b)]
    /\ run' = [run EXCEPT !.status = RefreshedStatus(candidate')]

(* persist_candidate, when it writes: the candidate passes through         *)
(* 'running' to its verdict; a retry also reopens the run, which counts as *)
(* an attempt of it; the status of the run is recomputed.                  *)
PersistCandidate(c, b, retry) ==
    /\ Writes(c, retry)
    /\ retry => run.attempts =< MaxRetries
    /\ candidate' = [candidate EXCEPT ![c] = Checkpointed(@, b)]
    /\ run' = [run EXCEPT !.status = RefreshedStatus(candidate'),
                          !.attempts = IF retry THEN @ + 1 ELSE @]

(* Mutant: ties are left to the order of the rows. *)
PrecedesOrTies(c, d) == Weight[candidate[c].bundle] < Weight[candidate[d].bundle]

(* _priority_key: a tie is decided by the Stage 1 rank, which is unique.   *)
Precedes(c, d) ==
    \/ Weight[candidate[c].bundle] < Weight[candidate[d].bundle]
    \/ Weight[candidate[c].bundle] = Weight[candidate[d].bundle] /\ c < d

FinalRank(c) == Cardinality({d \in Candidates : Precedes(d, c)}) + 1

(* finalize_run goes on: the run is open and every candidate succeeded. *)
Finalizable == run.status = "running" /\ Having(candidate, "success") = Candidates

(* Mutant: the hash is taken before the ranks are written. *)
FinalizeUnranked ==
    /\ Finalizable
    /\ candidate' = [c \in Candidates |-> [candidate[c] EXCEPT !.rank = FinalRank(c)]]
    /\ run' = [run EXCEPT !.status = "success", !.seal = OutputOf(candidate)]

(* finalize_run, when it seals: ranks, then the hash over the output.      *)
FinalizeRun ==
    /\ Finalizable
    /\ candidate' = [c \in Candidates |-> [candidate[c] EXCEPT !.rank = FinalRank(c)]]
    /\ run' = [run EXCEPT !.status = "success", !.seal = OutputOf(candidate')]

ScreenerNext ==
    \/ CreateRun
    \/ \E c \in Candidates, b \in Bundles, retry \in BOOLEAN : PersistCandidate(c, b, retry)
    \/ FinalizeRun

ScreenerSpec == ScreenerInit /\ [][ScreenerNext]_screenerVars

----------------------------------------------------------------------------

(* Every variable keeps its type. *)
ScreenerTypeOK ==
    /\ run \in ScreenerRunRow
    /\ candidate \in [Candidates -> CandidateRow]

(* The status of the run tells the truth about its candidates, through     *)
(* failures, retries and finalization: partial_success and failed are said *)
(* only when nothing is pending, and a run that is running has work left   *)
(* or only needs to be finalized.                                          *)
StatusMatchesCandidates ==
    /\ run.status = "running" => Having(candidate, "pending") # {} \/ Having(candidate, "failed") = {}
    /\ run.status = "failed" => Candidates # {} /\ Having(candidate, "failed") = Candidates
    /\ run.status = "partial_success" =>
          /\ Having(candidate, "failed") # {} /\ Having(candidate, "success") # {}
          /\ Having(candidate, "failed") \cup Having(candidate, "success") = Candidates
    /\ run.status = "success" => Having(candidate, "success") = Candidates

(* A sealed run can be replayed: what the candidate rows say now, ranks    *)
(* included, is what was hashed.                                           *)
SealMatchesRows ==
    /\ run.status = "success" => run.seal = OutputOf(candidate)
    /\ run.status # "success" => run.seal = NoSeal /\ \A c \in Candidates : candidate[c].rank = 0

(* Final ranks number the candidates without gaps or ties, whatever the    *)
(* weights of their bundles.                                               *)
RanksAreAnOrder ==
    run.status = "success" => {candidate[c].rank : c \in Candidates} = Candidates

(* The run's count of attempts is the first and every retry of one of its  *)
(* candidates.                                                             *)
AttemptsAddUp ==
    run.status # "none" =>
        run.attempts = 1 + SumFunction([c \in Candidates |->
                               IF candidate[c].attempts = 0 THEN 0 ELSE candidate[c].attempts - 1])

(* "Successful candidate is immutable": its bundle is kept for good, in a  *)
(* run that is retried as in one that is sealed.                           *)
SuccessfulCandidateKept ==
    [][\A c \in Candidates :
          candidate[c].status = "success" =>
             /\ candidate'[c].status = "success"
             /\ candidate'[c].bundle = candidate[c].bundle]_screenerVars

(* A sealed run never changes, nor does any of its candidates. *)
SealedForGood == [][run.status # "success"]_screenerVars

(* A sealed run can be replayed and its ranks number the shortlist, for    *)
(* any weights and any order of checkpoints, retries and finalizations.    *)
SealedResultHolds == SealMatchesRows /\ RanksAreAnOrder

(* What succeeded is kept: a candidate's bundle through every retry, and   *)
(* everything once the run is sealed.                                      *)
ResultsKept ==
    [][/\ run.status # "success"
       /\ \A c \in Candidates :
             candidate[c].status = "success" =>
                /\ candidate'[c].status = "success"
                /\ candidate'[c].bundle = candidate[c].bundle]_screenerVars
=============================================================================
