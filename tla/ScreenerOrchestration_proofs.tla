-------------------- MODULE ScreenerOrchestration_proofs --------------------
(***************************************************************************)
(* Theorems about ScreenerCheckpoint, for any shortlist, any bundles and   *)
(* any weights; and about ScreenerOrchestration, which calls it, for any   *)
(* number of processes and of calls.                                       *)
(***************************************************************************)
EXTENDS ScreenerOrchestration, FiniteSetTheorems, TLAPS

USE ScreenerAssumption

----------------------------------------------------------------------------
(* The rows of a run: ScreenerCheckpoint.                                  *)
----------------------------------------------------------------------------

(* Every candidate was researched, so that it has a weight. *)
Weighed == \A c \in Candidates : candidate[c].bundle \in Successes

(* Weights, with ties broken by the Stage 1 rank, order the candidates.    *)
LEMMA PrecedesIsAnOrder ==
    Weighed =>
    /\ \A c \in Candidates : ~ Precedes(c, c)
    /\ \A c, d \in Candidates : c # d => Precedes(c, d) \/ Precedes(d, c)
    /\ \A c, d, e \in Candidates : Precedes(c, d) /\ Precedes(d, e) => Precedes(c, e)
<1> SUFFICES ASSUME Weighed
             PROVE  /\ \A c \in Candidates : ~ Precedes(c, c)
                    /\ \A c, d \in Candidates : c # d => Precedes(c, d) \/ Precedes(d, c)
                    /\ \A c, d, e \in Candidates : Precedes(c, d) /\ Precedes(d, e) => Precedes(c, e)
  OBVIOUS
<1> DEFINE W(c) == Weight[candidate[c].bundle]
<1>1. \A c \in Candidates : W(c) \in Nat
  BY DEF Weighed
<1>2. \A c, d \in Candidates : Precedes(c, d) <=> W(c) < W(d) \/ (W(c) = W(d) /\ c < d)
  BY DEF Precedes
<1>3. \A c \in Candidates : c \in Int
  BY DEF Candidates
<1> HIDE DEF W
<1> QED
  BY <1>1, <1>2, <1>3

LEMMA CandidatesFinite ==
    IsFiniteSet(Candidates) /\ Cardinality(Candidates) = CandidateCount
BY FS_Interval DEF Candidates

Predecessors(c) == {d \in Candidates : Precedes(d, c)}

LEMMA PredecessorsFinite ==
    \A c \in Candidates :
       /\ IsFiniteSet(Predecessors(c)) /\ Cardinality(Predecessors(c)) \in Nat
       /\ FinalRank(c) = Cardinality(Predecessors(c)) + 1
<1> SUFFICES ASSUME NEW c \in Candidates
             PROVE  /\ IsFiniteSet(Predecessors(c)) /\ Cardinality(Predecessors(c)) \in Nat
                    /\ FinalRank(c) = Cardinality(Predecessors(c)) + 1
  OBVIOUS
<1>1. Predecessors(c) \in SUBSET Candidates
  BY DEF Predecessors
<1>2. IsFiniteSet(Predecessors(c))
  BY <1>1, CandidatesFinite, FS_Subset
<1>3. Cardinality(Predecessors(c)) \in Nat
  BY <1>2, FS_CardinalityType
<1> QED
  BY <1>2, <1>3 DEF FinalRank, Predecessors

(* A rank is a number of the shortlist. *)
LEMMA RankInRange == Weighed => \A c \in Candidates : FinalRank(c) \in Candidates
<1> SUFFICES ASSUME Weighed, NEW c \in Candidates
             PROVE  FinalRank(c) \in Candidates
  OBVIOUS
<1>1. Predecessors(c) \in SUBSET (Candidates \ {c})
  BY PrecedesIsAnOrder DEF Predecessors
<1>2. IsFiniteSet(Candidates \ {c}) /\ Cardinality(Candidates \ {c}) = CandidateCount - 1
  BY CandidatesFinite, FS_RemoveElement
<1>3. Cardinality(Predecessors(c)) =< CandidateCount - 1
  BY <1>1, <1>2, FS_Subset
<1> QED
  BY <1>3, PredecessorsFinite DEF Candidates

(* The better candidate has the smaller rank. *)
LEMMA RankFollowsOrder ==
    Weighed => \A c, d \in Candidates : Precedes(c, d) => FinalRank(c) < FinalRank(d)
<1> SUFFICES ASSUME Weighed, NEW c \in Candidates, NEW d \in Candidates, Precedes(c, d)
             PROVE  FinalRank(c) < FinalRank(d)
  OBVIOUS
<1>1. Predecessors(c) \cup {c} \in SUBSET Predecessors(d)
  BY PrecedesIsAnOrder DEF Predecessors
<1>2. c \notin Predecessors(c)
  BY PrecedesIsAnOrder DEF Predecessors
<1>3. Cardinality(Predecessors(c) \cup {c}) = Cardinality(Predecessors(c)) + 1
  BY <1>2, PredecessorsFinite, FS_AddElement
<1>4. Cardinality(Predecessors(c) \cup {c}) =< Cardinality(Predecessors(d))
  BY <1>1, PredecessorsFinite, FS_Subset
<1> QED
  BY <1>3, <1>4, PredecessorsFinite

(* The ranks are the numbers of the shortlist, each given once. *)
LEMMA RanksCover == Weighed => {FinalRank(c) : c \in Candidates} = Candidates
<1> SUFFICES ASSUME Weighed
             PROVE  {FinalRank(c) : c \in Candidates} = Candidates
  OBVIOUS
<1> DEFINE f == [c \in Candidates |-> FinalRank(c)]
<1>1. f \in [Candidates -> Candidates]
  BY RankInRange
<1>2. \A c, d \in Candidates : f[c] = f[d] => c = d
  <2> SUFFICES ASSUME NEW c \in Candidates, NEW d \in Candidates, c # d
               PROVE  FinalRank(c) # FinalRank(d)
    OBVIOUS
  <2>1. FinalRank(c) \in Int /\ FinalRank(d) \in Int
    BY RankInRange DEF Candidates
  <2>2. FinalRank(c) < FinalRank(d) \/ FinalRank(d) < FinalRank(c)
    BY PrecedesIsAnOrder, RankFollowsOrder
  <2> QED
    BY <2>1, <2>2
<1>3. f \in Injection(Candidates, Candidates)
  BY <1>1, <1>2 DEF Injection, IsInjective
<1>4. f \in Surjection(Candidates, Candidates)
  BY <1>3, CandidatesFinite, FS_Injection
<1>5. \A r \in Candidates : \E c \in Candidates : f[c] = r
  BY <1>4 DEF Surjection
<1> QED
  BY <1>1, <1>5

----------------------------------------------------------------------------

(* What a row says of itself and of the run. *)
RowsInv ==
    \A c \in Candidates :
       /\ candidate[c].attempts =< run.attempts
       /\ candidate[c].status = "none" <=> run.status = "none"
       /\ candidate[c].status \in {"none", "pending"} =>
             candidate[c].attempts = 0 /\ candidate[c].bundle = NoBundle
       /\ candidate[c].status = "success" => candidate[c].bundle \in Successes
       /\ candidate[c].status = "failed" => candidate[c].bundle \in Failures

RunCounted == run.status = "none" <=> run.attempts = 0

(* The inductive invariant. *)
CheckpointInv ==
    /\ ScreenerTypeOK
    /\ RowsInv
    /\ RunCounted
    /\ StatusMatchesCandidates
    /\ SealMatchesRows
    /\ RanksAreAnOrder

(* What a checkpoint does to the rows. *)
LEMMA PersistEffect ==
    ScreenerTypeOK /\ RowsInv =>
    \A c \in Candidates, b \in Bundles, retry \in BOOLEAN :
       PersistCandidate(c, b, retry) =>
       /\ candidate' \in [Candidates -> CandidateRow]
       /\ candidate'[c].status = IF b \in Failures THEN "failed" ELSE "success"
       /\ candidate'[c].bundle = b
       /\ candidate'[c].rank = candidate[c].rank
       /\ candidate'[c].attempts = candidate[c].attempts + 1
       /\ \A d \in Candidates \ {c} : candidate'[d] = candidate[d]
       /\ run' \in ScreenerRunRow
       /\ run'.status = RefreshedStatus(candidate')
       /\ run'.seal = run.seal
       /\ run'.attempts = IF retry THEN run.attempts + 1 ELSE run.attempts
<1> SUFFICES ASSUME ScreenerTypeOK, RowsInv,
                    NEW c \in Candidates, NEW b \in Bundles, NEW retry \in BOOLEAN,
                    PersistCandidate(c, b, retry)
             PROVE  /\ candidate' \in [Candidates -> CandidateRow]
                    /\ candidate'[c].status = IF b \in Failures THEN "failed" ELSE "success"
                    /\ candidate'[c].bundle = b
                    /\ candidate'[c].rank = candidate[c].rank
                    /\ candidate'[c].attempts = candidate[c].attempts + 1
                    /\ \A d \in Candidates \ {c} : candidate'[d] = candidate[d]
                    /\ run' \in ScreenerRunRow
                    /\ run'.status = RefreshedStatus(candidate')
                    /\ run'.seal = run.seal
                    /\ run'.attempts = IF retry THEN run.attempts + 1 ELSE run.attempts
  OBVIOUS
<1> DEFINE row == Checkpointed(candidate[c], b)
<1>1. /\ candidate \in [Candidates -> CandidateRow] /\ run \in ScreenerRunRow
      /\ candidate[c] \in CandidateRow
  BY DEF ScreenerTypeOK
<1>2. candidate[c].attempts + 1 =< MaxRetries + 1
  <2>1. CASE retry
    <3>1. run.attempts =< MaxRetries
      BY <2>1 DEF PersistCandidate
    <3> QED
      BY <1>1, <3>1 DEF RowsInv, CandidateRow, ScreenerRunRow
  <2>2. CASE ~ retry
    <3>1. candidate[c].status = "pending"
      BY <2>2 DEF PersistCandidate, Writes
    <3> QED
      BY <3>1 DEF RowsInv
  <2> QED
    BY <2>1, <2>2
<1>3. /\ row \in CandidateRow
      /\ row.status = IF b \in Failures THEN "failed" ELSE "success"
      /\ row.bundle = b /\ row.rank = candidate[c].rank
      /\ row.attempts = candidate[c].attempts + 1
  <2> DEFINE verdict == IF b \in Failures THEN "failed" ELSE "success"
             attempts == candidate[c].attempts + 1
  <2>1. row = [candidate[c] EXCEPT !.status = verdict, !.bundle = b, !.attempts = attempts]
    BY DEF Checkpointed
  <2>2. verdict \in {"failed", "success"}
    OBVIOUS
  <2>3. attempts \in 0..MaxRetries + 1
    BY <1>1, <1>2 DEF CandidateRow
  <2> HIDE DEF row, verdict, attempts
  <2>4. row \in CandidateRow
    BY <1>1, <2>1, <2>2, <2>3 DEF CandidateRow
  <2>5. row.status = verdict /\ row.bundle = b /\ row.rank = candidate[c].rank /\ row.attempts = attempts
    BY <1>1, <2>1 DEF CandidateRow
  <2> QED
    BY <2>4, <2>5 DEF verdict, attempts
<1>4. candidate' = [candidate EXCEPT ![c] = row]
  BY DEF PersistCandidate
<1> HIDE DEF row
<1>5. /\ candidate' \in [Candidates -> CandidateRow]
      /\ candidate'[c] = row
      /\ \A d \in Candidates \ {c} : candidate'[d] = candidate[d]
  BY <1>1, <1>3, <1>4
<1>6. /\ run' \in ScreenerRunRow
      /\ run'.status = RefreshedStatus(candidate')
      /\ run'.seal = run.seal
      /\ run'.attempts = IF retry THEN run.attempts + 1 ELSE run.attempts
  <2>1. RefreshedStatus(candidate') \in {"running", "partial_success", "failed"}
    BY DEF RefreshedStatus
  <2> DEFINE status == RefreshedStatus(candidate')
             attempts == IF retry THEN run.attempts + 1 ELSE run.attempts
  <2>2. run' = [run EXCEPT !.status = status, !.attempts = attempts]
    BY <1>1 DEF PersistCandidate, ScreenerRunRow
  <2>3. attempts \in 0..MaxRetries + 1
    <3>1. run.attempts \in 0..MaxRetries + 1 /\ (retry => run.attempts =< MaxRetries)
      BY <1>1 DEF ScreenerRunRow, PersistCandidate
    <3> QED
      BY <3>1
  <2>4. status \in {"running", "partial_success", "failed"}
    BY <2>1
  <2> HIDE DEF status
  <2>5. run'.attempts = attempts /\ run'.status = status /\ run'.seal = run.seal
    BY <1>1, <2>2 DEF ScreenerRunRow
  <2>6. run' \in ScreenerRunRow
    <3> HIDE DEF attempts
    <3> QED
      BY <1>1, <2>2, <2>3, <2>4 DEF ScreenerRunRow
  <2> QED
    BY <2>5, <2>6 DEF status
<1> QED
  BY <1>3, <1>5, <1>6

(* What finalization does to the rows. *)
LEMMA FinalizeEffect ==
    CheckpointInv /\ FinalizeRun =>
    /\ candidate' \in [Candidates -> CandidateRow]
    /\ \A c \in Candidates :
          /\ candidate'[c].status = "success" /\ candidate'[c].status = candidate[c].status
          /\ candidate'[c].bundle = candidate[c].bundle
          /\ candidate'[c].attempts = candidate[c].attempts
          /\ candidate'[c].rank = FinalRank(c)
    /\ run' \in ScreenerRunRow
    /\ run'.status = "success" /\ run'.attempts = run.attempts
    /\ run'.seal = OutputOf(candidate')
    /\ Weighed
<1> SUFFICES ASSUME CheckpointInv, FinalizeRun
             PROVE  /\ candidate' \in [Candidates -> CandidateRow]
                    /\ \A c \in Candidates :
                          /\ candidate'[c].status = "success"
                          /\ candidate'[c].status = candidate[c].status
                          /\ candidate'[c].bundle = candidate[c].bundle
                          /\ candidate'[c].attempts = candidate[c].attempts
                          /\ candidate'[c].rank = FinalRank(c)
                    /\ run' \in ScreenerRunRow
                    /\ run'.status = "success" /\ run'.attempts = run.attempts
                    /\ run'.seal = OutputOf(candidate')
                    /\ Weighed
  OBVIOUS
<1>1. candidate \in [Candidates -> CandidateRow] /\ run \in ScreenerRunRow
  BY DEF CheckpointInv, ScreenerTypeOK
<1>2. \A c \in Candidates : candidate[c].status = "success"
  BY DEF FinalizeRun, Finalizable, Having
<1>3. Weighed
  BY <1>2 DEF CheckpointInv, RowsInv, Weighed
<1>4. \A c \in Candidates : FinalRank(c) \in 0..CandidateCount
  BY <1>3, RankInRange DEF Candidates
<1>5. candidate' = [c \in Candidates |-> [candidate[c] EXCEPT !.rank = FinalRank(c)]]
  BY DEF FinalizeRun
<1>6. \A c \in Candidates :
         /\ candidate'[c] \in CandidateRow
         /\ candidate'[c].status = candidate[c].status
         /\ candidate'[c].bundle = candidate[c].bundle
         /\ candidate'[c].attempts = candidate[c].attempts
         /\ candidate'[c].rank = FinalRank(c)
  <2> SUFFICES ASSUME NEW c \in Candidates
               PROVE  /\ candidate'[c] \in CandidateRow
                      /\ candidate'[c].status = candidate[c].status
                      /\ candidate'[c].bundle = candidate[c].bundle
                      /\ candidate'[c].attempts = candidate[c].attempts
                      /\ candidate'[c].rank = FinalRank(c)
    OBVIOUS
  <2> DEFINE r == FinalRank(c)
  <2>1. candidate'[c] = [candidate[c] EXCEPT !.rank = r] /\ r \in 0..CandidateCount
    BY <1>4, <1>5
  <2> HIDE DEF r
  <2>2. /\ candidate'[c] \in CandidateRow
        /\ candidate'[c].status = candidate[c].status
        /\ candidate'[c].bundle = candidate[c].bundle
        /\ candidate'[c].attempts = candidate[c].attempts
        /\ candidate'[c].rank = r
    BY <1>1, <2>1 DEF CandidateRow
  <2> QED
    BY <2>2 DEF r
<1>7. candidate' \in [Candidates -> CandidateRow]
  BY <1>5, <1>6
<1>8. OutputOf(candidate') \in Output
  BY <1>7 DEF OutputOf, Output, CandidateRow
<1>9. /\ run' \in ScreenerRunRow
      /\ run'.status = "success" /\ run'.attempts = run.attempts
      /\ run'.seal = OutputOf(candidate')
  <2> DEFINE seal == OutputOf(candidate')
  <2>1. run' = [run EXCEPT !.status = "success", !.seal = seal] /\ seal \in Output
    BY <1>8 DEF FinalizeRun
  <2> HIDE DEF seal
  <2>2. run' \in ScreenerRunRow /\ run'.status = "success" /\ run'.attempts = run.attempts /\ run'.seal = seal
    BY <1>1, <2>1 DEF ScreenerRunRow
  <2> QED
    BY <2>2 DEF seal
<1> QED
  BY <1>2, <1>3, <1>6, <1>7, <1>9

----------------------------------------------------------------------------

(* Each kind of step preserves the inductive invariant. *)
LEMMA InitInv == ScreenerInit => CheckpointInv
<1> SUFFICES ASSUME ScreenerInit
             PROVE  CheckpointInv
  OBVIOUS
<1>1. run.status = "none" /\ run.attempts = 0 /\ run.seal = NoSeal
  BY DEF ScreenerInit
<1>2. \A c \in Candidates :
         /\ candidate[c].status = "none" /\ candidate[c].bundle = NoBundle
         /\ candidate[c].attempts = 0 /\ candidate[c].rank = 0
  BY DEF ScreenerInit, NoCandidateRow
<1>3. 0 \in 0..MaxRetries + 1 /\ 0 \in 0..CandidateCount
  OBVIOUS
<1>4. ScreenerTypeOK
  BY <1>3 DEF ScreenerInit, ScreenerTypeOK, ScreenerRunRow, CandidateRow, NoCandidateRow
<1>5. RowsInv /\ RunCounted
  BY <1>1, <1>2 DEF RowsInv, RunCounted
<1>6. StatusMatchesCandidates /\ SealMatchesRows /\ RanksAreAnOrder
  BY <1>1, <1>2 DEF StatusMatchesCandidates, SealMatchesRows, RanksAreAnOrder
<1> QED
  BY <1>4, <1>5, <1>6 DEF CheckpointInv

LEMMA CreateInv == CheckpointInv /\ CreateRun => CheckpointInv'
<1> SUFFICES ASSUME CheckpointInv, CreateRun
             PROVE  CheckpointInv'
  OBVIOUS
<1>1. CASE UNCHANGED screenerVars
  BY <1>1 DEF CheckpointInv, screenerVars, ScreenerTypeOK, RowsInv, RunCounted,
     StatusMatchesCandidates, SealMatchesRows, RanksAreAnOrder, Having
<1>2. CASE /\ run.status = "none"
           /\ run' = [run EXCEPT !.status = "running", !.attempts = 1]
           /\ candidate' = [c \in Candidates |-> [NoCandidateRow EXCEPT !.status = "pending"]]
  <2>1. run \in ScreenerRunRow /\ run.seal = NoSeal
    BY <1>2 DEF CheckpointInv, ScreenerTypeOK, SealMatchesRows
  <2>2. 0 \in 0..CandidateCount /\ 0 \in 0..MaxRetries + 1 /\ 1 \in 0..MaxRetries + 1
    OBVIOUS
  <2>3. /\ run' \in ScreenerRunRow
        /\ run'.status = "running" /\ run'.attempts = 1 /\ run'.seal = NoSeal
    BY <1>2, <2>1, <2>2 DEF ScreenerRunRow
  <2>4. \A c \in Candidates :
           /\ candidate'[c] \in CandidateRow
           /\ candidate'[c].status = "pending" /\ candidate'[c].attempts = 0
           /\ candidate'[c].rank = 0 /\ candidate'[c].bundle = NoBundle
    BY <1>2, <2>2 DEF NoCandidateRow, CandidateRow
  <2>5. ScreenerTypeOK'
    BY <1>2, <2>3, <2>4 DEF ScreenerTypeOK
  <2>6. RowsInv' /\ RunCounted'
    BY <2>3, <2>4 DEF RowsInv, RunCounted
  <2>7. StatusMatchesCandidates' /\ SealMatchesRows' /\ RanksAreAnOrder'
    BY <2>3, <2>4 DEF StatusMatchesCandidates, SealMatchesRows, RanksAreAnOrder, Having
  <2> QED
    BY <2>5, <2>6, <2>7 DEF CheckpointInv
<1> QED
  BY <1>1, <1>2 DEF CreateRun

LEMMA PersistInv ==
    CheckpointInv =>
    \A c \in Candidates, b \in Bundles, retry \in BOOLEAN :
       PersistCandidate(c, b, retry) => CheckpointInv'
<1> SUFFICES ASSUME CheckpointInv,
                    NEW c \in Candidates, NEW b \in Bundles, NEW retry \in BOOLEAN,
                    PersistCandidate(c, b, retry)
             PROVE  CheckpointInv'
  OBVIOUS
<1>1. /\ run \in ScreenerRunRow /\ candidate \in [Candidates -> CandidateRow]
      /\ candidate[c] \in CandidateRow
  BY DEF CheckpointInv, ScreenerTypeOK
<1>2. /\ candidate' \in [Candidates -> CandidateRow]
      /\ candidate'[c].status = IF b \in Failures THEN "failed" ELSE "success"
      /\ candidate'[c].bundle = b
      /\ candidate'[c].rank = candidate[c].rank
      /\ candidate'[c].attempts = candidate[c].attempts + 1
      /\ \A d \in Candidates \ {c} : candidate'[d] = candidate[d]
      /\ run' \in ScreenerRunRow
      /\ run'.status = RefreshedStatus(candidate')
      /\ run'.seal = run.seal
      /\ run'.attempts = IF retry THEN run.attempts + 1 ELSE run.attempts
  BY PersistEffect DEF CheckpointInv
<1>3. run.status \notin {"none", "success"}
  BY DEF PersistCandidate, Writes, CheckpointInv, RowsInv
<1>4. run.attempts \in Nat /\ run.attempts >= 1 /\ candidate[c].attempts \in Nat
  BY <1>1, <1>3 DEF CheckpointInv, RunCounted, ScreenerRunRow, CandidateRow
<1>5. run'.attempts >= run.attempts /\ candidate'[c].attempts =< run'.attempts
  <2>1. CASE retry
    BY <1>2, <1>4, <2>1 DEF CheckpointInv, RowsInv
  <2>2. CASE ~ retry
    <3>1. candidate[c].attempts = 0
      BY <2>2 DEF PersistCandidate, Writes, CheckpointInv, RowsInv
    <3> QED
      BY <1>2, <1>4, <2>2, <3>1
  <2> QED
    BY <2>1, <2>2
<1>6. run'.status \in {"running", "partial_success", "failed"}
  BY <1>2 DEF RefreshedStatus
<1>7. \A d \in Candidates : candidate'[d].attempts =< run'.attempts
  <2> SUFFICES ASSUME NEW d \in Candidates, d # c
               PROVE  candidate[d].attempts =< run'.attempts
    BY <1>2, <1>5
  <2>1. candidate[d].attempts \in Nat /\ candidate[d].attempts =< run.attempts
    BY <1>1 DEF CandidateRow, CheckpointInv, RowsInv
  <2>2. run'.attempts \in Nat
    BY <1>2 DEF ScreenerRunRow
  <2> QED
    BY <1>4, <1>5, <2>1, <2>2
<1>8. \A d \in Candidates :
         /\ candidate'[d].status = "none" <=> run'.status = "none"
         /\ candidate'[d].status \in {"none", "pending"} =>
               candidate'[d].attempts = 0 /\ candidate'[d].bundle = NoBundle
         /\ candidate'[d].status = "success" => candidate'[d].bundle \in Successes
         /\ candidate'[d].status = "failed" => candidate'[d].bundle \in Failures
  BY <1>2, <1>3, <1>6 DEF CheckpointInv, RowsInv, Bundles
<1>9. RunCounted'
  <2>1. run'.attempts \in Nat
    BY <1>2 DEF ScreenerRunRow
  <2> QED
    BY <1>4, <1>5, <1>6, <2>1 DEF RunCounted
<1>10. StatusMatchesCandidates'
  <2>1. \A d \in Candidates : candidate'[d].status \in {"pending", "success", "failed"}
    BY <1>2, <1>6, <1>8 DEF CandidateRow
  <2>2. Candidates # {}
    OBVIOUS
  <2> QED
    BY <1>2, <1>6, <2>1, <2>2 DEF StatusMatchesCandidates, RefreshedStatus, Having
<1>11. SealMatchesRows'
  <2>1. run'.seal = NoSeal /\ \A d \in Candidates : candidate[d].rank = 0
    BY <1>2, <1>3 DEF CheckpointInv, SealMatchesRows
  <2> QED
    BY <1>2, <1>6, <2>1 DEF SealMatchesRows
<1>12. RanksAreAnOrder'
  BY <1>6 DEF RanksAreAnOrder
<1> QED
  BY <1>2, <1>7, <1>8, <1>9, <1>10, <1>11, <1>12 DEF CheckpointInv, ScreenerTypeOK, RowsInv

LEMMA FinalizeInv == CheckpointInv /\ FinalizeRun => CheckpointInv'
<1> SUFFICES ASSUME CheckpointInv, FinalizeRun
             PROVE  CheckpointInv'
  OBVIOUS
<1>1. /\ candidate' \in [Candidates -> CandidateRow]
      /\ \A c \in Candidates :
            /\ candidate'[c].status = "success"
            /\ candidate'[c].status = candidate[c].status
            /\ candidate'[c].bundle = candidate[c].bundle
            /\ candidate'[c].attempts = candidate[c].attempts
            /\ candidate'[c].rank = FinalRank(c)
      /\ run' \in ScreenerRunRow
      /\ run'.status = "success" /\ run'.attempts = run.attempts
      /\ run'.seal = OutputOf(candidate')
      /\ Weighed
  BY FinalizeEffect
<1>2. run.status = "running"
  BY DEF FinalizeRun, Finalizable
<1>3. RowsInv'
  BY <1>1, <1>2 DEF CheckpointInv, RowsInv
<1>4. RunCounted'
  BY <1>1, <1>2 DEF CheckpointInv, RunCounted
<1>5. StatusMatchesCandidates' /\ SealMatchesRows'
  BY <1>1 DEF StatusMatchesCandidates, SealMatchesRows, Having
<1>6. RanksAreAnOrder'
  <2>1. {candidate'[c].rank : c \in Candidates} = {FinalRank(c) : c \in Candidates}
    BY <1>1
  <2> QED
    BY <1>1, <2>1, RanksCover DEF RanksAreAnOrder
<1> QED
  BY <1>1, <1>3, <1>4, <1>5, <1>6 DEF CheckpointInv, ScreenerTypeOK

LEMMA StutterInv == CheckpointInv /\ UNCHANGED screenerVars => CheckpointInv'
BY DEF CheckpointInv, screenerVars, ScreenerTypeOK, RowsInv, RunCounted,
   StatusMatchesCandidates, SealMatchesRows, RanksAreAnOrder, Having

LEMMA CheckpointInvariant == ScreenerSpec => []CheckpointInv
<1>1. CheckpointInv /\ [ScreenerNext]_screenerVars => CheckpointInv'
  BY CreateInv, PersistInv, FinalizeInv, StutterInv DEF ScreenerNext
<1> QED
  BY InitInv, <1>1, PTL DEF ScreenerSpec

(* Every variable of the repository keeps its type, ranks and attempt      *)
(* counts included.                                                        *)
THEOREM ScreenerTypeCorrect == ScreenerSpec => []ScreenerTypeOK
BY CheckpointInvariant, PTL DEF CheckpointInv

(* However checkpoints, retries and finalizations are interleaved, the     *)
(* status of the run agrees with the statuses of its candidates.           *)
THEOREM StatusTruthful == ScreenerSpec => []StatusMatchesCandidates
BY CheckpointInvariant, PTL DEF CheckpointInv

(* A sealed run can be replayed: the rows are those that were hashed.      *)
THEOREM SealReplayable == ScreenerSpec => []SealMatchesRows
BY CheckpointInvariant, PTL DEF CheckpointInv

(* For a shortlist of any length, and whatever the weights, finalization   *)
(* gives each rank from 1 to its length to one candidate.                  *)
THEOREM RanksComplete == ScreenerSpec => []RanksAreAnOrder
BY CheckpointInvariant, PTL DEF CheckpointInv

(* A successful candidate keeps its status and its bundle for good.        *)
THEOREM SuccessKept == ScreenerSpec => SuccessfulCandidateKept
<1> DEFINE Kept == \A c \in Candidates :
                      candidate[c].status = "success" =>
                         /\ candidate'[c].status = "success"
                         /\ candidate'[c].bundle = candidate[c].bundle
<1>1. CheckpointInv /\ [ScreenerNext]_screenerVars => Kept
  <2> SUFFICES ASSUME CheckpointInv, [ScreenerNext]_screenerVars
               PROVE  Kept
    OBVIOUS
  <2>1. CASE CreateRun
    <3>1. CASE UNCHANGED screenerVars
      BY <3>1 DEF screenerVars
    <3>2. CASE run.status = "none"
      BY <3>2 DEF CheckpointInv, RowsInv
    <3> QED
      BY <2>1, <3>1, <3>2 DEF CreateRun
  <2>2. ASSUME NEW c \in Candidates, NEW b \in Bundles, NEW retry \in BOOLEAN,
               PersistCandidate(c, b, retry)
        PROVE  Kept
    <3>1. candidate[c].status # "success"
      BY <2>2 DEF PersistCandidate, Writes
    <3>2. \A d \in Candidates \ {c} : candidate'[d] = candidate[d]
      BY <2>2, PersistEffect DEF CheckpointInv
    <3> QED
      BY <3>1, <3>2
  <2>3. CASE FinalizeRun
    BY <2>3, FinalizeEffect
  <2>4. CASE UNCHANGED screenerVars
    BY <2>4 DEF screenerVars
  <2> QED
    BY <2>1, <2>2, <2>3, <2>4 DEF ScreenerNext
<1> QED
  BY <1>1, CheckpointInvariant, PTL DEF ScreenerSpec, SuccessfulCandidateKept

(* Nothing ever changes in a sealed run. *)
THEOREM SealedNeverChanges == ScreenerSpec => SealedForGood
<1>1. [ScreenerNext]_screenerVars => [run.status # "success"]_screenerVars
  BY DEF ScreenerNext, CreateRun, PersistCandidate, Writes, FinalizeRun, Finalizable
<1> QED
  BY <1>1, PTL DEF ScreenerSpec, SealedForGood

(* SealedResultHolds for any number of candidates and any weights.         *)
THEOREM SealHolds == ScreenerSpec => []SealedResultHolds
BY SealReplayable, RanksComplete, PTL DEF SealedResultHolds

(* ResultsKept holds for any number of candidates.                         *)
THEOREM ResultsAreKept == ScreenerSpec => ResultsKept
<1>1. /\ [run.status # "success"]_screenerVars
      /\ [\A c \in Candidates :
            candidate[c].status = "success" =>
               /\ candidate'[c].status = "success"
               /\ candidate'[c].bundle = candidate[c].bundle]_screenerVars
      => [/\ run.status # "success"
          /\ \A c \in Candidates :
                candidate[c].status = "success" =>
                   /\ candidate'[c].status = "success"
                   /\ candidate'[c].bundle = candidate[c].bundle]_screenerVars
  OBVIOUS
<1> QED
  BY <1>1, SuccessKept, SealedNeverChanges, PTL
  DEF ResultsKept, SuccessfulCandidateKept, SealedForGood

----------------------------------------------------------------------------
(* The calls: ScreenerOrchestration.                                       *)
----------------------------------------------------------------------------

USE OrchestrationAssumption

(* The calls write only through the repository. *)
LEMMA RowStep == [Next]_vars => [ScreenerNext]_screenerVars
<1> SUFFICES ASSUME [Next]_vars
             PROVE  [ScreenerNext]_screenerVars
  OBVIOUS
<1>1. CASE UNCHANGED vars
  BY <1>1 DEF vars
<1>2. ASSUME NEW p \in Processes, Create(p)
      PROVE  [ScreenerNext]_screenerVars
  BY <1>2 DEF Create, ScreenerNext
<1>3. ASSUME NEW p \in Processes, Work(p)
      PROVE  [ScreenerNext]_screenerVars
  <2>1. PICK c \in Candidates, b \in Bundles : Research(p, c, b) \/ Refused(p, c, b)
    BY <1>3 DEF Work
  <2>2. Retries(p, c) \in BOOLEAN
    BY DEF Retries
  <2> QED
    BY <2>1, <2>2 DEF Research, Refused, ScreenerNext
<1>4. ASSUME NEW p \in Processes, Finalize(p)
      PROVE  [ScreenerNext]_screenerVars
  BY <1>4 DEF Finalize, ScreenerNext
<1>5. ASSUME NEW p \in Processes,
             \/ Start(p) \/ Probe(p) \/ ProbeStatus(p) \/ ExpectRun(p) \/ Recheck(p)
             \/ RecheckStatus(p) \/ ListCandidates(p) \/ LoadRow(p) \/ LoadChildren(p)
             \/ BeginWork(p) \/ Reuse(p) \/ RetryRaises(p) \/ ReportFailures(p) \/ Crash(p)
      PROVE  UNCHANGED screenerVars
  BY <1>5 DEF Start, Probe, ProbeStatus, ExpectRun, Recheck, RecheckStatus, ListCandidates,
     LoadRow, LoadChildren, BeginWork, Reuse, RetryRaises, ReportFailures, Crash
<1> QED
  BY <1>1, <1>2, <1>3, <1>4, <1>5 DEF Next, CallStep

(* However many calls of the orchestrator overlap and die, the rows are    *)
(* those of the repository, and what is proved of it holds.                *)
THEOREM OrchestrationUsesStore == Spec => ScreenerSpec
<1>1. Init => ScreenerInit
  BY DEF Init
<1> QED
  BY <1>1, RowStep, PTL DEF Spec, ScreenerSpec

LEMMA RowsInvariant == Spec => []CheckpointInv
BY OrchestrationUsesStore, CheckpointInvariant, PTL

----------------------------------------------------------------------------

(* Checkpointed, as a success or as a failure. *)
Terminal(c) == candidate[c].status \in {"success", "failed"}

(* What a process holds in its locals, and the rows it got it from.        *)
PlaceInv(p) ==
    /\ \A c \in Candidates :
          /\ call[p].listed[c] \in {"success", "failed"} => Terminal(c)
          /\ call[p].loaded[c] \in Successes => candidate[c].bundle = call[p].loaded[c]
    /\ call[p].at \in {"load", "children"} => \A c \in call[p].todo : Terminal(c)
    /\ call[p].at = "work" => \A c \in Candidates \ call[p].todo : Terminal(c)
    /\ call[p].after => \A c \in Candidates : Terminal(c)
    /\ call[p].after /\ call[p].at \in {"load", "children"} =>
          \A c \in Candidates \ call[p].todo : call[p].loaded[c] # NoBundle
    /\ call[p].late /\ call[p].at # "off" =>
          run.status = "success" /\ call[p].at \in {"probe", "create", "recheck"}

(* What its last answer promises. *)
AnswerInv(p) ==
    /\ call[p].answer.status = "success" =>
          run.status = "success" /\ call[p].answer.output = run.seal
    /\ call[p].late /\ call[p].answer.status # "none" => call[p].answer.status = "success"
    /\ call[p].answer.status \in {"partial_success", "failed"} =>
          \A c \in Candidates :
             /\ call[p].answer.output[c].bundle # NoBundle
             /\ call[p].answer.output[c].bundle \in Successes =>
                   candidate[c].bundle = call[p].answer.output[c].bundle

CallInv == \A p \in Processes : PlaceInv(p) /\ AnswerInv(p)

(* The rows a call has seen stay as they were, as far as it relies on them.*)
RowsKept ==
    /\ \A c \in Candidates :
          /\ Terminal(c) => Terminal(c)'
          /\ candidate[c].bundle \in Successes => candidate'[c].bundle = candidate[c].bundle
    /\ run.status = "success" => run' = run

LEMMA RowsAreKept == CheckpointInv /\ [ScreenerNext]_screenerVars => RowsKept
<1> SUFFICES ASSUME CheckpointInv, [ScreenerNext]_screenerVars
             PROVE  RowsKept
  OBVIOUS
<1>1. \A c \in Candidates :
         candidate[c].bundle \in Successes => candidate[c].status = "success"
  <2> SUFFICES ASSUME NEW c \in Candidates, candidate[c].bundle \in Successes
               PROVE  candidate[c].status = "success"
    OBVIOUS
  <2>1. candidate[c].status \in {"none", "pending", "success", "failed"}
    BY DEF CheckpointInv, ScreenerTypeOK, CandidateRow
  <2> QED
    BY <2>1 DEF CheckpointInv, RowsInv, Bundles
<1>2. CASE UNCHANGED screenerVars
  BY <1>2 DEF screenerVars, RowsKept, Terminal
<1>3. CASE CreateRun
  <2>1. CASE run.status = "none"
    BY <1>1, <2>1 DEF RowsKept, Terminal, CheckpointInv, RowsInv
  <2> QED
    BY <1>2, <1>3, <2>1 DEF CreateRun
<1>4. ASSUME NEW c \in Candidates, NEW b \in Bundles, NEW retry \in BOOLEAN,
             PersistCandidate(c, b, retry)
      PROVE  RowsKept
  <2>1. candidate[c].status # "success" /\ run.status # "success"
    BY <1>4 DEF PersistCandidate, Writes
  <2>2. /\ \A d \in Candidates \ {c} : candidate'[d] = candidate[d]
        /\ candidate'[c].status \in {"success", "failed"}
    BY <1>4, PersistEffect DEF CheckpointInv
  <2> QED
    BY <1>1, <2>1, <2>2 DEF RowsKept, Terminal
<1>5. CASE FinalizeRun
  <2>1. run.status # "success"
    BY <1>5 DEF FinalizeRun, Finalizable
  <2> QED
    BY <1>5, <2>1, FinalizeEffect DEF RowsKept, Terminal
<1> QED
  BY <1>2, <1>3, <1>4, <1>5 DEF ScreenerNext

LEMMA LeaveEffect ==
    call \in [Processes -> Call] =>
    \A p \in Processes, answer \in Answer :
       Leave(p, answer) =>
       /\ call' \in [Processes -> Call]
       /\ call'[p].at = "off" /\ ~ call'[p].after
       /\ call'[p].listed = NoCall.listed /\ call'[p].loaded = NoCall.loaded
       /\ call'[p].late = call[p].late /\ call'[p].answer = answer
       /\ call'[p].failures = call[p].failures
       /\ \A q \in Processes \ {p} : call'[q] = call[q]
<1> SUFFICES ASSUME call \in [Processes -> Call], NEW p \in Processes, NEW answer \in Answer,
                    Leave(p, answer)
             PROVE  /\ call' \in [Processes -> Call]
                    /\ call'[p].at = "off" /\ ~ call'[p].after
                    /\ call'[p].listed = NoCall.listed /\ call'[p].loaded = NoCall.loaded
                    /\ call'[p].late = call[p].late /\ call'[p].answer = answer
                    /\ call'[p].failures = call[p].failures
                    /\ \A q \in Processes \ {p} : call'[q] = call[q]
  OBVIOUS
<1> DEFINE left == [NoCall EXCEPT !.failures = call[p].failures, !.late = call[p].late,
                                  !.shared = call[p].shared, !.answer = answer]
<1>1. call[p] \in Call
  OBVIOUS
<1>2. NoCall \in Call
  BY DEF NoCall, Call, Locations, NoAnswer, Answer, Errors
<1>3. /\ left \in Call
      /\ left.at = "off" /\ ~ left.after
      /\ left.listed = NoCall.listed /\ left.loaded = NoCall.loaded
      /\ left.late = call[p].late /\ left.answer = answer
      /\ left.failures = call[p].failures
  BY <1>1, <1>2 DEF NoCall, Call
<1>4. Become(p, left)
  BY DEF Leave
<1> HIDE DEF left
<1> QED
  BY <1>3, <1>4 DEF Become

(* A call moves on: it keeps its answer, and what it was given at Start.   *)
Moves(p) ==
    /\ call' \in [Processes -> Call]
    /\ call'[p].answer = call[p].answer /\ call'[p].late = call[p].late
    /\ \A q \in Processes \ {p} : call'[q] = call[q]

LEMMA GotoEffect ==
    call \in [Processes -> Call] =>
    \A p \in Processes, location \in Locations :
       Goto(p, location) =>
       /\ Moves(p)
       /\ call'[p].at = location /\ call'[p].after = call[p].after
       /\ call'[p].listed = call[p].listed /\ call'[p].loaded = call[p].loaded
       /\ call'[p].todo = call[p].todo /\ call'[p].failures = call[p].failures
<1> SUFFICES ASSUME call \in [Processes -> Call],
                    NEW p \in Processes, NEW location \in Locations, Goto(p, location)
             PROVE  /\ Moves(p)
                    /\ call'[p].at = location /\ call'[p].after = call[p].after
                    /\ call'[p].listed = call[p].listed /\ call'[p].loaded = call[p].loaded
                    /\ call'[p].todo = call[p].todo
                    /\ call'[p].failures = call[p].failures
  OBVIOUS
<1>1. call[p] \in Call
  OBVIOUS
<1> DEFINE moved == [call[p] EXCEPT !.at = location]
<1>2. /\ moved \in Call
      /\ moved.at = location /\ moved.after = call[p].after
      /\ moved.listed = call[p].listed /\ moved.loaded = call[p].loaded
      /\ moved.todo = call[p].todo /\ moved.answer = call[p].answer
      /\ moved.late = call[p].late /\ moved.failures = call[p].failures
  BY <1>1 DEF Call
<1> HIDE DEF moved
<1>3. Become(p, moved)
  BY DEF moved, Goto
<1> QED
  BY <1>2, <1>3 DEF Moves, Become

(* What is to be shown of a step of p. *)
Sound(p) ==
    /\ call' \in [Processes -> Call]
    /\ PlaceInv(p)' /\ AnswerInv(p)'
    /\ \A q \in Processes \ {p} : call'[q] = call[q]

(* What survives of a process when only others move, or none does. *)
LEMMA CallKept ==
    RowsKept /\ call \in [Processes -> Call] =>
    \A p \in Processes :
       /\ /\ PlaceInv(p)
          /\ call'[p].at = call[p].at /\ call'[p].after = call[p].after
          /\ call'[p].listed = call[p].listed /\ call'[p].loaded = call[p].loaded
          /\ call'[p].todo = call[p].todo /\ call'[p].late = call[p].late
          => PlaceInv(p)'
       /\ AnswerInv(p) /\ call'[p].answer = call[p].answer /\ call'[p].late = call[p].late
          => AnswerInv(p)'
<1> SUFFICES ASSUME RowsKept, call \in [Processes -> Call], NEW p \in Processes,
                    call'[p].late = call[p].late
             PROVE  /\ /\ PlaceInv(p)
                       /\ call'[p].at = call[p].at /\ call'[p].after = call[p].after
                       /\ call'[p].listed = call[p].listed
                       /\ call'[p].loaded = call[p].loaded
                       /\ call'[p].todo = call[p].todo
                       => PlaceInv(p)'
                    /\ AnswerInv(p) /\ call'[p].answer = call[p].answer => AnswerInv(p)'
  OBVIOUS
<1>1. \A c \in Candidates :
         /\ Terminal(c) => Terminal(c)'
         /\ candidate[c].bundle \in Successes => candidate'[c].bundle = candidate[c].bundle
  BY DEF RowsKept
<1>2. run.status = "success" => run' = run
  BY DEF RowsKept
<1>3. call[p].todo \subseteq Candidates
  BY DEF Call
<1>4. ASSUME PlaceInv(p),
             call'[p].at = call[p].at, call'[p].after = call[p].after,
             call'[p].listed = call[p].listed, call'[p].loaded = call[p].loaded,
             call'[p].todo = call[p].todo
      PROVE  PlaceInv(p)'
  BY <1>1, <1>2, <1>3, <1>4 DEF PlaceInv
<1>5. ASSUME AnswerInv(p), call'[p].answer = call[p].answer
      PROVE  AnswerInv(p)'
  BY <1>1, <1>2, <1>5 DEF AnswerInv
<1> QED
  BY <1>4, <1>5

(* A call that is left with an answer that holds. *)
LEMMA LeaveInv ==
    call \in [Processes -> Call] =>
    \A p \in Processes, answer \in Answer :
       /\ Leave(p, answer)
       /\ answer.status = "success" => run'.status = "success" /\ answer.output = run'.seal
       /\ call[p].late => answer.status = "success"
       /\ answer.status \in {"partial_success", "failed"} =>
             \A c \in Candidates :
                /\ answer.output[c].bundle # NoBundle
                /\ answer.output[c].bundle \in Successes =>
                      candidate'[c].bundle = answer.output[c].bundle
       => Sound(p)
<1> SUFFICES ASSUME call \in [Processes -> Call], NEW p \in Processes, NEW answer \in Answer,
                    Leave(p, answer),
                    answer.status = "success" =>
                       run'.status = "success" /\ answer.output = run'.seal,
                    call[p].late => answer.status = "success",
                    answer.status \in {"partial_success", "failed"} =>
                       \A c \in Candidates :
                          /\ answer.output[c].bundle # NoBundle
                          /\ answer.output[c].bundle \in Successes =>
                                candidate'[c].bundle = answer.output[c].bundle
             PROVE  Sound(p)
  OBVIOUS
<1>1. /\ call'[p].at = "off" /\ ~ call'[p].after
      /\ call'[p].listed = NoCall.listed /\ call'[p].loaded = NoCall.loaded
      /\ call'[p].late = call[p].late /\ call'[p].answer = answer
  BY LeaveEffect
<1>2. \A c \in Candidates : NoCall.listed[c] = "none" /\ NoCall.loaded[c] = NoBundle
  BY DEF NoCall
<1>3. PlaceInv(p)'
  BY <1>1, <1>2 DEF PlaceInv, Bundles
<1>4. AnswerInv(p)'
  BY <1>1 DEF AnswerInv
<1> QED
  BY <1>3, <1>4, LeaveEffect DEF Sound

(* An exception, which no call that began after the seal may leave with. *)
LEMMA RaiseInv ==
    call \in [Processes -> Call] =>
    \A p \in Processes, error \in Errors :
       Raise(p, error) /\ ~ call[p].late =>
          Sound(p)
<1> SUFFICES ASSUME call \in [Processes -> Call], NEW p \in Processes, NEW error \in Errors,
                    Raise(p, error), ~ call[p].late
             PROVE  Sound(p)
  OBVIOUS
<1> DEFINE answer == [NoAnswer EXCEPT !.status = "error", !.error = error]
<1>1. answer \in Answer /\ answer.status = "error"
  BY DEF Answer, NoAnswer
<1>2. Leave(p, answer)
  BY DEF Raise
<1> HIDE DEF answer
<1> QED
  BY <1>1, <1>2, LeaveInv

(* The sealed result, which is true for good. *)
LEMMA SealedInv ==
    call \in [Processes -> Call] =>
    \A p \in Processes, output \in Output :
       ReturnSealed(p, output) /\ run'.status = "success" /\ output = run'.seal =>
          Sound(p)
<1> SUFFICES ASSUME call \in [Processes -> Call], NEW p \in Processes, NEW output \in Output,
                    ReturnSealed(p, output), run'.status = "success", output = run'.seal
             PROVE  Sound(p)
  OBVIOUS
<1> DEFINE answer == [NoAnswer EXCEPT !.status = "success", !.output = output]
<1>1. answer \in Answer /\ answer.status = "success" /\ answer.output = output
  BY DEF Answer, NoAnswer, Errors
<1>2. Leave(p, answer)
  BY DEF ReturnSealed
<1> HIDE DEF answer
<1> QED
  BY <1>1, <1>2, LeaveInv

(* A call that goes to a place where nothing is asked of its list. *)
LEMMA GotoInv ==
    RowsKept /\ call \in [Processes -> Call] =>
    \A p \in Processes, location \in Locations \ {"load", "children", "work"} :
       /\ PlaceInv(p) /\ AnswerInv(p) /\ Goto(p, location)
       /\ call[p].late => run.status = "success" /\ location \in {"probe", "create", "recheck"}
       => Sound(p)
<1> SUFFICES ASSUME RowsKept, call \in [Processes -> Call],
                    NEW p \in Processes, NEW location \in Locations \ {"load", "children", "work"},
                    PlaceInv(p), AnswerInv(p), Goto(p, location),
                    call[p].late =>
                       run.status = "success" /\ location \in {"probe", "create", "recheck"}
             PROVE  Sound(p)
  OBVIOUS
<1>1. /\ Moves(p)
      /\ call'[p].at = location /\ call'[p].after = call[p].after
      /\ call'[p].listed = call[p].listed /\ call'[p].loaded = call[p].loaded
  BY GotoEffect
<1>2. AnswerInv(p)'
  BY <1>1, CallKept DEF Moves
<1>3. /\ \A c \in Candidates :
            /\ Terminal(c) => Terminal(c)'
            /\ candidate[c].bundle \in Successes => candidate'[c].bundle = candidate[c].bundle
      /\ run.status = "success" => run' = run
  BY DEF RowsKept
<1>4. PlaceInv(p)'
  BY <1>1, <1>3 DEF PlaceInv, Moves
<1> QED
  BY <1>1, <1>2, <1>4 DEF Sound, Moves

LEMMA SealIsOutput == CheckpointInv /\ run.status = "success" => run.seal \in Output
<1> SUFFICES ASSUME CheckpointInv, run.status = "success"
             PROVE  run.seal \in Output
  OBVIOUS
<1>1. run.seal = OutputOf(candidate) /\ candidate \in [Candidates -> CandidateRow]
  BY DEF CheckpointInv, SealMatchesRows, ScreenerTypeOK
<1> QED
  BY <1>1 DEF OutputOf, Output, CandidateRow

----------------------------------------------------------------------------

(* What the steps below start from. *)
Before(p) ==
    /\ CheckpointInv /\ RowsKept
    /\ call \in [Processes -> Call]
    /\ PlaceInv(p) /\ AnswerInv(p)

(* The steps until the run is known to be open. *)
LEMMA ReplaySteps ==
    \A p \in Processes :
       /\ Before(p)
       /\ Probe(p) \/ ProbeStatus(p) \/ ExpectRun(p) \/ Create(p) \/ Recheck(p) \/ RecheckStatus(p)
       => Sound(p)
<1> SUFFICES ASSUME NEW p \in Processes, Before(p),
                    \/ Probe(p) \/ ProbeStatus(p) \/ ExpectRun(p)
                    \/ Create(p) \/ Recheck(p) \/ RecheckStatus(p)
             PROVE  Sound(p)
  OBVIOUS
<1>1. /\ CheckpointInv /\ RowsKept /\ call \in [Processes -> Call]
      /\ PlaceInv(p) /\ AnswerInv(p)
  BY DEF Before
<1>2. call[p].late /\ call[p].at # "off" =>
         run.status = "success" /\ call[p].at \in {"probe", "create", "recheck"}
  BY <1>1 DEF PlaceInv
<1>3. run.status = "success" => run.seal \in Output
  BY <1>1, SealIsOutput
<1>4. /\ {"probe_status", "expect", "create", "recheck", "recheck_status", "list"}
             \subseteq Locations \ {"load", "children", "work"}
      /\ {"integrity", "unknown_run"} \subseteq Errors
  BY DEF Locations, Errors
<1>5. CASE Probe(p)
  <2>1. run' = run /\ call[p].at = "probe"
    BY <1>5 DEF Probe, Here, screenerVars
  <2>2. CASE run.status = "success" /\ ReturnSealed(p, run.seal)
    BY <1>1, <1>3, <2>1, <2>2, SealedInv
  <2>3. CASE run.status = "none" /\ Goto(p, IF call[p].explicit THEN "expect" ELSE "create")
    <3>1. ~ call[p].late
      BY <1>2, <2>1, <2>3
    <3>2. CASE call[p].explicit
      BY <1>1, <1>4, <2>3, <3>1, <3>2, GotoInv
    <3>3. CASE ~ call[p].explicit
      BY <1>1, <1>4, <2>3, <3>1, <3>3, GotoInv
    <3> QED
      BY <3>2, <3>3
  <2>4. CASE run.status \notin {"none", "success"} /\ Goto(p, "probe_status")
    <3>1. ~ call[p].late
      BY <1>2, <2>1, <2>4
    <3> QED
      BY <1>1, <1>4, <2>4, <3>1, GotoInv
  <2> QED
    BY <1>5, <2>2, <2>3, <2>4 DEF Probe
<1>6. CASE ProbeStatus(p) \/ ExpectRun(p) \/ RecheckStatus(p)
  <2>1. ~ call[p].late
    BY <1>2, <1>6 DEF ProbeStatus, ExpectRun, RecheckStatus, Here
  <2>2. \/ Raise(p, "integrity") \/ Raise(p, "unknown_run")
        \/ Goto(p, "create") \/ Goto(p, "list")
    BY <1>6 DEF ProbeStatus, ExpectRun, RecheckStatus
  <2> QED
    BY <1>1, <1>4, <2>1, <2>2, GotoInv, RaiseInv
<1>7. CASE Create(p)
  <2>1. Goto(p, "recheck") /\ call[p].at = "create"
    BY <1>7 DEF Create, Here
  <2> QED
    BY <1>1, <1>2, <1>4, <2>1, GotoInv
<1>8. CASE Recheck(p)
  <2>1. run' = run /\ call[p].at = "recheck"
    BY <1>8 DEF Recheck, Here, screenerVars
  <2>2. CASE run.status = "success" /\ ReturnSealed(p, run.seal)
    BY <1>1, <1>3, <2>1, <2>2, SealedInv
  <2>3. CASE run.status # "success" /\ Goto(p, "recheck_status")
    <3>1. ~ call[p].late
      BY <1>2, <2>1, <2>3
    <3> QED
      BY <1>1, <1>4, <2>3, <3>1, GotoInv
  <2> QED
    BY <1>8, <2>2, <2>3 DEF Recheck
<1> QED
  BY <1>5, <1>6, <1>7, <1>8

(* A call that only changes where it is and what it has to do, to updated. *)
LEMMA MoveInv ==
    \A p \in Processes, updated \in Call :
       /\ Before(p)
       /\ Become(p, updated)
       /\ updated.answer = call[p].answer /\ updated.late = call[p].late
       /\ PlaceInv(p)'
       => Sound(p)
<1> SUFFICES ASSUME NEW p \in Processes, NEW updated \in Call, Before(p),
                    Become(p, updated),
                    updated.answer = call[p].answer, updated.late = call[p].late,
                    PlaceInv(p)'
             PROVE  Sound(p)
  OBVIOUS
<1>1. RowsKept /\ call \in [Processes -> Call] /\ AnswerInv(p)
  BY DEF Before
<1>2. /\ call' \in [Processes -> Call] /\ call'[p] = updated
      /\ \A q \in Processes \ {p} : call'[q] = call[q]
  BY <1>1 DEF Become
<1>3. AnswerInv(p)'
  BY <1>1, <1>2, CallKept
<1> QED
  BY <1>2, <1>3 DEF Sound

LEMMA ListSteps == \A p \in Processes : Before(p) /\ ListCandidates(p) => Sound(p)
<1> SUFFICES ASSUME NEW p \in Processes, Before(p), ListCandidates(p)
             PROVE  Sound(p)
  OBVIOUS
<1>1. /\ RowsKept /\ call[p] \in Call /\ PlaceInv(p) /\ call \in [Processes -> Call]
      /\ candidate \in [Candidates -> CandidateRow]
  BY DEF Before, CheckpointInv, ScreenerTypeOK
<1> DEFINE listed == [c \in Candidates |-> candidate[c].status]
           todo == Having(candidate, "success") \cup Having(candidate, "failed")
           updated == [call[p] EXCEPT !.at = "load", !.listed = listed, !.todo = todo]
<1>2. call[p].at = "list" /\ Become(p, updated)
      /\ candidate' = candidate
  BY DEF ListCandidates, Here, screenerVars
<1>3. listed \in [Candidates -> {"none", "pending", "success", "failed"}]
  BY <1>1 DEF CandidateRow
<1>4. todo \in SUBSET Candidates /\ \A c \in Candidates : c \in todo <=> Terminal(c)
  BY DEF Having, Terminal
<1>5. \A c \in Candidates : listed[c] = candidate[c].status
  OBVIOUS
<1> HIDE DEF listed, todo
<1>6. "load" \in Locations
  BY DEF Locations
<1>7. /\ updated \in Call
      /\ updated.at = "load" /\ updated.after = call[p].after
      /\ updated.listed = listed /\ updated.loaded = call[p].loaded
      /\ updated.todo = todo /\ updated.answer = call[p].answer
      /\ updated.late = call[p].late
  BY <1>1, <1>3, <1>4, <1>6 DEF Call
<1> HIDE DEF updated
<1>8. call'[p] = updated
  BY <1>1, <1>2 DEF Become
<1>9. \A c \in Candidates : Terminal(c)' <=> Terminal(c)
  BY <1>2 DEF Terminal
<1>10. PlaceInv(p)'
  BY <1>1, <1>2, <1>4, <1>5, <1>7, <1>8, <1>9 DEF PlaceInv, Terminal
<1> QED
  BY <1>2, <1>7, <1>10, MoveInv

LEMMA LoadSteps ==
    \A p \in Processes : Before(p) /\ (LoadRow(p) \/ LoadChildren(p)) => Sound(p)
<1> SUFFICES ASSUME NEW p \in Processes, Before(p), LoadRow(p) \/ LoadChildren(p)
             PROVE  Sound(p)
  OBVIOUS
<1>1. /\ RowsKept /\ call[p] \in Call /\ PlaceInv(p) /\ call \in [Processes -> Call]
      /\ CheckpointInv /\ candidate \in [Candidates -> CandidateRow]
  BY DEF Before, CheckpointInv, ScreenerTypeOK
<1>2. candidate' = candidate /\ call[p].at \in {"load", "children"} /\ ~ call[p].late
  BY <1>1 DEF LoadRow, LoadChildren, Here, screenerVars, PlaceInv
<1>3. \A c \in Candidates : Terminal(c)' <=> Terminal(c)
  BY <1>2 DEF Terminal
<1>4. CASE Raise(p, "load")
  BY <1>1, <1>2, <1>4, RaiseInv DEF Errors
<1>5. CASE LoadRow(p) /\ ~ Raise(p, "load")
  <2>1. PICK c \in Candidates :
           Become(p, [call[p] EXCEPT !.at = "children", !.row = candidate[c].bundle])
    BY <1>5 DEF LoadRow
  <2> DEFINE bundle == candidate[c].bundle
             updated == [call[p] EXCEPT !.at = "children", !.row = bundle]
  <2>2. Become(p, updated) /\ call[p].at = "load"
    BY <1>5, <2>1 DEF LoadRow, Here
  <2>3. bundle \in Bundles \cup {NoBundle} /\ "children" \in Locations
    BY <1>1 DEF CandidateRow, Locations
  <2> HIDE DEF bundle
  <2>4. /\ updated \in Call
        /\ updated.at = "children" /\ updated.after = call[p].after
        /\ updated.listed = call[p].listed /\ updated.loaded = call[p].loaded
        /\ updated.todo = call[p].todo /\ updated.answer = call[p].answer
        /\ updated.late = call[p].late
    BY <1>1, <2>3 DEF Call
  <2> HIDE DEF updated
  <2>5. call'[p] = updated
    BY <1>1, <2>2 DEF Become
  <2>6. call[p].todo \subseteq Candidates
    BY <1>1 DEF Call
  <2>7. PlaceInv(p)'
    BY <1>1, <1>2, <1>3, <2>2, <2>4, <2>5, <2>6 DEF PlaceInv
  <2> QED
    BY <2>2, <2>4, <2>7, MoveInv
<1>6. CASE LoadChildren(p) /\ ~ Raise(p, "load")
  <2>1. PICK c \in Candidates :
           /\ IsFirst(c, call[p].todo) /\ candidate[c].bundle = call[p].row
           /\ Become(p, [call[p] EXCEPT
                           !.at = "load", !.row = NoBundle, !.todo = @ \ {c},
                           !.loaded = [call[p].loaded EXCEPT ![c] = call[p].row]])
    BY <1>6 DEF LoadChildren
  <2> DEFINE loaded == [call[p].loaded EXCEPT ![c] = call[p].row]
             todo == call[p].todo \ {c}
             updated == [call[p] EXCEPT !.at = "load", !.row = NoBundle, !.todo = todo,
                                        !.loaded = loaded]
  <2>2. Become(p, updated) /\ call[p].at = "children"
    BY <1>6, <2>1 DEF LoadChildren, Here
  <2>3. /\ call[p].loaded \in [Candidates -> Bundles \cup {NoBundle}]
        /\ call[p].todo \in SUBSET Candidates /\ call[p].row \in Bundles \cup {NoBundle}
    BY <1>1 DEF Call
  <2>4. /\ loaded \in [Candidates -> Bundles \cup {NoBundle}]
        /\ loaded[c] = candidate[c].bundle
        /\ \A d \in Candidates \ {c} : loaded[d] = call[p].loaded[d]
        /\ todo \in SUBSET Candidates
    BY <2>1, <2>3
  <2>5. Terminal(c)
    BY <1>1, <2>1, <2>2 DEF PlaceInv, IsFirst
  <2>6. candidate[c].bundle # NoBundle
    BY <1>1, <2>5 DEF Terminal, CheckpointInv, RowsInv, Bundles
  <2>7. \A d \in Candidates : d \notin todo => d = c \/ d \notin call[p].todo
    OBVIOUS
  <2>8. \A d \in todo : d \in call[p].todo
    OBVIOUS
  <2> HIDE DEF loaded, todo
  <2>9. "load" \in Locations
    BY DEF Locations
  <2>10. /\ updated \in Call
         /\ updated.at = "load" /\ updated.after = call[p].after
         /\ updated.listed = call[p].listed /\ updated.loaded = loaded
         /\ updated.todo = todo /\ updated.answer = call[p].answer
         /\ updated.late = call[p].late
    BY <1>1, <2>4, <2>9 DEF Call
  <2> HIDE DEF updated
  <2>11. call'[p] = updated
    BY <1>1, <2>2 DEF Become
  <2>12. PlaceInv(p)'
    BY <1>1, <1>2, <1>3, <2>2, <2>3, <2>4, <2>6, <2>7, <2>8, <2>10, <2>11 DEF PlaceInv
  <2> QED
    BY <2>2, <2>10, <2>12, MoveInv
<1> QED
  BY <1>4, <1>5, <1>6

(* The loop over the shortlist, and the list it ends with. *)
LEMMA WorkSteps ==
    \A p \in Processes :
       /\ Before(p)
       /\ BeginWork(p) \/ Reuse(p) \/ RetryRaises(p) \/ Work(p)
       => Sound(p)
<1> SUFFICES ASSUME NEW p \in Processes, Before(p),
                    BeginWork(p) \/ Reuse(p) \/ RetryRaises(p) \/ Work(p)
             PROVE  Sound(p)
  OBVIOUS
<1>1. /\ RowsKept /\ call[p] \in Call /\ PlaceInv(p) /\ call \in [Processes -> Call]
      /\ CheckpointInv /\ candidate \in [Candidates -> CandidateRow]
  BY DEF Before, CheckpointInv, ScreenerTypeOK
<1>2. call[p].at \in {"load", "work"} /\ ~ call[p].late
  BY <1>1 DEF BeginWork, Reuse, RetryRaises, Work, Here, PlaceInv
<1>3. /\ \A c \in Candidates :
            /\ Terminal(c) => Terminal(c)'
            /\ candidate[c].bundle \in Successes => candidate'[c].bundle = candidate[c].bundle
      /\ run.status = "success" => run' = run
  BY <1>1 DEF RowsKept
<1>4. CASE BeginWork(p)
  <2> DEFINE updated == [call[p] EXCEPT !.at = "work", !.todo = Candidates]
  <2>1. Become(p, updated) /\ ~ call[p].after
    BY <1>4 DEF BeginWork
  <2>2. "work" \in Locations
    BY DEF Locations
  <2>3. /\ updated \in Call
        /\ updated.at = "work" /\ updated.after = call[p].after
        /\ updated.listed = call[p].listed /\ updated.loaded = call[p].loaded
        /\ updated.todo = Candidates /\ updated.answer = call[p].answer
        /\ updated.late = call[p].late
    BY <1>1, <2>2 DEF Call
  <2> HIDE DEF updated
  <2>4. call'[p] = updated
    BY <1>1, <2>1 DEF Become
  <2>5. PlaceInv(p)'
    BY <1>1, <1>2, <1>3, <2>1, <2>3, <2>4 DEF PlaceInv
  <2> QED
    BY <2>1, <2>3, <2>5, MoveInv
<1>5. ASSUME NEW c \in Candidates, NEW failures \in SUBSET Candidates, Here(p, "work"),
             Terminal(c)',
             Become(p, [call[p] EXCEPT !.todo = @ \ {c}, !.failures = failures])
      PROVE  Sound(p)
  <2> DEFINE todo == call[p].todo \ {c}
             updated == [call[p] EXCEPT !.todo = todo, !.failures = failures]
  <2>1. Become(p, updated)
    BY <1>5
  <2>2. todo \in SUBSET Candidates /\ \A d \in Candidates : d \notin todo => d = c \/ d \notin call[p].todo
    BY <1>1 DEF Call
  <2> HIDE DEF todo
  <2>3. /\ updated \in Call
        /\ updated.at = call[p].at /\ updated.after = call[p].after
        /\ updated.listed = call[p].listed /\ updated.loaded = call[p].loaded
        /\ updated.todo = todo /\ updated.answer = call[p].answer
        /\ updated.late = call[p].late
    BY <1>1, <1>5, <2>2 DEF Call
  <2> HIDE DEF updated
  <2>4. call'[p] = updated /\ call[p].at = "work"
    BY <1>1, <1>5, <2>1 DEF Become, Here
  <2>5. PlaceInv(p)'
    BY <1>1, <1>2, <1>3, <1>5, <2>2, <2>3, <2>4 DEF PlaceInv
  <2> QED
    BY <2>1, <2>3, <2>5, MoveInv
<1>6. call[p].failures \in SUBSET Candidates
  BY <1>1 DEF Call
<1>7. CASE Reuse(p)
  <2>1. PICK c \in Candidates :
           call[p].listed[c] = "success" /\ Become(p, [call[p] EXCEPT !.todo = @ \ {c}])
    BY <1>7 DEF Reuse
  <2>2. Terminal(c)'
    BY <1>1, <1>3, <2>1 DEF PlaceInv
  <2>3. [call[p] EXCEPT !.todo = @ \ {c}]
           = [call[p] EXCEPT !.todo = @ \ {c}, !.failures = call[p].failures]
    BY <1>1 DEF Call
  <2>4. Here(p, "work")
    BY <1>7 DEF Reuse
  <2> QED
    BY <1>5, <1>6, <2>1, <2>2, <2>3, <2>4
<1>8. CASE RetryRaises(p)
  <2>1. PICK c \in Candidates :
           /\ call[p].listed[c] = "failed"
           /\ Become(p, [call[p] EXCEPT !.todo = @ \ {c}, !.failures = @ \cup {c}])
    BY <1>8 DEF RetryRaises
  <2>2. Terminal(c)'
    BY <1>1, <1>3, <2>1 DEF PlaceInv
  <2>3. Here(p, "work") /\ call[p].failures \cup {c} \in SUBSET Candidates
    BY <1>6, <1>8 DEF RetryRaises
  <2> QED
    BY <1>5, <2>1, <2>2, <2>3
<1>9. CASE Work(p)
  <2>1. PICK c \in Candidates, b \in Bundles : Research(p, c, b) \/ Refused(p, c, b)
    BY <1>9 DEF Work
  <2>2. CASE Refused(p, c, b)
    BY <1>1, <1>2, <2>2, RaiseInv DEF Refused, Errors
  <2>3. CASE Research(p, c, b)
    <3>1. Terminal(c)'
      <4>1. CASE PersistCandidate(c, b, Retries(p, c))
        <5>1. Retries(p, c) \in BOOLEAN
          BY DEF Retries
        <5> QED
          BY <1>1, <4>1, <5>1, PersistEffect DEF CheckpointInv, Terminal
      <4>2. CASE Replays(c, b, Retries(p, c)) /\ UNCHANGED screenerVars
        BY <1>3, <4>2 DEF Replays, Terminal
      <4> QED
        BY <2>3, <4>1, <4>2 DEF Research
    <3> DEFINE failures == call[p].failures \cup IF b \in Failures THEN {c} ELSE {}
    <3>2. Become(p, [call[p] EXCEPT !.todo = @ \ {c}, !.failures = failures])
      BY <2>3 DEF Research
    <3>3. Here(p, "work") /\ failures \in SUBSET Candidates
      BY <1>6, <1>9 DEF Work
    <3> HIDE DEF failures
    <3> QED
      BY <1>5, <3>1, <3>2, <3>3
  <2> QED
    BY <2>1, <2>2, <2>3
<1> QED
  BY <1>4, <1>7, <1>8, <1>9

(* The end of a call. *)
LEMMA EndSteps ==
    \A p \in Processes :
       Before(p) /\ (Finalize(p) \/ ReportFailures(p) \/ Crash(p)) => Sound(p)
<1> SUFFICES ASSUME NEW p \in Processes, Before(p),
                    Finalize(p) \/ ReportFailures(p) \/ Crash(p)
             PROVE  Sound(p)
  OBVIOUS
<1>1. /\ RowsKept /\ call[p] \in Call /\ PlaceInv(p) /\ call \in [Processes -> Call]
      /\ CheckpointInv /\ candidate \in [Candidates -> CandidateRow]
  BY DEF Before, CheckpointInv, ScreenerTypeOK
<1>2. /\ \A c \in Candidates :
            /\ Terminal(c) => Terminal(c)'
            /\ candidate[c].bundle \in Successes => candidate'[c].bundle = candidate[c].bundle
      /\ run.status = "success" => run' = run
  BY <1>1 DEF RowsKept
<1>3. CASE Finalize(p)
  <2>1. call[p].at = "work" /\ call[p].todo = {} /\ ~ call[p].late
    BY <1>1, <1>3 DEF Finalize, Here, PlaceInv
  <2>2. CASE FinalizeRun /\ ReturnSealed(p, run'.seal)
    <3>1. run'.status = "success" /\ run'.seal = OutputOf(candidate')
          /\ candidate' \in [Candidates -> CandidateRow]
      BY <1>1, <2>2, FinalizeEffect
    <3>2. run'.seal \in Output
      BY <3>1 DEF OutputOf, Output, CandidateRow
    <3> QED
      BY <1>1, <2>2, <3>1, <3>2, SealedInv
  <2>3. CASE run.status = "success" /\ ReturnSealed(p, run.seal)
    BY <1>1, <1>2, <2>3, SealIsOutput, SealedInv
  <2>4. CASE Become(p, [call[p] EXCEPT !.at = "list", !.after = TRUE])
    <3> DEFINE updated == [call[p] EXCEPT !.at = "list", !.after = TRUE]
    <3>1. "list" \in Locations
      BY DEF Locations
    <3>2. /\ updated \in Call
          /\ updated.at = "list"
          /\ updated.listed = call[p].listed /\ updated.loaded = call[p].loaded
          /\ updated.answer = call[p].answer /\ updated.late = call[p].late
      BY <1>1, <3>1 DEF Call
    <3> HIDE DEF updated
    <3>3. Become(p, updated)
      BY <2>4 DEF updated
    <3>4. call'[p] = updated
      BY <1>1, <3>3 DEF Become
    <3>5. \A c \in Candidates : Terminal(c)'
      BY <1>1, <1>2, <2>1 DEF PlaceInv
    <3>6. PlaceInv(p)'
      BY <1>1, <1>2, <2>1, <3>2, <3>4, <3>5 DEF PlaceInv
    <3> QED
      BY <3>2, <3>3, <3>6, MoveInv
  <2> QED
    BY <1>3, <2>2, <2>3, <2>4 DEF Finalize
<1>4. CASE ReportFailures(p)
  <2> DEFINE failed == {c \in Candidates : call[p].listed[c] = "failed"}
             output == [c \in Candidates |-> [rank |-> 0, bundle |-> call[p].loaded[c]]]
             answer == [status |-> PartialStatus(p, failed), error |-> "none",
                        failed |-> failed, output |-> output]
  <2>1. /\ call[p].at = "load" /\ call[p].todo = {} /\ call[p].after /\ ~ call[p].late
        /\ candidate' = candidate
    BY <1>1, <1>4 DEF ReportFailures, Here, PlaceInv, screenerVars
  <2>2. CASE Raise(p, "unfinished")
    BY <1>1, <2>1, <2>2, RaiseInv DEF Errors
  <2>3. CASE Leave(p, answer)
    <3>1. \A c \in Candidates :
             /\ call[p].loaded[c] # NoBundle
             /\ call[p].loaded[c] \in Bundles \cup {NoBundle}
             /\ call[p].loaded[c] \in Successes => candidate[c].bundle = call[p].loaded[c]
      BY <1>1, <2>1 DEF PlaceInv, Call
    <3>2. 0 \in 0..CandidateCount
      OBVIOUS
    <3>3. output \in Output /\ \A c \in Candidates : output[c].bundle = call[p].loaded[c]
      BY <3>1, <3>2 DEF Output
    <3>4. PartialStatus(p, failed) \in {"partial_success", "failed"}
      BY DEF PartialStatus
    <3>5. failed \in SUBSET Candidates
      OBVIOUS
    <3> HIDE DEF output, failed
    <3>6. /\ answer \in Answer
          /\ answer.status \in {"partial_success", "failed"} /\ answer.output = output
      BY <3>3, <3>4, <3>5 DEF Answer, Errors
    <3> HIDE DEF answer
    <3>7. answer.status # "success"
      BY <3>6
    <3> QED
      BY <1>1, <2>1, <2>3, <3>1, <3>3, <3>6, <3>7, LeaveInv
  <2> QED
    BY <1>4, <2>2, <2>3 DEF ReportFailures
<1>5. CASE Crash(p)
  <2>1. /\ NoCall \in Call
        /\ NoCall.at = "off" /\ NoCall.after = FALSE /\ NoCall.late = FALSE
        /\ \A c \in Candidates : NoCall.listed[c] = "none" /\ NoCall.loaded[c] = NoBundle
        /\ NoCall.answer.status = "none"
    BY DEF NoCall, Call, Locations, NoAnswer, Answer, Errors
  <2>2. /\ call' \in [Processes -> Call] /\ call'[p] = NoCall
        /\ \A q \in Processes \ {p} : call'[q] = call[q]
    BY <1>1, <1>5, <2>1 DEF Crash, Become
  <2>3. PlaceInv(p)'
    BY <2>1, <2>2 DEF PlaceInv, Bundles
  <2>4. AnswerInv(p)'
    BY <2>1, <2>2 DEF AnswerInv
  <2> QED
    BY <2>2, <2>3, <2>4 DEF Sound
<1> QED
  BY <1>3, <1>4, <1>5

LEMMA StartStep ==
    CheckpointInv /\ RowsKept /\ call \in [Processes -> Call] /\ CallInv =>
    \A p \in Processes : Start(p) => CallInv' /\ call' \in [Processes -> Call]
<1> SUFFICES ASSUME RowsKept, call \in [Processes -> Call], CallInv,
                    NEW p \in Processes, Start(p)
             PROVE  CallInv' /\ call' \in [Processes -> Call]
  OBVIOUS
<1>1. PICK known \in {"explicit", "cached", "unknown"} :
         call' = [q \in Processes |->
                    IF q # p THEN [call[q] EXCEPT !.shared = TRUE]
                    ELSE [NoCall EXCEPT
                            !.at = IF known = "unknown" THEN "create" ELSE "probe",
                            !.explicit = known = "explicit",
                            !.late = run.status = "success",
                            !.shared = \E r \in Processes \ {p} : ~ Here(r, "off")]]
  BY DEF Start
<1>2. run' = run
  BY DEF Start, screenerVars
<1> DEFINE at == IF known = "unknown" THEN "create" ELSE "probe"
           late == run.status = "success"
           shared == \E r \in Processes \ {p} : ~ Here(r, "off")
           started == [NoCall EXCEPT !.at = at, !.explicit = known = "explicit",
                                     !.late = late, !.shared = shared]
<1>3. /\ call'[p] = started
      /\ \A q \in Processes \ {p} : call'[q] = [call[q] EXCEPT !.shared = TRUE]
      /\ call' = [q \in Processes |-> call'[q]]
  BY <1>1
<1>4. at \in {"create", "probe"} /\ late \in BOOLEAN /\ shared \in BOOLEAN
      /\ (known = "explicit") \in BOOLEAN
  OBVIOUS
<1>5. late => run.status = "success"
  OBVIOUS
<1> HIDE DEF at, late, shared
<1>6. /\ NoCall \in Call /\ NoCall.after = FALSE
      /\ \A c \in Candidates : NoCall.listed[c] = "none" /\ NoCall.loaded[c] = NoBundle
      /\ NoCall.answer.status = "none"
  BY DEF NoCall, Call, Locations, NoAnswer, Answer, Errors
<1>7. /\ started \in Call
      /\ started.at = at /\ started.after = FALSE /\ started.late = late
      /\ started.listed = NoCall.listed /\ started.loaded = NoCall.loaded
      /\ started.answer = NoCall.answer
  <2>1. at \in Locations
    BY <1>4 DEF Locations
  <2> QED
    BY <1>4, <1>6, <2>1 DEF Call
<1> HIDE DEF started
<1>8. PlaceInv(p)' /\ AnswerInv(p)'
  <2>1. PlaceInv(p)'
    BY <1>2, <1>3, <1>4, <1>5, <1>6, <1>7 DEF PlaceInv, Bundles
  <2>2. AnswerInv(p)'
    BY <1>3, <1>6, <1>7 DEF AnswerInv
  <2> QED
    BY <2>1, <2>2
<1>9. ASSUME NEW q \in Processes \ {p}
      PROVE  call'[q] \in Call /\ PlaceInv(q)' /\ AnswerInv(q)'
  <2>1. call'[q] = [call[q] EXCEPT !.shared = TRUE] /\ call[q] \in Call
    BY <1>3
  <2>2. /\ call'[q] \in Call
        /\ call'[q].at = call[q].at /\ call'[q].after = call[q].after
        /\ call'[q].listed = call[q].listed /\ call'[q].loaded = call[q].loaded
        /\ call'[q].todo = call[q].todo /\ call'[q].late = call[q].late
        /\ call'[q].answer = call[q].answer
    BY <2>1 DEF Call
  <2> QED
    BY <2>2, CallKept DEF CallInv
<1>10. call' \in [Processes -> Call]
  <2>1. \A q \in Processes : call'[q] \in Call
    BY <1>3, <1>7, <1>9
  <2> QED
    BY <1>3, <2>1
<1> QED
  BY <1>8, <1>9, <1>10 DEF CallInv

(* The inductive invariant. *)
Inv == CheckpointInv /\ call \in [Processes -> Call] /\ CallInv /\ calls \in 0..MaxCalls

LEMMA InvStep == Inv /\ [Next]_vars => Inv'
<1> SUFFICES ASSUME Inv, [Next]_vars
             PROVE  Inv'
  OBVIOUS
<1>1. CheckpointInv /\ call \in [Processes -> Call] /\ CallInv /\ calls \in 0..MaxCalls
  BY DEF Inv
<1>2. [ScreenerNext]_screenerVars
  BY RowStep
<1>3. RowsKept
  BY <1>1, <1>2, RowsAreKept
<1>4. CheckpointInv'
  BY <1>1, <1>2, CreateInv, PersistInv, FinalizeInv, StutterInv DEF ScreenerNext
<1>5. CASE UNCHANGED vars
  <2>1. call' = call /\ calls' = calls
    BY <1>5 DEF vars
  <2>2. CallInv'
    BY <1>1, <1>3, <2>1, CallKept DEF CallInv
  <2> QED
    BY <1>1, <1>4, <2>1, <2>2 DEF Inv
<1>6. ASSUME NEW p \in Processes, Start(p)
      PROVE  Inv'
  <2>1. calls' \in 0..MaxCalls
    <3>1. calls < MaxCalls /\ calls' = calls + 1
      BY <1>6 DEF Start
    <3> QED
      BY <1>1, <3>1
  <2> QED
    BY <1>1, <1>3, <1>4, <1>6, <2>1, StartStep DEF Inv
<1>7. ASSUME NEW p \in Processes, CallStep(p) \/ Crash(p)
      PROVE  Inv'
  <2>1. Before(p)
    BY <1>1, <1>3 DEF Before, CallInv
  <2>2. Sound(p)
    BY <1>7, <2>1, ReplaySteps, ListSteps, LoadSteps, WorkSteps, EndSteps DEF CallStep
  <2>3. calls' = calls
    BY <1>7 DEF CallStep, Crash, Probe, ProbeStatus, ExpectRun, Create, Recheck, RecheckStatus,
       ListCandidates, LoadRow, LoadChildren, BeginWork, Reuse, RetryRaises, Work, Finalize,
       ReportFailures
  <2>4. \A q \in Processes \ {p} : PlaceInv(q)' /\ AnswerInv(q)'
    BY <1>1, <1>3, <2>2, CallKept DEF Sound, CallInv
  <2>5. CallInv' /\ call' \in [Processes -> Call]
    BY <2>2, <2>4 DEF Sound, CallInv
  <2> QED
    BY <1>1, <1>4, <2>3, <2>5 DEF Inv
<1> QED
  BY <1>5, <1>6, <1>7 DEF Next

LEMMA InvInit == Init => Inv
<1> SUFFICES ASSUME Init
             PROVE  Inv
  OBVIOUS
<1>1. CheckpointInv
  BY InitInv DEF Init
<1>2. /\ NoCall \in Call /\ NoCall.at = "off" /\ NoCall.after = FALSE /\ NoCall.late = FALSE
      /\ \A c \in Candidates : NoCall.listed[c] = "none" /\ NoCall.loaded[c] = NoBundle
      /\ NoCall.answer.status = "none"
  BY DEF NoCall, Call, Locations, NoAnswer, Answer, Errors
<1>3. call = [p \in Processes |-> NoCall]
  BY DEF Init
<1>4. \A p \in Processes : PlaceInv(p)
  BY <1>2, <1>3 DEF PlaceInv, Bundles
<1>5. \A p \in Processes : AnswerInv(p)
  BY <1>2, <1>3 DEF AnswerInv
<1>6. calls \in 0..MaxCalls
  BY DEF Init
<1> QED
  BY <1>1, <1>2, <1>3, <1>4, <1>5, <1>6 DEF Inv, CallInv

LEMMA Invariance == Spec => []Inv
BY InvInit, InvStep, PTL DEF Spec

(* Every variable keeps its type. *)
THEOREM OrchestrationTypeCorrect == Spec => []OrchestrationTypeOK
<1>1. Inv => OrchestrationTypeOK
  BY DEF Inv, OrchestrationTypeOK, CheckpointInv
<1> QED
  BY <1>1, Invariance, PTL

(* However many calls work on the run, each that reports success reports   *)
(* the sealed ranking.                                                     *)
THEOREM SuccessReportsAgree == Spec => []SuccessReportIsSeal
<1>1. Inv => SuccessReportIsSeal
  BY DEF Inv, CallInv, AnswerInv, SuccessReportIsSeal
<1> QED
  BY <1>1, Invariance, PTL

(* A call of run() made after the seal can only replay it. *)
THEOREM LateCallsReplay == Spec => []ReplayAfterSeal
<1>1. Inv => ReplayAfterSeal
  BY DEF Inv, CallInv, AnswerInv, ReplayAfterSeal
<1> QED
  BY <1>1, Invariance, PTL

(* A partial result covers the whole shortlist, and its successes stay.    *)
THEOREM PartialReportsHold == Spec => []PartialReportHolds
<1>1. Inv => PartialReportHolds
  BY DEF Inv, CallInv, AnswerInv, PartialReportHolds
<1> QED
  BY <1>1, Invariance, PTL

(* The orchestrated repository keeps the promises of the repository.       *)
THEOREM OrchestratedSealHolds == Spec => []SealedResultHolds /\ ResultsKept
BY OrchestrationUsesStore, SealHolds, ResultsAreKept

(* ReportsHold for any number of calls, overlapping and dying.             *)
THEOREM ReportsStand == Spec => []ReportsHold
BY SuccessReportsAgree, LateCallsReplay, PartialReportsHold, PTL DEF ReportsHold

----------------------------------------------------------------------------

(* A call that nobody joined, under way or at its end: since it began no   *)
(* other has, and no other was under way then.                             *)
Alone(p) == ~ call[p].shared /\ call[p] # NoCall

(* What such a call knows: no failure before the loop; that the run is     *)
(* there and open; that the list is what the rows say, in the loop for     *)
(* what is left of it; and its failures are those of the rows, in the loop *)
(* for what is done of it.                                                 *)
NoFailureYet(p) == ~ Here(p, "work") /\ ~ call[p].after => call[p].failures = {}

SeesRun(p) ==
    /\ call[p].at \in {"recheck", "recheck_status", "list", "load", "children", "work"} =>
          run.status # "none"
    /\ call[p].at \in {"probe_status", "recheck_status", "list", "load", "children", "work"} =>
          run.status # "success"

ListIsTrue(p) ==
    /\ call[p].at \in {"load", "children"} =>
          \A c \in Candidates : call[p].listed[c] = candidate[c].status
    /\ Here(p, "children") =>
          \A c \in Candidates : IsFirst(c, call[p].todo) => call[p].row = candidate[c].bundle

LoopIsTrue(p) ==
    Here(p, "work") =>
       /\ \A c \in call[p].todo :
             call[p].listed[c] = candidate[c].status /\ c \notin call[p].failures
       /\ \A c \in Candidates \ call[p].todo :
             candidate[c].status = "failed" <=> c \in call[p].failures

FailuresAreTrue(p) ==
    call[p].after =>
       /\ call[p].at \in {"list", "load", "children"}
       /\ call[p].failures = Having(candidate, "failed") /\ call[p].failures # {}

KnowsRows(p) ==
    /\ call[p].answer = NoAnswer
    /\ NoFailureYet(p) /\ SeesRun(p) /\ ListIsTrue(p) /\ LoopIsTrue(p) /\ FailuresAreTrue(p)

(* What it says when it is left. *)
Reported(p) ==
    /\ call[p].answer.status \in {"success", "partial_success", "failed"} =>
          /\ call[p].answer.status = run.status
          /\ call[p].answer.failed = Having(candidate, "failed")
          /\ call[p].answer.failed = call[p].failures
    /\ call[p].answer.error \in {"none", "unknown_run"}

Told(p) == (~ Here(p, "off") => KnowsRows(p)) /\ Reported(p)

AloneInv ==
    \A p \in Processes :
       Alone(p) => Told(p) /\ \A q \in Processes \ {p} : Here(q, "off")

(* A call that goes on has said nothing yet. *)
LEMMA KnowsTold == ASSUME NEW p \in Processes, KnowsRows(p)' PROVE Told(p)'
<1>1. call'[p].answer.status = "none" /\ call'[p].answer.error = "none"
  BY DEF KnowsRows, NoAnswer
<1> QED
  BY <1>1 DEF Told, Reported

(* A call that is left with an answer that agrees with the rows. *)
LEMMA LeaveTold ==
    ASSUME call \in [Processes -> Call], NEW p \in Processes, NEW answer \in Answer,
           Leave(p, answer), answer.error \in {"none", "unknown_run"},
           answer.status \in {"success", "partial_success", "failed"} =>
              /\ answer.status = run'.status
              /\ answer.failed = Having(candidate', "failed")
              /\ answer.failed = call[p].failures
    PROVE  Told(p)'
<1>1. /\ call'[p].at = "off" /\ call'[p].answer = answer
      /\ call'[p].failures = call[p].failures
  BY LeaveEffect
<1>2. Having(candidate, "failed")' = Having(candidate', "failed")
  BY DEF Having
<1> QED
  BY <1>1, <1>2 DEF Told, Reported, Here

LEMMA UnknownTold ==
    ASSUME call \in [Processes -> Call], NEW p \in Processes, Raise(p, "unknown_run")
    PROVE  Told(p)'
<1> DEFINE answer == [NoAnswer EXCEPT !.status = "error", !.error = "unknown_run"]
<1>1. answer \in Answer /\ answer.status = "error" /\ answer.error = "unknown_run"
  BY DEF Answer, NoAnswer, Errors
<1>2. Leave(p, answer)
  BY DEF Raise
<1> HIDE DEF answer
<1> QED
  BY <1>1, <1>2, LeaveTold

LEMMA SealedTold ==
    ASSUME call \in [Processes -> Call], NEW p \in Processes, NEW output \in Output,
           ReturnSealed(p, output), call[p].failures = {},
           run'.status = "success", Having(candidate', "success") = Candidates
    PROVE  Told(p)'
<1> DEFINE answer == [NoAnswer EXCEPT !.status = "success", !.output = output]
<1>1. /\ answer \in Answer /\ answer.status = "success"
      /\ answer.error = "none" /\ answer.failed = {}
  BY DEF Answer, NoAnswer, Errors
<1>2. Leave(p, answer)
  BY DEF ReturnSealed
<1>3. Having(candidate', "failed") = {}
  BY DEF Having
<1> HIDE DEF answer
<1> QED
  BY <1>1, <1>2, <1>3, LeaveTold

(* What the steps below start from. *)
AloneBefore(p) ==
    /\ CheckpointInv /\ CheckpointInv'
    /\ call \in [Processes -> Call]
    /\ PlaceInv(p) /\ KnowsRows(p) /\ ~ Here(p, "off")

(* A call that goes on and leaves the rows alone. *)
LEMMA GotoTold ==
    ASSUME NEW p \in Processes, AloneBefore(p), run' = run, candidate' = candidate,
           NEW location \in Locations \ {"load", "children", "work", "off"},
           Goto(p, location), ~ Here(p, "work"), ~ call[p].after,
           location \in {"recheck", "recheck_status", "list"} => run.status # "none",
           location \in {"probe_status", "recheck_status", "list"} => run.status # "success"
    PROVE  Told(p)'
<1>1. /\ Moves(p)
      /\ call'[p].at = location /\ call'[p].after = call[p].after
      /\ call'[p].failures = call[p].failures
  BY GotoEffect DEF AloneBefore
<1>2. KnowsRows(p)'
  BY <1>1 DEF AloneBefore, KnowsRows, NoFailureYet, SeesRun, ListIsTrue, LoopIsTrue,
     FailuresAreTrue, Here, Moves
<1> QED
  BY <1>2, KnowsTold

LEMMA ReplayAlone ==
    ASSUME NEW p \in Processes, AloneBefore(p),
           \/ Probe(p) \/ ProbeStatus(p) \/ ExpectRun(p) \/ Create(p) \/ Recheck(p)
           \/ RecheckStatus(p)
    PROVE  Told(p)'
<1>1. /\ call \in [Processes -> Call] /\ KnowsRows(p) /\ CheckpointInv
      /\ call[p].at \in {"probe", "probe_status", "expect", "create", "recheck", "recheck_status"}
  BY DEF AloneBefore, Probe, ProbeStatus, ExpectRun, Create, Recheck, RecheckStatus, Here
<1>2. ~ Here(p, "work") /\ ~ call[p].after /\ call[p].failures = {}
  BY <1>1 DEF KnowsRows, NoFailureYet, FailuresAreTrue, Here
<1>3. /\ {"probe_status", "expect", "create", "recheck", "recheck_status", "list"}
             \subseteq Locations \ {"load", "children", "work", "off"}
  BY DEF Locations
<1>4. run.status = "success" => run.seal \in Output /\ Having(candidate, "success") = Candidates
  BY <1>1, SealIsOutput DEF CheckpointInv, StatusMatchesCandidates
<1>5. CASE Probe(p)
  <2>1. run' = run /\ candidate' = candidate
    BY <1>5 DEF Probe, screenerVars
  <2>2. CASE run.status = "success" /\ ReturnSealed(p, run.seal)
    BY <1>1, <1>2, <1>4, <2>1, <2>2, SealedTold
  <2>3. CASE run.status = "none" /\ Goto(p, IF call[p].explicit THEN "expect" ELSE "create")
    <3>1. CASE call[p].explicit
      BY <1>2, <1>3, <2>1, <2>3, <3>1, GotoTold
    <3>2. CASE ~ call[p].explicit
      BY <1>2, <1>3, <2>1, <2>3, <3>2, GotoTold
    <3> QED
      BY <3>1, <3>2
  <2>4. CASE run.status \notin {"none", "success"} /\ Goto(p, "probe_status")
    BY <1>2, <1>3, <2>1, <2>4, GotoTold
  <2> QED
    BY <1>5, <2>2, <2>3, <2>4 DEF Probe
<1>6. CASE ProbeStatus(p)
  <2>1. run' = run /\ candidate' = candidate /\ run.status # "success"
    BY <1>1, <1>6 DEF ProbeStatus, screenerVars, KnowsRows, SeesRun, Here
  <2>2. Goto(p, "create")
    BY <1>6, <2>1 DEF ProbeStatus
  <2> QED
    BY <1>2, <1>3, <2>1, <2>2, GotoTold
<1>7. CASE ExpectRun(p)
  <2>1. run' = run /\ candidate' = candidate
    BY <1>7 DEF ExpectRun, screenerVars
  <2>2. CASE Raise(p, "unknown_run")
    BY <1>1, <2>2, UnknownTold
  <2>3. CASE Goto(p, "create")
    BY <1>2, <1>3, <2>1, <2>3, GotoTold
  <2> QED
    BY <1>7, <2>2, <2>3 DEF ExpectRun
<1>8. CASE Create(p)
  <2>1. run'.status # "none"
    BY <1>1, <1>8 DEF Create, CreateRun, CheckpointInv, ScreenerTypeOK, ScreenerRunRow, screenerVars
  <2>2. Goto(p, "recheck") /\ "recheck" \in Locations
    BY <1>3, <1>8 DEF Create
  <2>3. /\ Moves(p)
        /\ call'[p].at = "recheck" /\ call'[p].after = call[p].after
        /\ call'[p].failures = call[p].failures
    BY <1>1, <2>2, GotoEffect
  <2>4. KnowsRows(p)'
    BY <1>1, <1>2, <2>1, <2>3 DEF KnowsRows, NoFailureYet, SeesRun, ListIsTrue, LoopIsTrue,
       FailuresAreTrue, Here, Moves
  <2> QED
    BY <2>4, KnowsTold
<1>9. CASE Recheck(p)
  <2>1. run' = run /\ candidate' = candidate /\ run.status # "none"
    BY <1>1, <1>9 DEF Recheck, screenerVars, KnowsRows, SeesRun, Here
  <2>2. CASE run.status = "success" /\ ReturnSealed(p, run.seal)
    BY <1>1, <1>2, <1>4, <2>1, <2>2, SealedTold
  <2>3. CASE run.status # "success" /\ Goto(p, "recheck_status")
    BY <1>2, <1>3, <2>1, <2>3, GotoTold
  <2> QED
    BY <1>9, <2>2, <2>3 DEF Recheck
<1>10. CASE RecheckStatus(p)
  <2>1. run' = run /\ candidate' = candidate /\ run.status \notin {"none", "success"}
    BY <1>1, <1>10 DEF RecheckStatus, screenerVars, KnowsRows, SeesRun, Here
  <2>2. Goto(p, "list")
    BY <1>10, <2>1 DEF RecheckStatus
  <2> QED
    BY <1>2, <1>3, <2>1, <2>2, GotoTold
<1> QED
  BY <1>5, <1>6, <1>7, <1>8, <1>9, <1>10

(* Reading the list, and the rows it names: nothing has changed since.     *)
LEMMA ListAlone ==
    ASSUME NEW p \in Processes, AloneBefore(p), ListCandidates(p)
    PROVE  Told(p)'
<1>1. /\ call[p] \in Call /\ KnowsRows(p) /\ call \in [Processes -> Call]
      /\ candidate \in [Candidates -> CandidateRow]
  BY DEF AloneBefore, CheckpointInv, ScreenerTypeOK
<1> DEFINE listed == [c \in Candidates |-> candidate[c].status]
           todo == Having(candidate, "success") \cup Having(candidate, "failed")
           updated == [call[p] EXCEPT !.at = "load", !.listed = listed, !.todo = todo]
<1>2. /\ call[p].at = "list" /\ Become(p, updated)
      /\ candidate' = candidate /\ run' = run
  BY DEF ListCandidates, Here, screenerVars
<1>3. \A c \in Candidates : listed[c] = candidate[c].status
  OBVIOUS
<1> HIDE DEF listed, todo
<1>4. /\ updated.at = "load" /\ updated.after = call[p].after
      /\ updated.listed = listed /\ updated.answer = call[p].answer
      /\ updated.failures = call[p].failures
  BY <1>1 DEF Call
<1> HIDE DEF updated
<1>5. call'[p] = updated
  BY <1>1, <1>2 DEF Become
<1>6. KnowsRows(p)'
  BY <1>1, <1>2, <1>3, <1>4, <1>5 DEF KnowsRows, NoFailureYet, SeesRun, ListIsTrue, LoopIsTrue,
     FailuresAreTrue, Here
<1> QED
  BY <1>6, KnowsTold

LEMMA LoadAlone ==
    ASSUME NEW p \in Processes, AloneBefore(p), LoadRow(p) \/ LoadChildren(p)
    PROVE  Told(p)'
<1>1. /\ call[p] \in Call /\ KnowsRows(p) /\ call \in [Processes -> Call]
      /\ call[p].at \in {"load", "children"} /\ run.status # "success"
      /\ \A c \in Candidates : candidate[c].rank = 0
      /\ run' = run /\ candidate' = candidate
  BY DEF AloneBefore, CheckpointInv, SealMatchesRows, KnowsRows, SeesRun, LoadRow, LoadChildren,
     Here, screenerVars
<1>2. CASE LoadRow(p)
  <2>1. PICK c \in Candidates :
           /\ IsFirst(c, call[p].todo)
           /\ Become(p, [call[p] EXCEPT !.at = "children", !.row = candidate[c].bundle])
    BY <1>1, <1>2 DEF LoadRow
  <2>2. \A d \in Candidates : IsFirst(d, call[p].todo) => d = c
    BY <2>1 DEF IsFirst, Candidates
  <2> DEFINE bundle == candidate[c].bundle
             updated == [call[p] EXCEPT !.at = "children", !.row = bundle]
  <2>3. Become(p, updated) /\ call[p].at = "load"
    BY <1>2, <2>1 DEF LoadRow, Here
  <2> HIDE DEF bundle
  <2>4. /\ updated.at = "children" /\ updated.after = call[p].after
        /\ updated.listed = call[p].listed /\ updated.todo = call[p].todo
        /\ updated.row = bundle /\ updated.answer = call[p].answer
        /\ updated.failures = call[p].failures
    BY <1>1 DEF Call
  <2> HIDE DEF updated
  <2>5. call'[p] = updated
    BY <1>1, <2>3 DEF Become
  <2>6. ListIsTrue(p)'
    BY <1>1, <2>2, <2>3, <2>4, <2>5 DEF KnowsRows, ListIsTrue, Here, bundle, IsFirst
  <2>7. KnowsRows(p)'
    BY <1>1, <2>3, <2>4, <2>5, <2>6 DEF KnowsRows, NoFailureYet, SeesRun, LoopIsTrue,
       FailuresAreTrue, Here
  <2> QED
    BY <2>7, KnowsTold
<1>3. CASE LoadChildren(p)
  <2>1. PICK c \in Candidates :
           Become(p, [call[p] EXCEPT
                        !.at = "load", !.row = NoBundle, !.todo = @ \ {c},
                        !.loaded = [call[p].loaded EXCEPT ![c] = call[p].row]])
    <3>1. \A c \in Candidates : IsFirst(c, call[p].todo) => candidate[c].bundle = call[p].row
      BY <1>1, <1>3 DEF KnowsRows, ListIsTrue, LoadChildren
    <3> QED
      BY <1>3, <3>1 DEF LoadChildren
  <2> DEFINE loaded == [call[p].loaded EXCEPT ![c] = call[p].row]
             todo == call[p].todo \ {c}
             updated == [call[p] EXCEPT !.at = "load", !.row = NoBundle, !.todo = todo,
                                        !.loaded = loaded]
  <2>2. Become(p, updated) /\ call[p].at = "children"
    BY <1>3, <2>1 DEF LoadChildren, Here
  <2> HIDE DEF loaded, todo
  <2>3. /\ updated.at = "load" /\ updated.after = call[p].after
        /\ updated.listed = call[p].listed /\ updated.answer = call[p].answer
        /\ updated.failures = call[p].failures
    BY <1>1 DEF Call
  <2> HIDE DEF updated
  <2>4. call'[p] = updated
    BY <1>1, <2>2 DEF Become
  <2>5. KnowsRows(p)'
    BY <1>1, <2>2, <2>3, <2>4 DEF KnowsRows, NoFailureYet, SeesRun, ListIsTrue, LoopIsTrue,
       FailuresAreTrue, Here
  <2> QED
    BY <2>5, KnowsTold
<1> QED
  BY <1>2, <1>3

(* The loop: the first candidate left is done with.                        *)
LEMMA LoopTold ==
    ASSUME NEW p \in Processes, AloneBefore(p), Here(p, "work"),
           NEW c \in call[p].todo, NEW failures \in SUBSET Candidates,
           Become(p, [call[p] EXCEPT !.todo = @ \ {c}, !.failures = failures]),
           run'.status \notin {"none", "success"},
           \A d \in Candidates \ {c} : candidate'[d] = candidate[d],
           candidate'[c].status = "failed" <=> c \in failures,
           failures \ {c} = call[p].failures
    PROVE  Told(p)'
<1>1. /\ call[p] \in Call /\ KnowsRows(p) /\ call \in [Processes -> Call]
      /\ ~ call[p].after
  BY DEF AloneBefore, KnowsRows, FailuresAreTrue, Here
<1> DEFINE todo == call[p].todo \ {c}
           updated == [call[p] EXCEPT !.todo = todo, !.failures = failures]
<1>2. Become(p, updated)
  OBVIOUS
<1>3. /\ call[p].todo \subseteq Candidates
      /\ \A d \in Candidates : d \in todo <=> d \in call[p].todo /\ d # c
  BY <1>1 DEF Call
<1> HIDE DEF todo
<1>4. /\ updated.at = call[p].at /\ updated.after = call[p].after
      /\ updated.listed = call[p].listed /\ updated.answer = call[p].answer
      /\ updated.todo = todo /\ updated.failures = failures
  BY <1>1 DEF Call
<1> HIDE DEF updated
<1>5. call'[p] = updated /\ call[p].at = "work"
  BY <1>1, <1>2 DEF Become, Here
<1>6. todo \subseteq Candidates
  BY <1>3 DEF todo
<1>7. LoopIsTrue(p)'
  <2>1. \A d \in Candidates : d # c => (d \in failures <=> d \in call[p].failures)
    OBVIOUS
  <2>2. \A d \in todo : call[p].listed[d] = candidate'[d].status /\ d \notin failures
    BY <1>1, <1>3, <1>5, <1>6, <2>1 DEF KnowsRows, LoopIsTrue, Here
  <2>3. \A d \in Candidates \ todo : candidate'[d].status = "failed" <=> d \in failures
    <3> SUFFICES ASSUME NEW d \in Candidates \ todo
                 PROVE  candidate'[d].status = "failed" <=> d \in failures
      OBVIOUS
    <3>1. CASE d = c
      BY <3>1
    <3>2. CASE d # c
      BY <1>1, <1>3, <1>5, <2>1, <3>2 DEF KnowsRows, LoopIsTrue, Here
    <3> QED
      BY <3>1, <3>2
  <2> QED
    BY <1>4, <1>5, <2>2, <2>3 DEF LoopIsTrue, Here
<1>8. KnowsRows(p)'
  BY <1>1, <1>4, <1>5, <1>7 DEF KnowsRows, NoFailureYet, SeesRun, ListIsTrue, FailuresAreTrue, Here
<1> QED
  BY <1>8, KnowsTold

LEMMA WorkAlone ==
    ASSUME NEW p \in Processes, AloneBefore(p), [ScreenerNext]_screenerVars,
           BeginWork(p) \/ Reuse(p) \/ RetryRaises(p) \/ Work(p)
    PROVE  Told(p)'
<1>1. /\ call[p] \in Call /\ KnowsRows(p) /\ call \in [Processes -> Call]
      /\ CheckpointInv /\ candidate \in [Candidates -> CandidateRow]
      /\ run.status \notin {"none", "success"}
      /\ call[p].failures \in SUBSET Candidates /\ call[p].todo \in SUBSET Candidates
  BY DEF AloneBefore, CheckpointInv, ScreenerTypeOK, KnowsRows, SeesRun, BeginWork, Reuse,
     RetryRaises, Work, Here, Call
<1>2. Here(p, "work") =>
         /\ \A c \in call[p].todo :
               call[p].listed[c] = candidate[c].status /\ c \notin call[p].failures
  BY <1>1 DEF KnowsRows, LoopIsTrue
<1>3. CASE BeginWork(p)
  <2> DEFINE updated == [call[p] EXCEPT !.at = "work", !.todo = Candidates]
  <2>1. /\ Become(p, updated) /\ ~ call[p].after /\ call[p].at = "load"
        /\ run' = run /\ candidate' = candidate
    BY <1>3 DEF BeginWork, Here, screenerVars
  <2>2. /\ updated.at = "work" /\ updated.after = call[p].after
        /\ updated.listed = call[p].listed /\ updated.answer = call[p].answer
        /\ updated.todo = Candidates /\ updated.failures = call[p].failures
    BY <1>1 DEF Call
  <2> HIDE DEF updated
  <2>3. call'[p] = updated
    BY <1>1, <2>1 DEF Become
  <2>4. call[p].failures = {}
    BY <1>1, <2>1 DEF KnowsRows, NoFailureYet, Here
  <2>5. \A c \in Candidates : call[p].listed[c] = candidate[c].status
    BY <1>1, <2>1 DEF KnowsRows, ListIsTrue
  <2>6. KnowsRows(p)'
    BY <1>1, <2>1, <2>2, <2>3, <2>4, <2>5 DEF KnowsRows, NoFailureYet, SeesRun, ListIsTrue,
       LoopIsTrue, FailuresAreTrue, Here
  <2> QED
    BY <2>6, KnowsTold
<1>4. CASE Reuse(p)
  <2>1. PICK c \in Candidates :
           /\ IsFirst(c, call[p].todo) /\ call[p].listed[c] = "success"
           /\ Become(p, [call[p] EXCEPT !.todo = @ \ {c}])
    BY <1>4 DEF Reuse
  <2>2. [call[p] EXCEPT !.todo = @ \ {c}]
           = [call[p] EXCEPT !.todo = @ \ {c}, !.failures = call[p].failures]
    BY <1>1 DEF Call
  <2>3. /\ Here(p, "work") /\ run' = run /\ candidate' = candidate
        /\ c \in call[p].todo
    BY <1>4, <2>1 DEF Reuse, screenerVars, IsFirst
  <2>4. candidate'[c].status = "success" /\ c \notin call[p].failures
    BY <1>2, <2>1, <2>3
  <2> DEFINE failures == call[p].failures
  <2>5. failures \ {c} = failures
    BY <2>4
  <2> QED
    BY <1>1, <2>1, <2>2, <2>3, <2>4, <2>5, LoopTold
<1>5. CASE RetryRaises(p)
  <2>1. PICK c \in Candidates :
           /\ IsFirst(c, call[p].todo) /\ call[p].listed[c] = "failed"
           /\ Become(p, [call[p] EXCEPT !.todo = @ \ {c}, !.failures = @ \cup {c}])
    BY <1>5 DEF RetryRaises
  <2>2. /\ Here(p, "work") /\ run' = run /\ candidate' = candidate
        /\ c \in call[p].todo
    BY <1>5, <2>1 DEF RetryRaises, screenerVars, IsFirst
  <2>3. candidate'[c].status = "failed" /\ c \notin call[p].failures
    BY <1>2, <2>1, <2>2
  <2> DEFINE failures == call[p].failures \cup {c}
  <2>4. failures \in SUBSET Candidates /\ failures \ {c} = call[p].failures /\ c \in failures
    BY <1>1, <2>3
  <2>5. Become(p, [call[p] EXCEPT !.todo = @ \ {c}, !.failures = failures])
    BY <2>1
  <2> HIDE DEF failures
  <2> QED
    BY <1>1, <2>2, <2>3, <2>4, <2>5, LoopTold
<1>6. CASE Work(p)
  <2>1. PICK c \in Candidates, b \in Bundles :
           /\ IsFirst(c, call[p].todo) /\ call[p].listed[c] # "success"
           /\ Research(p, c, b) \/ Refused(p, c, b)
    BY <1>6 DEF Work
  <2>2. Here(p, "work") /\ c \in call[p].todo
    BY <1>6, <2>1 DEF Work, IsFirst
  <2>3. candidate[c].status \in {"pending", "failed"} /\ call[p].listed[c] = candidate[c].status
        /\ c \notin call[p].failures
    <3>1. candidate[c].status \in {"none", "pending", "success", "failed"}
      BY <1>1 DEF CandidateRow
    <3>2. candidate[c].status # "none"
      BY <1>1 DEF CheckpointInv, RowsInv
    <3> QED
      BY <1>2, <2>1, <2>2, <3>1, <3>2
  <2>4. Writes(c, Retries(p, c)) /\ ~ Replays(c, b, Retries(p, c))
    BY <1>1, <2>3 DEF Writes, Replays, Retries
  <2>5. PersistCandidate(c, b, Retries(p, c)) /\ Research(p, c, b)
    BY <2>1, <2>4 DEF Research, Refused
  <2>6. Retries(p, c) \in BOOLEAN
    BY DEF Retries
  <2>7. /\ candidate'[c].status = IF b \in Failures THEN "failed" ELSE "success"
        /\ \A d \in Candidates \ {c} : candidate'[d] = candidate[d]
        /\ run'.status = RefreshedStatus(candidate')
    BY <1>1, <2>5, <2>6, PersistEffect DEF CheckpointInv
  <2>8. run'.status \notin {"none", "success"}
    BY <2>7 DEF RefreshedStatus
  <2> DEFINE failures == call[p].failures \cup IF b \in Failures THEN {c} ELSE {}
  <2>9. Become(p, [call[p] EXCEPT !.todo = @ \ {c}, !.failures = failures])
    BY <2>5 DEF Research
  <2>10. /\ failures \in SUBSET Candidates /\ failures \ {c} = call[p].failures
         /\ c \in failures <=> b \in Failures
    BY <1>1, <2>3
  <2>11. candidate'[c].status = "failed" <=> c \in failures
    BY <2>7, <2>10
  <2> HIDE DEF failures
  <2> QED
    BY <1>1, <2>2, <2>7, <2>8, <2>9, <2>10, <2>11, LoopTold
<1> QED
  BY <1>3, <1>4, <1>5, <1>6

(* The end of the call. *)
LEMMA EndAlone ==
    ASSUME NEW p \in Processes, AloneBefore(p), Finalize(p) \/ ReportFailures(p)
    PROVE  Told(p)'
<1>1. /\ call[p] \in Call /\ KnowsRows(p) /\ call \in [Processes -> Call]
      /\ CheckpointInv /\ CheckpointInv' /\ PlaceInv(p)
      /\ candidate \in [Candidates -> CandidateRow]
      /\ run \in ScreenerRunRow /\ run.status \notin {"none", "success"}
      /\ call[p].failures \subseteq Candidates
  BY DEF AloneBefore, CheckpointInv, ScreenerTypeOK, KnowsRows, SeesRun, Finalize,
     ReportFailures, Here, Call
<1>2. ASSUME \A c \in Candidates : Terminal(c)
      PROVE  /\ Having(candidate, "failed") = {} => Finalizable
             /\ run.status = "failed" <=>
                   Having(candidate, "failed") # {} /\ Having(candidate, "failed") = Candidates
             /\ Having(candidate, "failed") # {} => run.status \in {"failed", "partial_success"}
  <2>1. /\ Having(candidate, "pending") = {}
        /\ Having(candidate, "failed") = {} => Having(candidate, "success") = Candidates
        /\ Having(candidate, "failed") = Candidates => Having(candidate, "success") = {}
    BY <1>2 DEF Terminal, Having
  <2>2. run.status \in {"running", "partial_success", "failed"}
    BY <1>1 DEF ScreenerRunRow
  <2>3. /\ run.status = "running" => Having(candidate, "failed") = {}
        /\ run.status = "failed" => Candidates # {} /\ Having(candidate, "failed") = Candidates
        /\ run.status = "partial_success" =>
              Having(candidate, "failed") # {} /\ Having(candidate, "success") # {}
    BY <1>1, <2>1 DEF CheckpointInv, StatusMatchesCandidates
  <2> QED
    BY <2>1, <2>2, <2>3 DEF Finalizable
<1>3. CASE Finalize(p)
  <2>1. call[p].at = "work" /\ call[p].todo = {}
    BY <1>3 DEF Finalize, Here
  <2>2. \A c \in Candidates : Terminal(c)
    BY <1>1, <2>1 DEF PlaceInv
  <2>3. call[p].failures = Having(candidate, "failed")
    BY <1>1, <2>1 DEF KnowsRows, LoopIsTrue, Here, Having
  <2>4. CASE FinalizeRun /\ ReturnSealed(p, run'.seal)
    <3>1. run'.status = "success"
      BY <1>1, <2>4, FinalizeEffect
    <3>2. run'.seal \in Output
      <4>1. run'.seal = OutputOf(candidate') /\ candidate' \in [Candidates -> CandidateRow]
        BY <1>1, <2>4, FinalizeEffect
      <4> QED
        BY <4>1 DEF OutputOf, Output, CandidateRow
    <3>3. call[p].failures = {}
      BY <2>3, <2>4 DEF FinalizeRun, Finalizable, Having
    <3>4. Having(candidate', "success") = Candidates
      BY <1>1, <2>4, FinalizeEffect DEF Having
    <3> QED
      BY <1>1, <2>4, <3>1, <3>2, <3>3, <3>4, SealedTold
  <2>5. CASE /\ ~ Finalizable /\ run.status # "success"
             /\ Become(p, [call[p] EXCEPT !.at = "list", !.after = TRUE])
             /\ UNCHANGED screenerVars
    <3> DEFINE updated == [call[p] EXCEPT !.at = "list", !.after = TRUE]
    <3>1. /\ updated.at = "list" /\ updated.after = TRUE
          /\ updated.answer = call[p].answer /\ updated.failures = call[p].failures
      BY <1>1 DEF Call
    <3>2. Become(p, updated) /\ run' = run /\ candidate' = candidate
      BY <2>5 DEF screenerVars
    <3> HIDE DEF updated
    <3>3. call'[p] = updated
      BY <1>1, <3>2 DEF Become
    <3>4. call[p].failures # {}
      BY <1>2, <2>2, <2>3, <2>5
    <3>5. KnowsRows(p)'
      BY <1>1, <2>3, <3>1, <3>2, <3>3, <3>4 DEF KnowsRows, NoFailureYet, SeesRun, ListIsTrue,
         LoopIsTrue, FailuresAreTrue, Here
    <3> QED
      BY <3>5, KnowsTold
  <2> QED
    BY <1>1, <1>3, <2>4, <2>5 DEF Finalize
<1>4. CASE ReportFailures(p)
  <2> DEFINE failed == {c \in Candidates : call[p].listed[c] = "failed"}
             output == [c \in Candidates |-> [rank |-> 0, bundle |-> call[p].loaded[c]]]
             answer == [status |-> PartialStatus(p, failed), error |-> "none",
                        failed |-> failed, output |-> output]
  <2>1. /\ call[p].at = "load" /\ call[p].todo = {} /\ call[p].after
        /\ run' = run /\ candidate' = candidate
    BY <1>4 DEF ReportFailures, Here, screenerVars
  <2>2. \A c \in Candidates :
           /\ Terminal(c) /\ call[p].listed[c] = candidate[c].status
           /\ call[p].loaded[c] # NoBundle
           /\ call[p].loaded[c] \in Bundles \cup {NoBundle}
    BY <1>1, <2>1 DEF PlaceInv, KnowsRows, ListIsTrue, Call
  <2>3. failed = Having(candidate, "failed")
    BY <2>2 DEF Having
  <2>4. failed = call[p].failures /\ failed # {}
    BY <1>1, <2>1, <2>3 DEF KnowsRows, FailuresAreTrue
  <2>5. Leave(p, answer)
    BY <1>4, <2>4 DEF ReportFailures
  <2>6. output \in Output
    BY <2>2 DEF Output
  <2>7. failed \in SUBSET Candidates
    OBVIOUS
  <2> HIDE DEF failed, output
  <2>8. PartialStatus(p, failed) = run.status
    <3>1. PartialStatus(p, failed) = IF failed = Candidates THEN "failed" ELSE "partial_success"
      BY <2>2, <2>7 DEF PartialStatus
    <3> QED
      BY <1>2, <2>2, <2>3, <2>4, <3>1
  <2>9. PartialStatus(p, failed) \in {"partial_success", "failed"}
    BY DEF PartialStatus
  <2>10. /\ answer \in Answer /\ answer.error = "none"
         /\ answer.status = run.status /\ answer.failed = failed
    BY <2>6, <2>7, <2>8, <2>9 DEF Answer, Errors
  <2>11. Having(candidate', "failed") = failed /\ run' = run
    BY <2>1, <2>3
  <2> HIDE DEF answer
  <2> QED
    BY <1>1, <2>4, <2>5, <2>10, <2>11, LeaveTold
<1> QED
  BY <1>3, <1>4

(* Whether a call is shared is said only when one begins.                  *)
LEMMA SharedStays ==
    ASSUME call \in [Processes -> Call], NEW p \in Processes, CallStep(p)
    PROVE  call'[p].shared = call[p].shared
<1>1. call[p] \in Call
  OBVIOUS
<1>2. ASSUME NEW answer, Leave(p, answer)
      PROVE  call'[p].shared = call[p].shared
  BY <1>2 DEF Leave, Become, NoCall
<1>3. ASSUME NEW error, Raise(p, error)
      PROVE  call'[p].shared = call[p].shared
  BY <1>2, <1>3 DEF Raise
<1>4. ASSUME NEW output, ReturnSealed(p, output)
      PROVE  call'[p].shared = call[p].shared
  BY <1>2, <1>4 DEF ReturnSealed
<1>5. ASSUME NEW location, Goto(p, location)
      PROVE  call'[p].shared = call[p].shared
  BY <1>1, <1>5 DEF Goto, Become, Call
<1>6. ASSUME Probe(p) \/ ProbeStatus(p) \/ ExpectRun(p) \/ Create(p) \/ Recheck(p)
               \/ RecheckStatus(p)
      PROVE  call'[p].shared = call[p].shared
  BY <1>3, <1>4, <1>5, <1>6 DEF Probe, ProbeStatus, ExpectRun, Create, Recheck, RecheckStatus
<1>7. CASE ListCandidates(p)
  <2> DEFINE listed == [c \in Candidates |-> candidate[c].status]
             todo == Having(candidate, "success") \cup Having(candidate, "failed")
  <2>1. Become(p, [call[p] EXCEPT !.at = "load", !.listed = listed, !.todo = todo])
    BY <1>7 DEF ListCandidates
  <2> HIDE DEF listed, todo
  <2> QED
    BY <1>1, <2>1 DEF Become, Call
<1>8. CASE LoadRow(p)
  <2>1. CASE \E c \in Candidates : Raise(p, "load")
    BY <1>3, <2>1
  <2>2. CASE \E c \in Candidates :
               Become(p, [call[p] EXCEPT !.at = "children", !.row = candidate[c].bundle])
    <3>1. PICK c \in Candidates :
               Become(p, [call[p] EXCEPT !.at = "children", !.row = candidate[c].bundle])
      BY <2>2
    <3> DEFINE row == candidate[c].bundle
    <3>2. Become(p, [call[p] EXCEPT !.at = "children", !.row = row])
      BY <3>1
    <3> HIDE DEF row
    <3> QED
      BY <1>1, <3>2 DEF Become, Call
  <2> QED
    BY <1>8, <2>1, <2>2 DEF LoadRow
<1>9. CASE LoadChildren(p)
  <2>1. CASE \E c \in Candidates : Raise(p, "load")
    BY <1>3, <2>1
  <2>2. CASE \E c \in Candidates :
               Become(p, [call[p] EXCEPT
                            !.at = "load", !.row = NoBundle, !.todo = @ \ {c},
                            !.loaded = [call[p].loaded EXCEPT ![c] = call[p].row]])
    <3>1. PICK c \in Candidates :
               Become(p, [call[p] EXCEPT
                            !.at = "load", !.row = NoBundle, !.todo = @ \ {c},
                            !.loaded = [call[p].loaded EXCEPT ![c] = call[p].row]])
      BY <2>2
    <3> DEFINE loaded == [call[p].loaded EXCEPT ![c] = call[p].row]
               todo == call[p].todo \ {c}
    <3>2. Become(p, [call[p] EXCEPT !.at = "load", !.row = NoBundle, !.todo = todo,
                                    !.loaded = loaded])
      BY <3>1
    <3> HIDE DEF loaded, todo
    <3> QED
      BY <1>1, <3>2 DEF Become, Call
  <2> QED
    BY <1>9, <2>1, <2>2 DEF LoadChildren
<1>10. CASE BeginWork(p) \/ Reuse(p) \/ RetryRaises(p)
  <2>1. CASE BeginWork(p)
    BY <1>1, <2>1 DEF BeginWork, Become, Call
  <2>2. CASE Reuse(p)
    BY <1>1, <2>2 DEF Reuse, Become, Call
  <2>3. CASE RetryRaises(p)
    BY <1>1, <2>3 DEF RetryRaises, Become, Call
  <2> QED
    BY <1>10, <2>1, <2>2, <2>3
<1>11. CASE Work(p)
  <2>1. PICK c \in Candidates, b \in Bundles : Research(p, c, b) \/ Refused(p, c, b)
    BY <1>11 DEF Work
  <2>2. CASE Refused(p, c, b)
    BY <1>3, <2>2 DEF Refused
  <2>3. CASE Research(p, c, b)
    <3> DEFINE failures == call[p].failures \cup IF b \in Failures THEN {c} ELSE {}
    <3>1. Become(p, [call[p] EXCEPT !.todo = @ \ {c}, !.failures = failures])
      BY <2>3 DEF Research
    <3> HIDE DEF failures
    <3> QED
      BY <1>1, <3>1 DEF Become, Call
  <2> QED
    BY <2>1, <2>2, <2>3
<1>12. CASE Finalize(p)
  <2>1. CASE Become(p, [call[p] EXCEPT !.at = "list", !.after = TRUE])
    BY <1>1, <2>1 DEF Become, Call
  <2>2. CASE ReturnSealed(p, run'.seal) \/ ReturnSealed(p, run.seal)
    BY <1>4, <2>2
  <2> QED
    BY <1>12, <2>1, <2>2 DEF Finalize
<1>13. CASE ReportFailures(p)
  BY <1>2, <1>3, <1>13 DEF ReportFailures
<1> QED
  BY <1>6, <1>7, <1>8, <1>9, <1>10, <1>11, <1>12, <1>13 DEF CallStep

(* A call that begins is alone until another does.                         *)
LEMMA StartAlone ==
    ASSUME Inv, AloneInv, NEW p \in Processes, Start(p)
    PROVE  AloneInv'
<1>1. call \in [Processes -> Call]
  BY DEF Inv
<1>2. PICK known \in {"explicit", "cached", "unknown"} :
         call' = [q \in Processes |->
                    IF q # p THEN [call[q] EXCEPT !.shared = TRUE]
                    ELSE [NoCall EXCEPT
                            !.at = IF known = "unknown" THEN "create" ELSE "probe",
                            !.explicit = known = "explicit",
                            !.late = run.status = "success",
                            !.shared = \E r \in Processes \ {p} : ~ Here(r, "off")]]
  BY DEF Start
<1> DEFINE at == IF known = "unknown" THEN "create" ELSE "probe"
           shared == \E r \in Processes \ {p} : ~ Here(r, "off")
           started == [NoCall EXCEPT !.at = at, !.explicit = known = "explicit",
                                     !.late = run.status = "success", !.shared = shared]
<1>3. /\ call'[p] = started
      /\ \A q \in Processes \ {p} : call'[q] = [call[q] EXCEPT !.shared = TRUE]
  BY <1>2
<1>4. \A q \in Processes \ {p} : call'[q].shared = TRUE /\ call'[q].at = call[q].at
  <2> SUFFICES ASSUME NEW q \in Processes \ {p}
               PROVE  call'[q].shared = TRUE /\ call'[q].at = call[q].at
    OBVIOUS
  <2>1. call[q] \in Call /\ call'[q] = [call[q] EXCEPT !.shared = TRUE]
    BY <1>1, <1>3
  <2> QED
    BY <2>1 DEF Call
<1>5. /\ started.at = at /\ started.shared = shared /\ started.after = FALSE
      /\ started.failures = {} /\ started.answer = NoAnswer
  BY DEF NoCall
<1>6. at \in {"create", "probe"}
  OBVIOUS
<1> HIDE DEF at, started
<1>7. KnowsRows(p)'
  BY <1>3, <1>5, <1>6 DEF KnowsRows, NoFailureYet, SeesRun, ListIsTrue, LoopIsTrue,
     FailuresAreTrue, Here
<1>8. Told(p)'
  BY <1>7, KnowsTold
<1>9. Alone(p)' => \A q \in Processes \ {p} : Here(q, "off")'
  BY <1>3, <1>4, <1>5 DEF Alone, Here
<1>10. \A q \in Processes \ {p} : ~ Alone(q)'
  BY <1>4 DEF Alone
<1> QED
  BY <1>8, <1>9, <1>10 DEF AloneInv

LEMMA AloneStep == Inv /\ Inv' /\ AloneInv /\ [Next]_vars => AloneInv'
<1> SUFFICES ASSUME Inv, Inv', AloneInv, [Next]_vars
             PROVE  AloneInv'
  OBVIOUS
<1>1. CASE UNCHANGED vars
  BY <1>1 DEF vars, screenerVars, AloneInv, Alone, Told, Reported, KnowsRows, NoFailureYet, SeesRun,
     ListIsTrue, LoopIsTrue, FailuresAreTrue, Here, Having, IsFirst
<1>2. ASSUME NEW p \in Processes, Start(p)
      PROVE  AloneInv'
  BY <1>2, StartAlone
<1>3. ASSUME NEW p \in Processes, CallStep(p) \/ Crash(p)
      PROVE  AloneInv'
  <2>1. /\ CheckpointInv /\ CheckpointInv' /\ call \in [Processes -> Call] /\ CallInv
        /\ ~ Here(p, "off")
    BY <1>3 DEF Inv, CallStep, Crash, Probe, ProbeStatus, ExpectRun, Create, Recheck,
       RecheckStatus, ListCandidates, LoadRow, LoadChildren, BeginWork, Reuse, RetryRaises, Work,
       Finalize, ReportFailures, Here
  <2>2. [ScreenerNext]_screenerVars
    BY RowStep
  <2>3. RowsKept
    BY <2>1, <2>2, RowsAreKept
  <2>4. Sound(p)
    BY <1>3, <2>1, <2>3, ReplaySteps, ListSteps, LoadSteps, WorkSteps, EndSteps
       DEF Before, CallInv, CallStep
  <2>5. \A q \in Processes \ {p} : call'[q] = call[q]
    BY <2>4 DEF Sound
  <2>6. ASSUME NEW q \in Processes \ {p}
        PROVE  ~ Alone(q)'
    BY <2>1, <2>5 DEF AloneInv, Alone, Here
  <2>7. ASSUME Alone(p)'
        PROVE  Told(p)' /\ \A q \in Processes \ {p} : Here(q, "off")'
    <3>1. ~ Crash(p)
        BY <2>1, <2>7 DEF Crash, Become, Alone
    <3>2. CallStep(p)
      BY <1>3, <3>1
    <3>3. ~ call[p].shared
      BY <2>1, <2>7, <3>2, SharedStays DEF Alone
    <3>4. Told(p) /\ \A q \in Processes \ {p} : Here(q, "off")
      BY <2>1, <3>3 DEF AloneInv, Alone, Here, NoCall
    <3>5. AloneBefore(p)
      BY <2>1, <3>4 DEF AloneBefore, Told, CallInv
    <3>6. Told(p)'
      BY <2>2, <3>2, <3>5, ReplayAlone, ListAlone, LoadAlone, WorkAlone, EndAlone DEF CallStep
    <3> QED
      BY <2>5, <3>4, <3>6 DEF Here
  <2> QED
    BY <2>6, <2>7 DEF AloneInv
<1> QED
  BY <1>1, <1>2, <1>3 DEF Next

LEMMA AloneInvariance == Spec => []AloneInv
<1>1. Init => AloneInv
  BY DEF Init, AloneInv, Alone
<1> QED
  BY <1>1, AloneStep, Invariance, PTL DEF Spec

(* A call of run() that nobody joined reports what the tables say: the     *)
(* status of the run, and the candidates that failed, which are those that *)
(* failed in this very call; whatever crashed or overlapping calls before  *)
(* it left behind.                                                         *)
THEOREM ReportsMatch == Spec => []ReportMatchesRun
<1>1. AloneInv => ReportMatchesRun
  BY DEF AloneInv, Alone, Told, Reported, ReportMatchesRun, NoCall, NoAnswer
<1> QED
  BY <1>1, AloneInvariance, PTL

(* Whatever earlier calls left behind can be taken up by a call that has   *)
(* the run to itself: its only error is to expect a run that is not there. *)
THEOREM NobodyIsRefused == Spec => []NeverRefused
<1>1. AloneInv => NeverRefused
  BY DEF AloneInv, Alone, Told, Reported, NeverRefused, NoCall, NoAnswer
<1> QED
  BY <1>1, AloneInvariance, PTL
=============================================================================
