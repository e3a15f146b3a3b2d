--------------------------- MODULE DatasetPreparation --------------------------
(******************************************************************************)
(* DS6DailyPreparationCoordinator._prepare_symbol for one symbol and date     *)
(* (src/app/deployment/ds6_daily_preparation.py): look up what is stored, ask *)
(* TWSE, fill the gaps from E.SUN if DS2 allows it, and publish a canonical,  *)
(* provisional or reconciled version.  Several coordinators may prepare the   *)
(* same date; what they share is the store, whose save is one transaction.    *)
(*                                                                            *)
(* The two sources are injected into the coordinator: their answers are any   *)
(* value that the constructor of DS6SourcePreparation accepts.  Days are kept *)
(* to the trading dates the history needs, and a source that is not resuming  *)
(* answers for the dates it was asked.  A call that ends without a version    *)
(* (a failed result or an exception) leaves only its count in the model.      *)
(******************************************************************************)
EXTENDS DualSource, SupplementalEligibility

CONSTANTS Preparers,     \* coordinators, each with a cache of its own
          TwseRuns, EsunRuns,
          MaxAttempts,   \* DS6Configuration.max_twse_attempts
          MaxPrepares    \* bound: how often prepare is called in all

ASSUME PreparationAssumption ==
  /\ Window \subseteq Nat \ {0} /\ IsFiniteSet(Window) /\ Window # {}
  /\ TwseRuns \cap EsunRuns = {}
  /\ MaxAttempts \in Nat \ {0} /\ MaxPrepares \in Nat

VARIABLES versions,      \* the rows of research_dataset_versions
          cache,         \* cache[p]: the id that p's _cache holds, as a set
          call,          \* call[p]: the locals of the prepare call of p
          prepares,      \* calls so far
          overlapped,    \* history: a version was saved that its writer had not seen coming
          repeated,      \* history: a provisional was built beside an open one
          narrowed       \* history: a retry asked for less than the window

vars == <<versions, cache, call, prepares, overlapped, repeated, narrowed>>

NoAnswer == <<>>
Idle == [pc |-> "idle", leaf |-> <<>>, asked |-> {}, attempts |-> 0,
         answer |-> NoAnswer, stale |-> FALSE]

Init ==
  /\ versions = {} /\ prepares = 0
  /\ cache = [p \in Preparers |-> {}]
  /\ call = [p \in Preparers |-> Idle]
  /\ overlapped = FALSE /\ repeated = FALSE /\ narrowed = FALSE

Become(p, local) == call' = [call EXCEPT ![p] = local]

(******************************************************************************)
(* _existing_versions and the start of _prepare_symbol.                       *)
(******************************************************************************)
ConsumableVersions == {v \in versions : Consumable(v)}

(* Mutant: a provisional that has a provisional child still counts. *)
OpenProvisionals == {v \in versions : v.source = "provisional_mixed"}

OpenLeaves ==
  {v \in versions : /\ v.source = "provisional_mixed"
                    /\ \A w \in versions : w.source = "provisional_mixed"
                                             => w.parent # <<Identity(v)>>}

Ambiguous ==
  \/ Cardinality(ConsumableVersions) > 1
  \/ ConsumableVersions = {} /\ Cardinality(OpenLeaves) > 1

MayPrepare(p) == call[p].pc = "idle" /\ prepares < MaxPrepares /\ prepares' = prepares + 1

\* A cached result is copied, even that of a provisional version; two consumable
\* versions, or two open lineages, raise DS6AmbiguousVersionError.
ReplayOrRefuse(p) ==
  /\ MayPrepare(p)
  /\ cache[p] # {} \/ Ambiguous
  /\ UNCHANGED <<versions, cache, call, overlapped, repeated, narrowed>>

ReplayStored(p) ==
  /\ MayPrepare(p) /\ cache[p] = {} /\ ~Ambiguous
  /\ \E v \in ConsumableVersions : cache' = [cache EXCEPT ![p] = {Identity(v)}]
  /\ UNCHANGED <<versions, call, overlapped, repeated, narrowed>>

Begin(p) ==
  /\ MayPrepare(p) /\ cache[p] = {} /\ ~Ambiguous /\ ConsumableVersions = {}
  /\ IF OpenLeaves = {}
     THEN Become(p, [Idle EXCEPT !.pc = "fetching"])
     ELSE \E leaf \in OpenLeaves :
            Become(p, [Idle EXCEPT !.pc = "fetching", !.leaf = <<leaf>>,
                                   !.asked = SupplementalDates(leaf)])
  /\ UNCHANGED <<versions, cache, overlapped, repeated, narrowed>>

(******************************************************************************)
(* _prepare_twse: one answer of _call_source, then perhaps another request.   *)
(* A source that raises is answered for by _failure_preparation: nothing      *)
(* found, of the dates it was asked or of the target date alone.              *)
(******************************************************************************)
TwseAnswer(run, requested, found, failure, evidence) ==
  [run |-> run, requested |-> requested, found |-> found,
   failure |-> failure, evidence |-> evidence]

Complete(answer) == answer.found = answer.requested

RequestedBy(local) ==
  IF local.asked = {} THEN {Window}
  ELSE IF local.leaf = <<>> THEN {local.asked} ELSE (SUBSET local.asked) \ {{}}

GivenAnswers(local) ==
  {a \in UNION {[run : TwseRuns, requested : {dates}, found : SUBSET dates,
                 failure : {"none", "timeout", "permanent"},
                 evidence : {"verified", "unverified"}] : dates \in RequestedBy(local)} :
     /\ Complete(a) <=> a.failure = "none"
     /\ a.evidence = "unverified" => a.failure = "timeout"}

RaisedAnswers(local) ==
  LET dates == IF local.asked = {} THEN {Target} ELSE local.asked
  IN  {TwseAnswer("failed", dates, {}, failure, "unverified") :
         failure \in IF Target \in dates THEN {"timeout", "permanent"} ELSE {}}

(* Mutant: the attempt that has just been made is not counted. *)
RetriableOnceMore(local, answer) ==
  /\ ~Complete(answer)
  /\ IsSupplementalEligibleFailure(answer.failure)
  /\ local.attempts < MaxAttempts

Retriable(local, answer) ==
  /\ ~Complete(answer)
  /\ IsSupplementalEligibleFailure(answer.failure)
  /\ local.attempts + 1 < MaxAttempts

\* The clock decides whether the grace period is still open.
Answered(p, answer) ==
  \/ /\ Retriable(call[p], answer)
     /\ Become(p, [call[p] EXCEPT !.asked = answer.requested,
                                  !.attempts = call[p].attempts + 1])
     /\ narrowed' = (narrowed \/ (call[p].leaf = <<>> /\ answer.requested # Window))
  \/ /\ Become(p, [call[p] EXCEPT !.pc = "publishing", !.answer = answer])
     /\ UNCHANGED narrowed

Fetch(p) ==
  /\ call[p].pc = "fetching"
  /\ \E answer \in GivenAnswers(call[p]) \cup RaisedAnswers(call[p]) : Answered(p, answer)
  /\ UNCHANGED <<versions, cache, prepares, overlapped, repeated>>

(******************************************************************************)
(* SqliteDatasetVersionRepository.save: put if absent under the identity.     *)
(* The same identity with another content is refused.                         *)
(******************************************************************************)
Stored(v) == \E w \in versions : Identity(w) = Identity(v)

(* Mutant: a version with the same identity is replaced. *)
SaveReplacing(p, v) ==
  /\ versions' = {w \in versions : Identity(w) # Identity(v)} \cup {v}
  /\ cache' = [cache EXCEPT ![p] = {Identity(v)}]
  /\ overlapped' = (overlapped \/ call[p].stale)
  /\ call' = [call EXCEPT ![p] = Idle]

Save(p, v) ==
  /\ versions' = IF Stored(v) THEN versions ELSE versions \cup {v}
  /\ cache' = IF Stored(v) /\ v \notin versions THEN cache
              ELSE [cache EXCEPT ![p] = {Identity(v)}]
  /\ overlapped' = (overlapped \/ call[p].stale)
  /\ call' = [q \in Preparers |->
                IF q = p THEN Idle
                ELSE [call[q] EXCEPT !.stale = call[q].pc # "idle"
                                                /\ (call[q].stale \/ ~Stored(v))]]

(******************************************************************************)
(* The E.SUN answer, and the DS2 candidate made of it.                        *)
(******************************************************************************)
Faults == {"none", "identity", "boundary", "malformed"}
EsunAnswers == [run : EsunRuns, found : SUBSET Window, fault : Faults]

PayloadOf(dates, run, shape) ==
  LET inOrder == CHOOSE s \in [1 .. Cardinality(dates) -> dates] :
                   \A i, j \in DOMAIN s : i < j => s[i] < s[j]
  IN  [i \in DOMAIN inOrder |->
         [date |-> inOrder[i], symbol |-> "absent", shape |-> shape,
          price |-> Close[run][inOrder[i]]]]

Instrument == [f \in {IdentityFields[i] : i \in DOMAIN IdentityFields} |-> "requested"]

Candidate(twse, esun) ==
  [symbol |-> "requested", target |-> Target,
   start |-> Min(twse.requested),
   missing |-> twse.requested \ twse.found,
   failure |-> twse.failure, evidence |-> twse.evidence,
   twse |-> IF twse.found = {} THEN <<>> ELSE PayloadOf(twse.found, twse.run, "good"),
   esun |-> IF esun.found = {} THEN <<>>
            ELSE PayloadOf(esun.found, esun.run,
                           IF esun.fault = "malformed" THEN "malformed_payload" ELSE "good"),
   requested |-> Instrument,
   returned |-> IF esun.fault = "identity" THEN [Instrument EXCEPT !["market"] = "other"]
                ELSE Instrument,
   boundary |-> IF esun.fault = "boundary" THEN {} ELSE SecurityInvariants]

Artifact(run, content) == [run |-> run, content |-> content]

(******************************************************************************)
(* The publishing step of each outcome.                                       *)
(******************************************************************************)
Publishing(p) == call[p].pc = "publishing"

CanonicalFrom(answer, validation) ==
  CanonicalVersion(
    Cardinality(answer.requested),
    RowsOf(answer.found, "canonical", answer.run),
    UNION {RowsOf(e.found, "validation", e.run) : e \in {x \in validation : x.fault = "none"}},
    {Artifact(answer.run, answer.failure)} \cup {Artifact(e.run, e.fault) : e \in validation})

(* Mutant: a complete answer is canonical even when it answers an open version. *)
PublishCanonicalAnyway(p) ==
  /\ Publishing(p) /\ Complete(call[p].answer)
  /\ \E validation \in {{}} \cup {{e} : e \in EsunAnswers} :
       Save(p, CanonicalFrom(call[p].answer, validation))
  /\ UNCHANGED <<prepares, repeated, narrowed>>

PublishCanonical(p) ==
  /\ Publishing(p) /\ Complete(call[p].answer) /\ call[p].leaf = <<>>
  /\ \E validation \in {{}} \cup {{e} : e \in EsunAnswers} :
       Save(p, CanonicalFrom(call[p].answer, validation))
  /\ UNCHANGED <<prepares, repeated, narrowed>>

ReconciledFrom(leaf, answer) ==
  ReconciledVersion(leaf,
    RowsOf(answer.found \cap SupplementalDates(leaf), "canonical", answer.run),
    {Artifact(answer.run, answer.failure)})

PublishReconciled(p) ==
  /\ Publishing(p) /\ Complete(call[p].answer) /\ call[p].leaf # <<>>
  /\ Save(p, ReconciledFrom(call[p].leaf[1], call[p].answer))
  /\ UNCHANGED <<prepares, repeated, narrowed>>

MayAskEsun(answer) ==
  /\ ~Complete(answer)
  /\ IsSupplementalEligibleFailure(answer.failure) /\ answer.evidence = "verified"

ProvisionalFrom(answer, esun, selected) ==
  ProvisionalVersion(
    Cardinality(answer.requested),
    RowsOf(answer.found, "canonical", answer.run),
    RowsOf(selected, "supplemental", esun.run),
    {Artifact(answer.run, answer.failure), Artifact(esun.run, esun.fault)})

PublishProvisional(p) ==
  /\ Publishing(p) /\ MayAskEsun(call[p].answer)
  /\ \E esun \in EsunAnswers :
       LET c == Candidate(call[p].answer, esun)
           result == Evaluate(c)
           version == ProvisionalFrom(call[p].answer, esun, result.selected)
       IN  /\ ValidCandidate(c) /\ Target \in call[p].answer.requested
           /\ result.eligible /\ result.complete
           /\ Save(p, version)
           /\ repeated' = (repeated \/ (call[p].leaf # <<>> /\ ~Stored(version)))
  /\ UNCHANGED <<prepares, narrowed>>

\* Malformed TWSE rows, a rejected or incomplete supplement, a failed
\* construction, an exception, or the end of the process in mid-call.
GiveUp(p) ==
  /\ call[p].pc \in {"fetching", "publishing"}
  /\ Become(p, Idle)
  /\ UNCHANGED <<versions, cache, prepares, overlapped, repeated, narrowed>>

\* The process ends: what is stored stays, the cache does not.
Restart(p) ==
  /\ cache[p] # {} /\ call[p].pc = "idle"
  /\ cache' = [cache EXCEPT ![p] = {}]
  /\ UNCHANGED <<versions, call, prepares, overlapped, repeated, narrowed>>

Prepare(p) ==
  \/ ReplayOrRefuse(p) \/ ReplayStored(p) \/ Begin(p) \/ Fetch(p)
  \/ PublishCanonical(p) \/ PublishReconciled(p) \/ PublishProvisional(p)
  \/ GiveUp(p) \/ Restart(p)

Next == \E p \in Preparers : Prepare(p)

Spec == Init /\ [][Next]_vars

--------------------------------------------------------------------------------
(******************************************************************************)
(* Properties.                                                                *)
(******************************************************************************)

\* The tables and the locals of the calls hold what the code puts there.
PreparationTypeOK ==
  /\ prepares \in 0 .. MaxPrepares
  /\ \A p \in Preparers :
       /\ call[p].pc \in {"idle", "fetching", "publishing"}
       /\ call[p].attempts \in 0 .. MaxAttempts - 1 /\ call[p].asked \subseteq Window
       /\ call[p].pc = "publishing" <=> call[p].answer # NoAnswer
       /\ cache[p] \subseteq {Identity(v) : v \in versions}
       /\ call[p].leaf # <<>> => call[p].leaf[1] \in versions

\* Whatever the order of answers and of preparers, every version in the store is
\* one that the constructors of DatasetCoverage and DatasetVersionIdentity accept:
\* a reconciled child, whose counts are computed and not recounted, included.
EveryVersionLegal == \A v \in versions : LegalVersion(v)

\* Reconciliation never rewrites evidence: a child covers the dates its stored
\* parent covered, keeps each of its rows (an E.SUN row that TWSE now covers is
\* kept for validation), and leaves strictly fewer dates to E.SUN.
ChildOf(v, w) == v.parent = <<Identity(w)>>
LineageKeepsEvidence ==
  \A v \in versions : v.parent # <<>> =>
    \E w \in versions :
      /\ ChildOf(v, w)
      /\ {r.date : r \in Selected(v.rows)} = {r.date : r \in Selected(w.rows)}
      /\ \A r \in w.rows : r \in v.rows \/ [r EXCEPT !.role = "validation"] \in v.rows
      /\ InRole(w.rows, "canonical") \subseteq v.rows
      /\ SupplementalDates(v) \subseteq SupplementalDates(w)
      /\ SupplementalDates(v) # SupplementalDates(w)

\* The discrepancy count that a lineage accumulates one reconciliation at a time
\* is the number of dates on which its last version shows two different rows, and
\* a reconciled version is equal or discrepant accordingly.
DiscrepanciesAddUp ==
  \A v \in versions :
    /\ v.discrepancies = Cardinality(DiscrepantDates(v.rows))
    /\ v.source = "reconciled" =>
         (v.reconciliation = "reconciled_discrepant" <=> DiscrepantDates(v.rows) # {})

\* What a version says of its rows is so, its own counts and states included.
VersionsTellTheTruth == EveryVersionLegal /\ DiscrepanciesAddUp

\* No E.SUN row enters a version without the evidence that let it in: a verified
\* payload of that run, beside a TWSE answer that failed recoverably.
SupplementJustified ==
  \A v \in versions : \A r \in v.rows : r.run \in EsunRuns /\ v.source # "canonical_complete" =>
    /\ Artifact(r.run, "none") \in v.artifacts
    /\ \E a \in v.artifacts : a.run \in TwseRuns /\ a.content \in Recoverable

\* As long as no preparer saved behind another's back, and none built a second
\* provisional beside an open one, the store is never ambiguous.
NeverAmbiguous == Ambiguous => overlapped \/ repeated

\* A version that a day's research may use, or that waits to be reconciled, covers
\* the whole window, unless a retry narrowed the request (_call_source falls back
\* to the target date) or the provisional was built for an open one's gaps.
VersionsCoverWindow ==
  narrowed \/ repeated \/ \A v \in versions : {r.date : r \in Selected(v.rows)} = Window

\* The store implements the ledger: versions are only added, once per identity,
\* and a child only to a stored provisional.
Ledger == INSTANCE DatasetLedger WITH
  IdOf <- Identity,
  ParentsOf <- LAMBDA v : {v.parent[i] : i \in DOMAIN v.parent},
  IsOpen <- LAMBDA v : v.source = "provisional_mixed"
ImplementsLedger == Ledger!Spec

\* "When later TWSE observations resolve a provisional gap, reconciliation creates a
\* new immutable child dataset" (docs/dual-source-resilience.md:48): whatever is
\* provisional can still be prepared.
StaysReconcilable ==
  (\E v \in versions : v.source = "provisional_mixed") => ~Ambiguous
=============================================================================
